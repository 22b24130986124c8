SPECIFICATION Spec
CONSTANTS
  am = am
  cheap = cheap  dear = dear  closed = closed
  Users = {u1}
  Bookings = {b1, b2}
  Seats = {s1, s2}
  Cells = {am}
  Plans = {day}
  Configs = {dear, closed}
  Footprint <- MCFootprint
  Price <- MCPrice
  Timeout <- MCTimeout
  Amounts = {}
  Handlers = {h1, h2}
  Expiry = Expiry
  MaxNow = 0
SYMMETRY Symmetry
INVARIANTS
  SeatExclusive
  OneSeatHolder
  CheckedWindowStaysFree
PROPERTIES
  ImplementsLedger

SPECIFICATION Spec
CONSTANTS
  am = am
  cheap = cheap  dear = dear  closed = closed
  Users = {u1}
  Bookings = {b1}
  Seats = {s1, s2}
  Cells = {am}
  Plans = {day}
  Configs = {cheap, dear}
  Footprint <- MCFootprint
  Price <- MCPrice
  Timeout <- MCTimeout
  Amounts = {}
  Handlers = {h1, h2}
  Expiry = Expiry
  MaxNow = 2
INVARIANTS
  OneSeatPerBooking

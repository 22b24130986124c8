SPECIFICATION SerialSpec
CONSTANTS
  am = am
  cheap = cheap  dear = dear  closed = closed
  Users = {u1}
  Bookings = {b1, b2}
  Seats = {s1, s2}
  Cells = {am}
  Plans = {day}
  Configs = {cheap, dear}
  Footprint <- MCFootprint
  Price <- MCPrice
  Timeout <- MCTimeout
  Amounts = {0, 1}
  Handlers = {h1}
  Expiry = Expiry
  MaxNow = 2
PROPERTIES
  ImplementsService

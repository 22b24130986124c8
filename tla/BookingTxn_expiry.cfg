SPECIFICATION FairSpec
CONSTANTS
  am = am
  cheap = cheap  dear = dear  closed = closed
  Users = {u1}
  Bookings = {b1}
  Seats = {s1}
  Cells = {am}
  Plans = {day}
  Configs = {dear}
  Footprint <- MCFootprint
  Price <- MCPrice
  Timeout <- MCTimeout
  Amounts = {0}
  Handlers = {h1, h2}
  Expiry = Expiry
  MaxNow = 2
INVARIANTS
  TypeOK
PROPERTIES
  ExpiresOnlyOverdue
  OverdueIsSettled
  RequestsEnd
CHECK_DEADLOCK FALSE

SPECIFICATION Spec
CONSTANTS
  am = am  pm = pm
  morning = morning  evening = evening  anytime = anytime
  long = long  short = short
  NoHold = NoHold
  Users = {u1, u2}
  Bookings = {b1, b2}
  Seats = {s1, s2}
  Cells <- MCCells
  Plans <- MCPlans
  Configs <- MCConfigs
  Footprint <- MCFootprint
  Price <- MCPrice
  Timeout <- MCTimeout
  Amounts = {0, 1}
  MaxNow = 2
SYMMETRY Symmetry
INVARIANTS
  TypeOK
  SeatExclusive
  SlotsMatchBookings
  OnlyReservedHasDeadline
  ProofMatchesStatus
  CompletedIsPaid
PROPERTIES
  PaidNeverShrinks
  FinalStatusesStay
  ImplementsLedger

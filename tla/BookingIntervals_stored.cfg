SPECIFICATION Spec
CONSTANTS
  Week = 2
  Month = 3
  Timeslot = 2
  Whole = 4
  Users = {u1}
  Bookings = {b1, b2}
  Seats = {s1, s2}
  Requests <- MCRequests
  Configs <- MCConfigs
  Amounts = {}
  DayTicks = 2
  MaxNow = 2
SYMMETRY Symmetry
INVARIANTS
  TypeOK
  ConflictIsSharedMinute
  AvailabilityAgrees
  InvoiceAddsUp
  PriceIsFair
PROPERTIES
  ImplementsService

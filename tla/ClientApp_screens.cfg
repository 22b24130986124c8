SPECIFICATION Spec
CONSTANTS
  Windows = {w1, w2}
  NoWindow = NoWindow
  Seats = {s1, s2}
  NoSeat = NoSeat
  NoInvoice = NoInvoice
  Bookings = {b1, b2}
  Matches = {b1}
  Amounts = {60000, 60005}
  NoBooking = NoBooking
  NoRow = NoRow
  NoOne = NoOne
  NoDraft = NoDraft
  NoAmount = NoAmount
  NoSettings = NoSettings
  Users = {u1}
  Tokens = {t1, t2}
  NoToken = NoToken
  Prices = {p0, p1}
  ZeroPrices = p0
  NotValid = NotValid
  FormCalls = 3
  EditCalls = 2
  ListCalls = 4
  PageCalls = 3
  NoPage = NoPage
INVARIANTS
  TypeOK
  ConfirmsWhatWasPriced
  SelectedSeatNotTaken
  SettledInvoiceIsCurrent
  CanSaveIsCurrent
  DraftIsForThisRow
  SpinnersHaveCalls
PROPERTIES
  FormSettles

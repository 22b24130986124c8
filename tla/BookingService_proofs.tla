----------------------- MODULE BookingService_proofs -----------------------
(***************************************************************************)
(* What holds of BookingService for all users, bookings, seats, windows,    *)
(* prices and timeouts, and with a clock that is not bounded.               *)
(***************************************************************************)
EXTENDS BookingService, BookingRows_proofs

-----------------------------------------------------------------------------

\* The tables and the clock always have the types of their columns.
THEOREM TypeCorrect == Spec => []TypeOK
<1>1. Init => TypeOK
  BY DEF Init, TypeOK
<1>2. TypeOK /\ [Next]_vars => TypeOK'
  <2> SUFFICES ASSUME TypeOK, [Next]_vars
               PROVE  TypeOK'
    OBVIOUS
  <2> USE DEF TypeOK
  <2>1. ASSUME NEW u \in Users, NEW b \in Bookings, NEW seat \in Seats, NEW p \in Plans,
               CreateBooking(u, b, seat, p)
        PROVE  TypeOK'
    BY <2>1, NewRowType, DaySlotsType DEF CreateBooking
  <2>2. ASSUME NEW u \in Users, NEW b \in Bookings, NEW seat \in Seats, NEW p \in Plans,
               UpdateBooking(u, b, seat, p)
        PROVE  TypeOK'
    BY <2>2, EditRowType, DaySlotsType DEF UpdateBooking
  <2>3. ASSUME NEW u \in Users, NEW b \in Bookings, UploadPaymentProof(u, b)
        PROVE  TypeOK'
    BY <2>3, StatusRowType DEF UploadPaymentProof
  <2>4. ASSUME NEW b \in Bookings, NEW amount \in Amounts \cup {NoAmount},
               ApprovePayment(b, amount)
        PROVE  TypeOK'
    BY <2>4, ApproveRowType DEF ApprovePayment
  <2>5. ASSUME NEW b \in Bookings, RejectPayment(b)
        PROVE  TypeOK'
    BY <2>5, StatusRowType DEF RejectPayment
  <2>6. ASSUME NEW c \in Configs, UpdatePricing(c)
        PROVE  TypeOK'
    BY <2>6 DEF UpdatePricing
  <2>7. CASE ExpireReservedPast
    <3>1. \A b \in Overdue : ExpireRow(bookings[b]) \in BookingRow
      BY StatusRowType DEF Overdue
    <3> QED
      BY <2>7, <3>1 DEF ExpireReservedPast
  <2>8. CASE Tick
    BY <2>8 DEF Tick
  <2>9. CASE UNCHANGED vars
    BY <2>9 DEF vars
  <2> QED
    BY <2>1, <2>2, <2>3, <2>4, <2>5, <2>6, <2>7, <2>8, <2>9 DEF Next
<1> QED
  BY <1>1, <1>2, PTL DEF Spec

-----------------------------------------------------------------------------
(* Rows: deadline, screenshot and money fit the status.                     *)

RowsConsistent == \A b \in Bookings : bookings[b] # NoRow => RowConsistent(bookings[b])

\* A row that is there is a booking row.
LEMMA PresentRow ==
  ASSUME TypeOK, NEW b \in Bookings, bookings[b] # NoRow
  PROVE  bookings[b] \in BookingRow
BY DEF TypeOK

\* Every step keeps the rows consistent.
LEMMA RowsConsistentStep ==
  ASSUME TypeOK, RowsConsistent, [Next]_vars
  PROVE  RowsConsistent'
<1> USE DEF TypeOK, RowsConsistent
<1>1. ASSUME NEW u \in Users, NEW b \in Bookings, NEW seat \in Seats, NEW p \in Plans,
             CreateBooking(u, b, seat, p)
      PROVE  RowsConsistent'
  BY <1>1, NewRowConsistent DEF CreateBooking
<1>2. ASSUME NEW u \in Users, NEW b \in Bookings, NEW seat \in Seats, NEW p \in Plans,
             UpdateBooking(u, b, seat, p)
      PROVE  RowsConsistent'
  BY <1>2, PresentRow, EditRowConsistent DEF UpdateBooking
<1>3. ASSUME NEW u \in Users, NEW b \in Bookings, UploadPaymentProof(u, b)
      PROVE  RowsConsistent'
  BY <1>3, PresentRow, StatusRowConsistent DEF UploadPaymentProof
<1>4. ASSUME NEW b \in Bookings, NEW amount \in Amounts \cup {NoAmount},
             ApprovePayment(b, amount)
      PROVE  RowsConsistent'
  BY <1>4, PresentRow, ApproveRowConsistent DEF ApprovePayment, CanApprove
<1>5. ASSUME NEW b \in Bookings, RejectPayment(b)
      PROVE  RowsConsistent'
  BY <1>5, PresentRow, StatusRowConsistent DEF RejectPayment
<1>6. CASE ExpireReservedPast
  <2>1. \A b \in Overdue : RowConsistent(ExpireRow(bookings[b]))
    BY PresentRow, StatusRowConsistent DEF Overdue, IsOverdue
  <2> QED
    BY <1>6, <2>1 DEF ExpireReservedPast
<1>7. CASE (\E c \in Configs : UpdatePricing(c)) \/ Tick \/ UNCHANGED vars
  BY <1>7 DEF UpdatePricing, Tick, vars
<1> QED
  BY <1>1, <1>2, <1>3, <1>4, <1>5, <1>6, <1>7 DEF Next

\* Only a RESERVED booking has a deadline, and each one has: none is held for ever.
THEOREM DeadlineCorrect == Spec => []OnlyReservedHasDeadline
<1>1. Init => RowsConsistent
  BY DEF Init, RowsConsistent
<1>2. RowsConsistent => OnlyReservedHasDeadline
  BY DEF RowsConsistent, RowConsistent, OnlyReservedHasDeadline
<1> QED
  BY <1>1, <1>2, TypeCorrect, RowsConsistentStep, PTL DEF Spec

\* A screenshot is there exactly while it is to be reviewed or has been.
THEOREM ProofCorrect == Spec => []ProofMatchesStatus
<1>1. Init => RowsConsistent
  BY DEF Init, RowsConsistent
<1>2. RowsConsistent => ProofMatchesStatus
  BY DEF RowsConsistent, RowConsistent, ProofMatchesStatus
<1> QED
  BY <1>1, <1>2, TypeCorrect, RowsConsistentStep, PTL DEF Spec

\* A COMPLETED booking is paid in full, whatever edits and prices came before.
THEOREM PaymentCorrect == Spec => []CompletedIsPaid
<1>1. Init => RowsConsistent
  BY DEF Init, RowsConsistent
<1>2. RowsConsistent => CompletedIsPaid
  BY DEF RowsConsistent, RowConsistent, CompletedIsPaid, NoRow
<1> QED
  BY <1>1, <1>2, TypeCorrect, RowsConsistentStep, PTL DEF Spec

-----------------------------------------------------------------------------
(* Seats.                                                                   *)

\* Slots of one booking may join a table they do not conflict with, and slots may
\* always leave.
LEMMA ExclusiveClaim ==
  ASSUME SeatExclusive, NEW b \in Bookings, NEW seat \in Seats, NEW cells,
         ~HasConflict(cells, Booked(slots, seat, {b})),
         slots' \subseteq slots \cup DaySlots(b, seat, cells)
  PROVE  SeatExclusive'
<1> SUFFICES ASSUME NEW s \in slots', NEW r \in slots',
                    s.seat = r.seat, s.cell = r.cell
             PROVE  s.booking = r.booking
  BY DEF SeatExclusive
<1>1. \A q \in slots : q.seat = seat /\ q.cell \in cells => q.booking = b
  BY DEF HasConflict, Booked
<1>2. \A q \in DaySlots(b, seat, cells) :
        q.booking = b /\ q.seat = seat /\ q.cell \in cells
  BY DEF DaySlots
<1> QED
  BY <1>1, <1>2 DEF SeatExclusive

\* No cell of a seat ever belongs to two bookings.
THEOREM NoDoubleBooking == Spec => []SeatExclusive
<1>1. Init => SeatExclusive
  BY DEF Init, SeatExclusive
<1>2. SeatExclusive /\ [Next]_vars => SeatExclusive'
  <2> SUFFICES ASSUME SeatExclusive, [Next]_vars
               PROVE  SeatExclusive'
    OBVIOUS
  <2>1. ASSUME NEW u \in Users, NEW b \in Bookings, NEW seat \in Seats, NEW p \in Plans,
               CreateBooking(u, b, seat, p)
        PROVE  SeatExclusive'
    <3>1. ~HasConflict(Footprint[pricing][p], Booked(slots, seat, {b}))
      BY <2>1 DEF CreateBooking, HasConflict, Booked
    <3> QED
      BY <2>1, <3>1, ExclusiveClaim DEF CreateBooking
  <2>2. ASSUME NEW u \in Users, NEW b \in Bookings, NEW seat \in Seats, NEW p \in Plans,
               UpdateBooking(u, b, seat, p)
        PROVE  SeatExclusive'
    BY <2>2, ExclusiveClaim DEF UpdateBooking
  <2>3. ASSUME slots' \subseteq slots
        PROVE  SeatExclusive'
    BY <2>3 DEF SeatExclusive
  <2>4. ASSUME NEW b \in Bookings, RejectPayment(b)
        PROVE  SeatExclusive'
    BY <2>3, <2>4 DEF RejectPayment
  <2>5. CASE ExpireReservedPast
    BY <2>3, <2>5 DEF ExpireReservedPast
  <2>6. ASSUME UNCHANGED slots
        PROVE  SeatExclusive'
    BY <2>3, <2>6
  <2> QED
    BY <2>1, <2>2, <2>4, <2>5, <2>6
    DEF Next, UploadPaymentProof, ApprovePayment, UpdatePricing, Tick, vars
<1> QED
  BY <1>1, <1>2, PTL DEF Spec

-----------------------------------------------------------------------------
(* Slots and rows.                                                          *)

\* The slots a row asks for.
SlotsFor(b, row) ==
  IF row.status \in {"reserved", "payment_pending", "completed"}
    THEN DaySlots(b, row.seat, row.cells) ELSE {}

\* SlotsMatchBookings, in terms of them.
LEMMA MatchMeans == SlotsMatchBookings <=>
  \A b \in Bookings : SlotsOf(slots, {b}) = SlotsFor(b, bookings[b])
BY DEF SlotsMatchBookings, SlotsFor, Live

\* A step that changes only booking b, and leaves it with the slots its new row
\* asks for, keeps the two tables in step.
LEMMA OneBookingMatches ==
  ASSUME TypeOK, SlotsMatchBookings, NEW b \in Bookings, NEW row,
         bookings' = [bookings EXCEPT ![b] = row],
         slots' = (slots \ SlotsOf(slots, {b})) \cup SlotsFor(b, row)
  PROVE  SlotsMatchBookings'
<1> SUFFICES ASSUME NEW o \in Bookings
             PROVE  SlotsOf(slots', {o}) = SlotsFor(o, bookings'[o])
  BY MatchMeans DEF SlotsMatchBookings, SlotsFor, Live
<1>0. \A s \in SlotsFor(b, row) : s.booking = b
  BY DEF SlotsFor, DaySlots
<1>1. CASE o = b
  <2>1. bookings'[o] = row
    BY <1>1 DEF TypeOK
  <2>2. SlotsOf(slots', {o}) = SlotsFor(b, row)
    BY <1>0, <1>1 DEF SlotsOf
  <2> QED
    BY <1>1, <2>1, <2>2
<1>2. CASE o # b
  <2>1. bookings'[o] = bookings[o]
    BY <1>2 DEF TypeOK
  <2>2. SlotsOf(slots', {o}) = SlotsOf(slots, {o})
    BY <1>0, <1>2 DEF SlotsOf
  <2> QED
    BY <2>1, <2>2, MatchMeans
<1> QED
  BY <1>1, <1>2

\* The same for a booking that keeps its seat, its window and its slots.
LEMMA SameSlotsMatch ==
  ASSUME TypeOK, SlotsMatchBookings, NEW b \in Bookings, NEW row,
         bookings' = [bookings EXCEPT ![b] = row], UNCHANGED slots, Live(b),
         row.status \in {"reserved", "payment_pending", "completed"},
         row.seat = bookings[b].seat, row.cells = bookings[b].cells
  PROVE  SlotsMatchBookings'
<1>1. SlotsFor(b, row) = SlotsOf(slots, {b})
  BY DEF SlotsMatchBookings, SlotsFor
<1>2. slots' = (slots \ SlotsOf(slots, {b})) \cup SlotsFor(b, row)
  BY <1>1 DEF SlotsOf
<1> QED
  BY <1>2, OneBookingMatches

\* Every step keeps the two tables in step.
LEMMA SlotsMatchStep ==
  ASSUME TypeOK, SlotsMatchBookings, [Next]_vars
  PROVE  SlotsMatchBookings'
<1>1. ASSUME NEW u \in Users, NEW b \in Bookings, NEW seat \in Seats, NEW p \in Plans,
             CreateBooking(u, b, seat, p)
      PROVE  SlotsMatchBookings'
  <2> DEFINE row == NewRow(u, seat, pricing, p, now)
  <2>1. SlotsFor(b, row) = DaySlots(b, seat, Footprint[pricing][p])
    BY DEF NewRow, SlotsFor
  <2>2. SlotsOf(slots, {b}) = {}
    BY <1>1 DEF SlotsMatchBookings, Live, CreateBooking, NoRow
  <2>3. slots' = (slots \ SlotsOf(slots, {b})) \cup SlotsFor(b, row)
    BY <1>1, <2>1, <2>2 DEF CreateBooking
  <2>4. bookings' = [bookings EXCEPT ![b] = row]
    BY <1>1 DEF CreateBooking
  <2> HIDE DEF row
  <2> QED
    BY <2>3, <2>4, OneBookingMatches
<1>2. ASSUME NEW u \in Users, NEW b \in Bookings, NEW seat \in Seats, NEW p \in Plans,
             UpdateBooking(u, b, seat, p)
      PROVE  SlotsMatchBookings'
  <2> DEFINE row == EditRow(bookings[b], seat, pricing, p, now)
  <2>1. /\ row.status \in {"reserved", "completed"}
        /\ row.seat = seat /\ row.cells = Footprint[pricing][p]
    BY <1>2, PresentRow, EditRowColumns DEF UpdateBooking, TypeOK
  <2>2. slots' = (slots \ SlotsOf(slots, {b})) \cup SlotsFor(b, row)
    BY <1>2, <2>1 DEF UpdateBooking, SlotsFor
  <2>3. bookings' = [bookings EXCEPT ![b] = row]
    BY <1>2 DEF UpdateBooking
  <2> HIDE DEF row
  <2> QED
    BY <2>2, <2>3, OneBookingMatches
<1>3. ASSUME NEW u \in Users, NEW b \in Bookings, UploadPaymentProof(u, b)
      PROVE  SlotsMatchBookings'
  <2>1. Live(b)
    BY <1>3 DEF UploadPaymentProof, CanUpload, Live
  <2> DEFINE row == ProofRow(bookings[b])
  <2>2. /\ row.status = "payment_pending"
        /\ row.seat = bookings[b].seat /\ row.cells = bookings[b].cells
    BY <1>3, PresentRow, StatusRowColumns, StatusRowStatus DEF UploadPaymentProof
  <2>3. bookings' = [bookings EXCEPT ![b] = row] /\ UNCHANGED slots
    BY <1>3 DEF UploadPaymentProof
  <2> HIDE DEF row
  <2> QED
    BY <2>1, <2>2, <2>3, SameSlotsMatch
<1>4. ASSUME NEW b \in Bookings, NEW amount \in Amounts \cup {NoAmount},
             ApprovePayment(b, amount)
      PROVE  SlotsMatchBookings'
  <2>1. Live(b)
    BY <1>4 DEF ApprovePayment, CanApprove, Live
  <2> DEFINE row == ApproveRow(bookings[b], amount, pricing, now)
  <2>2. /\ row.status \in {"completed", "reserved"}
        /\ row.seat = bookings[b].seat /\ row.cells = bookings[b].cells
    BY <1>4, PresentRow, ApproveRowColumns DEF ApprovePayment, TypeOK
  <2>3. bookings' = [bookings EXCEPT ![b] = row] /\ UNCHANGED slots
    BY <1>4 DEF ApprovePayment
  <2> HIDE DEF row
  <2> QED
    BY <2>1, <2>2, <2>3, SameSlotsMatch
<1>5. ASSUME NEW b \in Bookings, RejectPayment(b)
      PROVE  SlotsMatchBookings'
  <2>1. RejectRow(bookings[b]).status = "rejected"
    BY <1>5, PresentRow, StatusRowStatus DEF RejectPayment
  <2>2. slots' = (slots \ SlotsOf(slots, {b})) \cup SlotsFor(b, RejectRow(bookings[b]))
    BY <1>5, <2>1 DEF RejectPayment, SlotsFor
  <2> QED
    BY <1>5, <2>2, OneBookingMatches DEF RejectPayment
<1>6. CASE ExpireReservedPast
  <2> SUFFICES ASSUME NEW o \in Bookings
               PROVE  SlotsOf(slots', {o}) =
                        IF Live(o)' THEN DaySlots(o, bookings'[o].seat, bookings'[o].cells)
                                    ELSE {}
    BY DEF SlotsMatchBookings
  <2>1. CASE o \in Overdue
    <3>1. bookings'[o].status = "expired"
      BY <1>6, <2>1, PresentRow, StatusRowStatus DEF ExpireReservedPast, Overdue
    <3>2. SlotsOf(slots', {o}) = {}
      BY <1>6, <2>1 DEF ExpireReservedPast, SlotsOf
    <3> QED
      BY <3>1, <3>2 DEF Live
  <2>2. CASE o \notin Overdue
    <3>1. bookings'[o] = bookings[o]
      BY <1>6, <2>2 DEF ExpireReservedPast
    <3>2. SlotsOf(slots', {o}) = SlotsOf(slots, {o})
      BY <1>6, <2>2 DEF ExpireReservedPast, SlotsOf
    <3> QED
      BY <3>1, <3>2 DEF Live, SlotsMatchBookings
  <2> QED
    BY <2>1, <2>2
<1>7. CASE (\E c \in Configs : UpdatePricing(c)) \/ Tick \/ UNCHANGED vars
  BY <1>7 DEF UpdatePricing, Tick, vars, SlotsMatchBookings, Live
<1> QED
  BY <1>1, <1>2, <1>3, <1>4, <1>5, <1>6, <1>7 DEF Next

\* A live booking holds its whole window on its seat and nothing else; a rejected
\* or expired one holds nothing.
THEOREM SlotsCorrect == Spec => []SlotsMatchBookings
<1>1. Init => SlotsMatchBookings
  BY DEF Init, SlotsMatchBookings, SlotsOf, Live, NoRow
<1> QED
  BY <1>1, TypeCorrect, SlotsMatchStep, PTL DEF Spec

-----------------------------------------------------------------------------
(* What a step may never do.                                                *)

\* No step takes back money that was credited.
THEOREM PaidOnlyGrows == Spec => PaidNeverShrinks
<1>1. ASSUME TypeOK, [Next]_vars, NEW b \in Bookings, bookings[b] # NoRow
      PROVE  bookings'[b].paid >= bookings[b].paid
  <2>0. bookings[b] \in BookingRow /\ bookings[b].paid \in Nat
    BY <1>1, PresentRow DEF BookingRow
  <2>1. ASSUME NEW u \in Users, NEW o \in Bookings, NEW seat \in Seats, NEW p \in Plans,
               CreateBooking(u, o, seat, p)
        PROVE  bookings'[b] = bookings[b]
    BY <1>1, <2>1 DEF CreateBooking, TypeOK
  <2>2. ASSUME NEW u \in Users, NEW o \in Bookings, NEW seat \in Seats, NEW p \in Plans,
               UpdateBooking(u, o, seat, p)
        PROVE  bookings'[b].paid = bookings[b].paid
    BY <1>1, <2>0, <2>2, EditRowColumns DEF UpdateBooking, TypeOK
  <2>3. ASSUME NEW u \in Users, NEW o \in Bookings, UploadPaymentProof(u, o)
        PROVE  bookings'[b].paid = bookings[b].paid
    BY <1>1, <2>0, <2>3, StatusRowColumns DEF UploadPaymentProof, TypeOK
  <2>4. ASSUME NEW o \in Bookings, NEW amount \in Amounts \cup {NoAmount},
               ApprovePayment(o, amount)
        PROVE  bookings'[b].paid >= bookings[b].paid
    <3>1. Credit(bookings[b], amount) \in Nat
      BY <2>0, RowsAssumption DEF Credit, Outstanding, NoAmount, BookingRow
    <3>2. CASE o = b
      <4>1. bookings'[b] = ApproveRow(bookings[b], amount, pricing, now)
        BY <1>1, <2>4, <3>2 DEF ApprovePayment, TypeOK
      <4>2. bookings'[b].paid = bookings[b].paid + Credit(bookings[b], amount)
        BY <1>1, <2>0, <4>1, ApproveRowColumns DEF TypeOK
      <4> QED
        BY <2>0, <3>1, <4>2
    <3>3. CASE o # b
      BY <1>1, <2>0, <2>4, <3>3 DEF ApprovePayment, TypeOK
    <3> QED
      BY <3>2, <3>3
  <2>5. ASSUME NEW o \in Bookings, RejectPayment(o)
        PROVE  bookings'[b].paid = bookings[b].paid
    BY <1>1, <2>0, <2>5, StatusRowColumns DEF RejectPayment, TypeOK
  <2>6. CASE ExpireReservedPast
    BY <1>1, <2>0, <2>6, StatusRowColumns DEF ExpireReservedPast, TypeOK
  <2>7. CASE (\E c \in Configs : UpdatePricing(c)) \/ Tick \/ UNCHANGED vars
    BY <2>0, <2>7 DEF UpdatePricing, Tick, vars
  <2> QED
    BY <1>1, <2>0, <2>1, <2>2, <2>3, <2>4, <2>5, <2>6, <2>7 DEF Next
<1>2. TypeOK /\ [Next]_vars =>
        [\A b \in Bookings : bookings[b] # NoRow => bookings'[b].paid >= bookings[b].paid]_vars
  BY <1>1
<1> QED
  BY <1>2, TypeCorrect, PTL DEF Spec, PaidNeverShrinks

\* REJECTED and EXPIRED are final, and a COMPLETED booking is reopened only by an
\* edit that leaves something to pay.
THEOREM FinalStatuses == Spec => FinalStatusesStay
<1> DEFINE Stays(b) ==
      /\ bookings[b].status \in {"rejected", "expired"} => bookings'[b] = bookings[b]
      /\ bookings[b].status = "completed" =>
           \/ bookings'[b].status = "completed"
           \/ bookings'[b].status = "reserved" /\ bookings'[b].final > bookings'[b].paid
<1>1. ASSUME TypeOK, [Next]_vars, NEW b \in Bookings
      PROVE  Stays(b)
  <2>0. ASSUME bookings'[b] = bookings[b]
        PROVE  Stays(b)
    BY <2>0
  <2>1. ASSUME NEW u \in Users, NEW o \in Bookings, NEW seat \in Seats, NEW p \in Plans,
               CreateBooking(u, o, seat, p)
        PROVE  Stays(b)
    BY <1>1, <2>1 DEF CreateBooking, TypeOK, NoRow
  <2>2. ASSUME NEW u \in Users, NEW o \in Bookings, NEW seat \in Seats, NEW p \in Plans,
               UpdateBooking(u, o, seat, p)
        PROVE  Stays(b)
    <3>1. CASE o = b
      <4> DEFINE row == EditRow(bookings[b], seat, pricing, p, now)
      <4>1. /\ bookings[b] \in BookingRow /\ bookings'[b] = row
            /\ bookings[b].status \in {"reserved", "payment_pending", "completed"}
            /\ Affordable(bookings[b], pricing, p)
        BY <1>1, <2>2, <3>1, PresentRow DEF UpdateBooking, Editable, TypeOK
      <4>2. /\ row.final = Price[pricing][p] /\ row.paid = bookings[b].paid
            /\ row.status = IF bookings[b].status = "completed"
                                 /\ Price[pricing][p] = bookings[b].paid
                              THEN "completed" ELSE "reserved"
        BY <1>1, <4>1, EditRowColumns DEF TypeOK
      <4>3. bookings[b].paid \in Nat /\ Price[pricing][p] \in Int
        BY <1>1, <4>1, RowsAssumption DEF TypeOK, BookingRow
      <4> HIDE DEF row
      <4> QED
        BY <4>1, <4>2, <4>3 DEF Affordable
    <3>2. CASE o # b
      BY <1>1, <2>0, <2>2, <3>2 DEF UpdateBooking, TypeOK
    <3> QED
      BY <3>1, <3>2
  <2>3. ASSUME NEW u \in Users, NEW o \in Bookings, UploadPaymentProof(u, o)
        PROVE  Stays(b)
    BY <1>1, <2>3 DEF UploadPaymentProof, CanUpload, TypeOK
  <2>4. ASSUME NEW o \in Bookings, NEW amount \in Amounts \cup {NoAmount},
               ApprovePayment(o, amount)
        PROVE  Stays(b)
    BY <1>1, <2>4 DEF ApprovePayment, CanApprove, TypeOK
  <2>5. ASSUME NEW o \in Bookings, RejectPayment(o)
        PROVE  Stays(b)
    BY <1>1, <2>5 DEF RejectPayment, CanReject, TypeOK
  <2>6. CASE ExpireReservedPast
    BY <1>1, <2>6 DEF ExpireReservedPast, Overdue, IsOverdue, TypeOK
  <2>7. CASE (\E c \in Configs : UpdatePricing(c)) \/ Tick \/ UNCHANGED vars
    BY <2>0, <2>7 DEF UpdatePricing, Tick, vars
  <2> HIDE DEF Stays
  <2> QED
    BY <1>1, <2>1, <2>2, <2>3, <2>4, <2>5, <2>6, <2>7 DEF Next
<1>2. TypeOK /\ [Next]_vars => [\A b \in Bookings : Stays(b)]_vars
  BY <1>1
<1> QED
  BY <1>2, TypeCorrect, PTL DEF Spec, FinalStatusesStay

-----------------------------------------------------------------------------
(* The service implements the ledger.                                       *)

\* Slots that do not conflict are claims that are free in the ledger.
LEMMA FreeInLedger ==
  ASSUME TypeOK, SlotsMatchBookings, NEW b \in Bookings, NEW seat \in Seats,
         NEW cells \in SUBSET Cells,
         ~HasConflict(cells, Booked(slots, seat, {b}))
  PROVE  Ledger!FreeFor(b, [seat |-> seat, cells |-> cells])
<1> SUFFICES ASSUME NEW o \in Bookings \ {b}, Live(o), bookings[o].seat = seat,
                    NEW x \in bookings[o].cells, x \in cells
             PROVE  FALSE
  BY DEF Ledger!FreeFor, SeatHold
<1> DEFINE s == [booking |-> o, seat |-> seat, cell |-> x]
<1>1. s \in DaySlots(o, bookings[o].seat, bookings[o].cells)
  BY DEF DaySlots
<1>2. s \in slots
  BY <1>1 DEF SlotsMatchBookings, SlotsOf
<1>3. x \in Booked(slots, seat, {b})
  BY <1>2 DEF Booked
<1> QED
  BY <1>3 DEF HasConflict

\* Seats follow the abstract ledger: every step takes one free claim, gives claims
\* back, or leaves them alone.
THEOREM LedgerImplemented == Spec => ImplementsLedger
<1>1. Init => Ledger!Init
  BY DEF Init, Ledger!Init, SeatHold, Live, NoRow
<1>2. ASSUME TypeOK, SlotsMatchBookings, [Next]_vars
      PROVE  [Ledger!Next]_SeatHold
  <2>0. ASSUME NEW b \in Bookings, NEW row, NEW claim,
               bookings' = [bookings EXCEPT ![b] = row],
               row.status \in {"reserved", "payment_pending", "completed"},
               claim = [seat |-> row.seat, cells |-> row.cells]
        PROVE  SeatHold' = [SeatHold EXCEPT ![b] = claim]
    BY <1>2, <2>0 DEF SeatHold, Live, TypeOK
  <2>1. ASSUME NEW u \in Users, NEW b \in Bookings, NEW seat \in Seats, NEW p \in Plans,
               CreateBooking(u, b, seat, p)
        PROVE  Ledger!Next
    <3> DEFINE claim == [seat |-> seat, cells |-> Footprint[pricing][p]]
    <3>1. claim \in Ledger!Claim /\ Footprint[pricing][p] \in SUBSET Cells
      BY <1>2, <2>1, RowsAssumption DEF CreateBooking, Accepted, Ledger!Claim, TypeOK
    <3>2. ~HasConflict(Footprint[pricing][p], Booked(slots, seat, {b}))
      BY <2>1 DEF CreateBooking, HasConflict, Booked
    <3>3. Ledger!FreeFor(b, claim)
      BY <1>2, <3>1, <3>2, FreeInLedger
    <3>4. /\ NewRow(u, seat, pricing, p, now).status = "reserved"
          /\ NewRow(u, seat, pricing, p, now).seat = seat
          /\ NewRow(u, seat, pricing, p, now).cells = Footprint[pricing][p]
      BY DEF NewRow
    <3>5. SeatHold' = [SeatHold EXCEPT ![b] = claim]
      BY <2>0, <2>1, <3>4 DEF CreateBooking
    <3> QED
      BY <3>1, <3>3, <3>5 DEF Ledger!Next, Ledger!Take
  <2>2. ASSUME NEW u \in Users, NEW b \in Bookings, NEW seat \in Seats, NEW p \in Plans,
               UpdateBooking(u, b, seat, p)
        PROVE  Ledger!Next
    <3> DEFINE claim == [seat |-> seat, cells |-> Footprint[pricing][p]]
               row == EditRow(bookings[b], seat, pricing, p, now)
    <3>1. claim \in Ledger!Claim /\ Footprint[pricing][p] \in SUBSET Cells
      BY <1>2, <2>2, RowsAssumption DEF UpdateBooking, Accepted, Ledger!Claim, TypeOK
    <3>2. Ledger!FreeFor(b, claim)
      BY <1>2, <2>2, <3>1, FreeInLedger DEF UpdateBooking
    <3>3. /\ row.status \in {"reserved", "completed"}
          /\ row.seat = seat /\ row.cells = Footprint[pricing][p]
      BY <1>2, <2>2, PresentRow, EditRowColumns DEF UpdateBooking, TypeOK
    <3>4. bookings' = [bookings EXCEPT ![b] = row]
      BY <2>2 DEF UpdateBooking
    <3>5. SeatHold' = [SeatHold EXCEPT ![b] = claim]
      <4>1. /\ row.status \in {"reserved", "payment_pending", "completed"}
            /\ claim = [seat |-> row.seat, cells |-> row.cells]
        BY <3>3
      <4> HIDE DEF row, claim
      <4> QED
        BY <2>0, <3>4, <4>1
    <3> QED
      BY <3>1, <3>2, <3>5 DEF Ledger!Next, Ledger!Take
  <2>3. ASSUME NEW u \in Users, NEW b \in Bookings, UploadPaymentProof(u, b)
        PROVE  UNCHANGED SeatHold
    BY <1>2, <2>3, PresentRow, StatusRowColumns, StatusRowStatus
    DEF UploadPaymentProof, CanUpload, SeatHold, Live, TypeOK
  <2>4. ASSUME NEW b \in Bookings, NEW amount \in Amounts \cup {NoAmount},
               ApprovePayment(b, amount)
        PROVE  UNCHANGED SeatHold
    <3> DEFINE row == ApproveRow(bookings[b], amount, pricing, now)
    <3>1. /\ row.status \in {"completed", "reserved"}
          /\ row.seat = bookings[b].seat /\ row.cells = bookings[b].cells
      BY <1>2, <2>4, PresentRow, ApproveRowColumns DEF ApprovePayment, TypeOK
    <3>2. bookings' = [bookings EXCEPT ![b] = row] /\ Live(b)
      BY <2>4 DEF ApprovePayment, CanApprove, Live
    <3> HIDE DEF row
    <3> QED
      BY <1>2, <3>1, <3>2 DEF SeatHold, Live, TypeOK
  <2>5. ASSUME NEW b \in Bookings, RejectPayment(b)
        PROVE  Ledger!Release({b})
    BY <1>2, <2>5, PresentRow, StatusRowStatus
    DEF RejectPayment, SeatHold, Live, TypeOK, Ledger!Release
  <2>6. CASE ExpireReservedPast
    <3>1. \A b \in Overdue : bookings'[b].status = "expired"
      BY <1>2, <2>6, PresentRow, StatusRowStatus DEF ExpireReservedPast, Overdue, TypeOK
    <3>2. \A b \in Bookings \ Overdue : bookings'[b] = bookings[b]
      BY <2>6 DEF ExpireReservedPast
    <3>3. Ledger!Release(Overdue)
      BY <3>1, <3>2 DEF SeatHold, Live, Ledger!Release
    <3> QED
      BY <3>3 DEF Ledger!Next, Overdue
  <2>7. CASE (\E c \in Configs : UpdatePricing(c)) \/ Tick \/ UNCHANGED vars
    BY <2>7 DEF UpdatePricing, Tick, vars, SeatHold, Live
  <2> QED
    BY <1>2, <2>1, <2>2, <2>3, <2>4, <2>5, <2>6, <2>7 DEF Next, Ledger!Next
<1> QED
  BY <1>1, <1>2, TypeCorrect, SlotsCorrect, PTL DEF Spec, ImplementsLedger, Ledger!Spec

=============================================================================

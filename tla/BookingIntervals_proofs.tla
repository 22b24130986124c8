---------------------- MODULE BookingIntervals_proofs ----------------------
(***************************************************************************)
(* The stored columns are right for every set of requests, configurations,  *)
(* seats and bookings, and they implement BookingService.                   *)
(***************************************************************************)
EXTENDS BookingIntervals, StudyPricing_proofs

-----------------------------------------------------------------------------
(* Windows, quotes and rows have their types.                               *)

\* A request that is let through gets a window of at least a minute.
LEMMA WindowType ==
  ASSUME NEW c \in Configs, NEW r \in Requests, WindowAccepted(r, c.open, c.close)
  PROVE  LET w == ResolveWindow(r, c.open, c.close)
         IN w \in Window /\ w.from < w.to
<1>1. c.open \in Nat /\ c.close \in Nat /\ c.open < c.close
  BY IntervalsAssumption DEF PricingConfig
<1>2. r.from \in Nat \cup {NoMinute} /\ r.to \in Nat \cup {NoMinute}
  BY IntervalsAssumption DEF Request
<1> QED
  BY <1>1, <1>2 DEF WindowAccepted, ResolveWindow, Window

\* The price of a request is an integer number of cents, near the exact one.
LEMMA QuoteNear ==
  ASSUME NEW c \in Configs, NEW r \in Requests
  PROVE  LET q == Quote(c, r)
             error == 2 * (Whole * Whole * q.final - ExactScaled(q))
         IN /\ q.final \in Int
            /\ -(Whole * RoundingScaled(q)) <= error /\ error <= Whole * RoundingScaled(q)
<1> DEFINE k == CategoryForDuration(DurationDays(r.start, r.end))
<1>1. k \in Category
  BY DEF CategoryForDuration, Category
<1>2. c.base[k] \in Int /\ c.discount[k] \in Percent /\ c.surcharge \in Percent
  BY <1>1, IntervalsAssumption DEF PricingConfig
<1> HIDE DEF k
<1>3. Quote(c, r) = Breakdown(c, k, r.access)
  BY DEF Quote, k
<1> QED
  BY <1>2, <1>3, BreakdownNear

\* Assigning a value of its type to a column keeps the row a row.
LEMMA ColumnType ==
  ASSUME NEW row \in BookingRow
  PROVE  /\ \A x \in Rows!BookingStatus : [row EXCEPT !.status = x] \in BookingRow
         /\ \A x \in Nat \cup {Rows!NoTime} : [row EXCEPT !.until = x] \in BookingRow
         /\ \A x \in Nat : [row EXCEPT !.paid = x] \in BookingRow
         /\ \A x \in BOOLEAN : [row EXCEPT !.proof = x] \in BookingRow
<1> USE DEF BookingRow
<1>1. \A x \in Rows!BookingStatus : [row EXCEPT !.status = x] \in BookingRow
  OBVIOUS
<1>2. \A x \in Nat \cup {Rows!NoTime} : [row EXCEPT !.until = x] \in BookingRow
  OBVIOUS
<1>3. \A x \in Nat : [row EXCEPT !.paid = x] \in BookingRow
  OBVIOUS
<1>4. \A x \in BOOLEAN : [row EXCEPT !.proof = x] \in BookingRow
  OBVIOUS
<1> HIDE DEF BookingRow
<1> QED
  BY <1>1, <1>2, <1>3, <1>4

\* The row a creation inserts has the columns of a booking.
LEMMA NewRowType ==
  ASSUME TypeOK, NEW u \in Users, NEW seat \in Seats, NEW r \in Requests, Valid(r)
  PROVE  NewRow(u, seat, r) \in BookingRow
<1>1. WindowOf(r) \in Window
  BY WindowType DEF TypeOK, Valid, WindowOf
<1>2. Quote(pricing, r) \in Quotes /\ Quote(pricing, r).final \in Int
  BY QuoteNear DEF TypeOK, Quotes
<1>3. r.start \in Nat /\ r.end \in Nat /\ DurationDays(r.start, r.end) \in Nat
  BY IntervalsAssumption DEF Valid, Request, DurationDays
<1>4. now + pricing.timeout \in Nat
  BY IntervalsAssumption DEF TypeOK, PricingConfig
<1>5. "reserved" \in Rows!BookingStatus
  BY DEF Rows!BookingStatus
<1> QED
  BY <1>1, <1>2, <1>3, <1>4, <1>5 DEF NewRow, BookingRow

\* The columns of an edited booking: those of a new one, or the old ones.
Edited(new, row, seat, r) ==
  LET keeps == row.status = "completed" /\ Quote(pricing, r).final = row.paid
  IN /\ new.owner = row.owner /\ new.seat = seat /\ new.start = r.start
     /\ new.end = r.end /\ new.window = WindowOf(r)
     /\ new.days = DurationDays(r.start, r.end)
     /\ new.breakdown = Quote(pricing, r) /\ new.final = Quote(pricing, r).final
     /\ new.paid = row.paid
     /\ new.status = (IF keeps THEN row.status ELSE "reserved")
     /\ new.until = (IF keeps THEN row.until ELSE now + pricing.timeout)
     /\ new.proof = (IF keeps THEN row.proof ELSE FALSE)

\* An edit leaves a row of the table, with those columns.
LEMMA EditRowColumns ==
  ASSUME TypeOK, NEW row \in BookingRow, NEW seat \in Seats, NEW r \in Requests, Valid(r)
  PROVE  /\ EditRow(row, seat, r) \in BookingRow
         /\ Edited(EditRow(row, seat, r), row, seat, r)
<1> DEFINE first == NewRow(row.owner, seat, r)
           r1 == [first EXCEPT !.paid = row.paid]
<1>0. row.owner \in Users /\ row.paid \in Nat /\ row.status \in Rows!BookingStatus
      /\ row.until \in Nat \cup {Rows!NoTime} /\ row.proof \in BOOLEAN
  BY DEF BookingRow
<1>1. first \in BookingRow
  BY <1>0, NewRowType
<1>2. /\ first.owner = row.owner /\ first.seat = seat /\ first.start = r.start
      /\ first.end = r.end /\ first.window = WindowOf(r)
      /\ first.days = DurationDays(r.start, r.end)
      /\ first.breakdown = Quote(pricing, r) /\ first.final = Quote(pricing, r).final
      /\ first.status = "reserved" /\ first.until = now + pricing.timeout
      /\ first.proof = FALSE
  BY DEF NewRow
<1>3. EditRow(row, seat, r) =
        IF row.status = "completed" /\ Quote(pricing, r).final = row.paid
          THEN [first EXCEPT !.status = row.status, !.until = row.until,
                             !.proof = row.proof, !.paid = row.paid]
          ELSE r1
  BY DEF EditRow
<1> HIDE DEF first
<1>4. r1 \in BookingRow
  BY <1>0, <1>1, ColumnType
<1>5. [first EXCEPT !.status = row.status, !.until = row.until,
                    !.proof = row.proof, !.paid = row.paid] \in BookingRow
  BY <1>0, <1>1 DEF BookingRow
<1>6. CASE row.status = "completed" /\ Quote(pricing, r).final = row.paid
  BY <1>1, <1>2, <1>3, <1>5, <1>6 DEF BookingRow, Edited
<1>7. CASE ~(row.status = "completed" /\ Quote(pricing, r).final = row.paid)
  BY <1>1, <1>2, <1>3, <1>4, <1>7 DEF BookingRow, Edited
<1> QED
  BY <1>6, <1>7

\* The columns that the operations without dates leave alone.
SameStay(new, row) ==
  /\ new \in BookingRow
  /\ new.owner = row.owner /\ new.seat = row.seat /\ new.start = row.start
  /\ new.end = row.end /\ new.window = row.window /\ new.days = row.days
  /\ new.breakdown = row.breakdown /\ new.final = row.final

\* Assigning status, deadline, money or screenshot leaves the stay alone.
LEMMA ColumnStay ==
  ASSUME NEW row \in BookingRow
  PROVE  /\ \A x \in Rows!BookingStatus : SameStay([row EXCEPT !.status = x], row)
         /\ \A x \in Nat \cup {Rows!NoTime} : SameStay([row EXCEPT !.until = x], row)
         /\ \A x \in Nat : SameStay([row EXCEPT !.paid = x], row)
         /\ \A x \in BOOLEAN : SameStay([row EXCEPT !.proof = x], row)
<1> DEFINE Kept(n) ==
      /\ n.owner = row.owner /\ n.seat = row.seat /\ n.start = row.start
      /\ n.end = row.end /\ n.window = row.window /\ n.days = row.days
      /\ n.breakdown = row.breakdown /\ n.final = row.final
<1>1. \A x : /\ Kept([row EXCEPT !.status = x]) /\ Kept([row EXCEPT !.until = x])
             /\ Kept([row EXCEPT !.paid = x]) /\ Kept([row EXCEPT !.proof = x])
  BY DEF BookingRow
<1> QED
  BY <1>1, ColumnType DEF SameStay

\* A proof, a rejection and an expiry change neither the stay nor its price.
LEMMA StatusRowStay ==
  ASSUME NEW row \in BookingRow
  PROVE  /\ SameStay(Rows!ProofRow(row), row)
         /\ SameStay(Rows!RejectRow(row), row)
         /\ SameStay(Rows!ExpireRow(row), row)
<1> DEFINE p1 == [row EXCEPT !.proof = TRUE]
           p2 == [p1 EXCEPT !.status = "payment_pending"]
           p3 == [p2 EXCEPT !.until = Rows!NoTime]
           e1 == [row EXCEPT !.status = "expired"]
           e2 == [e1 EXCEPT !.until = Rows!NoTime]
<1>0. {"payment_pending", "rejected", "expired"} \subseteq Rows!BookingStatus
  BY DEF Rows!BookingStatus
<1>1. SameStay(p1, row) /\ SameStay(e1, row) /\ SameStay(Rows!RejectRow(row), row)
  BY <1>0, ColumnStay DEF Rows!RejectRow
<1>2. SameStay(p2, p1)
  <2> p1 \in BookingRow
    BY <1>1 DEF SameStay
  <2> HIDE DEF p1
  <2> QED
    BY <1>0, ColumnStay
<1>3. SameStay(p3, p2)
  <2> p2 \in BookingRow
    BY <1>2 DEF SameStay
  <2> HIDE DEF p2
  <2> QED
    BY ColumnStay
<1>4. SameStay(e2, e1)
  <2> e1 \in BookingRow
    BY <1>1 DEF SameStay
  <2> HIDE DEF e1
  <2> QED
    BY ColumnStay
<1>5. Rows!ProofRow(row) = p3 /\ Rows!ExpireRow(row) = e2
  BY DEF Rows!ProofRow, Rows!ExpireRow
<1> HIDE DEF p1, p2, p3, e1, e2
<1> QED
  BY <1>1, <1>2, <1>3, <1>4, <1>5 DEF SameStay

\* Nor does an approval, in full or in part.
LEMMA ApproveRowStay ==
  ASSUME TypeOK, NEW row \in BookingRow, NEW amount \in Amounts \cup {Rows!NoAmount}
  PROVE  SameStay(Rows!ApproveRow(row, amount, pricing, now), row)
<1> DEFINE paid == row.paid + Rows!Credit(row, amount)
           until == now + [c \in Configs |-> c.timeout][pricing]
           r1 == [row EXCEPT !.paid = paid]
           f2 == [r1 EXCEPT !.status = "completed"]
           p2 == [r1 EXCEPT !.status = "reserved"]
           p3 == [p2 EXCEPT !.until = until]
           p4 == [p3 EXCEPT !.proof = FALSE]
<1>0. {"completed", "reserved"} \subseteq Rows!BookingStatus
  BY DEF Rows!BookingStatus
<1>1. row.final \in Int /\ row.paid \in Nat
  BY DEF BookingRow
<1>2. paid \in Nat
  BY <1>1, IntervalsAssumption DEF Rows!Credit, Rows!Outstanding, Rows!NoAmount
<1>3. until \in Nat \cup {Rows!NoTime}
  BY IntervalsAssumption DEF TypeOK, PricingConfig
<1>4. Rows!ApproveRow(row, amount, pricing, now) \in {f2, p4}
  BY Zenon DEF Rows!ApproveRow
<1> HIDE DEF paid, until
<1>5. SameStay(r1, row)
  BY <1>2, ColumnStay
<1>6. SameStay(f2, r1) /\ SameStay(p2, r1)
  <2> r1 \in BookingRow
    BY <1>5 DEF SameStay
  <2> HIDE DEF r1
  <2> QED
    BY <1>0, ColumnStay
<1>7. SameStay(p3, p2)
  <2> p2 \in BookingRow
    BY <1>6 DEF SameStay
  <2> HIDE DEF p2
  <2> QED
    BY <1>3, ColumnStay
<1>8. SameStay(p4, p3)
  <2> p3 \in BookingRow
    BY <1>7 DEF SameStay
  <2> HIDE DEF p3
  <2> QED
    BY ColumnStay
<1> HIDE DEF r1, f2, p2, p3, p4
<1> QED
  BY <1>4, <1>5, <1>6, <1>7, <1>8 DEF SameStay

-----------------------------------------------------------------------------
(* Types.                                                                  *)

\* What is in the table is a row.
LEMMA PresentRow ==
  ASSUME TypeOK, NEW b \in Bookings, bookings[b] # NoRow
  PROVE  bookings[b] \in BookingRow
BY DEF TypeOK

\* The slot rows of an accepted request.
LEMMA DaySlotRowsType ==
  ASSUME TypeOK, NEW b \in Bookings, NEW seat \in Seats, NEW r \in Requests, Valid(r)
  PROVE  /\ DaySlotRows(b, seat, r) \subseteq DaySlot
         /\ \A s \in DaySlotRows(b, seat, r) : s.from < s.to
<1>1. WindowOf(r).from \in Nat /\ WindowOf(r).to \in Nat /\ WindowOf(r).from < WindowOf(r).to
  BY WindowType DEF TypeOK, Valid, WindowOf, Window
<1>2. BookingDates(r.start, r.end) \subseteq Nat
  BY IntervalsAssumption DEF Request, BookingDates
<1> HIDE DEF WindowOf
<1> QED
  BY <1>1, <1>2 DEF DaySlotRows, DaySlot

\* Every slot row covers at least a minute, as its CHECK constraint demands.
SlotsCoverTime == \A s \in slots : s.from < s.to

\* The tables keep their types.
LEMMA TypeStep ==
  ASSUME TypeOK, SlotsCoverTime, [Next]_vars
  PROVE  TypeOK' /\ SlotsCoverTime'
<1>0. ASSUME NEW b \in Bookings, NEW row \in BookingRow,
             bookings' = [bookings EXCEPT ![b] = row]
      PROVE  bookings' \in [Bookings -> BookingRow \cup {NoRow}]
  BY <1>0 DEF TypeOK
<1>1. ASSUME NEW u \in Users, NEW b \in Bookings, NEW seat \in Seats, NEW r \in Requests,
             CreateBooking(u, b, seat, r)
      PROVE  TypeOK' /\ SlotsCoverTime'
  <2>1. bookings' \in [Bookings -> BookingRow \cup {NoRow}]
    BY <1>0, <1>1, NewRowType DEF CreateBooking
  <2> QED
    BY <1>1, <2>1, DaySlotRowsType DEF CreateBooking, TypeOK, SlotsCoverTime
<1>2. ASSUME NEW u \in Users, NEW b \in Bookings, NEW seat \in Seats, NEW r \in Requests,
             UpdateBooking(u, b, seat, r)
      PROVE  TypeOK' /\ SlotsCoverTime'
  <2>1. bookings' \in [Bookings -> BookingRow \cup {NoRow}]
    BY <1>0, <1>2, PresentRow, EditRowColumns DEF UpdateBooking
  <2> QED
    BY <1>2, <2>1, DaySlotRowsType DEF UpdateBooking, TypeOK, SlotsCoverTime
<1>3. ASSUME NEW u \in Users, NEW b \in Bookings, UploadPaymentProof(u, b)
      PROVE  TypeOK' /\ SlotsCoverTime'
  <2>1. Rows!ProofRow(bookings[b]) \in BookingRow
    BY <1>3, PresentRow, StatusRowStay DEF UploadPaymentProof, SameStay
  <2> QED
    BY <1>0, <1>3, <2>1 DEF UploadPaymentProof, TypeOK, SlotsCoverTime
<1>4. ASSUME NEW b \in Bookings, NEW amount \in Amounts \cup {Rows!NoAmount},
             ApprovePayment(b, amount)
      PROVE  TypeOK' /\ SlotsCoverTime'
  <2>1. Rows!ApproveRow(bookings[b], amount, pricing, now) \in BookingRow
    BY <1>4, PresentRow, ApproveRowStay DEF ApprovePayment, SameStay
  <2> QED
    BY <1>0, <1>4, <2>1 DEF ApprovePayment, TypeOK, SlotsCoverTime
<1>5. ASSUME NEW b \in Bookings, RejectPayment(b)
      PROVE  TypeOK' /\ SlotsCoverTime'
  <2>1. Rows!RejectRow(bookings[b]) \in BookingRow
    BY <1>5, PresentRow, StatusRowStay DEF RejectPayment, SameStay
  <2> QED
    BY <1>0, <1>5, <2>1 DEF RejectPayment, TypeOK, SlotsCoverTime
<1>6. CASE ExpireReservedPast
  <2>1. \A b \in Overdue : Rows!ExpireRow(bookings[b]) \in BookingRow
    BY PresentRow, StatusRowStay DEF Overdue, SameStay
  <2> QED
    BY <1>6, <2>1 DEF ExpireReservedPast, TypeOK, SlotsCoverTime
<1>7. CASE (\E c \in Configs : UpdatePricing(c)) \/ Tick \/ UNCHANGED vars
  BY <1>7 DEF UpdatePricing, Tick, vars, TypeOK, SlotsCoverTime
<1> QED
  BY <1>1, <1>2, <1>3, <1>4, <1>5, <1>6, <1>7 DEF Next

\* Whatever requests are made under whatever configurations, the stored rows have
\* the types of their columns, the breakdown one that was computed for a request,
\* and no slot is empty.
THEOREM TypeCorrect == Spec => [](TypeOK /\ SlotsCoverTime)
<1>1. Init => TypeOK /\ SlotsCoverTime
  BY DEF Init, TypeOK, SlotsCoverTime
<1> QED
  BY <1>1, TypeStep, PTL DEF Spec

-----------------------------------------------------------------------------
(* Intervals and minutes.                                                  *)

\* Two windows overlap exactly when they share a minute.
LEMMA OverlapSharesMinute ==
  ASSUME NEW a, NEW w, a.from \in Nat, a.to \in Nat, a.from < a.to,
         w.from \in Nat, w.to \in Nat, w.from < w.to
  PROVE  IntervalsOverlap(a, w) <=> \E m \in Minutes(a) : m \in Minutes(w)
<1>1. ASSUME IntervalsOverlap(a, w)
      PROVE  \E m \in Minutes(a) : m \in Minutes(w)
  <2>1. CASE a.from <= w.from
    <3>1. w.from \in Minutes(a) /\ w.from \in Minutes(w)
      BY <1>1, <2>1 DEF IntervalsOverlap, Minutes
    <3> QED
      BY <3>1
  <2>2. CASE w.from <= a.from
    <3>1. a.from \in Minutes(a) /\ a.from \in Minutes(w)
      BY <1>1, <2>2 DEF IntervalsOverlap, Minutes
    <3> QED
      BY <3>1
  <2> QED
    BY <2>1, <2>2
<1>2. ASSUME NEW m \in Minutes(a), m \in Minutes(w)
      PROVE  IntervalsOverlap(a, w)
  BY <1>2 DEF IntervalsOverlap, Minutes
<1> QED
  BY <1>1, <1>2

\* The loops of _has_conflict find a slot of the seat on one of the dates.
LEMMA ConflictFindsSlot ==
  ASSUME NEW seat, NEW r, NEW except
  PROVE  Conflict(seat, r, except) <=>
           \E s \in slots : /\ s.seat = seat /\ s.booking \notin except
                           /\ s.date \in BookingDates(r.start, r.end)
                           /\ IntervalsOverlap(WindowOf(r), s)
<1> DEFINE dates == BookingDates(r.start, r.end)
           booked == BookedIntervals(seat, dates, except)
           w == WindowOf(r)
<1>1. Conflict(seat, r, except) <=>
        \E d \in dates : \E i \in booked[d] : IntervalsOverlap(w, i)
  BY DEF Conflict, HasConflict
<1>2. \A d \in dates : booked[d] =
        {[from |-> s.from, to |-> s.to] :
           s \in {x \in slots : x.seat = seat /\ x.date = d /\ x.booking \notin except}}
  BY DEF BookedIntervals
<1>3. \A s \in slots : IntervalsOverlap(w, [from |-> s.from, to |-> s.to])
                         <=> IntervalsOverlap(w, s)
  BY DEF IntervalsOverlap
<1> HIDE DEF dates, booked, w
<1>4. ASSUME NEW d \in dates, NEW i \in booked[d], IntervalsOverlap(w, i)
      PROVE  \E s \in slots : /\ s.seat = seat /\ s.booking \notin except /\ s.date \in dates
                              /\ IntervalsOverlap(w, s)
  <2>1. PICK s \in slots : /\ s.seat = seat /\ s.date = d /\ s.booking \notin except
                           /\ i = [from |-> s.from, to |-> s.to]
    BY <1>2, <1>4
  <2> QED
    BY <1>3, <1>4, <2>1
<1>5. ASSUME NEW s \in slots, s.seat = seat, s.booking \notin except, s.date \in dates,
             IntervalsOverlap(w, s)
      PROVE  \E d \in dates : \E i \in booked[d] : IntervalsOverlap(w, i)
  <2>1. [from |-> s.from, to |-> s.to] \in booked[s.date]
    BY <1>2, <1>5
  <2> QED
    BY <1>3, <1>5, <2>1
<1> QED
  BY <1>1, <1>4, <1>5 DEF dates, w

\* So they find exactly the slots that share a minute of a date with the request.
LEMMA ConflictSharesMinute ==
  ASSUME TypeOK, SlotsCoverTime, NEW seat, NEW r \in Requests, Valid(r), NEW except
  PROVE  Conflict(seat, r, except) <=>
           \E s \in slots :
             /\ s.seat = seat /\ s.booking \notin except
             /\ \E d \in BookingDates(r.start, r.end), m \in Minutes(WindowOf(r)) :
                  d = s.date /\ m \in Minutes(s)
<1> DEFINE w == WindowOf(r)
<1>1. w.from \in Nat /\ w.to \in Nat /\ w.from < w.to
  BY WindowType DEF TypeOK, Valid, WindowOf, Window
<1> HIDE DEF w
<1>2. ASSUME NEW s \in slots
      PROVE  IntervalsOverlap(w, s) <=> \E m \in Minutes(w) : m \in Minutes(s)
  <2>1. s.from \in Nat /\ s.to \in Nat /\ s.from < s.to
    BY DEF TypeOK, SlotsCoverTime, DaySlot
  <2> QED
    BY <1>1, <2>1, OverlapSharesMinute
<1> QED
  BY <1>2, ConflictFindsSlot DEF w

\* The comparison of ends in intervals_overlap is the sharing of a minute, for every
\* slot table that can arise: no overlap is missed and no touching slot refused.
THEOREM ConflictCorrect == Spec => []ConflictIsSharedMinute
<1>1. TypeOK /\ SlotsCoverTime => ConflictIsSharedMinute
  BY ConflictSharesMinute DEF ConflictIsSharedMinute
<1> QED
  BY <1>1, TypeCorrect, PTL

\* The one query behind the seat map finds the seats with such a slot.
LEMMA MapFindsSlot ==
  ASSUME TypeOK, NEW r
  PROVE  UnavailableSeats(r) =
           {seat \in Seats : \E s \in slots : /\ s.seat = seat
                                              /\ s.date \in BookingDates(r.start, r.end)
                                              /\ IntervalsOverlap(WindowOf(r), s)}
<1> DEFINE dates == BookingDates(r.start, r.end)
           w == WindowOf(r)
           found == {s \in slots : s.date \in dates}
           taken(seat, d) == {[from |-> s.from, to |-> s.to] :
                                s \in {x \in found : x.seat = seat /\ x.date = d}}
           perSeat == [seat \in {s.seat : s \in found} |-> [d \in dates |-> taken(seat, d)]]
<1>1. UnavailableSeats(r) =
        {seat \in {s.seat : s \in found} :
           \E d \in dates : \E i \in taken(seat, d) : IntervalsOverlap(w, i)}
  <2>1. UnavailableSeats(r) = {seat \in DOMAIN perSeat : HasConflict(w, perSeat[seat], dates)}
    BY Zenon DEF UnavailableSeats
  <2>2. DOMAIN perSeat = {s.seat : s \in found}
    OBVIOUS
  <2>3. \A seat \in {s.seat : s \in found} :
          HasConflict(w, perSeat[seat], dates) <=>
            \E d \in dates : \E i \in taken(seat, d) : IntervalsOverlap(w, i)
    BY DEF HasConflict
  <2> HIDE DEF perSeat, taken, found, dates, w
  <2> QED
    BY <2>1, <2>2, <2>3
<1>2. \A seat, d : \A i : i \in taken(seat, d) <=>
        \E s \in slots : /\ s.seat = seat /\ s.date = d /\ s.date \in dates
                         /\ i = [from |-> s.from, to |-> s.to]
  OBVIOUS
<1>3. \A s \in slots : /\ IntervalsOverlap(w, [from |-> s.from, to |-> s.to])
                            <=> IntervalsOverlap(w, s)
                       /\ s.seat \in Seats
  BY DEF IntervalsOverlap, TypeOK, DaySlot
<1>4. \A seat : seat \in {s.seat : s \in found} <=>
                  \E s \in slots : s.seat = seat /\ s.date \in dates
  OBVIOUS
<1> HIDE DEF dates, w, found, taken
<1>5. ASSUME NEW seat, NEW d \in dates, NEW i \in taken(seat, d), IntervalsOverlap(w, i)
      PROVE  \E s \in slots : s.seat = seat /\ s.date \in dates /\ IntervalsOverlap(w, s)
  <2>1. PICK s \in slots : /\ s.seat = seat /\ s.date \in dates
                           /\ i = [from |-> s.from, to |-> s.to]
    BY <1>2, <1>5
  <2> QED
    BY <1>3, <1>5, <2>1
<1>6. ASSUME NEW s \in slots, s.date \in dates, IntervalsOverlap(w, s)
      PROVE  \E d \in dates : \E i \in taken(s.seat, d) : IntervalsOverlap(w, i)
  <2>1. [from |-> s.from, to |-> s.to] \in taken(s.seat, s.date)
    BY <1>2, <1>6
  <2> QED
    BY <1>3, <1>6, <2>1
<1>7. ASSUME NEW seat \in UnavailableSeats(r)
      PROVE  /\ seat \in Seats
             /\ \E s \in slots : s.seat = seat /\ s.date \in dates /\ IntervalsOverlap(w, s)
  <2>1. PICK d \in dates : \E i \in taken(seat, d) : IntervalsOverlap(w, i)
    BY <1>1
  <2>2. PICK s \in slots : s.seat = seat /\ s.date \in dates /\ IntervalsOverlap(w, s)
    BY <1>5, <2>1
  <2> QED
    BY <1>3, <2>2
<1>8. ASSUME NEW s \in slots, s.date \in dates, IntervalsOverlap(w, s)
      PROVE  s.seat \in UnavailableSeats(r)
  <2>1. s.seat \in {x.seat : x \in found}
    BY <1>4, <1>8
  <2> QED
    BY <1>1, <1>6, <1>8, <2>1
<1> QED
  BY <1>7, <1>8 DEF dates, w

\* The seat map's single query, the check of one seat and the check inside a booking
\* refuse the same seats, for every slot table that can arise.
THEOREM AvailabilityCorrect == Spec => []AvailabilityAgrees
<1>1. TypeOK => AvailabilityAgrees
  BY MapFindsSlot, ConflictFindsSlot DEF AvailabilityAgrees, Available
<1> QED
  BY <1>1, TypeCorrect, PTL

-----------------------------------------------------------------------------
(* Prices.                                                                 *)

\* No booking ever costs more than half a cent per rounding more, or less, than its
\* exact price.
THEOREM PriceFair == Spec => []PriceIsFair
<1>1. ASSUME TypeOK
      PROVE  PriceIsFair
  <2> SUFFICES ASSUME NEW b \in Bookings, bookings[b] # NoRow
               PROVE  LET q == bookings[b].breakdown
                          error == 2 * (Whole * Whole * q.final - ExactScaled(q))
                      IN /\ -(Whole * RoundingScaled(q)) <= error
                         /\ error <= Whole * RoundingScaled(q)
    BY DEF PriceIsFair
  <2>1. bookings[b].breakdown \in Quotes
    BY <1>1, PresentRow DEF BookingRow
  <2>2. PICK c \in Configs, r \in Requests : bookings[b].breakdown = Quote(c, r)
    BY <2>1 DEF Quotes
  <2> QED
    BY <2>2, QuoteNear
<1> QED
  BY <1>1, TypeCorrect, PTL

\* The invoice of a row.
Invoice(row) ==
  /\ row.final = row.breakdown.final
  /\ row.breakdown.final = row.breakdown.discounted + row.breakdown.surcharge
  /\ row.days = DurationDays(row.start, row.end)
  /\ row.breakdown.category = CategoryForDuration(row.days)

\* Every step keeps the invoices right.
LEMMA InvoiceStep ==
  ASSUME TypeOK, InvoiceAddsUp, [Next]_vars
  PROVE  InvoiceAddsUp'
<1> USE DEF TypeOK
<1>0. InvoiceAddsUp <=> \A b \in Bookings : bookings[b] # NoRow => Invoice(bookings[b])
  BY DEF InvoiceAddsUp, Invoice
<1>1. ASSUME NEW r \in Requests
      PROVE  LET q == Quote(pricing, r) IN
             /\ q.final = q.discounted + q.surcharge
             /\ q.category = CategoryForDuration(DurationDays(r.start, r.end))
  BY DEF Quote, Breakdown
<1>2. ASSUME NEW row \in BookingRow, Invoice(row), NEW new, SameStay(new, row)
      PROVE  Invoice(new)
  BY <1>2 DEF SameStay, Invoice
<1>3. ASSUME NEW b \in Bookings, NEW row, bookings' = [bookings EXCEPT ![b] = row],
             Invoice(row)
      PROVE  \A o \in Bookings : bookings'[o] # NoRow => Invoice(bookings'[o])
  BY <1>0, <1>3
<1>4. ASSUME NEW u \in Users, NEW b \in Bookings, NEW seat \in Seats, NEW r \in Requests,
             CreateBooking(u, b, seat, r)
      PROVE  \A o \in Bookings : bookings'[o] # NoRow => Invoice(bookings'[o])
  <2>1. Invoice(NewRow(u, seat, r))
    BY <1>1 DEF NewRow, Invoice
  <2> QED
    BY <1>3, <1>4, <2>1 DEF CreateBooking
<1>5. ASSUME NEW u \in Users, NEW b \in Bookings, NEW seat \in Seats, NEW r \in Requests,
             UpdateBooking(u, b, seat, r)
      PROVE  \A o \in Bookings : bookings'[o] # NoRow => Invoice(bookings'[o])
  <2> DEFINE row == EditRow(bookings[b], seat, r)
  <2>1. /\ row.start = r.start /\ row.end = r.end
        /\ row.days = DurationDays(r.start, r.end)
        /\ row.breakdown = Quote(pricing, r) /\ row.final = Quote(pricing, r).final
    <3>1. bookings[b] \in BookingRow /\ Valid(r)
      BY <1>5, PresentRow DEF UpdateBooking
    <3>2. Edited(row, bookings[b], seat, r)
      BY <3>1, EditRowColumns, Zenon
    <3> QED
      BY <3>2, Zenon DEF Edited
  <2>2. bookings' = [bookings EXCEPT ![b] = row]
    BY <1>5 DEF UpdateBooking
  <2> HIDE DEF row
  <2>3. Invoice(row)
    BY <1>1, <2>1 DEF Invoice
  <2> QED
    BY <1>3, <2>2, <2>3
<1>6. ASSUME NEW b \in Bookings, NEW row,
             bookings[b] # NoRow, SameStay(row, bookings[b]),
             bookings' = [bookings EXCEPT ![b] = row]
      PROVE  \A o \in Bookings : bookings'[o] # NoRow => Invoice(bookings'[o])
  BY <1>0, <1>2, <1>3, <1>6, PresentRow
<1>7. ASSUME NEW u \in Users, NEW b \in Bookings, UploadPaymentProof(u, b)
      PROVE  \A o \in Bookings : bookings'[o] # NoRow => Invoice(bookings'[o])
  BY <1>6, <1>7, PresentRow, StatusRowStay DEF UploadPaymentProof
<1>8. ASSUME NEW b \in Bookings, NEW amount \in Amounts \cup {Rows!NoAmount},
             ApprovePayment(b, amount)
      PROVE  \A o \in Bookings : bookings'[o] # NoRow => Invoice(bookings'[o])
  BY <1>6, <1>8, PresentRow, ApproveRowStay DEF ApprovePayment
<1>9. ASSUME NEW b \in Bookings, RejectPayment(b)
      PROVE  \A o \in Bookings : bookings'[o] # NoRow => Invoice(bookings'[o])
  BY <1>6, <1>9, PresentRow, StatusRowStay DEF RejectPayment
<1>10. ASSUME ExpireReservedPast
       PROVE  \A o \in Bookings : bookings'[o] # NoRow => Invoice(bookings'[o])
  <2> SUFFICES ASSUME NEW o \in Bookings, bookings'[o] # NoRow
               PROVE  Invoice(bookings'[o])
    OBVIOUS
  <2>1. CASE o \in Overdue
    <3>1. bookings[o] \in BookingRow /\ Invoice(bookings[o])
      BY <1>0, <2>1, PresentRow DEF Overdue
    <3>2. bookings'[o] = Rows!ExpireRow(bookings[o])
      BY <1>10, <2>1 DEF ExpireReservedPast
    <3> QED
      BY <1>2, <3>1, <3>2, StatusRowStay
  <2>2. CASE o \notin Overdue
    BY <1>0, <1>10, <2>2 DEF ExpireReservedPast
  <2> QED
    BY <2>1, <2>2
<1>11. ASSUME (\E c \in Configs : UpdatePricing(c)) \/ Tick \/ UNCHANGED vars
       PROVE  \A o \in Bookings : bookings'[o] # NoRow => Invoice(bookings'[o])
  BY <1>0, <1>11 DEF UpdatePricing, Tick, vars
<1>12. \A o \in Bookings : bookings'[o] # NoRow => Invoice(bookings'[o])
  BY <1>4, <1>5, <1>7, <1>8, <1>9, <1>10, <1>11 DEF Next
<1> QED
  BY <1>12 DEF InvoiceAddsUp, Invoice

\* The breakdown a user is shown belongs to the stored dates and adds up to the
\* stored price, after any edits and price changes.
THEOREM InvoiceCorrect == Spec => []InvoiceAddsUp
<1>1. Init => InvoiceAddsUp
  BY DEF Init, InvoiceAddsUp
<1> QED
  BY <1>1, InvoiceStep, TypeCorrect, PTL DEF Spec

-----------------------------------------------------------------------------
(* The refinement: rows.                                                   *)

\* A column that both have is assigned alike in both.
LEMMA ServiceColumn ==
  ASSUME NEW row \in BookingRow
  PROVE  /\ \A x : ServiceRow([row EXCEPT !.status = x]) = [ServiceRow(row) EXCEPT !.status = x]
         /\ \A x : ServiceRow([row EXCEPT !.until = x]) = [ServiceRow(row) EXCEPT !.until = x]
         /\ \A x : ServiceRow([row EXCEPT !.paid = x]) = [ServiceRow(row) EXCEPT !.paid = x]
         /\ \A x : ServiceRow([row EXCEPT !.proof = x]) = [ServiceRow(row) EXCEPT !.proof = x]
<1> DEFINE cells == CellsOf(row.start, row.end, row.window)
<1>1. ASSUME NEW new, new.start = row.start, new.end = row.end, new.window = row.window
      PROVE  ServiceRow(new) =
               [owner |-> new.owner, seat |-> new.seat, cells |-> cells,
                status |-> new.status, until |-> new.until, final |-> new.final,
                paid |-> new.paid, proof |-> new.proof]
  BY <1>1 DEF ServiceRow
<1>2. ServiceRow(row) =
        [owner |-> row.owner, seat |-> row.seat, cells |-> cells,
         status |-> row.status, until |-> row.until, final |-> row.final,
         paid |-> row.paid, proof |-> row.proof]
  BY DEF ServiceRow
<1> HIDE DEF cells
<1>3. \A x : ServiceRow([row EXCEPT !.status = x]) = [ServiceRow(row) EXCEPT !.status = x]
  BY <1>1, <1>2 DEF BookingRow
<1>4. \A x : ServiceRow([row EXCEPT !.until = x]) = [ServiceRow(row) EXCEPT !.until = x]
  BY <1>1, <1>2 DEF BookingRow
<1>5. \A x : ServiceRow([row EXCEPT !.paid = x]) = [ServiceRow(row) EXCEPT !.paid = x]
  BY <1>1, <1>2 DEF BookingRow
<1>6. \A x : ServiceRow([row EXCEPT !.proof = x]) = [ServiceRow(row) EXCEPT !.proof = x]
  BY <1>1, <1>2 DEF BookingRow
<1> QED
  BY <1>3, <1>4, <1>5, <1>6

\* The cells of a request that is let through are its footprint, and not empty.
LEMMA ValidFootprint ==
  ASSUME TypeOK, NEW r \in Requests, Valid(r)
  PROVE  /\ Footprint[pricing][r] = CellsOf(r.start, r.end, WindowOf(r))
         /\ Service!Accepted(pricing, r)
<1>1. Footprint[pricing][r] = CellsOf(r.start, r.end, WindowOf(r))
  BY DEF Footprint, Valid, WindowOf, TypeOK
<1>2. /\ WindowOf(r).from \in Nat /\ WindowOf(r).to \in Nat
      /\ WindowOf(r).from < WindowOf(r).to
  BY WindowType DEF TypeOK, Valid, WindowOf, Window
<1>3. r.start \in Nat /\ r.end \in Nat /\ r.start <= r.end
  BY IntervalsAssumption DEF Request, Valid
<1>4. [date |-> r.start, minute |-> WindowOf(r).from]
        \in CellsOf(r.start, r.end, WindowOf(r))
  BY <1>2, <1>3 DEF CellsOf, BookingDates, Minutes
<1> QED
  BY <1>1, <1>4 DEF Service!Accepted

\* A creation and an edit store what the service says.
LEMMA ServiceNewRow ==
  ASSUME TypeOK, NEW u \in Users, NEW seat \in Seats, NEW r \in Requests, Valid(r)
  PROVE  ServiceRow(NewRow(u, seat, r)) = Service!NewRow(u, seat, pricing, r, now)
BY ValidFootprint DEF ServiceRow, NewRow, Service!NewRow, TypeOK

\* An edit of the stored row is the service's edit.
LEMMA ServiceEditRow ==
  ASSUME TypeOK, NEW row \in BookingRow, NEW seat \in Seats, NEW r \in Requests, Valid(r)
  PROVE  ServiceRow(EditRow(row, seat, r))
           = Service!EditRow(ServiceRow(row), seat, pricing, r, now)
<1> DEFINE cells == Footprint[pricing][r]
           price == Quote(pricing, r).final
           deadline == now + pricing.timeout
           no == FALSE
           new == EditRow(row, seat, r)
           keeps == row.status = "completed" /\ price = row.paid
           old == ServiceRow(row)
           m1 == [old EXCEPT !.seat = seat]
           m2 == [m1 EXCEPT !.cells = cells]
           m3 == [m2 EXCEPT !.final = price]
           m4 == [m3 EXCEPT !.status = "reserved"]
           m5 == [m4 EXCEPT !.until = deadline]
           m6 == [m5 EXCEPT !.proof = no]
           Row(s, c, st, u, f, pr) ==
             [owner |-> row.owner, seat |-> s, cells |-> c, status |-> st,
              until |-> u, final |-> f, paid |-> row.paid, proof |-> pr]
<1>1. ServiceRow(new) =
        IF keeps THEN Row(seat, cells, row.status, row.until, price, row.proof)
                 ELSE Row(seat, cells, "reserved", deadline, price, no)
  <2>1. cells = CellsOf(r.start, r.end, WindowOf(r))
    BY ValidFootprint
  <2>2. /\ new.owner = row.owner /\ new.seat = seat /\ new.start = r.start
        /\ new.end = r.end /\ new.window = WindowOf(r)
        /\ new.final = price /\ new.paid = row.paid
        /\ new.status = (IF keeps THEN row.status ELSE "reserved")
        /\ new.until = (IF keeps THEN row.until ELSE deadline)
        /\ new.proof = (IF keeps THEN row.proof ELSE FALSE)
    <3>1. Edited(new, row, seat, r)
      BY EditRowColumns, Zenon
    <3> HIDE DEF new
    <3> QED
      BY <3>1, Zenon DEF Edited
  <2> HIDE DEF new, cells, price, deadline, keeps
  <2> QED
    BY <2>1, <2>2 DEF ServiceRow
<1>2. Service!EditRow(old, seat, pricing, r, now) =
        IF old.status = "completed" /\ price = old.paid THEN m3 ELSE m6
  BY DEF Service!EditRow, TypeOK
<1>3. old = Row(row.seat, CellsOf(row.start, row.end, row.window), row.status, row.until,
                row.final, row.proof)
  BY DEF ServiceRow
<1> HIDE DEF new, cells, price, deadline, no
<1>4. \A s, c, st, u, f, pr, x :
        /\ [Row(s, c, st, u, f, pr) EXCEPT !.seat = x] = Row(x, c, st, u, f, pr)
        /\ [Row(s, c, st, u, f, pr) EXCEPT !.cells = x] = Row(s, x, st, u, f, pr)
        /\ [Row(s, c, st, u, f, pr) EXCEPT !.status = x] = Row(s, c, x, u, f, pr)
        /\ [Row(s, c, st, u, f, pr) EXCEPT !.until = x] = Row(s, c, st, x, f, pr)
        /\ [Row(s, c, st, u, f, pr) EXCEPT !.final = x] = Row(s, c, st, u, x, pr)
        /\ [Row(s, c, st, u, f, pr) EXCEPT !.proof = x] = Row(s, c, st, u, f, x)
  OBVIOUS
<1>5. old.status = row.status /\ old.paid = row.paid
  BY <1>3
<1> HIDE DEF Row, old
<1>6. m3 = Row(seat, cells, row.status, row.until, price, row.proof)
  <2>1. \E c : m1 = Row(seat, c, row.status, row.until, row.final, row.proof)
    BY <1>3, <1>4
  <2> HIDE DEF m1
  <2>2. m2 = Row(seat, cells, row.status, row.until, row.final, row.proof)
    BY <1>4, <2>1
  <2> HIDE DEF m2
  <2> QED
    BY <1>4, <2>2
<1> HIDE DEF m3
<1>7. m6 = Row(seat, cells, "reserved", deadline, price, no)
  <2>1. m4 = Row(seat, cells, "reserved", row.until, price, row.proof)
    BY <1>4, <1>6
  <2> HIDE DEF m4
  <2>2. m5 = Row(seat, cells, "reserved", deadline, price, row.proof)
    BY <1>4, <2>1
  <2> HIDE DEF m5
  <2> QED
    BY <1>4, <2>2
<1> HIDE DEF m6
<1>8. Service!EditRow(old, seat, pricing, r, now) = ServiceRow(new)
  BY <1>1, <1>2, <1>5, <1>6, <1>7
<1> QED
  BY <1>8 DEF new, old

\* The operations without dates do the same to both rows.
LEMMA ServiceStatusRow ==
  ASSUME NEW row \in BookingRow
  PROVE  /\ ServiceRow(Rows!ProofRow(row)) = Service!ProofRow(ServiceRow(row))
         /\ ServiceRow(Rows!RejectRow(row)) = Service!RejectRow(ServiceRow(row))
         /\ ServiceRow(Rows!ExpireRow(row)) = Service!ExpireRow(ServiceRow(row))
<1> DEFINE p1 == [row EXCEPT !.proof = TRUE]
           p2 == [p1 EXCEPT !.status = "payment_pending"]
           p3 == [p2 EXCEPT !.until = Rows!NoTime]
           e1 == [row EXCEPT !.status = "expired"]
           e2 == [e1 EXCEPT !.until = Rows!NoTime]
<1>0. {"payment_pending", "rejected", "expired"} \subseteq Rows!BookingStatus
  BY DEF Rows!BookingStatus
<1>1. p1 \in BookingRow /\ e1 \in BookingRow
  BY <1>0, ColumnType
<1>2. p2 \in BookingRow
  BY <1>0, <1>1, ColumnType
<1>3. ServiceRow(p1) = [ServiceRow(row) EXCEPT !.proof = TRUE]
      /\ ServiceRow(e1) = [ServiceRow(row) EXCEPT !.status = "expired"]
      /\ ServiceRow([row EXCEPT !.status = "rejected"])
           = [ServiceRow(row) EXCEPT !.status = "rejected"]
  BY ServiceColumn
<1>4. ServiceRow(p2) = [ServiceRow(p1) EXCEPT !.status = "payment_pending"]
  BY <1>1, ServiceColumn
<1>5. ServiceRow(p3) = [ServiceRow(p2) EXCEPT !.until = Rows!NoTime]
      /\ ServiceRow(e2) = [ServiceRow(e1) EXCEPT !.until = Rows!NoTime]
  BY <1>1, <1>2, ServiceColumn
<1>6. Rows!ProofRow(row) = p3 /\ Rows!ExpireRow(row) = e2
  BY DEF Rows!ProofRow, Rows!ExpireRow
<1> HIDE DEF p1, p2, p3, e1, e2
<1> QED
  BY <1>3, <1>4, <1>5, <1>6
  DEF Service!ProofRow, Service!RejectRow, Service!ExpireRow, Rows!RejectRow,
      Service!NoTime, Rows!NoTime

\* An approval of the stored row is the service's approval.
LEMMA ServiceApproveRow ==
  ASSUME TypeOK, NEW row \in BookingRow, NEW amount \in Amounts \cup {Rows!NoAmount}
  PROVE  ServiceRow(Rows!ApproveRow(row, amount, pricing, now))
           = Service!ApproveRow(ServiceRow(row), amount, pricing, now)
<1> DEFINE paid == row.paid + Rows!Credit(row, amount)
           until == now + [c \in Configs |-> c.timeout][pricing]
           no == FALSE
           old == ServiceRow(row)
           r1 == [row EXCEPT !.paid = paid]
           f2 == [r1 EXCEPT !.status = "completed"]
           p2 == [r1 EXCEPT !.status = "reserved"]
           p3 == [p2 EXCEPT !.until = until]
           p4 == [p3 EXCEPT !.proof = no]
           s1 == [old EXCEPT !.paid = paid]
           s2 == [s1 EXCEPT !.status = "reserved"]
           s3 == [s2 EXCEPT !.until = until]
           s4 == [s3 EXCEPT !.proof = no]
<1>0. {"completed", "reserved"} \subseteq Rows!BookingStatus
  BY DEF Rows!BookingStatus
<1>1. Rows!ApproveRow(row, amount, pricing, now) = IF paid >= row.final THEN f2 ELSE p4
  BY Zenon DEF Rows!ApproveRow
<1>2. /\ old.paid = row.paid /\ old.final = row.final
      /\ Service!Credit(old, amount) = Rows!Credit(row, amount)
  BY DEF ServiceRow, Service!Credit, Rows!Credit, Service!Outstanding, Rows!Outstanding,
         Service!NoAmount, Rows!NoAmount
<1>3. Service!ApproveRow(old, amount, pricing, now) =
        IF paid >= row.final THEN [s1 EXCEPT !.status = "completed"] ELSE s4
  <2> DEFINE sum == old.paid + Service!Credit(old, amount)
             t1 == [old EXCEPT !.paid = sum]
             t2 == [t1 EXCEPT !.status = "reserved"]
             t3 == [t2 EXCEPT !.until = until]
             t4 == [t3 EXCEPT !.proof = no]
  <2>1. Service!ApproveRow(old, amount, pricing, now) =
          IF sum >= old.final THEN [t1 EXCEPT !.status = "completed"] ELSE t4
    BY Zenon DEF Service!ApproveRow
  <2>2. sum = paid
    BY <1>2
  <2> HIDE DEF sum, paid
  <2>3. t4 = s4 /\ [t1 EXCEPT !.status = "completed"] = [s1 EXCEPT !.status = "completed"]
    BY <2>2, Zenon
  <2> HIDE DEF t1, t2, t3, t4, s1, s2, s3, s4
  <2> QED
    BY <1>2, <2>1, <2>2, <2>3, Zenon
<1>4. /\ paid \in Nat /\ until \in Nat \cup {Rows!NoTime}
  <2>1. row.final \in Int /\ row.paid \in Nat
    BY DEF BookingRow
  <2>2. paid \in Nat
    BY <2>1, IntervalsAssumption DEF Rows!Credit, Rows!Outstanding, Rows!NoAmount
  <2> QED
    BY <2>2, IntervalsAssumption DEF TypeOK, PricingConfig
<1> HIDE DEF paid, until, no, old
<1>5. r1 \in BookingRow /\ ServiceRow(r1) = s1
  BY <1>4, ColumnType, ServiceColumn DEF old
<1> HIDE DEF r1, s1
<1>6. /\ p2 \in BookingRow /\ ServiceRow(p2) = s2
      /\ ServiceRow(f2) = [s1 EXCEPT !.status = "completed"]
  BY <1>0, <1>5, ColumnType, ServiceColumn
<1> HIDE DEF p2, f2, s2
<1>7. p3 \in BookingRow /\ ServiceRow(p3) = s3
  BY <1>4, <1>6, ColumnType, ServiceColumn
<1> HIDE DEF p3, s3
<1>8. ServiceRow(p4) = s4
  BY <1>7, ServiceColumn
<1> HIDE DEF p4, s4
<1>9. ServiceRow(Rows!ApproveRow(row, amount, pricing, now))
        = Service!ApproveRow(old, amount, pricing, now)
  BY <1>1, <1>3, <1>6, <1>8
<1> QED
  BY <1>9 DEF old

-----------------------------------------------------------------------------
(* The refinement: slots.                                                  *)

\* The cells of the slot rows of a request are the slots the service inserts.
LEMMA ServiceNewSlots ==
  ASSUME TypeOK, NEW b \in Bookings, NEW seat \in Seats, NEW r \in Requests, Valid(r)
  PROVE  UNION {SlotCells(s) : s \in DaySlotRows(b, seat, r)}
           = Service!DaySlots(b, seat, Footprint[pricing][r])
<1> DEFINE w == WindowOf(r)
           dates == BookingDates(r.start, r.end)
           rows == DaySlotRows(b, seat, r)
           new == Service!DaySlots(b, seat, Footprint[pricing][r])
<1>1. new = [booking : {b}, seat : {seat}, cell : [date : dates, minute : Minutes(w)]]
  BY ValidFootprint DEF Service!DaySlots, CellsOf
<1>2. rows = [booking : {b}, seat : {seat}, date : dates, from : {w.from}, to : {w.to}]
  BY DEF DaySlotRows
<1> HIDE DEF dates, w, rows, new
<1>3. ASSUME NEW s \in rows
      PROVE  s.booking = b /\ s.seat = seat /\ s.date \in dates /\ Minutes(s) = Minutes(w)
  BY <1>2 DEF Minutes
<1>4. ASSUME NEW s \in rows, NEW x \in SlotCells(s)
      PROVE  x \in new
  BY <1>1, <1>3 DEF SlotCells
<1>5. ASSUME NEW x \in new
      PROVE  \E s \in rows : x \in SlotCells(s)
  <2> DEFINE s == [booking |-> b, seat |-> seat, date |-> x.cell.date,
                   from |-> w.from, to |-> w.to]
  <2>1. x.cell.date \in dates
    BY <1>1
  <2>2. s \in rows
    BY <1>2, <2>1
  <2>3. x \in SlotCells(s)
    BY <1>1, <1>3, <2>2 DEF SlotCells
  <2> QED
    BY <2>2, <2>3
<1> QED
  BY <1>4, <1>5 DEF rows, new

\* Deleting the rows of some bookings deletes their cells.
LEMMA ServiceDelete ==
  ASSUME NEW ids, NEW more, slots' = (slots \ SlotsOf(ids)) \cup more
  PROVE  ServiceSlots' = (ServiceSlots \ Service!SlotsOf(ServiceSlots, ids))
                           \cup UNION {SlotCells(s) : s \in more}
<1>1. \A s : \A x \in SlotCells(s) : x.booking = s.booking
  BY DEF SlotCells
<1>2. ServiceSlots' = UNION {SlotCells(s) : s \in slots'}
  BY DEF ServiceSlots, SlotCells, Minutes
<1> QED
  BY <1>1, <1>2 DEF ServiceSlots, SlotsOf, Service!SlotsOf

\* The conflict check is the service's.
LEMMA ServiceConflict ==
  ASSUME TypeOK, SlotsCoverTime, NEW seat \in Seats, NEW r \in Requests, Valid(r),
         NEW except
  PROVE  Conflict(seat, r, except) <=>
           Service!HasConflict(Footprint[pricing][r],
                               Service!Booked(ServiceSlots, seat, except))
<1> DEFINE dates == BookingDates(r.start, r.end)
           w == WindowOf(r)
           shares(s) == \E d \in dates, m \in Minutes(w) : d = s.date /\ m \in Minutes(s)
<1>1. Conflict(seat, r, except) <=>
        \E s \in slots : s.seat = seat /\ s.booking \notin except /\ shares(s)
  BY ConflictSharesMinute
<1>2. Footprint[pricing][r] = [date : dates, minute : Minutes(w)]
  BY ValidFootprint DEF CellsOf
<1> HIDE DEF dates, w
<1>3. ASSUME NEW s \in slots, s.seat = seat, s.booking \notin except, shares(s)
      PROVE  \E x \in Footprint[pricing][r] :
               x \in Service!Booked(ServiceSlots, seat, except)
  <2>1. PICK m \in Minutes(w) : s.date \in dates /\ m \in Minutes(s)
    BY <1>3
  <2> DEFINE x == [date |-> s.date, minute |-> m]
             slot == [booking |-> s.booking, seat |-> s.seat, cell |-> x]
  <2>2. x \in Footprint[pricing][r]
    BY <1>2, <2>1
  <2>3. slot \in SlotCells(s)
    BY <2>1 DEF SlotCells
  <2>4. slot \in ServiceSlots
    BY <2>3 DEF ServiceSlots
  <2>5. x \in Service!Booked(ServiceSlots, seat, except)
    BY <1>3, <2>4 DEF Service!Booked
  <2> QED
    BY <2>2, <2>5
<1>4. ASSUME NEW x \in Footprint[pricing][r],
             x \in Service!Booked(ServiceSlots, seat, except)
      PROVE  \E s \in slots : s.seat = seat /\ s.booking \notin except /\ shares(s)
  <2>1. PICK slot \in ServiceSlots :
          slot.seat = seat /\ slot.booking \notin except /\ slot.cell = x
    BY <1>4 DEF Service!Booked
  <2>2. PICK s \in slots : slot \in SlotCells(s)
    BY <2>1 DEF ServiceSlots
  <2>3. /\ s.seat = seat /\ s.booking \notin except
        /\ x.date = s.date /\ x.minute \in Minutes(s)
    BY <2>1, <2>2 DEF SlotCells
  <2>4. x.date \in dates /\ x.minute \in Minutes(w)
    BY <1>2, <1>4
  <2> QED
    BY <2>3, <2>4
<1> QED
  BY <1>1, <1>3, <1>4 DEF Service!HasConflict
-----------------------------------------------------------------------------
(* The refinement: steps.                                                  *)

\* An id is taken in both tables or in neither.
LEMMA ServicePresent ==
  ASSUME TypeOK, NEW b \in Bookings
  PROVE  /\ bookings[b] = NoRow => ServiceBookings[b] = Service!NoRow
         /\ bookings[b] # NoRow => /\ ServiceBookings[b] = ServiceRow(bookings[b])
                                   /\ ServiceBookings[b] # Service!NoRow
<1>1. Service!NoRow = NoRow /\ NoRow.status = "absent"
  BY DEF NoRow, Rows!NoRow, Service!NoRow
<1>2. ASSUME bookings[b] # NoRow
      PROVE  ServiceRow(bookings[b]).status \in Rows!BookingStatus
  BY <1>2, PresentRow DEF ServiceRow, BookingRow
<1>3. "absent" \notin Rows!BookingStatus
  BY DEF Rows!BookingStatus
<1>4. ServiceBookings[b] = IF bookings[b] = NoRow THEN NoRow ELSE ServiceRow(bookings[b])
  BY DEF ServiceBookings
<1> QED
  BY <1>1, <1>2, <1>3, <1>4

\* A step that stores one row stores it in the service.
LEMMA ServiceStore ==
  ASSUME TypeOK, NEW b \in Bookings, NEW row \in BookingRow,
         bookings' = [bookings EXCEPT ![b] = row]
  PROVE  ServiceBookings' = [ServiceBookings EXCEPT ![b] = ServiceRow(row)]
<1>1. row # NoRow
  BY DEF NoRow, Rows!NoRow, BookingRow, Rows!BookingStatus
<1>2. ServiceBookings' =
        [o \in Bookings |-> IF bookings'[o] = NoRow THEN NoRow ELSE ServiceRow(bookings'[o])]
  BY DEF ServiceBookings, ServiceRow, CellsOf, Minutes, BookingDates, NoRow, Rows!NoRow
<1>3. \A o \in Bookings : bookings'[o] = IF o = b THEN row ELSE bookings[o]
  BY DEF TypeOK
<1> DEFINE next == [ServiceBookings EXCEPT ![b] = ServiceRow(row)]
<1>4. next = [o \in Bookings |-> IF o = b THEN ServiceRow(row) ELSE ServiceBookings[o]]
  BY DEF ServiceBookings
<1>5. ASSUME NEW o \in Bookings
      PROVE  ServiceBookings'[o] = next[o]
  <2>1. CASE o = b
    BY <1>1, <1>2, <1>3, <1>4, <2>1
  <2>2. CASE o # b
    BY <1>2, <1>3, <1>4, <2>2 DEF ServiceBookings
  <2> QED
    BY <2>1, <2>2
<1> HIDE DEF next
<1>6. ServiceBookings' = next
  BY <1>2, <1>4, <1>5
<1> QED
  BY <1>6 DEF next

\* The guards read columns that both rows have.
LEMMA ServiceGuards ==
  ASSUME TypeOK, NEW row \in BookingRow
  PROVE  /\ \A u : Rows!Editable(row, u) <=> Service!Editable(ServiceRow(row), u)
         /\ \A r : Rows!Affordable(row, pricing, r)
                     <=> Service!Affordable(ServiceRow(row), pricing, r)
         /\ \A u : Rows!CanUpload(row, u, now) <=> Service!CanUpload(ServiceRow(row), u, now)
         /\ \A amount : Rows!CanApprove(row, amount)
                          <=> Service!CanApprove(ServiceRow(row), amount)
         /\ Rows!CanReject(row) <=> Service!CanReject(ServiceRow(row))
         /\ Rows!IsOverdue(row, now) <=> Service!IsOverdue(ServiceRow(row), now)
<1> DEFINE old == ServiceRow(row)
<1>1. /\ old.owner = row.owner /\ old.status = row.status /\ old.until = row.until
      /\ old.final = row.final /\ old.paid = row.paid
  BY DEF ServiceRow
<1>2. Rows!NoTime = Service!NoTime /\ Rows!NoAmount = Service!NoAmount
  BY DEF Rows!NoTime, Service!NoTime, Rows!NoAmount, Service!NoAmount
<1> HIDE DEF old
<1>3. \A u : Rows!Editable(row, u) <=> Service!Editable(old, u)
  BY <1>1 DEF Rows!Editable, Service!Editable
<1>4. \A r : Rows!Affordable(row, pricing, r) <=> Service!Affordable(old, pricing, r)
  BY <1>1 DEF Rows!Affordable, Service!Affordable
<1>5. \A u : Rows!CanUpload(row, u, now) <=> Service!CanUpload(old, u, now)
  BY <1>1, <1>2 DEF Rows!CanUpload, Service!CanUpload
<1>6. \A amount : Rows!CanApprove(row, amount) <=> Service!CanApprove(old, amount)
  BY <1>1, <1>2
  DEF Rows!CanApprove, Service!CanApprove, Rows!Outstanding, Service!Outstanding
<1>7. Rows!CanReject(row) <=> Service!CanReject(old)
  BY <1>1 DEF Rows!CanReject, Service!CanReject
<1>8. Rows!IsOverdue(row, now) <=> Service!IsOverdue(old, now)
  BY <1>1, <1>2 DEF Rows!IsOverdue, Service!IsOverdue
<1> QED
  BY <1>3, <1>4, <1>5, <1>6, <1>7, <1>8 DEF old

\* Slots that stay, or only go, do so in the service.
LEMMA ServiceSlotsStay ==
  /\ slots' = slots => ServiceSlots' = ServiceSlots
  /\ \A ids : slots' = slots \ SlotsOf(ids)
       => ServiceSlots' = ServiceSlots \ Service!SlotsOf(ServiceSlots, ids)
<1>1. slots' = slots => ServiceSlots' = ServiceSlots
  BY DEF ServiceSlots, SlotCells, Minutes
<1>2. ASSUME NEW ids, slots' = slots \ SlotsOf(ids)
      PROVE  ServiceSlots' = ServiceSlots \ Service!SlotsOf(ServiceSlots, ids)
  <2>1. slots' = (slots \ SlotsOf(ids)) \cup {}
    BY <1>2
  <2>2. ServiceSlots' = (ServiceSlots \ Service!SlotsOf(ServiceSlots, ids))
                          \cup UNION {SlotCells(s) : s \in {}}
    BY <2>1, ServiceDelete, Zenon
  <2>3. UNION {SlotCells(s) : s \in {}} = {}
    OBVIOUS
  <2> QED
    BY <2>2, <2>3, Zenon
<1> QED
  BY <1>1, <1>2

\* A creation over intervals is one over cells.
LEMMA ServiceCreate ==
  ASSUME TypeOK, SlotsCoverTime, NEW u \in Users, NEW b \in Bookings, NEW seat \in Seats,
         NEW r \in Requests, CreateBooking(u, b, seat, r)
  PROVE  Service!CreateBooking(u, b, seat, r)
<1>1. Valid(r)
  BY DEF CreateBooking
<1>2. ServiceBookings[b] = Service!NoRow /\ Service!Accepted(pricing, r)
  BY <1>1, ServicePresent, ValidFootprint DEF CreateBooking
<1>3. ~Service!HasConflict(Footprint[pricing][r], Service!Booked(ServiceSlots, seat, {}))
  BY <1>1, ServiceConflict DEF CreateBooking
<1>4. ServiceBookings' = [ServiceBookings EXCEPT ![b] = Service!NewRow(u, seat, pricing, r, now)]
  BY <1>1, NewRowType, ServiceStore, ServiceNewRow DEF CreateBooking
<1>5. ServiceSlots' = ServiceSlots \cup Service!DaySlots(b, seat, Footprint[pricing][r])
  <2>1. slots' = (slots \ SlotsOf({})) \cup DaySlotRows(b, seat, r)
    BY DEF CreateBooking, SlotsOf
  <2>2. Service!SlotsOf(ServiceSlots, {}) = {}
    BY DEF Service!SlotsOf
  <2> QED
    BY <1>1, <2>1, <2>2, ServiceDelete, ServiceNewSlots
<1> QED
  BY <1>2, <1>3, <1>4, <1>5 DEF CreateBooking, Service!CreateBooking

\* An edit over intervals is one over cells: the booking's own slots do not count
\* as a conflict in either.
LEMMA ServiceUpdate ==
  ASSUME TypeOK, SlotsCoverTime, NEW u \in Users, NEW b \in Bookings, NEW seat \in Seats,
         NEW r \in Requests, UpdateBooking(u, b, seat, r)
  PROVE  Service!UpdateBooking(u, b, seat, r)
<1>1. Valid(r) /\ bookings[b] # NoRow /\ bookings[b] \in BookingRow
  BY PresentRow DEF UpdateBooking
<1>2. /\ ServiceBookings[b] = ServiceRow(bookings[b]) /\ ServiceBookings[b] # Service!NoRow
      /\ Service!Accepted(pricing, r)
  BY <1>1, ServicePresent, ValidFootprint
<1>3. /\ Service!Editable(ServiceBookings[b], u)
      /\ Service!Affordable(ServiceBookings[b], pricing, r)
  <2>1. Rows!Editable(bookings[b], u) /\ Rows!Affordable(bookings[b], pricing, r)
    BY DEF UpdateBooking
  <2>2. /\ Service!Editable(ServiceRow(bookings[b]), u)
        /\ Service!Affordable(ServiceRow(bookings[b]), pricing, r)
    BY <1>1, <2>1, ServiceGuards, Zenon
  <2> QED
    BY <1>2, <2>2, Zenon
<1>4. ~Service!HasConflict(Footprint[pricing][r], Service!Booked(ServiceSlots, seat, {b}))
  BY <1>1, ServiceConflict DEF UpdateBooking
<1>5. ServiceBookings' = [ServiceBookings EXCEPT
                            ![b] = Service!EditRow(ServiceBookings[b], seat, pricing, r, now)]
  <2> DEFINE new == EditRow(bookings[b], seat, r)
  <2>1. bookings' = [bookings EXCEPT ![b] = new]
    BY DEF UpdateBooking
  <2>2. new \in BookingRow
    BY <1>1, EditRowColumns
  <2>3. ServiceRow(new) = Service!EditRow(ServiceRow(bookings[b]), seat, pricing, r, now)
    BY <1>1, ServiceEditRow
  <2> HIDE DEF new
  <2> QED
    BY <1>2, <2>1, <2>2, <2>3, ServiceStore, Zenon
<1>6. ServiceSlots' = (ServiceSlots \ Service!SlotsOf(ServiceSlots, {b}))
                        \cup Service!DaySlots(b, seat, Footprint[pricing][r])
  BY <1>1, ServiceDelete, ServiceNewSlots DEF UpdateBooking
<1> QED
  BY <1>2, <1>3, <1>4, <1>5, <1>6 DEF UpdateBooking, Service!UpdateBooking
\* The same, with the row that the service stores.
LEMMA ServiceRestore ==
  ASSUME TypeOK, NEW b \in Bookings, NEW row \in BookingRow, NEW served,
         bookings' = [bookings EXCEPT ![b] = row], ServiceRow(row) = served
  PROVE  ServiceBookings' = [ServiceBookings EXCEPT ![b] = served]
BY ServiceStore, Zenon

\* A payment proof, an approval and a rejection of a stored row are those of the
\* service.
LEMMA ServiceUpload ==
  ASSUME TypeOK, NEW u \in Users, NEW b \in Bookings, UploadPaymentProof(u, b)
  PROVE  Service!UploadPaymentProof(u, b)
<1> DEFINE row == bookings[b]
<1>1. row # NoRow /\ row \in BookingRow
  BY PresentRow DEF UploadPaymentProof
<1>2. ServiceBookings[b] = ServiceRow(row) /\ ServiceBookings[b] # Service!NoRow
  BY <1>1, ServicePresent
<1>3. Service!CanUpload(ServiceRow(row), u, now)
  <2>1. Rows!CanUpload(row, u, now)
    BY DEF UploadPaymentProof
  <2> QED
    BY <1>1, <2>1, ServiceGuards, Zenon
<1>4. ServiceBookings' = [ServiceBookings EXCEPT ![b] = Service!ProofRow(ServiceRow(row))]
  <2>1. bookings' = [bookings EXCEPT ![b] = Rows!ProofRow(row)]
    BY DEF UploadPaymentProof
  <2>2. Rows!ProofRow(row) \in BookingRow
    BY <1>1, StatusRowStay DEF SameStay
  <2> QED
    BY <1>1, <2>1, <2>2, ServiceRestore, ServiceStatusRow, Zenon
<1>5. ServiceSlots' = ServiceSlots /\ UNCHANGED <<pricing, now>>
  BY ServiceSlotsStay DEF UploadPaymentProof
<1> HIDE DEF row
<1> QED
  BY <1>2, <1>3, <1>4, <1>5 DEF Service!UploadPaymentProof

\* See ServiceUpload.
LEMMA ServiceApprove ==
  ASSUME TypeOK, NEW b \in Bookings, NEW amount \in Amounts \cup {Rows!NoAmount},
         ApprovePayment(b, amount)
  PROVE  Service!ApprovePayment(b, amount)
<1> DEFINE row == bookings[b]
<1>1. row # NoRow /\ row \in BookingRow
  BY PresentRow DEF ApprovePayment
<1>2. ServiceBookings[b] = ServiceRow(row) /\ ServiceBookings[b] # Service!NoRow
  BY <1>1, ServicePresent
<1>3. Service!CanApprove(ServiceRow(row), amount)
  <2>1. Rows!CanApprove(row, amount)
    BY DEF ApprovePayment
  <2> QED
    BY <1>1, <2>1, ServiceGuards, Zenon
<1>4. ServiceBookings' = [ServiceBookings EXCEPT
                            ![b] = Service!ApproveRow(ServiceRow(row), amount, pricing, now)]
  <2>1. bookings' = [bookings EXCEPT ![b] = Rows!ApproveRow(row, amount, pricing, now)]
    BY DEF ApprovePayment
  <2>2. Rows!ApproveRow(row, amount, pricing, now) \in BookingRow
    BY <1>1, ApproveRowStay DEF SameStay
  <2> QED
    BY <1>1, <2>1, <2>2, ServiceRestore, ServiceApproveRow, Zenon
<1>5. ServiceSlots' = ServiceSlots /\ UNCHANGED <<pricing, now>>
  BY ServiceSlotsStay DEF ApprovePayment
<1> HIDE DEF row
<1> QED
  BY <1>2, <1>3, <1>4, <1>5 DEF Service!ApprovePayment

\* See ServiceUpload.
LEMMA ServiceReject ==
  ASSUME TypeOK, NEW b \in Bookings, RejectPayment(b)
  PROVE  Service!RejectPayment(b)
<1> DEFINE row == bookings[b]
<1>1. row # NoRow /\ row \in BookingRow
  BY PresentRow DEF RejectPayment
<1>2. ServiceBookings[b] = ServiceRow(row) /\ ServiceBookings[b] # Service!NoRow
  BY <1>1, ServicePresent
<1>3. Service!CanReject(ServiceRow(row))
  <2>1. Rows!CanReject(row)
    BY DEF RejectPayment
  <2> QED
    BY <1>1, <2>1, ServiceGuards, Zenon
<1>4. ServiceBookings' = [ServiceBookings EXCEPT ![b] = Service!RejectRow(ServiceRow(row))]
  <2>1. bookings' = [bookings EXCEPT ![b] = Rows!RejectRow(row)]
    BY DEF RejectPayment
  <2>2. Rows!RejectRow(row) \in BookingRow
    BY <1>1, StatusRowStay DEF SameStay
  <2> QED
    BY <1>1, <2>1, <2>2, ServiceRestore, ServiceStatusRow, Zenon
<1>5. /\ ServiceSlots' = ServiceSlots \ Service!SlotsOf(ServiceSlots, {b})
      /\ UNCHANGED <<pricing, now>>
  BY ServiceSlotsStay DEF RejectPayment
<1> HIDE DEF row
<1> QED
  BY <1>2, <1>3, <1>4, <1>5 DEF Service!RejectPayment

\* The expiry pass finds the same bookings and releases the cells of their slots.
LEMMA ServiceExpire ==
  ASSUME TypeOK, ExpireReservedPast
  PROVE  Service!ExpireReservedPast
<1>1. Service!Overdue = Overdue
  <2>1. ASSUME NEW b \in Bookings
        PROVE  bookings[b] # NoRow /\ Rows!IsOverdue(bookings[b], now)
                 <=> /\ ServiceBookings[b] # Service!NoRow
                     /\ Service!IsOverdue(ServiceBookings[b], now)
    <3>1. CASE bookings[b] = NoRow
      BY <3>1, ServicePresent
    <3>2. CASE bookings[b] # NoRow
      <4>1. bookings[b] \in BookingRow
        BY <3>2, PresentRow
      <4>2. Rows!IsOverdue(bookings[b], now)
              <=> Service!IsOverdue(ServiceRow(bookings[b]), now)
        BY <4>1, ServiceGuards, Zenon
      <4> QED
        BY <3>2, <4>2, ServicePresent
    <3> QED
      BY <3>1, <3>2
  <2> QED
    BY <2>1 DEF Overdue, Service!Overdue
<1>2. ASSUME NEW b \in Bookings
      PROVE  ServiceBookings'[b] =
               IF b \in Overdue THEN Service!ExpireRow(ServiceBookings[b])
                                ELSE ServiceBookings[b]
  <2>1. ServiceBookings'[b] = IF bookings'[b] = NoRow THEN NoRow ELSE ServiceRow(bookings'[b])
    BY DEF ServiceBookings, ServiceRow, CellsOf, Minutes, BookingDates, NoRow, Rows!NoRow
  <2>2. bookings'[b] = IF b \in Overdue THEN Rows!ExpireRow(bookings[b]) ELSE bookings[b]
    BY DEF ExpireReservedPast
  <2>3. CASE b \in Overdue
    <3>1. bookings[b] \in BookingRow /\ bookings[b] # NoRow
      BY <2>3, PresentRow DEF Overdue
    <3>2. Rows!ExpireRow(bookings[b]) \in BookingRow
      BY <3>1, StatusRowStay DEF SameStay
    <3>3. Rows!ExpireRow(bookings[b]) # NoRow
      BY <3>2 DEF NoRow, Rows!NoRow, BookingRow, Rows!BookingStatus
    <3>4. ServiceRow(Rows!ExpireRow(bookings[b])) = Service!ExpireRow(ServiceRow(bookings[b]))
      BY <3>1, ServiceStatusRow, Zenon
    <3>5. ServiceBookings[b] = ServiceRow(bookings[b])
      BY <3>1, ServicePresent
    <3>6. ServiceBookings'[b] = ServiceRow(Rows!ExpireRow(bookings[b]))
      BY <2>1, <2>2, <2>3, <3>3
    <3> QED
      BY <2>3, <3>4, <3>5, <3>6
  <2>4. CASE b \notin Overdue
    BY <2>1, <2>2, <2>4 DEF ServiceBookings
  <2> QED
    BY <2>3, <2>4
<1>3. ServiceBookings' =
        [b \in Bookings |-> IF b \in Overdue THEN Service!ExpireRow(ServiceBookings[b])
                                             ELSE ServiceBookings[b]]
  <2>1. ServiceBookings' = [b \in Bookings |-> ServiceBookings'[b]]
    BY DEF ServiceBookings
  <2> QED
    BY <1>2, <2>1
<1>4. ServiceSlots' = ServiceSlots \ Service!SlotsOf(ServiceSlots, Overdue)
  <2>1. slots' = slots \ SlotsOf(Overdue)
    BY DEF ExpireReservedPast
  <2> QED
    BY <2>1, ServiceSlotsStay, Zenon
<1>5. Overdue # {} /\ UNCHANGED <<pricing, now>>
  BY DEF ExpireReservedPast
<1> HIDE DEF Overdue
<1> QED
  BY <1>1, <1>3, <1>4, <1>5 DEF Service!ExpireReservedPast

\* The stored rows do not change: neither do the service's.
LEMMA ServiceStay ==
  ASSUME UNCHANGED <<bookings, slots>>
  PROVE  ServiceBookings' = ServiceBookings /\ ServiceSlots' = ServiceSlots
BY ServiceSlotsStay DEF ServiceBookings, ServiceRow, CellsOf, Minutes, BookingDates, NoRow, Rows!NoRow

\* The constants that the rules compute are as RowsAssumption asks.
LEMMA ServiceConstants ==
  /\ Footprint \in [Configs -> [Requests -> SUBSET [date : Nat, minute : Nat]]]
  /\ [c \in Configs |-> [r \in Requests |-> Quote(c, r).final]]
       \in [Configs -> [Requests -> Int]]
  /\ [c \in Configs |-> c.timeout] \in [Configs -> Nat \ {0}]
<1>1. ASSUME NEW c \in Configs, NEW r \in Requests,
             r.start <= r.end, WindowAccepted(r, c.open, c.close)
      PROVE  CellsOf(r.start, r.end, ResolveWindow(r, c.open, c.close))
               \subseteq [date : Nat, minute : Nat]
  <2> DEFINE w == ResolveWindow(r, c.open, c.close)
  <2>1. w.from \in Nat /\ w.to \in Nat /\ r.start \in Nat /\ r.end \in Nat
    BY <1>1, WindowType, IntervalsAssumption DEF Window, Request
  <2> HIDE DEF w
  <2>2. BookingDates(r.start, r.end) \subseteq Nat /\ Minutes(w) \subseteq Nat
    BY <2>1 DEF BookingDates, Minutes
  <2>3. CellsOf(r.start, r.end, w) \subseteq [date : Nat, minute : Nat]
    BY <2>2 DEF CellsOf
  <2> QED
    BY <2>3 DEF w
<1>2. Footprint \in [Configs -> [Requests -> SUBSET [date : Nat, minute : Nat]]]
  BY <1>1 DEF Footprint
<1>3. \A c \in Configs : c.timeout \in Nat \ {0}
  BY IntervalsAssumption DEF PricingConfig
<1>4. \A c \in Configs, r \in Requests : Quote(c, r).final \in Int
  BY QuoteNear
<1> QED
  BY <1>2, <1>3, <1>4

\* Every step over intervals is a step of the service.
LEMMA ServiceStep ==
  ASSUME TypeOK, SlotsCoverTime, [Next]_vars
  PROVE  [Service!Next]_(Service!vars)
<1>1. ASSUME NEW u \in Users, NEW b \in Bookings, NEW seat \in Seats, NEW r \in Requests,
             CreateBooking(u, b, seat, r) \/ UpdateBooking(u, b, seat, r)
      PROVE  Service!Next
  BY <1>1, ServiceCreate, ServiceUpdate DEF Service!Next
<1>2. ASSUME NEW u \in Users, NEW b \in Bookings, UploadPaymentProof(u, b)
      PROVE  Service!Next
  BY <1>2, ServiceUpload DEF Service!Next
<1>3. ASSUME NEW b \in Bookings, NEW amount \in Amounts \cup {Rows!NoAmount},
             ApprovePayment(b, amount)
      PROVE  Service!Next
  BY <1>3, ServiceApprove DEF Service!Next, Rows!NoAmount, Service!NoAmount
<1>4. ASSUME NEW b \in Bookings, RejectPayment(b)
      PROVE  Service!Next
  BY <1>4, ServiceReject DEF Service!Next
<1>5. ASSUME NEW c \in Configs, UpdatePricing(c)
      PROVE  Service!Next
  <2>1. Service!UpdatePricing(c)
    BY <1>5, ServiceStay DEF UpdatePricing, Service!UpdatePricing
  <2> QED
    BY <2>1 DEF Service!Next
<1>6. ASSUME ExpireReservedPast
      PROVE  Service!Next
  BY <1>6, ServiceExpire DEF Service!Next
<1>7. ASSUME Tick
      PROVE  Service!Next
  <2>1. Service!Tick
    BY <1>7, ServiceStay DEF Tick, Service!Tick
  <2> QED
    BY <2>1 DEF Service!Next
<1>8. CASE UNCHANGED vars
  BY <1>8, ServiceStay DEF vars, Service!vars
<1>9. CASE Next
  BY <1>1, <1>2, <1>3, <1>4, <1>5, <1>6, <1>7, <1>9 DEF Next
<1> QED
  BY <1>8, <1>9

\* Dates, minutes and prices as they are stored implement the service with cells:
\* what BookingService_proofs proves holds of the stored rows.
THEOREM IntervalsImplementService == Spec => ImplementsService
<1>1. Init => Service!Init
  BY DEF Init, Service!Init, ServiceBookings, ServiceSlots, NoRow, Rows!NoRow, Service!NoRow
<1> QED
  BY <1>1, ServiceStep, TypeCorrect, PTL DEF Spec, ImplementsService, Service!Spec

-----------------------------------------------------------------------------
(* What follows for the stored rows.                                       *)

\* What is proved of the atomic service, for the stored rows.
Atomic == INSTANCE BookingService_proofs WITH
  Cells <- [date : Nat, minute : Nat], Plans <- Requests,
  Price <- [c \in Configs |-> [r \in Requests |-> Quote(c, r).final]],
  Timeout <- [c \in Configs |-> c.timeout],
  bookings <- ServiceBookings, slots <- ServiceSlots, NoHold <- NoRow

\* BookingService_proofs speaks of the service that the stored rows implement.
LEMMA SameService == ImplementsService => Atomic!Spec
BY DEF ImplementsService, Service!Spec, Atomic!Spec, Service!Init, Atomic!Init,
       Service!vars, Atomic!vars, Service!Next, Atomic!Next, Service!CreateBooking,
       Atomic!CreateBooking, Service!UpdateBooking, Atomic!UpdateBooking,
       Service!UploadPaymentProof, Atomic!UploadPaymentProof, Service!ApprovePayment,
       Atomic!ApprovePayment, Service!RejectPayment, Atomic!RejectPayment,
       Service!UpdatePricing, Atomic!UpdatePricing, Service!Overdue, Atomic!Overdue,
       Service!ExpireReservedPast, Atomic!ExpireReservedPast, Service!Tick,
       Atomic!Tick, Service!NoTime, Atomic!NoTime, Service!NoAmount, Atomic!NoAmount,
       Service!NoRow, Atomic!NoRow, Service!DaySlots, Atomic!DaySlots, Service!SlotsOf,
       Atomic!SlotsOf, Service!Booked, Atomic!Booked, Service!HasConflict,
       Atomic!HasConflict, Service!Accepted, Atomic!Accepted, Service!NewRow,
       Atomic!NewRow, Service!Editable, Atomic!Editable, Service!Affordable,
       Atomic!Affordable, Service!EditRow, Atomic!EditRow, Service!CanUpload,
       Atomic!CanUpload, Service!ProofRow, Atomic!ProofRow, Service!Outstanding,
       Atomic!Outstanding, Service!Credit, Atomic!Credit, Service!CanApprove,
       Atomic!CanApprove, Service!ApproveRow, Atomic!ApproveRow, Service!CanReject,
       Atomic!CanReject, Service!RejectRow, Atomic!RejectRow, Service!IsOverdue,
       Atomic!IsOverdue, Service!ExpireRow, Atomic!ExpireRow

\* The stored columns keep what BookingService promises: slot rows are those the
\* booking rows call for, deadline, screenshot and money fit the status, credits and
\* final statuses stay, and the whole is a ledger of exclusive claims.
THEOREM StoredRowsKeepPromises ==
  Spec => /\ [](/\ Atomic!SlotsMatchBookings /\ Atomic!OnlyReservedHasDeadline
                /\ Atomic!ProofMatchesStatus /\ Atomic!CompletedIsPaid)
          /\ Atomic!PaidNeverShrinks
          /\ Atomic!FinalStatusesStay
          /\ Atomic!ImplementsLedger
<1> QED
  BY IntervalsImplementService, SameService, ServiceConstants, IntervalsAssumption,
     Atomic!SlotsCorrect, Atomic!DeadlineCorrect, Atomic!ProofCorrect,
     Atomic!PaymentCorrect, Atomic!PaidOnlyGrows, Atomic!FinalStatuses,
     Atomic!LedgerImplemented, PTL

\* No two bookings have the same minute of the same date on a seat.
NoSharedMinute ==
  \A s, t \in slots :
    s.seat = t.seat /\ s.date = t.date /\ s.booking # t.booking =>
      Minutes(s) \cap Minutes(t) = {}

\* Requests with any dates and times, one after the other, never double-book a seat.
THEOREM NoMinuteTwice == Spec => []NoSharedMinute
<1>1. Atomic!Spec => []Atomic!SeatExclusive
  BY Atomic!NoDoubleBooking, ServiceConstants, IntervalsAssumption, PTL
<1>2. ASSUME Atomic!SeatExclusive, NEW s \in slots, NEW t \in slots,
             s.seat = t.seat, s.date = t.date, NEW m \in Minutes(s), m \in Minutes(t)
      PROVE  s.booking = t.booking
  <2> DEFINE cell(r) == [booking |-> r.booking, seat |-> r.seat,
                         cell |-> [date |-> r.date, minute |-> m]]
  <2>1. ASSUME NEW r \in slots, m \in Minutes(r)
        PROVE  cell(r) \in ServiceSlots
    BY <2>1 DEF ServiceSlots, SlotCells
  <2>2. cell(s) \in ServiceSlots /\ cell(t) \in ServiceSlots
    BY <1>2, <2>1
  <2> HIDE DEF cell
  <2>3. cell(s).seat = cell(t).seat /\ cell(s).cell = cell(t).cell
    BY <1>2 DEF cell
  <2>4. cell(s).booking = cell(t).booking
    BY <1>2, <2>2, <2>3 DEF Atomic!SeatExclusive
  <2> QED
    BY <2>4 DEF cell
<1>3. Atomic!SeatExclusive => NoSharedMinute
  BY <1>2 DEF NoSharedMinute
<1> QED
  BY <1>1, <1>3, IntervalsImplementService, SameService, PTL
=============================================================================

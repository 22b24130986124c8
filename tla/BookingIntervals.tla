-------------------------- MODULE BookingIntervals --------------------------
(***************************************************************************)
(* The booking service with the columns it really stores: dates, minutes,   *)
(* category and price breakdown instead of the cells and prices that module *)
(* BookingService takes as given.  A request is one atomic step, as there.  *)
(***************************************************************************)
EXTENDS StudyRules, StudyPricing

CONSTANTS
  Users, Bookings, Seats,
  Requests,    \* what users ask for
  Configs,     \* pricing configurations an admin may activate
  Amounts,     \* explicit amounts of an approval
  DayTicks,    \* ticks of the clock in a day
  MaxNow       \* bound of the clock, for TLC

\* A row of pricing_configs.
PricingConfig == [open : Nat, close : Nat, base : [Category -> Int],
                  discount : [Category -> Percent], surcharge : Percent,
                  timeout : Nat \ {0}]

\* update_pricing refuses a room that closes before it opens.
ASSUME IntervalsAssumption ==
  /\ Requests \subseteq Request
  /\ Configs \subseteq {c \in PricingConfig : c.open < c.close}
  /\ Amounts \subseteq Nat
  /\ DayTicks \in Nat \ {0} /\ MaxNow \in Nat

VARIABLES
  bookings,    \* table bookings: id -> row
  slots,       \* table seat_booking_days
  pricing,     \* the active row of pricing_configs
  now          \* the clock

vars == <<bookings, slots, pricing, now>>

-----------------------------------------------------------------------------
(* What BookingService leaves open: cells, footprints and prices.           *)

\* The cells of a window on some dates.
CellsOf(start, end, window) ==
  [date : BookingDates(start, end), minute : Minutes(window)]

Footprint ==
  [c \in Configs |-> [r \in Requests |->
     IF r.start <= r.end /\ WindowAccepted(r, c.open, c.close)
       THEN CellsOf(r.start, r.end, ResolveWindow(r, c.open, c.close)) ELSE {}]]

Quote(c, r) ==
  Breakdown(c, CategoryForDuration(DurationDays(r.start, r.end)), r.access)

Rows == INSTANCE BookingRows WITH
  Cells <- [date : Nat, minute : Nat], Plans <- Requests,
  Price <- [c \in Configs |-> [r \in Requests |-> Quote(c, r).final]],
  Timeout <- [c \in Configs |-> c.timeout]

NoRow == Rows!NoRow

Quotes == {Quote(c, r) : c \in Configs, r \in Requests}

\* The columns of a booking; `breakdown` has the category and the final price.
BookingRow == [owner : Users, seat : Seats, start : Nat, end : Nat, window : Window,
               days : Nat, breakdown : Quotes, final : Int,
               status : Rows!BookingStatus, until : Nat \cup {Rows!NoTime},
               paid : Nat, proof : BOOLEAN]

DaySlot == [booking : Bookings, seat : Seats, date : Nat, from : Nat, to : Nat]

TypeOK ==
  /\ bookings \in [Bookings -> BookingRow \cup {NoRow}]
  /\ slots \subseteq DaySlot
  /\ pricing \in Configs
  /\ now \in Nat

Init ==
  /\ bookings = [b \in Bookings |-> NoRow]
  /\ slots = {}
  /\ pricing \in Configs
  /\ now = 0

-----------------------------------------------------------------------------

Today == now \div DayTicks

\* _validate_dates and resolve_window let the request through.
Valid(r) ==
  /\ r.start <= r.end /\ Today <= r.start
  /\ WindowAccepted(r, pricing.open, pricing.close)

WindowOf(r) == ResolveWindow(r, pricing.open, pricing.close)

\* load_booked_intervals: for each date the windows taken on a seat.
BookedIntervals(seat, dates, except) ==
  [d \in dates |-> {[from |-> s.from, to |-> s.to] :
     s \in {x \in slots : x.seat = seat /\ x.date = d /\ x.booking \notin except}}]

HasConflict(window, booked, dates) ==
  \E d \in dates : \E i \in booked[d] : IntervalsOverlap(window, i)

\* The seat is taken for the window of r by a booking outside `except`.
Conflict(seat, r, except) ==
  LET dates == BookingDates(r.start, r.end)
  IN HasConflict(WindowOf(r), BookedIntervals(seat, dates, except), dates)

\* expand_day_slot_rows
DaySlotRows(b, seat, r) ==
  [booking : {b}, seat : {seat}, date : BookingDates(r.start, r.end),
   from : {WindowOf(r).from}, to : {WindowOf(r).to}]

SlotsOf(ids) == {s \in slots : s.booking \in ids}

\* The row create_booking inserts.
NewRow(u, seat, r) ==
  [owner |-> u, seat |-> seat, start |-> r.start, end |-> r.end,
   window |-> WindowOf(r), days |-> DurationDays(r.start, r.end),
   breakdown |-> Quote(pricing, r), final |-> Quote(pricing, r).final,
   status |-> "reserved", until |-> now + pricing.timeout, paid |-> 0, proof |-> FALSE]

\* Mutant of EditRow: the price is the new one, the breakdown the old one.
EditRowKeepsBreakdown(row, seat, r) ==
  IF row.status = "completed" /\ Quote(pricing, r).final = row.paid
    THEN [NewRow(row.owner, seat, r) EXCEPT
            !.status = row.status, !.until = row.until, !.proof = row.proof,
            !.paid = row.paid, !.breakdown = row.breakdown]
    ELSE [NewRow(row.owner, seat, r) EXCEPT
            !.paid = row.paid, !.breakdown = row.breakdown]

\* update_booking assigns every column but the owner and paid_amount; a booking
\* that stays COMPLETED keeps its status, deadline and screenshot too.
EditRow(row, seat, r) ==
  IF row.status = "completed" /\ Quote(pricing, r).final = row.paid
    THEN [NewRow(row.owner, seat, r) EXCEPT
            !.status = row.status, !.until = row.until, !.proof = row.proof,
            !.paid = row.paid]
    ELSE [NewRow(row.owner, seat, r) EXCEPT !.paid = row.paid]

-----------------------------------------------------------------------------

CreateBooking(u, b, seat, r) ==
  /\ bookings[b] = NoRow
  /\ Valid(r)
  /\ ~Conflict(seat, r, {})
  /\ bookings' = [bookings EXCEPT ![b] = NewRow(u, seat, r)]
  /\ slots' = slots \cup DaySlotRows(b, seat, r)
  /\ UNCHANGED <<pricing, now>>

UpdateBooking(u, b, seat, r) ==
  /\ bookings[b] # NoRow
  /\ Rows!Editable(bookings[b], u)
  /\ Valid(r)
  /\ ~Conflict(seat, r, {b})
  /\ Rows!Affordable(bookings[b], pricing, r)
  /\ bookings' = [bookings EXCEPT ![b] = EditRow(@, seat, r)]
  /\ slots' = (slots \ SlotsOf({b})) \cup DaySlotRows(b, seat, r)
  /\ UNCHANGED <<pricing, now>>

\* The operations that look at neither dates nor times.
UploadPaymentProof(u, b) ==
  /\ bookings[b] # NoRow
  /\ Rows!CanUpload(bookings[b], u, now)
  /\ bookings' = [bookings EXCEPT ![b] = Rows!ProofRow(@)]
  /\ UNCHANGED <<slots, pricing, now>>

ApprovePayment(b, amount) ==
  /\ bookings[b] # NoRow
  /\ Rows!CanApprove(bookings[b], amount)
  /\ bookings' = [bookings EXCEPT ![b] = Rows!ApproveRow(@, amount, pricing, now)]
  /\ UNCHANGED <<slots, pricing, now>>

RejectPayment(b) ==
  /\ bookings[b] # NoRow
  /\ Rows!CanReject(bookings[b])
  /\ bookings' = [bookings EXCEPT ![b] = Rows!RejectRow(@)]
  /\ slots' = slots \ SlotsOf({b})
  /\ UNCHANGED <<pricing, now>>

UpdatePricing(c) ==
  /\ c # pricing
  /\ pricing' = c
  /\ UNCHANGED <<bookings, slots, now>>

Overdue == {b \in Bookings : bookings[b] # NoRow /\ Rows!IsOverdue(bookings[b], now)}

ExpireReservedPast ==
  /\ Overdue # {}
  /\ bookings' = [b \in Bookings |->
       IF b \in Overdue THEN Rows!ExpireRow(bookings[b]) ELSE bookings[b]]
  /\ slots' = slots \ SlotsOf(Overdue)
  /\ UNCHANGED <<pricing, now>>

Tick ==
  /\ now < MaxNow
  /\ now' = now + 1
  /\ UNCHANGED <<bookings, slots, pricing>>

Next ==
  \/ \E u \in Users, b \in Bookings, seat \in Seats, r \in Requests :
       CreateBooking(u, b, seat, r) \/ UpdateBooking(u, b, seat, r)
  \/ \E u \in Users, b \in Bookings : UploadPaymentProof(u, b)
  \/ \E b \in Bookings, amount \in Amounts \cup {Rows!NoAmount} : ApprovePayment(b, amount)
  \/ \E b \in Bookings : RejectPayment(b)
  \/ \E c \in Configs : UpdatePricing(c)
  \/ ExpireReservedPast
  \/ Tick

Spec == Init /\ [][Next]_vars

-----------------------------------------------------------------------------
(* Answers for the clients: nothing changes.                               *)

\* Mutant of UnavailableSeats: the windows of all dates are compared at once, as
\* without the key of the inner dictionary.
UnavailableOnAnyDate(r) ==
  {seat \in Seats : \E s \in slots : s.seat = seat
     /\ IntervalsOverlap(WindowOf(r), [from |-> s.from, to |-> s.to])}

\* seats_availability: one query for all seats.
UnavailableSeats(r) ==
  LET dates == BookingDates(r.start, r.end)
      found == {s \in slots : s.date \in dates}
      perSeat == [seat \in {s.seat : s \in found} |->
                    [d \in dates |-> {[from |-> s.from, to |-> s.to] :
                       s \in {x \in found : x.seat = seat /\ x.date = d}}]]
  IN {seat \in DOMAIN perSeat : HasConflict(WindowOf(r), perSeat[seat], dates)}

\* check_availability: one seat, before the form is sent.
Available(seat, r) == ~Conflict(seat, r, {})

-----------------------------------------------------------------------------
(* Correctness.                                                            *)

\* Two windows conflict exactly when they share a minute of a date: no double
\* booking slips through the comparison of ends, and a slot that only touches the
\* window, or takes the same hours of another date, refuses nobody.
ConflictIsSharedMinute ==
  \A seat \in Seats, r \in Requests : Valid(r) =>
    (Conflict(seat, r, {}) <=>
       \E s \in slots :
         /\ s.seat = seat
         /\ \E d \in BookingDates(r.start, r.end), m \in Minutes(WindowOf(r)) :
              d = s.date /\ m \in Minutes(s))

\* The seat map and the check of a single seat say the same as the booking itself
\* would.
AvailabilityAgrees ==
  \A r \in Requests : Valid(r) =>
    UnavailableSeats(r) = {seat \in Seats : ~Available(seat, r)}

\* The snapshot stored with a booking is the one its price and its dates were
\* computed from, also after edits and price changes: the invoice adds up.
InvoiceAddsUp ==
  \A b \in Bookings : bookings[b] # NoRow =>
    LET row == bookings[b]
        q == row.breakdown
    IN /\ row.final = q.final /\ q.final = q.discounted + q.surcharge
       /\ row.days = DurationDays(row.start, row.end)
       /\ q.category = CategoryForDuration(row.days)

\* Rounding twice costs nobody more than half a cent for each time.
PriceIsFair ==
  \A b \in Bookings : bookings[b] # NoRow =>
    LET q == bookings[b].breakdown
        error == 2 * (Whole * Whole * q.final - ExactScaled(q))
    IN -(Whole * RoundingScaled(q)) <= error /\ error <= Whole * RoundingScaled(q)

-----------------------------------------------------------------------------
(* The stored columns implement the booking service.                       *)

ServiceRow(row) ==
  [owner |-> row.owner, seat |-> row.seat,
   cells |-> CellsOf(row.start, row.end, row.window), status |-> row.status,
   until |-> row.until, final |-> row.final, paid |-> row.paid, proof |-> row.proof]

ServiceBookings ==
  [b \in Bookings |-> IF bookings[b] = NoRow THEN NoRow ELSE ServiceRow(bookings[b])]

\* A slot row stands for its minutes.
SlotCells(s) ==
  [booking : {s.booking}, seat : {s.seat}, cell : [date : {s.date}, minute : Minutes(s)]]

ServiceSlots == UNION {SlotCells(s) : s \in slots}

Service == INSTANCE BookingService WITH
  Cells <- [date : Nat, minute : Nat], Plans <- Requests,
  Price <- [c \in Configs |-> [r \in Requests |-> Quote(c, r).final]],
  Timeout <- [c \in Configs |-> c.timeout],
  bookings <- ServiceBookings, slots <- ServiceSlots, NoHold <- NoRow

\* Every behaviour with intervals is one of the service with cells, so what is
\* proved about BookingService holds of the stored rows.
ImplementsService == Service!Spec
=============================================================================

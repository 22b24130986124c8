--------------------------- MODULE BookingService ---------------------------
(***************************************************************************)
(* The booking service with its requests one after the other: each action   *)
(* is one request that succeeds (create, edit, payment proof, approval,     *)
(* rejection, pricing) or one pass of the expiry job, from its first read   *)
(* to its commit.  A request that is refused raises ValueError and leaves   *)
(* the database as it was: it is an action that is not enabled.             *)
(***************************************************************************)
EXTENDS BookingRows

CONSTANTS
  MaxNow,     \* bound of the clock, for TLC
  NoHold      \* a booking that claims nothing, for the refinement at the end

ASSUME ClockAssumption == MaxNow \in Nat

VARIABLES
  bookings,   \* table bookings: id -> row
  slots,      \* table seat_booking_days
  pricing,    \* the active row of pricing_configs
  now         \* the clock

vars == <<bookings, slots, pricing, now>>

TypeOK ==
  /\ bookings \in [Bookings -> BookingRow \cup {NoRow}]
  /\ slots \subseteq DaySlot
  /\ pricing \in Configs
  /\ now \in Nat

Init ==
  /\ bookings = [b \in Bookings |-> NoRow]
  /\ slots = {}
  /\ pricing \in Configs
  /\ now = 0

-----------------------------------------------------------------------------

CreateBooking(u, b, seat, p) ==
  /\ bookings[b] = NoRow
  /\ Accepted(pricing, p)
  /\ ~HasConflict(Footprint[pricing][p], Booked(slots, seat, {}))
  /\ bookings' = [bookings EXCEPT ![b] = NewRow(u, seat, pricing, p, now)]
  /\ slots' = slots \cup DaySlots(b, seat, Footprint[pricing][p])
  /\ UNCHANGED <<pricing, now>>

UpdateBooking(u, b, seat, p) ==
  /\ bookings[b] # NoRow
  /\ Editable(bookings[b], u)
  /\ Accepted(pricing, p)
  /\ ~HasConflict(Footprint[pricing][p], Booked(slots, seat, {b}))
  /\ Affordable(bookings[b], pricing, p)
  /\ bookings' = [bookings EXCEPT ![b] = EditRow(@, seat, pricing, p, now)]
  /\ slots' = (slots \ SlotsOf(slots, {b}))
                \cup DaySlots(b, seat, Footprint[pricing][p])
  /\ UNCHANGED <<pricing, now>>

UploadPaymentProof(u, b) ==
  /\ bookings[b] # NoRow
  /\ CanUpload(bookings[b], u, now)
  /\ bookings' = [bookings EXCEPT ![b] = ProofRow(@)]
  /\ UNCHANGED <<slots, pricing, now>>

ApprovePayment(b, amount) ==
  /\ bookings[b] # NoRow
  /\ CanApprove(bookings[b], amount)
  /\ bookings' = [bookings EXCEPT ![b] = ApproveRow(@, amount, pricing, now)]
  /\ UNCHANGED <<slots, pricing, now>>

RejectPayment(b) ==
  /\ bookings[b] # NoRow
  /\ CanReject(bookings[b])
  /\ bookings' = [bookings EXCEPT ![b] = RejectRow(@)]
  /\ slots' = slots \ SlotsOf(slots, {b})
  /\ UNCHANGED <<pricing, now>>

\* Deactivates every configuration and inserts the new one as active.
UpdatePricing(c) ==
  /\ c # pricing
  /\ pricing' = c
  /\ UNCHANGED <<bookings, slots, now>>

Overdue == {b \in Bookings : bookings[b] # NoRow /\ IsOverdue(bookings[b], now)}

\* One pass of the expiry job that finds something to expire.
ExpireReservedPast ==
  /\ Overdue # {}
  /\ bookings' = [b \in Bookings |->
                    IF b \in Overdue THEN ExpireRow(bookings[b]) ELSE bookings[b]]
  /\ slots' = slots \ SlotsOf(slots, Overdue)
  /\ UNCHANGED <<pricing, now>>

Tick ==
  /\ now < MaxNow
  /\ now' = now + 1
  /\ UNCHANGED <<bookings, slots, pricing>>

Next ==
  \/ \E u \in Users, b \in Bookings, seat \in Seats, p \in Plans :
       CreateBooking(u, b, seat, p) \/ UpdateBooking(u, b, seat, p)
  \/ \E u \in Users, b \in Bookings : UploadPaymentProof(u, b)
  \/ \E b \in Bookings, amount \in Amounts \cup {NoAmount} : ApprovePayment(b, amount)
  \/ \E b \in Bookings : RejectPayment(b)
  \/ \E c \in Configs : UpdatePricing(c)
  \/ ExpireReservedPast
  \/ Tick

Spec == Init /\ [][Next]_vars

-----------------------------------------------------------------------------
(* Correctness.                                                            *)

Live(b) == bookings[b].status \in {"reserved", "payment_pending", "completed"}

\* No double booking: a cell of a seat belongs to at most one booking, whatever
\* sequence of creations, edits, expiries and rejections led here.
SeatExclusive ==
  \A s, r \in slots : s.seat = r.seat /\ s.cell = r.cell => s.booking = r.booking

\* The slot rows are exactly what the booking rows say: a live booking holds the
\* whole of its window on its own seat and nothing else, and a booking that is
\* rejected or expired has given everything back.
SlotsMatchBookings ==
  \A b \in Bookings :
    SlotsOf(slots, {b}) =
      IF Live(b) THEN DaySlots(b, bookings[b].seat, bookings[b].cells) ELSE {}

\* A hold that nobody pays for is always on the expiry job's list: every RESERVED
\* booking has a deadline, and no other booking has one.
OnlyReservedHasDeadline ==
  \A b \in Bookings : bookings[b] # NoRow =>
    (bookings[b].status = "reserved" <=> bookings[b].until # NoTime)

\* The pending-payments queue never shows a booking without a screenshot, and a
\* screenshot never outlives the amount it was taken for.
ProofMatchesStatus ==
  \A b \in Bookings : bookings[b] # NoRow =>
    (bookings[b].proof <=> bookings[b].status \in
       {"payment_pending", "completed", "rejected"})

\* A COMPLETED booking is paid in full, also after it was edited.
CompletedIsPaid ==
  \A b \in Bookings : bookings[b].status = "completed" =>
    bookings[b].paid >= bookings[b].final

\* No operation takes back money an admin has credited.
PaidNeverShrinks ==
  [][\A b \in Bookings : bookings[b] # NoRow => bookings'[b].paid >= bookings[b].paid]_vars

\* REJECTED and EXPIRED are final, and the only way out of COMPLETED is the edit
\* to a dearer plan, which asks for the difference.
FinalStatusesStay ==
  [][\A b \in Bookings :
       /\ bookings[b].status \in {"rejected", "expired"} => bookings'[b] = bookings[b]
       /\ bookings[b].status = "completed" =>
            \/ bookings'[b].status = "completed"
            \/ bookings'[b].status = "reserved" /\ bookings'[b].final > bookings'[b].paid]_vars

\* Claimed by the edit's own message, "Paid bookings cannot be changed to a cheaper
\* plan": no step makes a booking cost less than what was already paid for it.
PaidPlanNotCheaper ==
  [][\A b \in Bookings :
       bookings[b] # NoRow /\ bookings'[b].final < bookings[b].final
         => bookings'[b].final >= bookings[b].paid]_vars

-----------------------------------------------------------------------------
(* The service implements the ledger of claims.                            *)

SeatHold ==
  [b \in Bookings |->
     IF Live(b) THEN [seat |-> bookings[b].seat, cells |-> bookings[b].cells]
                ELSE NoHold]

Ledger == INSTANCE SeatLedger WITH hold <- SeatHold

\* Seats as the booking rows describe them follow the abstract ledger: a step
\* takes one claim that is free or gives claims back.
ImplementsLedger == Ledger!Spec
=============================================================================

---------------------------- MODULE BookingRows ----------------------------
(***************************************************************************)
(* The rows of the tables `bookings` and `seat_booking_days`, and what each *)
(* operation of BookingService does to them.  The operators are pure: the   *)
(* modules BookingService (one request at a time) and BookingTxn (requests  *)
(* interleaved statement by statement) apply them to their own state.       *)
(*                                                                          *)
(* The data is abstracted as follows.                                       *)
(*  - A cell is one minute of one date.  A day slot (date, start_minute,    *)
(*    end_minute) is the set of its cells, so two slots of one seat overlap *)
(*    exactly when they share a cell.                                       *)
(*  - A plan is what a request asks for beside the seat: dates, access type *)
(*    and times.  Footprint[c][p] is the set of cells resolve_window gives  *)
(*    plan p under pricing configuration c, {} when it raises ValueError;   *)
(*    Price[c][p] is the price, in cents, compute_stored_breakdown gives.   *)
(*  - payment_proof_path is kept as the fact that there is one.             *)
(*  - Times are ticks of one clock; amounts are whole cents.                *)
(***************************************************************************)
EXTENDS Integers

CONSTANTS
  Users,      \* the Cognito subs that own bookings
  Bookings,   \* the booking ids (UUIDs) there is room for
  Seats,      \* the rows of the table seats
  Cells,      \* (date, minute) pairs
  Plans,      \* dates, access type and times a request may ask for
  Configs,    \* the pricing configurations an admin may activate
  Footprint,  \* [Configs -> [Plans -> SUBSET Cells]]
  Price,      \* [Configs -> [Plans -> Int]]; the API takes any base price
  Timeout,    \* [Configs -> Nat \ {0}]: reservation_timeout_minutes
  Amounts     \* explicit amounts of an approval, after rounding to cents

ASSUME RowsAssumption ==
  /\ Footprint \in [Configs -> [Plans -> SUBSET Cells]]
  /\ Price \in [Configs -> [Plans -> Int]]
  /\ Timeout \in [Configs -> Nat \ {0}]
  /\ Amounts \subseteq Nat

NoTime == -1      \* reserved_until IS NULL
NoAmount == -1    \* an approval whose body has no amount

BookingStatus == {"reserved", "payment_pending", "completed", "rejected", "expired"}

\* The columns of a booking that some decision of the code reads.
BookingRow == [owner : Users, seat : Seats, cells : SUBSET Cells,
               status : BookingStatus, until : Nat \cup {NoTime},
               final : Int, paid : Nat, proof : BOOLEAN]

NoRow == [status |-> "absent"]   \* the id is not in the table

DaySlot == [booking : Bookings, seat : Seats, cell : Cells]

-----------------------------------------------------------------------------
(* Day slots.                                                              *)

\* expand_day_slot_rows: the slot rows of booking b on a seat.
DaySlots(b, seat, cells) == [booking : {b}, seat : {seat}, cell : cells]

\* Mutant of SlotsOf: the DELETE that was forgotten.
SlotsKept(slots, ids) == {}

\* The slot rows `DELETE ... WHERE booking_id IN ids` names.
SlotsOf(slots, ids) == {s \in slots : s.booking \in ids}

\* load_booked_intervals: the cells of a seat taken by bookings outside `except`.
Booked(slots, seat, except) ==
  {s.cell : s \in {r \in slots : r.seat = seat /\ r.booking \notin except}}

\* Mutant of HasConflict: a slot conflicts only when the whole window is taken,
\* as it would with a unique slot key per row.
HasConflictByKey(cells, booked) == cells \subseteq booked

HasConflict(cells, booked) == cells \cap booked # {}

-----------------------------------------------------------------------------
(* Booking rows.  c is the active pricing configuration the request read   *)
(* and t the value of its _utcnow().                                       *)

\* resolve_window accepts plan p under configuration c.
Accepted(c, p) == Footprint[c][p] # {}

\* The row create_booking inserts.
NewRow(u, seat, c, p, t) ==
  [owner |-> u, seat |-> seat, cells |-> Footprint[c][p], status |-> "reserved",
   until |-> t + Timeout[c], final |-> Price[c][p], paid |-> 0, proof |-> FALSE]

\* Mutant of Editable: an edit revives rejected and expired bookings.
EditableAlways(row, u) == row.owner = u

Editable(row, u) ==
  /\ row.status \in {"reserved", "payment_pending", "completed"}
  /\ row.owner = u

\* A booking that is COMPLETED may not become cheaper than what was paid.
Affordable(row, c, p) == row.status = "completed" => Price[c][p] >= row.paid

\* Mutant of EditRow: an upgrade of a paid booking stays COMPLETED.
EditRowKeepsPaid(row, seat, c, p, t) ==
  LET moved == [row EXCEPT !.seat = seat, !.cells = Footprint[c][p],
                           !.final = Price[c][p]]
  IN IF row.status = "completed"
       THEN moved
       ELSE [moved EXCEPT !.status = "reserved", !.until = t + Timeout[c],
                          !.proof = FALSE]

\* Mutant of EditRow: the screenshot of the old amount is kept.
EditRowKeepsProof(row, seat, c, p, t) ==
  LET moved == [row EXCEPT !.seat = seat, !.cells = Footprint[c][p],
                           !.final = Price[c][p]]
  IN IF row.status = "completed" /\ Price[c][p] = row.paid
       THEN moved
       ELSE [moved EXCEPT !.status = "reserved", !.until = t + Timeout[c]]

\* The columns update_booking assigns.
EditRow(row, seat, c, p, t) ==
  LET moved == [row EXCEPT !.seat = seat, !.cells = Footprint[c][p],
                           !.final = Price[c][p]]
  IN IF row.status = "completed" /\ Price[c][p] = row.paid
       THEN moved
       ELSE [moved EXCEPT !.status = "reserved", !.until = t + Timeout[c],
                          !.proof = FALSE]

CanUpload(row, u, t) ==
  /\ row.status = "reserved"
  /\ row.owner = u
  /\ row.until # NoTime => t <= row.until

\* Mutant of ProofRow: the deadline is not cleared.
ProofRowKeepsDeadline(row) == [row EXCEPT !.proof = TRUE, !.status = "payment_pending"]

ProofRow(row) ==
  [row EXCEPT !.proof = TRUE, !.status = "payment_pending", !.until = NoTime]

Outstanding(row) == IF row.final > row.paid THEN row.final - row.paid ELSE 0

\* The amount an approval credits.  An explicit amount is positive, yet it may
\* round to 0 cents; the default, what is outstanding, is refused when it is 0.
Credit(row, amount) == IF amount = NoAmount THEN Outstanding(row) ELSE amount

CanApprove(row, amount) ==
  /\ row.status = "payment_pending"
  /\ amount = NoAmount => Outstanding(row) > 0

\* Mutant of ApproveRow: the credit replaces what was paid before.
ApproveRowOverwrites(row, amount, c, t) ==
  LET paid == Credit(row, amount)
  IN IF paid >= row.final
       THEN [row EXCEPT !.paid = paid, !.status = "completed"]
       ELSE [row EXCEPT !.paid = paid, !.status = "reserved",
                        !.until = t + Timeout[c], !.proof = FALSE]

ApproveRow(row, amount, c, t) ==
  LET paid == row.paid + Credit(row, amount)
  IN IF paid >= row.final
       THEN [row EXCEPT !.paid = paid, !.status = "completed"]
       ELSE [row EXCEPT !.paid = paid, !.status = "reserved",
                        !.until = t + Timeout[c], !.proof = FALSE]

CanReject(row) == row.status = "payment_pending"

RejectRow(row) == [row EXCEPT !.status = "rejected"]

\* The WHERE clause of the expiry job, and what its UPDATE sets.
IsOverdue(row, t) == row.status = "reserved" /\ row.until # NoTime /\ row.until < t

\* Mutants of ExpireRow: the status in the upper case of the wire format; the
\* pass that deletes the slots and forgets the UPDATE.
ExpireRowUpperCase(row) == [row EXCEPT !.status = "EXPIRED", !.until = NoTime]
ExpireRowUnchanged(row) == row

ExpireRow(row) == [row EXCEPT !.status = "expired", !.until = NoTime]

=============================================================================

----------------------------- MODULE SlotLedger -----------------------------
(***************************************************************************)
(* What the table of slots keeps of SeatLedger when transactions interleave.*)
(* A booking still takes only a whole window that is free, and loses slots  *)
(* only to its own move or to its own end.  But it may take them after its  *)
(* end, and it may end, or move, without giving all of them back: a         *)
(* transaction deletes the slots it saw and writes over a row that it read. *)
(***************************************************************************)
CONSTANTS Bookings, Seats, Cells

VARIABLES
  slots,    \* the slots taken
  closed    \* the bookings that have ended: REJECTED or EXPIRED

ledger == <<slots, closed>>

Init == slots = {} /\ closed = {}

SlotsOf(ids) == {s \in slots : s.booking \in ids}

\* No other booking has one of these cells of this seat.
FreeFor(b, seat, cells) ==
  \A s \in slots : s.seat = seat /\ s.cell \in cells => s.booking = b

\* A booking takes a whole window, for some of the slots it had; a closed one may
\* be open again.
Take(b, seat, cells) ==
  /\ cells # {}
  /\ FreeFor(b, seat, cells)
  /\ \E given \in SUBSET SlotsOf({b}) :
       slots' = (slots \ given) \cup [booking : {b}, seat : {seat}, cell : cells]
  /\ closed' \in {closed, closed \ {b}}

\* Bookings end and give slots back.
Close(ids) ==
  /\ \E given \in SUBSET SlotsOf(ids) : slots' = slots \ given
  /\ closed' = closed \cup ids

\* A closed booking is open again.
Reopen(b) == closed' = closed \ {b} /\ UNCHANGED slots

Next ==
  \/ \E b \in Bookings, seat \in Seats, cells \in SUBSET Cells : Take(b, seat, cells)
  \/ \E ids \in SUBSET Bookings : Close(ids)
  \/ \E b \in Bookings : Reopen(b)

Spec == Init /\ [][Next]_ledger
=============================================================================

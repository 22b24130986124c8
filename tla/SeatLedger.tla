----------------------------- MODULE SeatLedger -----------------------------
(***************************************************************************)
(* What the booking service promises about seats, with nothing of how: each *)
(* booking holds one claim (some cells of one seat) or none, and a cell of  *)
(* a seat is claimed by at most one booking.                                *)
(***************************************************************************)
CONSTANTS
  Bookings, Seats, Cells,
  NoHold     \* a booking without a claim

VARIABLE hold   \* hold[b]: the claim of booking b

Claim == [seat : Seats, cells : (SUBSET Cells) \ {{}}]

Init == hold = [b \in Bookings |-> NoHold]

\* No booking other than b claims any of these cells of this seat.
FreeFor(b, claim) ==
  \A o \in Bookings \ {b} :
    hold[o] # NoHold /\ hold[o].seat = claim.seat
      => hold[o].cells \cap claim.cells = {}

\* A booking takes a claim, giving up the one it held.
Take(b, claim) ==
  /\ FreeFor(b, claim)
  /\ hold' = [hold EXCEPT ![b] = claim]

\* Some bookings give up their claims.
Release(ids) ==
  hold' = [b \in Bookings |-> IF b \in ids THEN NoHold ELSE hold[b]]

Next ==
  \/ \E b \in Bookings, claim \in Claim : Take(b, claim)
  \/ \E ids \in SUBSET Bookings : Release(ids)

Spec == Init /\ [][Next]_hold

\* No two bookings ever claim one cell of one seat.
Exclusive ==
  \A b, o \in Bookings :
    b # o /\ hold[b] # NoHold /\ hold[o] # NoHold /\ hold[b].seat = hold[o].seat
      => hold[b].cells \cap hold[o].cells = {}
=============================================================================

--------------------------- MODULE MCBookingTxn ---------------------------
(* Instances of BookingTxn for TLC.  One cell makes every two windows of a   *)
(* seat conflict.  Two of the configurations differ in the price, under the  *)
(* third the study room is closed.                                           *)
EXTENDS BookingTxn, TLC

CONSTANTS cheap, dear, closed

MCFootprint == [c \in Configs |-> [p \in Plans |-> IF c = closed THEN {} ELSE Cells]]
MCPrice == [c \in Configs |-> [p \in Plans |-> IF c = cheap THEN 1 ELSE 2]]
MCTimeout == [c \in Configs |-> 1]

Symmetry == Permutations(Handlers) \cup Permutations(Bookings) \cup Permutations(Seats)
===========================================================================

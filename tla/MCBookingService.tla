------------------------- MODULE MCBookingService -------------------------
(* Instances of BookingService for TLC. *)
EXTENDS BookingService, TLC

\* Two three-hour slots and the whole day; the second configuration closes the
\* room at noon, makes the day dearer and the hold shorter.
CONSTANTS am, pm, morning, evening, anytime, long, short

MCCells == {am, pm}
MCPlans == {morning, evening, anytime}
MCConfigs == {long, short}
MCFootprint == (long  :> (morning :> {am} @@ evening :> {pm} @@ anytime :> {am, pm}))
            @@ (short :> (morning :> {am} @@ evening :> {} @@ anytime :> {am}))
MCPrice == (long  :> (morning :> 1 @@ evening :> 1 @@ anytime :> 2))
        @@ (short :> (morning :> 1 @@ evening :> 0 @@ anytime :> 3))
MCTimeout == (long :> 2 @@ short :> 1)

Symmetry == Permutations(Users) \cup Permutations(Bookings) \cup Permutations(Seats)
===========================================================================

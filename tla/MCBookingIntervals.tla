------------------------- MODULE MCBookingIntervals -------------------------
(* Instances of BookingIntervals for TLC: a slot is two minutes long, two    *)
(* days are a week, three a month, and a price of 1 is one cent.             *)
EXTENDS BookingIntervals, TLC

Timed(start, end, from, to) ==
  [start |-> start, end |-> end, access |-> "timeslot", from |-> from, to |-> to]
AllDay(start, end) ==
  [start |-> start, end |-> end, access |-> "anytime", from |-> NoMinute, to |-> NoMinute]

\* The first slot touches the second and shares no date with the third; the second
\* and the third overlap by a minute on one of two dates; the last is refused.
MCRequests ==
  {Timed(0, 0, 1, 3), Timed(0, 1, 3, 5), Timed(1, 1, 2, 4), AllDay(0, 2),
   Timed(1, 0, 1, 3)}

\* Prices and percentages that end in halves, up and down, and in thirds.
Early == [open |-> 1, close |-> 4, surcharge |-> 1, timeout |-> 1,
          base |-> [k \in Category |-> IF k = "daily" THEN 2 ELSE 3],
          discount |-> [k \in Category |-> IF k = "daily" THEN 0 ELSE 2]]
Late == [open |-> 1, close |-> 5, surcharge |-> 2, timeout |-> 1,
         base |-> [k \in Category |-> IF k = "daily" THEN 1 ELSE 5],
         discount |-> [k \in Category |-> IF k = "monthly" THEN 3 ELSE 1]]
MCConfigs == {Early, Late}

Symmetry == Permutations(Seats) \cup Permutations(Bookings)
=============================================================================

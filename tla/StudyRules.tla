----------------------------- MODULE StudyRules -----------------------------
(***************************************************************************)
(* domain/study_room_rules.py: how long a booking is, which price category  *)
(* that makes it, and which minutes of each day it occupies.  Dates are     *)
(* consecutive integers, times minutes after midnight.                      *)
(***************************************************************************)
EXTENDS Integers

CONSTANTS
  Week, Month,   \* the days from which a booking is weekly, monthly: 7 and 30
  Timeslot       \* TIMESLOT_DURATION_MINUTES: 180

ASSUME RulesAssumption ==
  /\ Week \in Nat /\ Month \in Nat /\ Week <= Month
  /\ Timeslot \in Nat \ {0}

Category == {"daily", "weekly", "monthly"}
AccessType == {"timeslot", "anytime"}

NoMinute == -1    \* start_time or end_time is None

\* A start and an end minute, the end not included.
Window == [from : Nat, to : Nat]

\* What a request asks for beside the seat.
Request == [start : Nat, end : Nat, access : AccessType,
            from : Nat \cup {NoMinute}, to : Nat \cup {NoMinute}]

DurationDays(start, end) == (end - start) + 1

BookingDates(start, end) == start .. end

CategoryForDuration(days) ==
  IF days < Week THEN "daily" ELSE IF days < Month THEN "weekly" ELSE "monthly"

\* Mutants of IntervalsOverlap: the existing slot must begin first; slots that
\* only touch overlap.
OverlapFromInside(a, b) == b.from <= a.from /\ a.from < b.to
OverlapWhenTouching(a, b) == a.from <= b.to /\ b.from <= a.to

IntervalsOverlap(a, b) == a.from < b.to /\ b.from < a.to

\* resolve_window does not raise for request r in a room open from `open` to
\* `close`: all day without times, or one slot inside the opening hours.
WindowAccepted(r, open, close) ==
  /\ open < close
  /\ \/ r.access = "anytime" /\ r.from = NoMinute /\ r.to = NoMinute
     \/ /\ r.access = "timeslot" /\ r.from # NoMinute /\ r.to # NoMinute
        /\ r.from < r.to /\ r.to - r.from = Timeslot
        /\ open <= r.from /\ r.to <= close

\* Mutant of ResolveWindow: a booking for the whole day has no times.
ResolveAsAsked(r, open, close) == [from |-> r.from, to |-> r.to]

\* The window it returns then.
ResolveWindow(r, open, close) ==
  IF r.access = "anytime" THEN [from |-> open, to |-> close]
                          ELSE [from |-> r.from, to |-> r.to]

-----------------------------------------------------------------------------
(* The reference: a window is a set of minutes.                            *)

Minutes(w) == w.from .. (w.to - 1)
=============================================================================

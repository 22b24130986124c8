---------------------------- MODULE ClientScreen ----------------------------
(***************************************************************************)
(* What every page of the Angular client is made of: the component the     *)
(* router shows, with its signals and its form as the fields of one        *)
(* record, and the HTTP calls it has in flight.  A user event, or the      *)
(* answer to a call, is one step: the browser runs its handler and the     *)
(* change detection with its effects before the next event.  Answers come  *)
(* in any order.                                                           *)
(***************************************************************************)
EXTENDS Integers

CONSTANTS
  NoPage    \* no navigation is pending

VARIABLES
  screen,   \* the component on screen: its page and the fields of its class
  calls,    \* the calls this instance of it has in flight
  nav       \* the page router.navigate was asked for, or NoPage

vars == <<screen, calls, nav>>

\* An event handler leaves the component in s and sends the calls in sent.
Handle(s, sent) ==
  /\ screen' = s
  /\ calls' = calls \cup sent
  /\ UNCHANGED nav

\* A callback of call c: its subscriber leaves the component in s and sends more.
Receive(c, s, sent) ==
  /\ screen' = s
  /\ calls' = (calls \ {c}) \cup sent
  /\ UNCHANGED nav

\* The same, and it asks the router for another page.
ReceiveAndLeave(c, s, page) ==
  /\ screen' = s
  /\ calls' = calls \ {c}
  /\ nav' = page

\* The calls in flight to one method of the API.
InFlight(method) == {c \in calls : c.call = method}
=============================================================================

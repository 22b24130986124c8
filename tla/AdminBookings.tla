--------------------------- MODULE AdminBookings ---------------------------
(***************************************************************************)
(* All bookings, by status, for an admin who can approve or reject from    *)
(* here too.  The rows shown are a computed signal of the list; it reads   *)
(* the search term as well, but that is a plain field, so a new term shows *)
(* only when the list changes.                                             *)
(***************************************************************************)
EXTENDS ClientScreen

CONSTANTS
  Bookings,
  Matches,     \* the bookings that match the search term
  NoRow,       \* the list does not hold this booking
  NoOne,       \* no row is busy
  MaxCalls     \* bound: requests that one page makes

\* The statuses told apart: RESERVED and EXPIRED rows are shown as COMPLETED ones are.
BookingStatus == {"PAYMENT_PENDING", "COMPLETED", "REJECTED"}
StatusFilter == {"ALL", "PAYMENT_PENDING"}

ListCall == [call : {"allBookings"}, id : Nat, filter : StatusFilter]
SettleCall == [call : {"approvePayment", "rejectPayment"}, id : Nat, booking : Bookings]

Page ==
  [page : {"admin-bookings"},
   rows : [Bookings -> BookingStatus \cup {NoRow}],
   statusFilter : StatusFilter,
   searchTerm : BOOLEAN,       \* a term was typed
   filtered : SUBSET Bookings, \* what the computed signal last returned
   loading : BOOLEAN,
   busyId : Bookings \cup {NoOne},
   sent : Nat]

TypeOK == screen \in Page /\ calls \subseteq ListCall \cup SettleCall

\* The constructor asks for the list.
NewPage ==
  [page |-> "admin-bookings", rows |-> [b \in Bookings |-> NoRow],
   statusFilter |-> "ALL", searchTerm |-> FALSE, filtered |-> {}, loading |-> TRUE,
   busyId |-> NoOne, sent |-> 1]

FirstCalls == {[call |-> "allBookings", id |-> 1, filter |-> "ALL"]}

Request == screen.sent < MaxCalls
Number == screen.sent + 1

\* filtered runs when the list has been set.
Filtered(s) ==
  [s EXCEPT !.filtered = {b \in Bookings : /\ s.rows[b] # NoRow
                                           /\ s.searchTerm => b \in Matches}]

-----------------------------------------------------------------------------
\* The button, or another status in the select.
Reload(filter) ==
  /\ Request
  /\ Handle([screen EXCEPT !.statusFilter = filter, !.loading = TRUE, !.sent = @ + 1],
            {[call |-> "allBookings", id |-> Number, filter |-> filter]})

Search == Handle([screen EXCEPT !.searchTerm = ~@], {})

\* The answers of two filters are applied as they come.
Listed(c, rows) ==
  Receive(c, Filtered([screen EXCEPT !.rows = rows, !.loading = FALSE]), {})

ListFailed(c) == Receive(c, [screen EXCEPT !.loading = FALSE], {})

\* Approve and Reject are offered on a shown row that waits for approval.
Settle(method, b) ==
  /\ b \in screen.filtered
  /\ screen.rows[b] = "PAYMENT_PENDING" /\ screen.busyId # b
  /\ Request
  /\ Handle([screen EXCEPT !.busyId = b, !.sent = @ + 1],
            {[call |-> method, id |-> Number, booking |-> b]})

\* No amount is sent, so an approval credits all that is due.
SettledStatus(c) == IF c.call = "rejectPayment" THEN "REJECTED" ELSE "COMPLETED"

Settled(c) ==
  Receive(c, Filtered([screen EXCEPT
                         !.busyId = NoOne,
                         !.rows[c.booking] = IF @ = NoRow THEN NoRow ELSE SettledStatus(c)]), {})

SettleFailed(c) == Receive(c, [screen EXCEPT !.busyId = NoOne], {})

\* A list holds bookings of the status it was asked for.
Answers(c) ==
  [Bookings -> {NoRow} \cup (IF c.filter = "ALL" THEN BookingStatus ELSE {c.filter})]

AnswerList ==
  \E c \in InFlight("allBookings") :
    ListFailed(c) \/ \E rows \in Answers(c) : Listed(c, rows)

AnswerSettle ==
  \E c \in InFlight("approvePayment") \cup InFlight("rejectPayment") :
    Settled(c) \/ SettleFailed(c)

Next ==
  \/ \E filter \in StatusFilter : Reload(filter)
  \/ Search
  \/ \E b \in Bookings, method \in {"approvePayment", "rejectPayment"} : Settle(method, b)
  \/ AnswerList
  \/ AnswerSettle

-----------------------------------------------------------------------------
SpinnersHaveCalls ==
  /\ screen.loading => InFlight("allBookings") # {}
  /\ screen.busyId # NoOne =>
       \E c \in InFlight("approvePayment") \cup InFlight("rejectPayment") :
         c.booking = screen.busyId
=============================================================================

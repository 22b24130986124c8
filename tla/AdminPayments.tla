--------------------------- MODULE AdminPayments ---------------------------
(***************************************************************************)
(* The queue of payments to verify.  The admin may type the amount seen on *)
(* the screenshot next to a booking; without a draft the row stands for    *)
(* what is due.  The list can be read again at any moment, and several     *)
(* rows can be acted on at once.                                           *)
(***************************************************************************)
EXTENDS ClientScreen

CONSTANTS
  Bookings,
  Amounts,     \* sums of money in cents
  NoRow,       \* the queue does not hold this booking
  NoDraft,     \* nothing typed next to it
  NoAmount,    \* an approval that names no amount
  NoOne,       \* no row is busy
  MaxCalls     \* bound: requests that one page makes

\* What was typed, and the amount_due the row showed then.  0 is a value that
\* amountValid refuses.
Draft == [amount : Amounts \cup {0}, due : Amounts]
ListCall == [call : {"pendingPayments"}, id : Nat]
ApproveCall == [call : {"approvePayment"}, id : Nat, booking : Bookings,
                amount : Amounts \cup {NoAmount}]
RejectCall == [call : {"rejectPayment"}, id : Nat, booking : Bookings]

\* A row is the amount_due of its booking.
Page ==
  [page : {"payments"},
   rows : [Bookings -> Amounts \cup {NoRow}],
   amountDrafts : [Bookings -> Draft \cup {NoDraft}],
   loading : BOOLEAN,
   busyId : Bookings \cup {NoOne},
   sent : Nat]

TypeOK ==
  /\ screen \in Page
  /\ calls \subseteq ListCall \cup ApproveCall \cup RejectCall

NoDrafts == [b \in Bookings |-> NoDraft]

\* The constructor asks for the queue.
NewPage ==
  [page |-> "payments", rows |-> [b \in Bookings |-> NoRow], amountDrafts |-> NoDrafts,
   loading |-> TRUE, busyId |-> NoOne, sent |-> 1]

FirstCalls == {[call |-> "pendingPayments", id |-> 1]}

Request == screen.sent < MaxCalls
Number == screen.sent + 1

AmountFor(b) ==
  IF screen.amountDrafts[b] = NoDraft THEN screen.rows[b] ELSE screen.amountDrafts[b].amount

AmountValid(b) == AmountFor(b) > 0

\* Sums are compared as text, and the server writes two decimals: a typed 600.05
\* is "600.05" on both sides, a typed 600 is not the server's "600.00".
SameText(typed, shown) == typed = shown /\ typed % 10 # 0

\* Only an amount that differs from what the row shows is sent.
AmountSent(b) ==
  IF \/ screen.amountDrafts[b] = NoDraft
     \/ SameText(screen.amountDrafts[b].amount, screen.rows[b])
  THEN NoAmount
  ELSE screen.amountDrafts[b].amount

-----------------------------------------------------------------------------
Reload ==
  /\ Request
  /\ Handle([screen EXCEPT !.loading = TRUE, !.sent = @ + 1],
            {[call |-> "pendingPayments", id |-> Number]})

\* Mutant of Listed: the drafts of the old list are kept.
ListedKeepsDrafts(c, rows) == Receive(c, [screen EXCEPT !.rows = rows, !.loading = FALSE], {})

\* Drafts belong to the rows they were typed next to: a new list has none.
Listed(c, rows) ==
  Receive(c, [screen EXCEPT !.rows = rows, !.amountDrafts = NoDrafts, !.loading = FALSE], {})

ListFailed(c) == Receive(c, [screen EXCEPT !.loading = FALSE], {})

SetAmount(b, amount) ==
  /\ screen.rows[b] # NoRow /\ screen.busyId # b
  /\ Handle([screen EXCEPT !.amountDrafts[b] = [amount |-> amount, due |-> screen.rows[b]]], {})

\* The emptied field stands for what is due again.
ClearAmount(b) ==
  /\ screen.rows[b] # NoRow /\ screen.busyId # b
  /\ Handle([screen EXCEPT !.amountDrafts[b] = NoDraft], {})

\* Without an amount the server credits what is due when it looks.
Approve(b) ==
  /\ screen.rows[b] # NoRow /\ screen.busyId # b
  /\ AmountValid(b)
  /\ Request
  /\ Handle([screen EXCEPT !.busyId = b, !.sent = @ + 1],
            {[call |-> "approvePayment", id |-> Number, booking |-> b,
              amount |-> AmountSent(b)]})

Reject(b) ==
  /\ screen.rows[b] # NoRow /\ screen.busyId # b
  /\ Request
  /\ Handle([screen EXCEPT !.busyId = b, !.sent = @ + 1],
            {[call |-> "rejectPayment", id |-> Number, booking |-> b]})

\* Approved in full or in part, or rejected: the row leaves the queue, its draft stays.
Settled(c) == Receive(c, [screen EXCEPT !.busyId = NoOne, !.rows[c.booking] = NoRow], {})

SettleFailed(c) == Receive(c, [screen EXCEPT !.busyId = NoOne], {})

AnswerList ==
  \E c \in InFlight("pendingPayments") :
    \/ ListFailed(c)
    \/ \E rows \in [Bookings -> Amounts \cup {NoRow}] : Listed(c, rows)

AnswerApprove == \E c \in InFlight("approvePayment") : Settled(c) \/ SettleFailed(c)

AnswerReject == \E c \in InFlight("rejectPayment") : Settled(c) \/ SettleFailed(c)

Next ==
  \/ Reload
  \/ \E b \in Bookings, amount \in Amounts \cup {0} : SetAmount(b, amount)
  \/ \E b \in Bookings : ClearAmount(b) \/ Approve(b) \/ Reject(b)
  \/ AnswerList
  \/ AnswerApprove
  \/ AnswerReject

-----------------------------------------------------------------------------
\* "Freshly loaded rows start at the expected amount_due": the amount that Approve
\* would send for a row was typed against the due that row still shows, however
\* reloads, removals and answers were interleaved with the typing.
DraftIsForThisRow ==
  \A b \in Bookings :
    screen.rows[b] # NoRow /\ screen.amountDrafts[b] # NoDraft =>
      screen.amountDrafts[b].due = screen.rows[b]

SpinnersHaveCalls ==
  /\ screen.loading => InFlight("pendingPayments") # {}
  /\ screen.busyId # NoOne =>
       \E c \in InFlight("approvePayment") \cup InFlight("rejectPayment") :
         c.booking = screen.busyId
=============================================================================

---------------------------- MODULE AdminPricing ----------------------------
(***************************************************************************)
(* The pricing form.  It starts with the class's own values and can be     *)
(* edited and saved before the prices in force have come; their answer     *)
(* replaces whatever it holds then.                                        *)
(***************************************************************************)
EXTENDS ClientScreen

CONSTANTS
  Prices,      \* configurations: what all the fields together say
  ZeroPrices,  \* the one the class starts with
  NotValid,    \* a field is empty or out of its range
  MaxCalls     \* bound: requests that one page makes

GetCall == [call : {"getPricing"}, id : Nat]
PutCall == [call : {"updatePricing"}, id : Nat, prices : Prices]

Page ==
  [page : {"pricing"}, form : Prices \cup {NotValid}, loading : BOOLEAN,
   saving : BOOLEAN, sent : Nat]

TypeOK == screen \in Page /\ calls \subseteq GetCall \cup PutCall

\* The constructor asks for the prices in force.
NewPage ==
  [page |-> "pricing", form |-> ZeroPrices, loading |-> TRUE, saving |-> FALSE, sent |-> 1]

FirstCalls == {[call |-> "getPricing", id |-> 1]}

Request == screen.sent < MaxCalls
Number == screen.sent + 1

-----------------------------------------------------------------------------
Reload ==
  /\ ~screen.loading
  /\ Request
  /\ Handle([screen EXCEPT !.loading = TRUE, !.sent = @ + 1],
            {[call |-> "getPricing", id |-> Number]})

Loaded(c, prices) == Receive(c, [screen EXCEPT !.form = prices, !.loading = FALSE], {})

LoadFailed(c) == Receive(c, [screen EXCEPT !.loading = FALSE], {})

EditForm(prices) == Handle([screen EXCEPT !.form = prices], {})

Save ==
  /\ screen.form # NotValid /\ ~screen.saving
  /\ Request
  /\ Handle([screen EXCEPT !.saving = TRUE, !.sent = @ + 1],
            {[call |-> "updatePricing", id |-> Number, prices |-> screen.form]})

\* Saved, or not: the form is left as it is.
Saved(c) == Receive(c, [screen EXCEPT !.saving = FALSE], {})

AnswerGet ==
  \E c \in InFlight("getPricing") :
    LoadFailed(c) \/ \E prices \in Prices : Loaded(c, prices)

AnswerPut == \E c \in InFlight("updatePricing") : Saved(c)

Next ==
  \/ Reload
  \/ \E prices \in Prices \cup {NotValid} : EditForm(prices)
  \/ Save
  \/ AnswerGet
  \/ AnswerPut

-----------------------------------------------------------------------------
\* At most one read and one write are under way, and their marks say so.
SpinnersHaveCalls ==
  /\ screen.loading <=> InFlight("getPricing") # {}
  /\ screen.saving <=> InFlight("updatePricing") # {}
  /\ \A c, d \in calls : c.call = d.call => c = d
=============================================================================

----------------------------- MODULE AdminUsers -----------------------------
(***************************************************************************)
(* The users of the pool, a page at a time: the pool gives a token for the *)
(* next page, and the component keeps the tokens it has followed.  The     *)
(* e-mail filter asks anew 300 ms after the last key.                      *)
(***************************************************************************)
EXTENDS ClientScreen, Sequences

CONSTANTS
  Users,       \* all but the admin, whose own row has nothing to click
  Tokens,      \* pagination tokens
  NoToken,     \* the first page, and no next page
  MaxCalls     \* bound: requests that one page makes

Filters == BOOLEAN  \* an e-mail prefix is in the filter, or none

ListCall == [call : {"list"}, id : Nat, token : Tokens \cup {NoToken}, emailPrefix : Filters]
RoleCall == [call : {"grantRole", "revokeRole"}, id : Nat, user : Users]

\* A row is whether the user is an admin.
Page ==
  [page : {"users"},
   users : UNION {[us -> BOOLEAN] : us \in SUBSET Users},
   loading : BOOLEAN,
   nextToken : Tokens \cup {NoToken},
   tokenHistory : Seq(Tokens \cup {NoToken}),
   emailFilter : Filters,
   debouncing : BOOLEAN,   \* the 300 ms timer of the filter is running
   sent : Nat]

TypeOK == screen \in Page /\ calls \subseteq ListCall \cup RoleCall

\* The constructor asks for the first page.
NewPage ==
  [page |-> "users", users |-> [u \in {} |-> FALSE], loading |-> TRUE, nextToken |-> NoToken,
   tokenHistory |-> <<NoToken>>, emailFilter |-> FALSE, debouncing |-> FALSE, sent |-> 1]

FirstCalls == {[call |-> "list", id |-> 1, token |-> NoToken, emailPrefix |-> FALSE]}

Request == screen.sent < MaxCalls
Number == screen.sent + 1

PreviousToken ==
  LET h == screen.tokenHistory IN IF Len(h) >= 2 THEN h[Len(h) - 1] ELSE NoToken

\* The filter is read when the call is made.
LoadPage(s, token) ==
  /\ Request
  /\ Handle([s EXCEPT !.loading = TRUE, !.sent = @ + 1],
            {[call |-> "list", id |-> Number, token |-> token, emailPrefix |-> s.emailFilter]})

-----------------------------------------------------------------------------
NextPage == screen.nextToken # NoToken /\ LoadPage(screen, screen.nextToken)

\* Disabled on the second page: the token of the first is null.
PreviousPage == PreviousToken # NoToken /\ LoadPage(screen, PreviousToken)

TypeFilter == Handle([screen EXCEPT !.emailFilter = ~@, !.debouncing = TRUE], {})

\* The timer of debounceTime has run out.
Debounced ==
  /\ screen.debouncing
  /\ LoadPage([screen EXCEPT !.debouncing = FALSE, !.tokenHistory = <<NoToken>>], NoToken)

\* The history only grows: going back appends the token it went back to.
Listed(c, users, next) ==
  Receive(c, [screen EXCEPT
    !.users = users, !.nextToken = next, !.loading = FALSE,
    !.tokenHistory = IF c.token # NoToken /\ @[Len(@)] # c.token THEN Append(@, c.token) ELSE @], {})

ListFailed(c) == Receive(c, [screen EXCEPT !.loading = FALSE], {})

\* The menu offers to grant what the row says the user lacks, to revoke what it has.
ChangeRole(method, u) ==
  /\ u \in DOMAIN screen.users
  /\ screen.users[u] = (method = "revokeRole")
  /\ Request
  /\ Handle([screen EXCEPT !.sent = @ + 1], {[call |-> method, id |-> Number, user |-> u]})

RoleChanged(c) ==
  Receive(c, [screen EXCEPT !.users =
    [u \in DOMAIN @ |-> IF u = c.user THEN c.call = "grantRole" ELSE @[u]]], {})

RoleFailed(c) == Receive(c, screen, {})

AnswerList ==
  \E c \in InFlight("list") :
    \/ ListFailed(c)
    \/ \E us \in SUBSET Users, next \in (Tokens \ {c.token}) \cup {NoToken} :
         \E users \in [us -> BOOLEAN] : Listed(c, users, next)

AnswerRole ==
  \E c \in InFlight("grantRole") \cup InFlight("revokeRole") : RoleChanged(c) \/ RoleFailed(c)

Next ==
  \/ NextPage
  \/ PreviousPage
  \/ TypeFilter
  \/ Debounced
  \/ \E u \in Users, method \in {"grantRole", "revokeRole"} : ChangeRole(method, u)
  \/ AnswerList
  \/ AnswerRole

-----------------------------------------------------------------------------
SpinnersHaveCalls == screen.loading => InFlight("list") # {}
=============================================================================

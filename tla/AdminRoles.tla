----------------------------- MODULE AdminRoles -----------------------------
(***************************************************************************)
(* The members of the admin role, and a form that grants or revokes a role *)
(* by e-mail.  After either the members are asked for again; the answers   *)
(* are applied as they come.                                               *)
(***************************************************************************)
EXTENDS ClientScreen

CONSTANTS
  Users,
  MaxCalls     \* bound: requests that one page makes

MembersCall == [call : {"membersOf"}, id : Nat]
RoleCall == [call : {"grant", "revoke"}, id : Nat]

\* The form names a user, or is not valid.
Page ==
  [page : {"roles"}, members : SUBSET Users, busy : BOOLEAN, valid : BOOLEAN, sent : Nat]

TypeOK == screen \in Page /\ calls \subseteq MembersCall \cup RoleCall

\* The constructor asks for the members.
NewPage == [page |-> "roles", members |-> {}, busy |-> FALSE, valid |-> FALSE, sent |-> 1]

FirstCalls == {[call |-> "membersOf", id |-> 1]}

Request == screen.sent < MaxCalls
Number == screen.sent + 1

-----------------------------------------------------------------------------
LoadMembers ==
  /\ Request
  /\ Handle([screen EXCEPT !.sent = @ + 1], {[call |-> "membersOf", id |-> Number]})

MembersAnswered(c, members) == Receive(c, [screen EXCEPT !.members = members], {})

MembersFailed(c) == Receive(c, screen, {})

EditForm == Handle([screen EXCEPT !.valid = ~@], {})

\* The e-mail and the role are the form's; what they change is the server's.
ChangeRole(method) ==
  /\ screen.valid /\ ~screen.busy
  /\ Request
  /\ Handle([screen EXCEPT !.busy = TRUE, !.sent = @ + 1], {[call |-> method, id |-> Number]})

\* The handler loads the members again, whatever the bound on requests says.
RoleChanged(c) ==
  Receive(c, [screen EXCEPT !.busy = FALSE, !.sent = @ + 1],
          {[call |-> "membersOf", id |-> Number]})

RoleFailed(c) == Receive(c, [screen EXCEPT !.busy = FALSE], {})

AnswerMembers ==
  \E c \in InFlight("membersOf") :
    MembersFailed(c) \/ \E members \in SUBSET Users : MembersAnswered(c, members)

AnswerRole == \E c \in InFlight("grant") \cup InFlight("revoke") : RoleChanged(c) \/ RoleFailed(c)

Next ==
  \/ LoadMembers
  \/ EditForm
  \/ \E method \in {"grant", "revoke"} : ChangeRole(method)
  \/ AnswerMembers
  \/ AnswerRole

-----------------------------------------------------------------------------
\* The buttons are disabled exactly as long as the one grant or revocation is under way.
SpinnersHaveCalls ==
  LET changes == InFlight("grant") \cup InFlight("revoke") IN
  /\ screen.busy <=> changes # {}
  /\ \A c, d \in changes : c = d
=============================================================================

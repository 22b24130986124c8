------------------------------ MODULE Session ------------------------------
(***************************************************************************)
(* The session of one browser tab: the tokens in local storage, the user   *)
(* the tab believes in, the guarded pages, and the HTTP interceptor, which *)
(* answers a 401 by refreshing the access token and sending the request    *)
(* once more.  Calls outlive the pages and the sessions that made them.    *)
(*                                                                         *)
(* A token is known by the user it was issued to.  Whether it has expired  *)
(* is the server's secret: a call with a token may always come back 401.   *)
(***************************************************************************)
EXTENDS Integers

CONSTANTS
  Users,
  Admins,
  NoUser,
  NoReturn,   \* the login page's URL has no returnTo
  Live,       \* the form that made the call is still there
  NoNav,      \* no navigation is pending
  MaxCalls    \* bound: calls in flight at once

ASSUME SessionAssumption ==
  /\ Admins \subseteq Users
  /\ NoUser \notin Users
  /\ MaxCalls \in Nat

VARIABLES
  storage,    \* local storage: the tokens
  tab,        \* what the page's JavaScript holds
  calls       \* requests in flight

vars == <<storage, tab, calls>>

Shells == {"app", "admin"}
Forms == {"login", "register"}

\* What returnTo can name.  "login" is the login page with a returnTo of its own.
ReturnTo == Shells \cup Forms

\* A pending navigation; asked: its guard waits for the server.
Target == [page : Shells \cup Forms, returnTo : ReturnTo \cup {NoReturn}, asked : BOOLEAN]

ASSUME NavAssumption == NoNav \notin Target

\* submitting is the signal of the login or register form on screen; "blank" is the
\* document before the first navigation has ended.
Tab ==
  [page : Shells \cup Forms \cup {"blank"},
   returnTo : ReturnTo \cup {NoReturn},
   nav : Target \cup {NoNav},
   currentUser : Users \cup {NoUser},
   submitting : BOOLEAN]

Storage == [access : Users \cup {NoUser}, refresh : Users \cup {NoUser}]

\* me is asked for by the login form, by the guard of the admin pages and by the
\* shells; data stands for every call of the pages inside them.
Kind == {"login", "register", "logout", "data", "me-login", "me-guard", "me-shell"}

\* token: whose access token, in phase "refreshing" whose refresh token, was sent.
\* left: what returnTo was when the form that made the call was destroyed.
Call ==
  [id : 1..MaxCalls, kind : Kind, phase : {"sent", "refreshing", "replayed"},
   token : Users \cup {NoUser}, left : ReturnTo \cup {NoReturn, Live}]

TypeOK ==
  /\ storage \in Storage
  /\ tab \in Tab
  /\ calls \subseteq Call

-----------------------------------------------------------------------------
(* Token storage.                                                          *)

NoTokens == [access |-> NoUser, refresh |-> NoUser]

\* Mutant of Cleared: one key of the two is removed.
ClearedAccess == [storage EXCEPT !.access = NoUser]

Cleared == NoTokens

\* The refresh token of an answer without one is the old one.
SetTokens(access, refresh) ==
  [access |-> access, refresh |-> IF refresh = NoUser THEN storage.refresh ELSE refresh]

SetAccessToken(u) == [storage EXCEPT !.access = u]

-----------------------------------------------------------------------------
(* Calls and the router.                                                   *)

FreeIds == 1..MaxCalls \ {c.id : c \in calls}

Sent(id, kind) ==
  [id |-> id, kind |-> kind, phase |-> "sent", token |-> storage.access, left |-> Live]

NewCall(kind) == Sent(CHOOSE id \in FreeIds : TRUE, kind)

\* A navigation to the URL the tab is at only calls off the pending one.
Ask(t, target) ==
  [t EXCEPT !.nav = IF t.page = target.page /\ t.returnTo = target.returnTo
                    THEN NoNav ELSE target]

To(page) == [page |-> page, returnTo |-> NoReturn, asked |-> FALSE]
ToLogin(url) == [page |-> "login", returnTo |-> url, asked |-> FALSE]

\* Mutant of Url: "/" is passed on as it is.
UrlAsItIs(t) == t.page

\* router.url as a returnTo.  The blank document is at "/", which is the app.
Url(t) == IF t.page = "blank" THEN "app" ELSE t.page

AtLogin(t) == t.page = "login" /\ t.returnTo = NoReturn

\* The navigation of _doLogout: none if the URL is just "/login".
AskLogin(t) == IF AtLogin(t) THEN t ELSE Ask(t, ToLogin(Url(t)))

\* Mutant of Unguarded: the guard of a superseded navigation goes on.
UnguardedNever(t, cs) == cs

\* A new navigation unsubscribes the guard of the old one, and aborts its call.
Unguarded(t, cs) ==
  IF t.nav # NoNav /\ t.nav.asked THEN cs ELSE {c \in cs : c.kind # "me-guard"}

Become(s, t, cs) ==
  /\ storage' = s
  /\ tab' = t
  /\ calls' = Unguarded(t, cs)

-----------------------------------------------------------------------------
(* What the subscribers do with an answer.                                  *)

\* The form's own navigation, wherever the user is now.
GoAfterLogin(c, t) ==
  LET returnTo == IF c.left = Live THEN t.returnTo ELSE c.left
  IN  IF returnTo = NoReturn
      THEN {Ask(t, To("app"))}
      ELSE IF returnTo = "login"
           THEN {Ask(t, ToLogin(url)) : url \in ReturnTo}
           ELSE {Ask(t, To(returnTo))}

NotSubmitting(c, t) == IF c.left = Live THEN [t EXCEPT !.submitting = FALSE] ELSE t

\* Mutant of CompleteLogout: the user stays in memory.
CompleteLogoutOfTokens(t) == Ask(t, To("login"))

CompleteLogout(t) == Ask([t EXCEPT !.currentUser = NoUser], To("login"))

\* The shells ignore an error of me, pages show the one of their call.  For the guard
\* a failed me is not an admin.
OnError(c, s, t) ==
  /\ CASE c.kind \in {"login", "register"} -> storage' = s /\ tab' = NotSubmitting(c, t)
       [] c.kind = "logout" -> storage' = Cleared /\ tab' = CompleteLogout(t)
       [] c.kind = "me-login" -> storage' = s /\ tab' \in GoAfterLogin(c, t)
       [] c.kind = "me-guard" ->
            /\ storage' = s
            /\ tab' = IF t.nav = tab.nav THEN Ask(t, To("app")) ELSE t
       [] c.kind \in {"me-shell", "data"} -> storage' = s /\ tab' = t
  /\ calls' = Unguarded(tab', calls \ {c})

\* Entering a shell creates it, which asks who the user is; the page inside it may
\* make a call too.
Enter(page, t, cs) ==
  LET ids == 1..MaxCalls \ {c.id : c \in cs}
      me == CHOOSE id \in ids : TRUE
  IN
  /\ ids # {}
  /\ \E first \in {{}} \cup {{Sent(id, "data")} : id \in ids \ {me}} :
       calls' = cs \cup {Sent(me, "me-shell")} \cup first
  /\ tab' = [t EXCEPT !.page = page, !.returnTo = NoReturn, !.nav = NoNav,
                      !.submitting = FALSE]
  /\ UNCHANGED storage

\* The calls of a form that is about to be destroyed.  The answer to a registration
\* has nothing left to do.
LeaveForm(cs) ==
  {IF c.kind \in {"login", "me-login"} /\ c.left = Live
   THEN [c EXCEPT !.left = tab.returnTo] ELSE c : c \in {d \in cs : d.kind # "register"}}

\* u: whom the server gives tokens to; its answer to a login always has both.
OnDone(c) ==
  LET rest == calls \ {c}
      Known == [tab EXCEPT !.currentUser = c.token]
  IN  CASE c.kind = "login" ->
             \E u \in Users :
               Become(SetTokens(u, u), tab,
                      rest \cup {[c EXCEPT !.kind = "me-login", !.phase = "sent", !.token = u]})
        [] c.kind = "register" -> Become(storage, NotSubmitting(c, tab), rest)
        [] c.kind = "logout" -> Become(Cleared, CompleteLogout(tab), rest)
        [] c.kind = "data" -> Become(storage, tab, rest)
        [] c.kind = "me-shell" -> Become(storage, Known, rest)
        [] c.kind = "me-login" -> \E t \in GoAfterLogin(c, Known) : Become(storage, t, rest)
        [] c.kind = "me-guard" ->
             IF c.token \in Admins
             THEN Enter("admin", Known, LeaveForm(rest))
             ELSE Become(storage, Ask(Known, To("app")), rest)

-----------------------------------------------------------------------------
(* The interceptor.                                                        *)

\* Mutant of IsNoRetry: the refresh itself is retried.
IsNoRetryForms(kind) == kind \in {"login", "register"}

\* Of the calls a page makes; "refresh" is the one the interceptor makes.
IsNoRetry(kind) == kind \in {"login", "register", "refresh"}

\* Mutant of LogOutAndFail: the subscriber never hears of the error.
LogOutSilently(c) == Become(Cleared, AskLogin(tab), calls \ {c})

\* _doLogout, and the error goes on to the subscriber.
LogOutAndFail(c) == OnError(c, Cleared, AskLogin(tab))

\* Only a call that carries a token, or needs none, can succeed.
Succeeds(c) ==
  /\ c.phase \in {"sent", "replayed"}
  /\ c.token # NoUser \/ IsNoRetry(c.kind)
  /\ OnDone(c)

\* Any error but a 401: passed on, unless it answers the replayed request.
Fails(c) ==
  /\ c.phase = "sent"
  /\ OnError(c, storage, tab)

Unauthorized(c) ==
  /\ c.phase = "sent" /\ ~IsNoRetry(c.kind)
  /\ IF storage.refresh = NoUser
     THEN LogOutAndFail(c)
     ELSE Become(storage, tab,
                 (calls \ {c}) \cup {[c EXCEPT !.phase = "refreshing", !.token = storage.refresh]})

\* The new access token is stored, and the request is sent again with it.
Refreshed(c) ==
  /\ c.phase = "refreshing"
  /\ Become(SetAccessToken(c.token), tab,
            (calls \ {c}) \cup {[c EXCEPT !.phase = "replayed"]})

\* The refresh comes back 401: as a call of its own it passes the interceptor too.
RefreshUnauthorized(c) ==
  /\ c.phase = "refreshing"
  /\ IF IsNoRetry("refresh") \/ storage.refresh = NoUser
     THEN LogOutAndFail(c)
     ELSE Become(storage, tab,
                 (calls \ {c}) \cup {[c EXCEPT !.token = storage.refresh]})

\* Any other error of the refresh, and every error of the replayed request.
RefreshFails(c) ==
  /\ c.phase \in {"refreshing", "replayed"}
  /\ LogOutAndFail(c)

Answer(id) ==
  \E c \in calls :
    /\ c.id = id
    /\ \/ Succeeds(c)
       \/ Fails(c)
       \/ Unauthorized(c)
       \/ Refreshed(c)
       \/ RefreshUnauthorized(c)
       \/ RefreshFails(c)

-----------------------------------------------------------------------------
(* The user.                                                               *)

\* Sign in, or create an account.  Neither looks at a token that comes along.
Submit ==
  /\ tab.page \in Forms /\ ~tab.submitting
  /\ FreeIds # {}
  /\ Become(storage, [tab EXCEPT !.submitting = TRUE],
            calls \cup {[NewCall(tab.page) EXCEPT !.token = NoUser]})

\* The links between the two forms.
OtherForm ==
  /\ tab.page \in Forms
  /\ Become(storage, Ask(tab, To(IF tab.page = "login" THEN "register" ELSE "login")), calls)

\* Something on a page of a shell calls the server; a link inside the shell, whose
\* guards do not run again, also calls off what was pending.
UsePage ==
  /\ tab.page \in Shells
  /\ FreeIds # {}
  /\ \E nav \in {tab.nav, NoNav} :
       Become(storage, [tab EXCEPT !.nav = nav], calls \cup {NewCall("data")})

\* A link to the booking form, which asks the server for nothing yet.
FollowLink ==
  /\ tab.page = "app" /\ tab.nav # NoNav
  /\ Become(storage, [tab EXCEPT !.nav = NoNav], calls)

\* The button is there for whom the tab believes to be an admin.
GoToAdminConsole ==
  /\ tab.page = "app" /\ tab.currentUser \in Admins
  /\ Become(storage, Ask(tab, To("admin")), calls)

ExitToApp ==
  /\ tab.page = "admin"
  /\ Become(storage, Ask(tab, To("app")), calls)

Logout ==
  /\ tab.page \in Shells
  /\ IF storage.access = NoUser
     THEN Become(Cleared, CompleteLogout(tab), calls)
     ELSE /\ FreeIds # {}
          /\ Become(storage, tab, calls \cup {NewCall("logout")})

\* The document is loaded again: its calls are gone, local storage is not.
Reload ==
  /\ tab.page # "blank"
  /\ calls' = {}
  /\ tab' = [page |-> "blank", returnTo |-> NoReturn, currentUser |-> NoUser,
             submitting |-> FALSE, nav |-> [To(tab.page) EXCEPT !.returnTo = tab.returnTo]]
  /\ UNCHANGED storage

-----------------------------------------------------------------------------
(* The router ends the pending navigation.                                 *)

Pending(page) ==
  /\ tab.nav # NoNav /\ ~tab.nav.asked
  /\ tab.nav.page = page

\* A form that is on screen already is reused with its fields.
OpenForm ==
  \E page \in Forms :
    /\ Pending(page)
    /\ tab' = [tab EXCEPT !.page = page, !.returnTo = tab.nav.returnTo, !.nav = NoNav,
                          !.submitting = @ /\ tab.page = page]
    /\ calls' = IF tab.page = page THEN calls ELSE LeaveForm(calls)
    /\ UNCHANGED storage

\* authGuard and adminGuard without a token.
TurnedAway ==
  \E page \in Shells :
    /\ Pending(page)
    /\ storage.access = NoUser
    /\ Become(storage, Ask(tab, ToLogin(page)), calls)

OpenApp ==
  /\ Pending("app")
  /\ storage.access # NoUser
  /\ Enter("app", tab, LeaveForm(calls))

\* adminGuard believes the tab, and asks the server if the tab knows no admin.
OpenAdmin ==
  /\ Pending("admin")
  /\ storage.access # NoUser
  /\ IF tab.currentUser \in Admins
     THEN Enter("admin", tab, LeaveForm(calls))
     ELSE /\ FreeIds # {}
          /\ Become(storage, [tab EXCEPT !.nav.asked = TRUE], calls \cup {NewCall("me-guard")})

Navigate == OpenForm \/ TurnedAway \/ OpenApp \/ OpenAdmin

Init ==
  /\ storage \in {NoTokens} \cup {[access |-> u, refresh |-> u] : u \in Users}
  /\ tab \in {[page |-> "blank", returnTo |-> NoReturn, currentUser |-> NoUser,
               submitting |-> FALSE, nav |-> To(page)] : page \in Shells \cup Forms}
  /\ calls = {}

Next ==
  \/ Submit
  \/ OtherForm
  \/ UsePage
  \/ FollowLink
  \/ GoToAdminConsole
  \/ ExitToApp
  \/ Logout
  \/ Reload
  \/ Navigate
  \/ \E id \in 1..MaxCalls : Answer(id)

\* Every request is answered, or the browser reports an error for it.
Fairness == \A id \in 1..MaxCalls : WF_vars(Answer(id))

Spec == Init /\ [][Next]_vars /\ Fairness

-----------------------------------------------------------------------------
\* However a session ends, no refresh token survives it that the next 401 would
\* turn into a new session.
SignedOutForgetsBoth == storage.access = NoUser => storage.refresh = NoUser

\* A shell is entered only with a token in storage at that very moment, and the
\* admin's only if the tab takes its user for an admin: the time the guard waits for
\* the server leaves no gap in which the tokens may be gone.  (At "/login" itself it
\* does: _doLogout asks for no page there, and a pending navigation goes on.)  That
\* the tokens are of the user the tab has in mind is not said; they need not be.
GuardsHold ==
  [][/\ tab'.page \in Shells /\ tab'.page # tab.page => storage.access # NoUser \/ AtLogin(tab)
     /\ tab'.page = "admin" /\ tab.page # "admin" => tab'.currentUser \in Admins]_vars

LoggingOut == \E c \in calls : c.kind = "logout"

\* Whatever becomes of the call (an expired token, a failed refresh, no network), a
\* user who logs out is logged out, unless the document is loaded again.
LogoutCompletes ==
  LoggingOut ~> (storage = NoTokens /\ tab.currentUser = NoUser) \/ tab.page = "blank"

\* A navigation whose guard asks the server who the user is comes to an end, whatever
\* becomes of that call and of the session.
GuardEnds == (tab.nav # NoNav /\ tab.nav.asked) ~> (tab.nav = NoNav \/ ~tab.nav.asked)

\* "Paths that must never be retried with a refreshed token to avoid infinite loops":
\* every refresh comes to an end.
RefreshEnds ==
  \A id \in 1..MaxCalls :
    (\E c \in calls : c.id = id /\ c.phase = "refreshing")
      ~> (\A c \in calls : c.id = id => c.phase # "refreshing")
=============================================================================

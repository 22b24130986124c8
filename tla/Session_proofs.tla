--------------------------- MODULE Session_proofs ---------------------------
(***************************************************************************)
(* For any number of users and of calls in flight: signing out, in         *)
(* whichever way, leaves no refresh token; and no page of a shell is       *)
(* entered without a token.  The latter rests on the guard that waits for  *)
(* the server: there is at most one, it belongs to the pending navigation, *)
(* and whatever takes the tokens away calls that navigation off.           *)
(***************************************************************************)
EXTENDS Session, TLAPS

-----------------------------------------------------------------------------
(* Types.                                                                  *)

\* The navigations the code asks for.
LEMMA Targets ==
  /\ \A page \in Shells \cup Forms : To(page) \in Target /\ To(page).asked = FALSE
  /\ \A url \in ReturnTo : ToLogin(url) \in Target /\ ToLogin(url).asked = FALSE
BY DEF To, ToLogin, Target, ReturnTo, Shells, Forms

\* A navigation, asked for or called off, waits for no guard yet.
LEMMA Asking ==
  ASSUME NEW t \in Tab, NEW target \in Target
  PROVE  LET r == Ask(t, target) IN
         /\ r \in Tab /\ r.page = t.page /\ r.returnTo = t.returnTo
         /\ r.currentUser = t.currentUser
         /\ r.nav = NoNav \/ r.nav = target
<1>1. ASSUME NEW nav \in Target \cup {NoNav}
      PROVE  LET r == [t EXCEPT !.nav = nav] IN
             /\ r \in Tab /\ r.page = t.page /\ r.returnTo = t.returnTo
             /\ r.currentUser = t.currentUser /\ r.nav = nav
  BY DEF Tab
<1> QED
  BY <1>1 DEF Ask

\* A returnTo names a page.
LEMMA Urls ==
  ASSUME NEW t \in Tab
  PROVE  Url(t) \in ReturnTo
BY DEF Url, Tab, ReturnTo, Shells, Forms

\* A new call is typed.
LEMMA SentTypes ==
  ASSUME NEW id \in 1..MaxCalls, NEW kind \in Kind, storage \in Storage
  PROVE  Sent(id, kind) \in Call /\ Sent(id, kind).kind = kind /\ Sent(id, kind).phase = "sent"
BY DEF Sent, Call, Storage

\* And there is one as long as fewer than MaxCalls are in flight.
LEMMA NewCallTypes ==
  ASSUME NEW kind \in Kind, storage \in Storage, FreeIds # {}
  PROVE  NewCall(kind) \in Call /\ NewCall(kind).kind = kind /\ NewCall(kind).phase = "sent"
<1>1. (CHOOSE id \in FreeIds : TRUE) \in 1..MaxCalls
  BY DEF FreeIds
<1> QED
  BY <1>1, SentTypes DEF NewCall

\* A destroyed form leaves no guard behind, and no refresh without a token.
LEMMA LeaveFormCalls ==
  ASSUME TypeOK, NEW cs \in SUBSET calls
  PROVE  \A c \in LeaveForm(cs) :
           c \in Call /\ \E d \in cs : c.kind = d.kind /\ c.phase = d.phase /\ c.token = d.token
<1> SUFFICES ASSUME NEW d \in cs
             PROVE  LET c == IF d.kind \in {"login", "me-login"} /\ d.left = Live
                             THEN [d EXCEPT !.left = tab.returnTo] ELSE d
                    IN  c \in Call /\ c.kind = d.kind /\ c.phase = d.phase /\ c.token = d.token
  BY DEF LeaveForm
<1>1. d \in Call /\ tab.returnTo \in ReturnTo \cup {NoReturn}
  BY DEF TypeOK, Tab
<1> QED
  BY <1>1 DEF Call

-----------------------------------------------------------------------------
(* The invariant.                                                          *)

IsGuard(c) == c.kind = "me-guard"

\* The navigation that a waiting guard holds up.
GuardMayEnter(s, t) == t.nav # NoNav /\ t.nav.asked /\ (s.access # NoUser \/ AtLogin(t))

Guards(s, t, cs) ==
  /\ \A c \in cs : IsGuard(c) => GuardMayEnter(s, t)
  /\ \A c, d \in cs : IsGuard(c) /\ IsGuard(d) => c = d

Inv ==
  /\ TypeOK
  /\ SignedOutForgetsBoth
  /\ \A c \in calls : c.phase = "refreshing" => c.token # NoUser
  /\ Guards(storage, tab, calls)

\* What a handler may do to the tab while it stays on its page.
Keeps(s, t) ==
  /\ t \in Tab /\ t.page = tab.page /\ t.returnTo = tab.returnTo
  /\ t.nav # NoNav /\ t.nav.asked =>
       t.nav = tab.nav /\ (s.access # NoUser \/ storage.access = NoUser \/ AtLogin(tab))

\* What it may do to the calls.
Follows(cs) ==
  /\ \A c \in cs : c \in Call /\ (c.phase = "refreshing" => c.token # NoUser)
  /\ \A c \in cs : IsGuard(c) => \E d \in calls : IsGuard(d)
  /\ \A c, d \in cs : IsGuard(c) /\ IsGuard(d) => c = d

Tokens(s) == s \in Storage /\ (s.access = NoUser => s.refresh = NoUser)

\* A step that stays on its page, asks for no more guards and forgets both tokens or none.
LEMMA Stays ==
  ASSUME Inv, NEW s, NEW t, NEW cs, Tokens(s), Keeps(s, t), Follows(cs),
         storage' = s, tab' = t, calls' = Unguarded(t, cs)
  PROVE  Inv'
<1>1. calls' \subseteq cs /\ (~(t.nav # NoNav /\ t.nav.asked) => \A c \in calls' : ~IsGuard(c))
  BY DEF Unguarded, IsGuard
<1>2. TypeOK' /\ SignedOutForgetsBoth' /\ \A c \in calls' : c.phase = "refreshing" => c.token # NoUser
  BY <1>1 DEF TypeOK, Tokens, Keeps, Follows, SignedOutForgetsBoth
<1>3. CASE ~(t.nav # NoNav /\ t.nav.asked)
  BY <1>1, <1>2, <1>3 DEF Inv, Guards
<1>4. CASE t.nav # NoNav /\ t.nav.asked
  <2>1. AtLogin(t) = AtLogin(tab)
    BY DEF AtLogin, Keeps
  <2>2. ASSUME NEW c \in calls', IsGuard(c)
        PROVE  GuardMayEnter(s, t)
    BY <1>1, <1>4, <2>1, <2>2 DEF Follows, Keeps, Inv, Guards, GuardMayEnter
  <2> QED
    BY <1>1, <1>2, <2>2 DEF Inv, Guards, Follows
<1> QED
  BY <1>3, <1>4

\* Calls that stay, and calls that are no guards.
LEMMA FollowsMore ==
  ASSUME Inv, NEW c, NEW d \in Call, ~IsGuard(d) \/ (c \in calls /\ IsGuard(c)),
         d.phase = "refreshing" => d.token # NoUser
  PROVE  /\ Follows(calls \ {c}) /\ Follows((calls \ {c}) \cup {d})
         /\ Follows(calls) /\ (~IsGuard(d) => Follows(calls \cup {d}))
BY DEF Follows, Inv, Guards, TypeOK

\* The calls of a destroyed form, when no guard is among them.
LEMMA LeftCalls ==
  ASSUME Inv, NEW cs \in SUBSET calls, \A c \in LeaveForm(cs) : ~IsGuard(c)
  PROVE  Follows(LeaveForm(cs))
<1>1. ASSUME NEW c \in LeaveForm(cs)
      PROVE  c \in Call /\ (c.phase = "refreshing" => c.token # NoUser)
  <2>1. PICK d \in cs : c \in Call /\ c.phase = d.phase /\ c.token = d.token
    BY LeaveFormCalls DEF Inv
  <2> QED
    BY <2>1 DEF Inv
<1> QED
  BY <1>1 DEF Follows

\* The tab as it is, with the tokens as they are, renewed or, at the login page, gone.
LEMMA TabStays ==
  ASSUME Inv
  PROVE  /\ tab \in Tab /\ Keeps(storage, tab) /\ Tokens(storage) /\ Tokens(Cleared)
         /\ \A u \in Users : Tokens(SetTokens(u, u)) /\ Keeps(SetTokens(u, u), tab)
         /\ \A u \in Users : Tokens(SetAccessToken(u)) /\ Keeps(SetAccessToken(u), tab)
         /\ AtLogin(tab) => Keeps(Cleared, tab)
<1>1. tab \in Tab /\ storage \in Storage /\ (storage.access = NoUser => storage.refresh = NoUser)
  BY DEF Inv, TypeOK, SignedOutForgetsBoth
<1>2. Tokens(Cleared)
  BY DEF Tokens, Cleared, NoTokens, Storage
<1>3. ASSUME NEW u \in Users
      PROVE  /\ Tokens(SetTokens(u, u)) /\ SetTokens(u, u).access # NoUser
             /\ Tokens(SetAccessToken(u)) /\ SetAccessToken(u).access # NoUser
  BY <1>1, <1>3, SessionAssumption DEF Tokens, SetTokens, SetAccessToken, Storage
<1> QED
  BY <1>1, <1>2, <1>3 DEF Keeps, Tokens

\* A navigation that is asked for anew calls a waiting guard off.
LEMMA AskStays ==
  ASSUME NEW s, NEW t \in Tab, NEW target \in Target, ~target.asked,
         t.page = tab.page, t.returnTo = tab.returnTo
  PROVE  Keeps(s, Ask(t, target)) /\ Ask(t, target) \in Tab
BY Asking DEF Keeps

-----------------------------------------------------------------------------
(* Answers.                                                                *)

\* Where a form goes after a login.
LEMMA AfterLogin ==
  ASSUME Inv, NEW c \in calls, NEW s, NEW b \in Tab, b.page = tab.page, b.returnTo = tab.returnTo,
         NEW t \in GoAfterLogin(c, b)
  PROVE  Keeps(s, t)
<1>1. PICK target \in Target : ~target.asked /\ t = Ask(b, target)
  <2> DEFINE returnTo == IF c.left = Live THEN b.returnTo ELSE c.left
  <2>1. returnTo \in ReturnTo \cup {NoReturn}
    <3>1. c.left \in ReturnTo \cup {NoReturn, Live} /\ b.returnTo \in ReturnTo \cup {NoReturn}
      BY DEF Inv, TypeOK, Call, Tab
    <3> QED
      BY <3>1
  <2>2. t \in IF returnTo = NoReturn THEN {Ask(b, To("app"))}
              ELSE IF returnTo = "login" THEN {Ask(b, ToLogin(url)) : url \in ReturnTo}
              ELSE {Ask(b, To(returnTo))}
    BY DEF GoAfterLogin
  <2> HIDE DEF returnTo
  <2>3. CASE returnTo = NoReturn
    BY <2>2, <2>3, Targets DEF Shells
  <2>4. CASE returnTo # NoReturn /\ returnTo = "login"
    BY <2>2, <2>4, Targets
  <2>5. CASE returnTo # NoReturn /\ returnTo # "login"
    BY <2>1, <2>2, <2>5, Targets DEF ReturnTo
  <2> QED
    BY <2>3, <2>4, <2>5
<1> QED
  BY <1>1, AskStays

\* A form that stops submitting stays where it is.
LEMMA Submitted ==
  ASSUME NEW c, NEW t \in Tab
  PROVE  LET r == NotSubmitting(c, t) IN
         r \in Tab /\ r.page = t.page /\ r.returnTo = t.returnTo /\ r.nav = t.nav
BY DEF NotSubmitting, Tab

\* An error, with the tokens and the tab as they were or as _doLogout left them.
LEMMA ErrorInv ==
  ASSUME Inv, NEW c \in calls, NEW s, NEW t, OnError(c, s, t),
         \/ s = storage /\ t = tab
         \/ s = Cleared /\ t = AskLogin(tab)
  PROVE  Inv' /\ tab'.page = tab.page
<1>1. tab \in Tab /\ ToLogin(Url(tab)) \in Target /\ ~ToLogin(Url(tab)).asked
  BY TabStays, Urls, Targets
<1>2. /\ t \in Tab /\ t.page = tab.page /\ t.returnTo = tab.returnTo /\ Keeps(s, t) /\ Tokens(s)
      /\ Keeps(Cleared, t) \/ t = tab
  <2>1. CASE s = storage /\ t = tab
    BY <2>1, TabStays
  <2>2. CASE s = Cleared /\ t = tab /\ AtLogin(tab)
    BY <2>2, TabStays
  <2>3. CASE s = Cleared /\ t = Ask(tab, ToLogin(Url(tab)))
    BY <1>1, <2>3, AskStays, TabStays DEF Keeps
  <2> QED
    BY <2>1, <2>2, <2>3 DEF AskLogin
<1>3. Follows(calls \ {c}) /\ calls' = Unguarded(tab', calls \ {c}) /\ c.kind \in Kind
  <2>1. c \in Call
    BY DEF Inv, TypeOK
  <2>2. Follows(calls \ {c})
    BY DEF Follows, Inv, Guards, TypeOK
  <2> QED
    BY <2>1, <2>2 DEF OnError, Call
<1>4. /\ tab'.page = tab.page
      /\ \E r \in {storage, Cleared} : Tokens(r) /\ Keeps(r, tab') /\ storage' = r
  <2>1. CASE c.kind \in {"login", "register"}
    <3>1. storage' = s /\ tab' = NotSubmitting(c, t)
      BY <2>1 DEF OnError
    <3> QED
      BY <1>2, <3>1, Submitted DEF Keeps
  <2>2. CASE c.kind = "logout"
    <3>1. storage' = Cleared /\ tab' = CompleteLogout(t)
      BY <2>2 DEF OnError
    <3>2. LET u == [t EXCEPT !.currentUser = NoUser] IN
          u \in Tab /\ u.page = t.page /\ u.returnTo = t.returnTo
      BY <1>2 DEF Tab
    <3>3. To("login") \in Target /\ ~To("login").asked
      BY Targets DEF Forms
    <3> QED
      BY <1>2, <3>1, <3>2, <3>3, AskStays, TabStays DEF CompleteLogout, Keeps
  <2>3. CASE c.kind = "me-login"
    <3>1. storage' = s /\ tab' \in GoAfterLogin(c, t)
      BY <2>3 DEF OnError
    <3> QED
      BY <1>2, <3>1, AfterLogin DEF Keeps
  <2>4. CASE c.kind = "me-guard"
    <3>1. storage' = s /\ tab' = IF t.nav = tab.nav THEN Ask(t, To("app")) ELSE t
      BY <2>4 DEF OnError
    <3>2. To("app") \in Target /\ ~To("app").asked
      BY Targets DEF Shells
    <3> QED
      BY <1>2, <3>1, <3>2, AskStays DEF Keeps
  <2>5. CASE c.kind \in {"me-shell", "data"}
    <3>1. storage' = s /\ tab' = t
      BY <2>5 DEF OnError
    <3> QED
      BY <1>2, <3>1
  <2> QED
    BY <1>3, <2>1, <2>2, <2>3, <2>4, <2>5 DEF Kind
<1> QED
  BY <1>3, <1>4, Stays

\* Entering a shell, when no guard is waiting.
LEMMA EnterInv ==
  ASSUME Inv, NEW page \in Shells, NEW t \in Tab, NEW cs, Follows(cs), \A c \in cs : ~IsGuard(c),
         Enter(page, t, cs)
  PROVE  Inv' /\ tab'.page = page /\ tab'.currentUser = t.currentUser
<1>1. /\ tab' = [t EXCEPT !.page = page, !.returnTo = NoReturn, !.nav = NoNav, !.submitting = FALSE]
      /\ storage' = storage
  BY DEF Enter
<1>2. tab' \in Tab /\ tab'.page = page /\ tab'.currentUser = t.currentUser
  BY <1>1 DEF Tab
<1>3. \A c \in calls' : /\ c \in Call /\ (c.phase = "refreshing" => c.token # NoUser)
                        /\ ~IsGuard(c)
  <2> DEFINE ids == 1..MaxCalls \ {c.id : c \in cs}
             me == CHOOSE id \in ids : TRUE
  <2>1. PICK first \in {{}} \cup {{Sent(id, "data")} : id \in ids \ {me}} :
          calls' = cs \cup {Sent(me, "me-shell")} \cup first
    BY DEF Enter
  <2>2. me \in 1..MaxCalls
    BY DEF Enter
  <2>3. storage \in Storage
    BY DEF Inv, TypeOK
  <2>4. ASSUME NEW id \in 1..MaxCalls, NEW kind \in {"data", "me-shell"}
        PROVE  LET c == Sent(id, kind) IN c \in Call /\ c.phase # "refreshing" /\ ~IsGuard(c)
    BY <2>3, SentTypes DEF Kind, IsGuard
  <2> HIDE DEF me
  <2>5. \A c \in first : c \in Call /\ c.phase # "refreshing" /\ ~IsGuard(c)
    BY <2>4
  <2> QED
    BY <2>1, <2>2, <2>4, <2>5 DEF Follows
<1> QED
  BY <1>1, <1>2, <1>3 DEF Inv, TypeOK, SignedOutForgetsBoth, Guards

\* What a step may do to the page.
Guarded ==
  /\ tab'.page \in Shells /\ tab'.page # tab.page => storage.access # NoUser \/ AtLogin(tab)
  /\ tab'.page = "admin" /\ tab.page # "admin" => tab'.currentUser \in Admins

\* A step that stays on its page, stated for the handlers.
LEMMA Becomes ==
  ASSUME Inv, NEW s, NEW t, NEW cs, Tokens(s), Keeps(s, t), Follows(cs), Become(s, t, cs)
  PROVE  Inv' /\ Guarded
<1>1. Inv'
  BY Stays DEF Become
<1>2. tab'.page = tab.page
  BY DEF Become, Keeps
<1> QED
  BY <1>1, <1>2 DEF Guarded

\* What the tab is after the server has said who the user is.
LEMMA KnownStays ==
  ASSUME Inv, NEW u \in Users \cup {NoUser}
  PROVE  LET r == [tab EXCEPT !.currentUser = u] IN
         /\ Keeps(storage, r) /\ r \in Tab /\ r.page = tab.page /\ r.returnTo = tab.returnTo
         /\ r.currentUser = u
<1>1. LET r == [tab EXCEPT !.currentUser = u] IN
      /\ r \in Tab /\ r.page = tab.page /\ r.returnTo = tab.returnTo /\ r.nav = tab.nav
      /\ r.currentUser = u
  BY TabStays DEF Tab
<1> QED
  BY <1>1, TabStays DEF Keeps

\* A completed logout asks for the login page.
LEMMA LogoutStays ==
  ASSUME Inv
  PROVE  Keeps(Cleared, CompleteLogout(tab))
<1>1. To("login") \in Target /\ ~To("login").asked
  BY Targets DEF Forms
<1> QED
  BY <1>1, KnownStays, AskStays DEF CompleteLogout

\* Every successful answer; the guard's is the one that may change the page.
LEMMA DoneInv ==
  ASSUME Inv, NEW c \in calls, OnDone(c)
  PROVE  Inv' /\ Guarded
<1> DEFINE rest == calls \ {c}
           known == [tab EXCEPT !.currentUser = c.token]
<1>0. c \in Call /\ c.kind \in Kind /\ c.token \in Users \cup {NoUser}
  BY DEF Inv, TypeOK, Call
<1>1. Follows(rest) /\ Tokens(storage) /\ Keeps(storage, tab) /\ Tokens(Cleared) /\ tab \in Tab
  BY TabStays DEF Follows, Inv, Guards, TypeOK
<1>2. /\ Keeps(storage, known) /\ known \in Tab /\ known.page = tab.page
      /\ known.returnTo = tab.returnTo /\ known.currentUser = c.token
  BY <1>0, KnownStays
<1>3. To("app") \in Target /\ ~To("app").asked
  BY Targets DEF Shells
<1>4. CASE c.kind = "login"
  <2>1. PICK u \in Users :
          Become(SetTokens(u, u), tab,
                 rest \cup {[c EXCEPT !.kind = "me-login", !.phase = "sent", !.token = u]})
    BY <1>4 DEF OnDone
  <2> DEFINE d == [c EXCEPT !.kind = "me-login", !.phase = "sent", !.token = u]
  <2>2. d \in Call /\ d.kind = "me-login" /\ d.phase = "sent"
    BY <1>0 DEF Call, Kind
  <2> HIDE DEF d
  <2>3. Follows(rest \cup {d})
    BY <2>2, FollowsMore DEF IsGuard
  <2> QED
    BY <2>1, <2>3, TabStays, Becomes DEF d
<1>5. CASE c.kind = "register"
  <2>1. Become(storage, NotSubmitting(c, tab), rest)
    BY <1>5 DEF OnDone
  <2>2. Keeps(storage, NotSubmitting(c, tab))
    BY <1>1, Submitted DEF Keeps
  <2> QED
    BY <1>1, <2>1, <2>2, Becomes
<1>6. CASE c.kind = "logout"
  <2>1. Become(Cleared, CompleteLogout(tab), rest)
    BY <1>6 DEF OnDone
  <2> QED
    BY <1>1, <2>1, LogoutStays, Becomes
<1>7. CASE c.kind = "data"
  <2>1. Become(storage, tab, rest)
    BY <1>7 DEF OnDone
  <2> QED
    BY <1>1, <2>1, Becomes
<1>8. CASE c.kind = "me-shell"
  <2>1. Become(storage, known, rest)
    BY <1>8 DEF OnDone
  <2> QED
    BY <1>1, <1>2, <2>1, Becomes
<1>9. CASE c.kind = "me-login"
  <2>1. PICK t \in GoAfterLogin(c, known) : Become(storage, t, rest)
    BY <1>9 DEF OnDone
  <2>2. Keeps(storage, t)
    BY <1>2, AfterLogin
  <2> QED
    BY <1>1, <2>1, <2>2, Becomes
<1>10. CASE c.kind = "me-guard" /\ c.token \notin Admins
  <2>1. Become(storage, Ask(known, To("app")), rest)
    BY <1>10 DEF OnDone
  <2>2. Keeps(storage, Ask(known, To("app")))
    BY <1>2, <1>3, AskStays
  <2> QED
    BY <1>1, <2>1, <2>2, Becomes
<1>11. CASE c.kind = "me-guard" /\ c.token \in Admins
  <2>1. Enter("admin", known, LeaveForm(rest))
    BY <1>11 DEF OnDone
  <2>2. \A d \in rest : ~IsGuard(d)
    BY <1>11 DEF Inv, Guards, IsGuard
  <2>3. \A d \in LeaveForm(rest) : ~IsGuard(d)
    BY <2>2, LeaveFormCalls DEF IsGuard, Inv
  <2>4. Follows(LeaveForm(rest))
    BY <2>3, LeftCalls
  <2>5. Inv' /\ tab'.page = "admin" /\ tab'.currentUser = c.token
    BY <1>2, <2>1, <2>3, <2>4, EnterInv DEF Shells
  <2>6. storage.access # NoUser \/ AtLogin(tab)
    BY <1>11 DEF Inv, Guards, GuardMayEnter, IsGuard
  <2> QED
    BY <1>11, <2>5, <2>6 DEF Guarded
<1> QED
  BY <1>0, <1>4, <1>5, <1>6, <1>7, <1>8, <1>9, <1>10, <1>11 DEF Kind

\* An error never changes the page.
LEMMA ErrorPage ==
  ASSUME Inv, NEW c \in calls, NEW s, NEW t, OnError(c, s, t),
         \/ s = storage /\ t = tab
         \/ s = Cleared /\ t = AskLogin(tab)
  PROVE  Inv' /\ Guarded
BY ErrorInv DEF Guarded

\* Whatever answer a call gets, the interceptor included.
LEMMA AnswerInv ==
  ASSUME Inv, NEW id \in 1..MaxCalls, Answer(id)
  PROVE  Inv' /\ Guarded
<1>1. PICK c \in calls : \/ Succeeds(c) \/ Fails(c) \/ Unauthorized(c)
                        \/ Refreshed(c) \/ RefreshUnauthorized(c) \/ RefreshFails(c)
  BY DEF Answer
<1>2. c \in Call /\ storage \in Storage
  BY DEF Inv, TypeOK
<1>3. CASE Succeeds(c)
  BY <1>3, DoneInv DEF Succeeds
<1>4. CASE Fails(c)
  BY <1>4, ErrorPage DEF Fails
<1>5. CASE OnError(c, Cleared, AskLogin(tab))
  BY <1>5, ErrorPage
<1>6. CASE /\ storage.refresh # NoUser
           /\ \/ Unauthorized(c)
              \/ RefreshUnauthorized(c) /\ ~IsNoRetry("refresh")
  <2> DEFINE d == IF c.phase = "sent" THEN [c EXCEPT !.phase = "refreshing", !.token = storage.refresh]
                  ELSE [c EXCEPT !.token = storage.refresh]
  <2>1. Become(storage, tab, (calls \ {c}) \cup {d})
    BY <1>6 DEF Unauthorized, RefreshUnauthorized
  <2>2. d \in Call /\ d.kind = c.kind /\ d.token # NoUser
    BY <1>2, <1>6 DEF Call, Storage
  <2> HIDE DEF d
  <2>3. Follows((calls \ {c}) \cup {d})
    BY <2>2, FollowsMore DEF IsGuard
  <2> QED
    BY <2>1, <2>3, TabStays, Becomes
<1>7. CASE Refreshed(c)
  <2> DEFINE d == [c EXCEPT !.phase = "replayed"]
  <2>1. Become(SetAccessToken(c.token), tab, (calls \ {c}) \cup {d}) /\ c.phase = "refreshing"
    BY <1>7 DEF Refreshed
  <2>2. d \in Call /\ d.kind = c.kind /\ d.phase = "replayed"
    BY <1>2 DEF Call
  <2>3. c.token \in Users
    BY <1>2, <2>1 DEF Inv, Call
  <2> HIDE DEF d
  <2>4. Follows((calls \ {c}) \cup {d})
    BY <2>2, FollowsMore DEF IsGuard
  <2> QED
    BY <2>1, <2>3, <2>4, TabStays, Becomes
<1> QED
  BY <1>1, <1>3, <1>4, <1>5, <1>6, <1>7
     DEF LogOutAndFail, Unauthorized, RefreshUnauthorized, RefreshFails

-----------------------------------------------------------------------------
(* The user and the router.                                                *)

\* The user's clicks, and the guards that ask for the login page.
LEMMA UserInv ==
  ASSUME Inv, \/ Submit \/ OtherForm \/ UsePage \/ FollowLink \/ GoToAdminConsole \/ ExitToApp
              \/ Logout \/ Reload \/ TurnedAway
  PROVE  Inv' /\ Guarded
<1>0. /\ storage \in Storage /\ tab \in Tab /\ Follows(calls) /\ Tokens(storage) /\ Tokens(Cleared)
      /\ Keeps(storage, tab)
  BY TabStays DEF Follows, Inv, Guards, TypeOK
<1>1. ASSUME NEW target \in Target, ~target.asked
      PROVE  Keeps(storage, Ask(tab, target))
  BY <1>0, <1>1, AskStays
<1>2. ASSUME NEW d \in Call, ~IsGuard(d), d.phase = "sent"
      PROVE  Follows(calls \cup {d})
  BY <1>2, FollowsMore
<1>3. CASE Submit
  <2> DEFINE t == [tab EXCEPT !.submitting = TRUE]
             d == [NewCall(tab.page) EXCEPT !.token = NoUser]
  <2>1. Become(storage, t, calls \cup {d}) /\ tab.page \in Forms /\ FreeIds # {}
    BY <1>3 DEF Submit
  <2>2. Keeps(storage, t)
    BY <1>0 DEF Keeps, Tab
  <2>3. NewCall(tab.page) \in Call /\ NewCall(tab.page).kind = tab.page /\ NewCall(tab.page).phase = "sent"
    BY <1>0, <2>1, NewCallTypes DEF Forms, Kind
  <2>4. d \in Call /\ d.kind = tab.page /\ d.phase = "sent"
    BY <2>3 DEF Call
  <2> HIDE DEF d, t
  <2>5. Follows(calls \cup {d})
    BY <1>2, <2>1, <2>4 DEF IsGuard, Forms
  <2> QED
    BY <1>0, <2>1, <2>2, <2>5, Becomes
<1>4. CASE OtherForm
  <2>1. To(IF tab.page = "login" THEN "register" ELSE "login") \in Target
        /\ ~To(IF tab.page = "login" THEN "register" ELSE "login").asked
    BY Targets DEF Forms
  <2> QED
    BY <1>0, <1>1, <1>4, <2>1, Becomes DEF OtherForm
<1>5. ASSUME NEW nav \in {tab.nav, NoNav}
      PROVE  Keeps(storage, [tab EXCEPT !.nav = nav])
  BY <1>0, <1>5 DEF Keeps, Tab
<1>6. CASE UsePage
  <2>1. NewCall("data") \in Call /\ NewCall("data").kind = "data" /\ NewCall("data").phase = "sent"
    BY <1>0, <1>6, NewCallTypes DEF UsePage, Kind
  <2>2. Follows(calls \cup {NewCall("data")})
    BY <1>2, <2>1 DEF IsGuard
  <2> QED
    BY <1>0, <1>5, <1>6, <2>2, Becomes DEF UsePage
<1>7. CASE FollowLink
  BY <1>0, <1>5, <1>7, Becomes DEF FollowLink
<1>8. CASE GoToAdminConsole \/ ExitToApp
  <2>1. \A page \in Shells : To(page) \in Target /\ ~To(page).asked
    BY Targets
  <2>2. PICK page \in Shells : Become(storage, Ask(tab, To(page)), calls)
    BY <1>8 DEF GoToAdminConsole, ExitToApp, Shells
  <2> QED
    BY <1>0, <1>1, <2>1, <2>2, Becomes
<1>9. CASE Logout
  <2>1. CASE storage.access = NoUser
    BY <1>0, <1>9, <2>1, LogoutStays, Becomes DEF Logout
  <2>2. CASE storage.access # NoUser
    <3>1. /\ NewCall("logout") \in Call /\ NewCall("logout").kind = "logout"
          /\ NewCall("logout").phase = "sent"
      BY <1>0, <1>9, <2>2, NewCallTypes DEF Logout, Kind
    <3>2. Follows(calls \cup {NewCall("logout")})
      BY <1>2, <3>1 DEF IsGuard
    <3> QED
      BY <1>0, <1>9, <2>2, <3>2, Becomes DEF Logout
  <2> QED
    BY <2>1, <2>2
<1>10. CASE Reload
  <2>1. tab.page \in Shells \cup Forms /\ tab.returnTo \in ReturnTo \cup {NoReturn}
    BY <1>0, <1>10 DEF Reload, Tab
  <2>2. [To(tab.page) EXCEPT !.returnTo = tab.returnTo] \in Target
    BY <2>1, Targets DEF Target
  <2>3. tab' \in Tab /\ tab'.page = "blank"
    BY <1>10, <2>2 DEF Reload, Tab
  <2> QED
    BY <1>10, <2>3 DEF Reload, Inv, TypeOK, SignedOutForgetsBoth, Guards, Guarded, Shells
<1>11. CASE TurnedAway
  <2>1. PICK page \in Shells : Become(storage, Ask(tab, ToLogin(page)), calls)
    BY <1>11 DEF TurnedAway
  <2>2. ToLogin(page) \in Target /\ ~ToLogin(page).asked
    BY Targets DEF ReturnTo
  <2> QED
    BY <1>0, <1>1, <2>1, <2>2, Becomes
<1> QED
  BY <1>3, <1>4, <1>6, <1>7, <1>8, <1>9, <1>10, <1>11

\* The router brings the pending navigation to its end.
LEMMA NavigateInv ==
  ASSUME Inv, OpenForm \/ OpenApp \/ OpenAdmin
  PROVE  Inv' /\ Guarded
<1>0. /\ storage \in Storage /\ tab \in Tab /\ Follows(calls) /\ Tokens(storage)
      /\ tab.nav # NoNav /\ ~tab.nav.asked /\ tab.nav \in Target
  <2>1. tab.nav # NoNav /\ ~tab.nav.asked
    BY DEF OpenForm, OpenApp, OpenAdmin, Pending
  <2> QED
    BY <2>1, TabStays DEF Follows, Inv, Guards, TypeOK, Tab
<1>1. \A c \in calls : ~IsGuard(c)
  BY <1>0 DEF Inv, Guards, GuardMayEnter
<1>2. Follows(LeaveForm(calls)) /\ \A c \in LeaveForm(calls) : ~IsGuard(c)
  BY <1>1, LeaveFormCalls, LeftCalls DEF IsGuard, Inv
<1>3. ASSUME NEW page \in Forms, Pending(page),
             tab' = [tab EXCEPT !.page = page, !.returnTo = tab.nav.returnTo, !.nav = NoNav,
                                !.submitting = @ /\ tab.page = page],
             calls' = IF tab.page = page THEN calls ELSE LeaveForm(calls), UNCHANGED storage
      PROVE  Inv' /\ Guarded
  <2>1. tab' \in Tab /\ tab'.page = page
    BY <1>0, <1>3 DEF Tab, Target
  <2>2. \A c \in calls' : /\ c \in Call /\ (c.phase = "refreshing" => c.token # NoUser)
                          /\ ~IsGuard(c)
    BY <1>0, <1>1, <1>2, <1>3 DEF Follows
  <2> QED
    BY <1>3, <2>1, <2>2 DEF Inv, TypeOK, SignedOutForgetsBoth, Guards, Guarded, Forms, Shells
<1>4. CASE OpenApp
  <2>1. Inv' /\ tab'.page = "app"
    BY <1>0, <1>2, <1>4, EnterInv DEF OpenApp, Shells
  <2> QED
    BY <1>4, <2>1 DEF OpenApp, Guarded
<1>5. CASE OpenAdmin /\ tab.currentUser \in Admins
  <2>1. Inv' /\ tab'.page = "admin" /\ tab'.currentUser = tab.currentUser
    BY <1>0, <1>2, <1>5, EnterInv DEF OpenAdmin, Shells
  <2> QED
    BY <1>5, <2>1 DEF OpenAdmin, Guarded
<1>6. CASE OpenAdmin /\ tab.currentUser \notin Admins
  <2> DEFINE t == [tab EXCEPT !.nav.asked = TRUE]
             d == NewCall("me-guard")
  <2>1. Become(storage, t, calls \cup {d}) /\ FreeIds # {} /\ storage.access # NoUser
    BY <1>6 DEF OpenAdmin
  <2>2. d \in Call /\ d.kind = "me-guard" /\ d.phase = "sent"
    BY <1>0, <2>1, NewCallTypes DEF Kind
  <2>a. [tab.nav EXCEPT !.asked = TRUE] \in Target
    BY <1>0 DEF Target
  <2>b. /\ t \in Tab /\ t.page = tab.page /\ t.nav = [tab.nav EXCEPT !.asked = TRUE]
    BY <1>0, <2>a DEF Tab
  <2>3. t \in Tab /\ t.page = tab.page /\ t.nav # NoNav /\ t.nav.asked
    BY <1>0, <2>a, <2>b, NavAssumption DEF Target
  <2> HIDE DEF d, t
  <2>4. calls' = calls \cup {d} /\ tab' = t /\ storage' = storage
    BY <2>1, <2>3 DEF Become, Unguarded
  <2>5. /\ TypeOK' /\ SignedOutForgetsBoth'
        /\ \A c \in calls' : c.phase = "refreshing" => c.token # NoUser
    BY <2>2, <2>3, <2>4 DEF Inv, TypeOK, SignedOutForgetsBoth
  <2>6. Guards(storage, tab, calls)'
    BY <1>1, <2>1, <2>3, <2>4 DEF Guards, GuardMayEnter
  <2> QED
    BY <2>3, <2>4, <2>5, <2>6 DEF Inv, Guarded
<1> QED
  BY <1>3, <1>4, <1>5, <1>6 DEF OpenForm

\* Every step keeps the invariant, and enters a shell only past its guard.
LEMMA SessionStep ==
  ASSUME Inv, [Next]_vars
  PROVE  Inv' /\ [Guarded]_vars
<1>1. CASE UNCHANGED vars
  BY <1>1 DEF vars, Inv, TypeOK, SignedOutForgetsBoth, Guards, GuardMayEnter, AtLogin
<1>2. CASE Next
  BY <1>2, UserInv, NavigateInv, AnswerInv DEF Next, Navigate
<1> QED
  BY <1>1, <1>2

\* A tab opens with both tokens or none, and no call.
LEMMA SessionInit == Init => Inv
<1> SUFFICES ASSUME Init
             PROVE  Inv
  OBVIOUS
<1>1. storage \in Storage /\ (storage.access = NoUser => storage.refresh = NoUser)
  BY SessionAssumption DEF Init, Storage, NoTokens
<1>2. tab \in Tab
  <2>1. PICK page \in Shells \cup Forms :
          tab = [page |-> "blank", returnTo |-> NoReturn, currentUser |-> NoUser,
                 submitting |-> FALSE, nav |-> To(page)]
    BY DEF Init
  <2> QED
    BY <2>1, Targets DEF Tab
<1> QED
  BY <1>1, <1>2 DEF Init, Inv, TypeOK, SignedOutForgetsBoth, Guards

\* The invariant holds throughout.
LEMMA SessionInv == Spec => []Inv
<1>1. Inv /\ [Next]_vars => Inv'
  BY SessionStep
<1> QED
  BY <1>1, SessionInit, PTL DEF Spec

\* The tokens, the tab and every call in flight keep their types.
THEOREM SessionTypes == Spec => []TypeOK
<1>1. Inv => TypeOK
  BY DEF Inv
<1> QED
  BY <1>1, SessionInv, PTL

\* No way out of a session leaves its refresh token in the browser.
THEOREM SessionForgets == Spec => []SignedOutForgetsBoth
<1>1. Inv => SignedOutForgetsBoth
  BY DEF Inv
<1> QED
  BY <1>1, SessionInv, PTL

\* No shell is entered without a token in storage, except at "/login" itself, nor the
\* admin's by a tab that does not take its user for an admin.
THEOREM SessionGuards == Spec => GuardsHold
<1>1. Inv /\ [Next]_vars => [Guarded]_vars
  BY SessionStep
<1>2. Spec => [][Guarded]_vars
  BY <1>1, SessionInv, PTL DEF Spec
<1> QED
  BY <1>2 DEF GuardsHold, Guarded
=============================================================================

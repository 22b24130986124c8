----------------------------- MODULE ClientApp -----------------------------
(***************************************************************************)
(* The pages of the client under one router.  A link, or a page's own      *)
(* handler, asks for a page; the page on screen works on until the router  *)
(* has loaded the next one.  Then its component is destroyed.  What it     *)
(* subscribed to is not: an answer that comes later still runs its         *)
(* callback, which may ask for a page.  What else such a callback does     *)
(* nobody sees: it sets signals of a component that is gone, sends calls   *)
(* whose answers do the same, makes an image URL that is never shown (and  *)
(* never revoked: URLs are left out), or says something in a snack bar.    *)
(*                                                                         *)
(* The user is signed in and stays so: see Session for tokens.             *)
(***************************************************************************)
EXTENDS ClientScreen

CONSTANTS
  Windows, NoWindow, Seats, NoSeat, NoInvoice,                \* the booking forms
  Bookings, Matches, Amounts, NoBooking, NoRow, NoOne,        \* the tables
  NoDraft, NoAmount, NoSettings,
  Users, Tokens, NoToken, Prices, ZeroPrices, NotValid,       \* the other admin pages
  FormCalls,  \* bound: prices, and seat maps, that one booking form asks for
  EditCalls,  \* bound: prices, and seat maps, that one form of an edit asks for
  ListCalls,  \* bound: requests that the list of users makes
  PageCalls   \* bound: requests that one other page makes

VARIABLE
  abandoned   \* a call of a destroyed page is in flight that may ask for a page

appVars == <<vars, abandoned>>

Book == INSTANCE CreateBooking WITH MaxCalls <- FormCalls
Edit == INSTANCE EditBooking WITH MaxCalls <- EditCalls
Mine == INSTANCE MyBookings WITH MaxCalls <- PageCalls
Payments == INSTANCE AdminPayments WITH MaxCalls <- PageCalls
All == INSTANCE AdminBookings WITH MaxCalls <- PageCalls
UserList == INSTANCE AdminUsers WITH MaxCalls <- ListCalls
Roles == INSTANCE AdminRoles WITH MaxCalls <- PageCalls
Pricing == INSTANCE AdminPricing WITH MaxCalls <- PageCalls
Qr == INSTANCE AdminPaymentSettings WITH MaxCalls <- PageCalls

ASSUME FormAssumption ==
  /\ NoWindow \notin Windows
  /\ NoSeat \notin Seats
  /\ NoInvoice \notin Book!Invoice \cup Edit!Invoice
  /\ NoBooking \notin Edit!Booking
  /\ FormCalls \in Nat /\ EditCalls \in Nat

ASSUME TableAssumption ==
  /\ Matches \subseteq Bookings /\ Amounts \subseteq Nat
  /\ NoRow \notin Mine!BookingStatus /\ NoRow \notin Amounts
  /\ NoOne \notin Bookings
  /\ NoAmount \notin Amounts
  /\ NoDraft \notin Payments!Draft
  /\ NoSettings \notin BOOLEAN
  /\ NoToken \notin Tokens
  /\ ZeroPrices \in Prices /\ NotValid \notin Prices
  /\ ListCalls \in Nat /\ PageCalls \in Nat

UserPages == {"my-bookings", "book", "edit"}
AdminPages == {"users", "roles", "admin-bookings", "payments", "pricing", "payment-settings"}
ASSUME PageAssumption == NoPage \notin UserPages \cup AdminPages

TypeOK ==
  /\ \/ Book!TypeOK \/ Edit!TypeOK \/ Mine!TypeOK
     \/ Payments!TypeOK \/ All!TypeOK \/ UserList!TypeOK
     \/ Roles!TypeOK \/ Pricing!TypeOK \/ Qr!TypeOK
  /\ nav \in UserPages \cup AdminPages \cup {NoPage}
  /\ abandoned \in BOOLEAN

\* The application opens on the user's bookings.
Init ==
  /\ screen = Mine!NewPage
  /\ calls = Mine!FirstCalls
  /\ nav = NoPage
  /\ abandoned = FALSE

On(page, Step) ==
  /\ screen.page = page
  /\ Step
  /\ UNCHANGED abandoned

Work ==
  \/ On("book", Book!Next)
  \/ On("edit", Edit!Next)
  \/ On("my-bookings", Mine!Next)
  \/ On("payments", Payments!Next)
  \/ On("admin-bookings", All!Next)
  \/ On("users", UserList!Next)
  \/ On("roles", Roles!Next)
  \/ On("pricing", Pricing!Next)
  \/ On("payment-settings", Qr!Next)

-----------------------------------------------------------------------------
(* The router.                                                             *)

\* The links of the shell around the page, its way to the other shell included.
Links ==
  IF screen.page \in UserPages
  THEN {"my-bookings", "book", "users"}
  ELSE AdminPages \cup {"my-bookings"}

\* A link to the page on screen only calls off what was pending.
FollowLink(page) ==
  /\ page \in Links
  /\ nav' = IF page = screen.page THEN NoPage ELSE page
  /\ UNCHANGED <<screen, calls, abandoned>>

\* The calls whose callbacks ask for a page.
LeavingCalls == {"create", "update", "getOne"}

Open(new, first) ==
  /\ screen' = new
  /\ calls' = first
  /\ nav' = NoPage
  /\ abandoned' = (abandoned \/ \E c \in calls : c.call \in LeavingCalls)

OpenMine == Open(Mine!NewPage, Mine!FirstCalls)

\* The route of each page and the component it loads.  The guard of the admin
\* routes, asked on the way in, sends back a user it does not take for an admin.
Navigate ==
  \/ nav = "my-bookings" /\ OpenMine
  \/ nav = "book" /\ Open(Book!NewForm, {})
  \/ nav = "edit" /\ Open(Edit!NewForm, Edit!FirstCalls)
  \/ nav = "users" /\ Open(UserList!NewPage, UserList!FirstCalls)
  \/ nav = "roles" /\ Open(Roles!NewPage, Roles!FirstCalls)
  \/ nav = "admin-bookings" /\ Open(All!NewPage, All!FirstCalls)
  \/ nav = "payments" /\ Open(Payments!NewPage, Payments!FirstCalls)
  \/ nav = "pricing" /\ Open(Pricing!NewPage, Pricing!FirstCalls)
  \/ nav = "payment-settings" /\ Open(Qr!NewPage, Qr!FirstCalls)

SentBack ==
  /\ nav = "users" /\ screen.page \in UserPages
  /\ IF screen.page = "my-bookings"
     THEN nav' = NoPage /\ UNCHANGED <<screen, calls, abandoned>>
     ELSE OpenMine

-----------------------------------------------------------------------------
(* Answers to destroyed pages.                                             *)

\* A booking was created or updated, or cannot be edited: the router is asked for
\* the list, wherever the user is now.  More such answers may be to come, or none.
LateLeave ==
  /\ abandoned
  /\ abandoned' \in BOOLEAN
  /\ nav' \in {nav, IF screen.page = "my-bookings" THEN NoPage ELSE "my-bookings"}
  /\ UNCHANGED <<screen, calls>>

Next ==
  \/ Work
  \/ \E page \in UserPages \cup AdminPages : FollowLink(page)
  \/ Navigate
  \/ SentBack
  \/ LateLeave

\* The server answers every call of the page on screen, or the browser reports an
\* error for it; HttpClient then runs one of its callbacks.
Fairness ==
  /\ WF_appVars(On("book", Book!AnswerMap))
  /\ WF_appVars(On("book", Book!AnswerPrice))
  /\ WF_appVars(On("book", Book!AnswerCreate))

Spec == Init /\ [][Next]_appVars /\ Fairness

-----------------------------------------------------------------------------
(* Properties: those of the pages, on whatever page is open.               *)

\* "This is what prevents users from confirming a booking without seeing the
\* price": when Confirm can be clicked, the invoice on screen is for the seat and
\* the window it would book.
ConfirmsWhatWasPriced == screen.page = "book" => Book!ConfirmsWhatWasPriced

\* A seat that the map of the booking form shows as taken is never selected there.
SelectedSeatNotTaken == screen.page = "book" => Book!SelectedSeatNotTaken

\* "Clear the old invoice immediately; the price effect will fetch a fresh one": once
\* a seat was picked on the booking form, the price last asked for is that seat's,
\* and its answer is still to come.
PickedSeatIsPriced ==
  [][\A seat \in Seats :
       screen.page = "book" /\ Book!OnSeatPicked(seat) =>
         \E c \in calls' : /\ c.call = "checkAvailability"
                           /\ c.id = screen'.priceReqId
                           /\ c.seat = seat]_appVars

\* On the edit form: once the price last asked for has come or failed, the invoice
\* under review is for the seat and the window that Save would send.
SettledInvoiceIsCurrent == screen.page = "edit" => Edit!SettledInvoiceIsCurrent

\* The memoized canSave of the edit form never lets a form be saved that must not be.
CanSaveIsCurrent == screen.page = "edit" => Edit!CanSaveIsCurrent

\* What an admin typed next to a payment was typed against the due shown there.
DraftIsForThisRow == screen.page = "payments" => Payments!DraftIsForThisRow

\* No page waits for nothing: what will stop each of its spinners, or free each of
\* its buttons, is in flight.
SpinnersHaveCalls ==
  /\ screen.page = "book" => Book!SpinnersHaveCalls
  /\ screen.page = "edit" => Edit!SpinnersHaveCalls
  /\ screen.page = "my-bookings" => Mine!SpinnersHaveCalls
  /\ screen.page = "payments" => Payments!SpinnersHaveCalls
  /\ screen.page = "admin-bookings" => All!SpinnersHaveCalls
  /\ screen.page = "users" => UserList!SpinnersHaveCalls
  /\ screen.page = "roles" => Roles!SpinnersHaveCalls
  /\ screen.page = "pricing" => Pricing!SpinnersHaveCalls
  /\ screen.page = "payment-settings" => Qr!SpinnersHaveCalls

Waiting ==
  screen.page = "book" /\ (screen.checking \/ screen.loadingSeats \/ screen.submitting)

\* A booking form comes to rest: when the user stops changing it, no answer that was
\* dropped, and none that came out of turn, leaves it checking.
FormSettles == Waiting ~> ~Waiting
=============================================================================

# Zenoviz in TLA+

Zenoviz books the 65 seats of a study room: users create and edit reservations,
pay by UPI and upload a screenshot, an admin approves or rejects, and a background
job releases what nobody paid for.  This directory holds TLA+ models of the
program, the TLC runs that check them and TLAPS proofs about them.  Paths below
are relative to `src/backend/src` unless they begin with `frontend`.

## 1. The system

| part | state | operations | talks to |
|---|---|---|---|
| `services/booking_service.py` | none of its own; tables `bookings`, `seat_booking_days`, `pricing_configs`, `payment_settings` | availability, create, edit, payment proof, approve, reject, pricing, payment settings | repository, file storage |
| `repositories/impl/study_repository_sqlalchemy.py` | the SQL session of one request | `SELECT ... FOR UPDATE` of a seat, reads, `DELETE`/`INSERT` of slots, expiry statements | PostgreSQL, READ COMMITTED |
| `jobs/expiry.py`, started by `main.py` | none | every interval: select overdue reservations `FOR UPDATE`, delete their slots, mark them EXPIRED | repository |
| `domain/study_room_rules.py`, `domain/study_pricing.py` | none | dates, category, window, overlap; price with discount and surcharge | called by the service |
| `db/session.py` | connection pool | one transaction per request, commit when the handler returns | |
| `services/role_service.py` and its repository | table `user_roles` | grant, revoke, list | Cognito (email to sub) |
| `dependencies.py` | the JWKS cache, shared by the threads of the server | verify a token, roles of the caller, `require_admin` with the bootstrap admins | Cognito |
| `services/auth_service.py`, `user_admin_service.py`, `clients/impl/cognito.py` | none | register, login, refresh, user administration | Cognito |
| `repositories/impl/local_storage_repository.py` | screenshots and QR files | save, read | disk |
| `frontend/.../core/auth`, `core/api/auth.service.ts` | tokens in local storage, the current user in memory | attach the token, refresh on 401 and replay (each call for itself), guard the shells, log out | all HTTP calls, the router |
| `frontend/.../features/auth`, `core/layout` | the two forms, the user of the shell | log in, register, log out, links | auth service, router |
| `frontend/.../features/bookings` | form, seat map, invoice, list, QR image | check, create, edit, upload | REST API, router |
| `frontend/.../features/admin` | six pages with lists and forms | approve, reject, pricing, payment settings, roles, users | REST API |

What is hard here:

- **Concurrency.**  Every request and every expiry pass is a database transaction
  in one of many sessions.  Only the seat row (create, edit) and the overdue rows
  (expiry) are ever locked for reading; the booking row an edit, a proof, an
  approval or a rejection acts on is read without a lock and written back later.
  The slot table has no unique constraint.
- **Failure.**  A session may be lost and rolled back at any statement; an expiry
  pass may fail or be the victim of a deadlock and is repeated.
- **Ordering and sequences.**  A booking goes through RESERVED, PAYMENT_PENDING,
  COMPLETED and back again (edits, partial payments), while prices, opening hours
  and the timeout change under it.
- **Time.**  Deadlines race with uploads, edits and the expiry job.
- **Clients.**  Every page has several calls in flight; their answers come out of
  order, after the form has changed, after the page is gone or after the user has
  logged out.  Any call may come back 401, refresh the token and be sent again.

What makes each part correct:

| part | properties |
|---|---|
| bookings and slots | no cell of a seat belongs to two bookings; slot rows match booking rows; a reservation has a deadline; a COMPLETED booking is paid; credited money is not lost; final statuses stay |
| expiry | expires only what is overdue, in the end everything that is overdue; releases the slots |
| transactions | one holder per seat, no request waits for ever, an aborted request leaves nothing behind |
| pricing | one active configuration, the last one saved; prices per the rounding rules |
| tokens and guards | no refresh token outlives its session; no shell without a token, the admin's only if the tab takes its user for an admin; a logout is carried through, a waiting guard and a refresh end |
| booking forms | what is confirmed or saved is what was last shown as free and priced; the form comes to rest |
| other pages | a typed amount belongs to the amount due shown; a spinner has a call that will stop it |

## 2. Modules

| module | models | role |
|---|---|---|
| `BookingRows` | the columns, slots and row transitions of `booking_service.py` | pure operators, used by the next two |
| `SeatLedger` | - | abstract specification: exclusive claims on cells of seats |
| `BookingService` | every booking operation as one atomic step | implements `SeatLedger` |
| `SlotLedger` | - | abstract specification: what is left of `SeatLedger` when transactions interleave |
| `BookingTxn` | the same operations as SQL statements of interleaved transactions, with PostgreSQL's locks, deadlock detection and rollback | implements `SlotLedger`; run one at a time, `BookingService` |
| `StudyRules` | `domain/study_room_rules.py` | pure operators: days, category, window, overlap |
| `StudyPricing` | `domain/study_pricing.py` | pure operators: discount, surcharge, rounding, breakdown |
| `BookingIntervals` | the booking operations with the columns that are really stored (dates, minutes, days, category, breakdown), and the two availability answers | uses the two modules above, implements `BookingService` |
| `ClientScreen` | - | what a page is: the component on screen, its calls in flight, the router's pending page |
| `CreateBooking`, `EditBooking`, `MyBookings` | `features/bookings` | one page each, on the variables of `ClientScreen` |
| `AdminPayments`, `AdminBookings`, `AdminUsers`, `AdminRoles`, `AdminPricing`, `AdminPaymentSettings` | `features/admin` | likewise |
| `ClientApp` | `app.routes.ts`, the links of `core/layout` | instantiates the nine pages under one router |
| `Session` | `core/auth`, `core/api/auth.service.ts`, `features/auth`, the shells | tokens, guards, refresh and replay, logout |
| `MCBookingService`, `MCBookingTxn`, `MCBookingIntervals` | - | instances for TLC |
| `BookingRows_proofs`, `BookingService_proofs`, `BookingTxn_proofs`, `StudyPricing_proofs`, `BookingIntervals_proofs`, `ClientApp_proofs`, `ClientForms_proofs`, `Session_proofs` | - | lemmas and theorems |

So there are three levels: `BookingIntervals` implements `BookingService`, which
implements `SeatLedger`; and `BookingTxn`, which refines each request into
statements, implements `BookingService` as long as transactions do not overlap, and
`SlotLedger` always.
The client's modules stand beside them: the server is a set of possible answers there.

### Abstractions

- A *cell* is one minute of one date.  A slot row (date, start, end) is its set of
  cells, so `intervals_overlap` on a common date is a common cell.
- A *plan* is the rest of a request: dates, access type, times.  The constants
  `Footprint[config][plan]` and `Price[config][plan]` stand for `resolve_window`
  with `expand_day_slot_rows`, and for `compute_stored_breakdown`.  They are
  arbitrary functions, so the theorems hold for any rules and prices; an empty
  footprint is a request the rules refuse.  That `start_date` may not be in the
  past is left to `BookingIntervals`: here a plan that is accepted once is accepted
  always, which only adds behaviours.  The API takes any base price, so prices are
  integers.
- Amounts are whole cents.  An explicit amount of an approval is positive but
  `quantize` may make it 0, so 0 is one of `Amounts`.
- The screenshot is the fact that there is one.  Columns no decision reads
  (category, breakdown, timestamps) are left out; `BookingIntervals` has category
  and breakdown.
- In `BookingIntervals` dates are consecutive integers and times minutes after
  midnight (what `time_to_minute` gives), a slot row is a pair of minutes on a date
  and `Quote` the stored breakdown.  The lengths 7 and 30 days, three hours and 100 %
  are the constants `Week`, `Month`, `Timeslot` and `Whole`.
- `now` is the server clock in ticks; `MaxNow` bounds it for TLC and is the only
  bound written into the server's modules.
- In the client, one step is an event (a click, an answer) with the whole of its
  handler and the change detection and effects the browser runs before the next event.
  A call is answered with anything the server may say, or fails.
- Dates, access type and slot of a booking form are one value, a *window*; the five
  fields of the pricing form are one value.  A page keeps of a row the column it looks
  at.  `sent`, `maps` and the `id` of most calls only tell one call from the next and
  carry the bound; the code has a number on prices only (`priceReqId`).
- `AdminBookings` shows RESERVED and EXPIRED rows as it shows COMPLETED ones, so they are
  one status; in `AdminUsers` the admin's own row, on which nothing can be clicked, is left
  out.  Whether an edit is `cheaper` than what was paid is left open in each answer.
- The calls of a destroyed page are forgotten, except that one of them may navigate.  Their
  other effects nobody sees: signals of a component that is gone, and an image URL that is
  never revoked (section 4).  Object URLs are left out altogether.
- In `Session` a token is known by its user, and a token is expired whenever the server
  says 401.  `data` stands for every call of the pages.  `left` is what a login form that is
  destroyed with its call in flight had as `returnTo`.  Expired tokens occur in `Session`
  only: the pages of `ClientApp` see a call that succeeds or fails.

### BookingService

`bookings` maps ids to rows (`NoRow` when the id is not in use), `slots` is the
slot table as a set of (booking, seat, cell), `pricing` the active configuration.
Each action is a whole request: its guard is the conjunction of the checks that
raise `ValueError`, its effect what the transaction commits.

### BookingIntervals

The same variables and actions with the stored columns.  `Valid` is
`_validate_dates` with `resolve_window`, `Conflict` the query of one seat with
`_has_conflict`, `UnavailableSeats` the query of all seats that draws the seat map.
The refinement mapping replaces a slot row by its minutes (`ServiceSlots`) and a
row's dates and window by its cells (`ServiceRow`), and gives `BookingService`'s
constants `Footprint`, `Price` and `Timeout` the values the rules compute.

### BookingTxn

`bookings` and `slots` are what is committed; `txn[w]` is the open transaction of
worker `w`: what it has read, the row it will write, the slots its `DELETE` has
seen.

| action | statements |
|---|---|
| `BeginCreate`, `BeginEdit` | `get_booking`, `get_active_pricing`, window and price |
| `LockSeatAndCheck` | `lock_seat_row`, `load_booked_intervals`, the checks after it |
| `BeginUpload`, `BeginApprove`, `BeginReject` | `get_booking`, the checks, the new column values |
| `StartDelete`, `FinishDelete` | `DELETE` of slots: its snapshot, then the wait for rows another transaction has deleted |
| `CommitCreate/Edit/Row/Reject` | `INSERT`/`UPDATE` and the commit |
| `BeginExpire`, `CommitExpire` | the expiry job's `SELECT ... FOR UPDATE`; its `UPDATE` and commit |
| `Abort`, `BreakDeadlock` | rollback of a lost session; PostgreSQL's deadlock victim |

`SlotLedger` has the taken slots and the set of bookings that have ended (`Closed`).
There, as in `SeatLedger`, a booking takes only a whole window in which no other booking
has a cell (`Take`), and slots go only with their own booking's move or end (`Close`).
But it may take them after its end, may come back from its end (`Reopen`), and may move or
end without giving all of them back: that is what the unlocked reads of section 4 leave.

`Merge` is the unit of work of SQLAlchemy: an `UPDATE` sets only the columns whose
value differs from the one that was loaded.  `INSERT` and `UPDATE` come last in
every request and nothing can refuse them once their locks are free, so they are
one step with the commit; that also makes the locks they take invisible.  A failure is
`Abort`, at any statement before that step: that the writes of a transaction are committed
together or not at all is PostgreSQL's doing and taken for granted, not checked.

### The pages of the client

`screen` is the component on screen as a record of its signals and form fields, `calls` its
HTTP calls in flight.  `Handle` is an event handler, `Receive` the callback of an answer,
`ReceiveAndLeave` one that also calls `router.navigate`.

| module | actions and the code |
|---|---|
| `CreateBooking` | `ChangeWindow`, `OnSeatPicked`, `RefreshPrice`, `Submit`; `AskMap` and `AskPrice` are the two effects; `SeatsAnswered`, `PriceAnswered`, `Created` and the failures their callbacks |
| `EditBooking` | the same, with `BookingLoaded` (prefill) and `Save`; `Render` is Angular's memoization of `canSave`: it is computed again when a signal it read last time has changed (`tracks`) |
| `MyBookings` | list, settings, QR image, upload of a proof |
| `AdminPayments` | reload, amount drafts (typed, or cleared again), approve, reject; `SameText` is the comparison of a typed sum with the server's, as text |
| `AdminBookings` | status filter, search term, approve, reject, with the computed list that does not see the term |
| `AdminUsers` | pages by token, the filter with its delay, grant and revoke |
| `AdminRoles`, `AdminPricing`, `AdminPaymentSettings` | load, change, save |

`ClientApp` opens and destroys them: `FollowLink`, `Navigate`, `SentBack` (the guard of the
admin routes), and `LateLeave` for the answers that navigate although their page is gone.

### Session

`storage` is local storage, `tab` what the JavaScript holds (page, pending navigation,
current user, `submitting`), `calls` the requests in flight, each in phase sent,
refreshing or replayed.  `Answer(id)` is the interceptor with the subscriber behind it:
`Unauthorized` starts a refresh or logs out, `Refreshed` stores the token and replays,
`RefreshFails` logs out.  `Navigate` is the end of a navigation with its guards;
`adminGuard` waits for the server when the tab knows no admin (`asked`).  `Reload` is a new
document: its calls are gone, local storage is not.

## 3. Runs

| run | instance | shows |
|---|---|---|
| `service_safety` | 2 users, 2 bookings, 2 seats, 2 cells, 3 plans (morning, evening, both), 2 configurations | the safety properties of the atomic service, and that it implements `SeatLedger` |
| `intervals_stored` | 1 user, 2 bookings, 2 seats, 5 requests, 2 configurations, slots of 2 minutes, a week of 2 days, a month of 3 | conflicts, availability and invoices with the stored columns, and that they implement `BookingService` |
| `txn_seats` | 2 handlers and the expiry loop, 2 bookings, 2 seats, 2 configurations (open, closed), clock at 0 | no double booking and why; that slots are taken and given back as `SlotLedger` allows |
| `txn_expiry` | 2 handlers and the expiry loop, 1 booking, 1 price, explicit amount 0 or none, 3 values of the clock | only overdue bookings are expired, all of them are in the end, and requests that compete with the pass or with each other end, with failures and deadlocks |
| `txn_serial` | 1 handler, 2 bookings, 2 seats, amounts 0 and 1 | transactions that do not overlap implement `BookingService` |
| `client_screens` | nine pages, 2 windows, 2 seats, 2 bookings, amounts ₹600.00 and ₹600.05, 1 user, 2 pagination tokens, 2 configurations of prices | what is confirmed, saved or credited was shown for the same question; spinners, and that the booking form settles |
| `client_session` | 2 users, one of them an admin, 2 calls in flight | tokens, guards, logout and refresh |
| `client_pick` | as `client_screens`, 1 booking, 1 request on each page but the forms | a comment of the booking form that its own effect contradicts |
| `service_cheaper` | as `service_safety`, 1 user | a message of the code that the atomic service contradicts |
| `txn_completed_slots`, `txn_credits`, `txn_one_seat` | 2 handlers, 1 booking | statements of the documentation that hold one request at a time and fail when requests overlap |

**Bounds.**  Two bookings and two seats are the least that conflict and that an edit can
move between; two cells and the plan that covers both give partial overlap; the second
configuration closes early, is dearer and has a shorter timeout, so windows, prices and
deadlines all change under a booking.  Two handlers and the expiry loop give every pair of
concurrent operations, which is where each of the hazards lies.  The timeouts are one or
two ticks, so two and three ticks reach "in time", "at the deadline" and "late".  The
requests of `intervals_stored` touch, overlap by one minute, share hours but no date, span
all three price categories and include one the rules refuse; `Whole` is 4, so that prices
of a few cents end in halves that round up and down and in other fractions.  Its `Amounts`
are empty (only the default approval), since partial payments touch no column that
`service_safety` does not have.  In `BookingTxn` one cell makes any two windows of a seat
conflict.  `txn_seats` holds the clock at 0; its two configurations differ in that one
refuses every window, `txn_serial`'s in the price.  `txn_expiry` keeps to one booking and
one configuration, because strong fairness is dear to check; the other runs and the
theorems have more of both.  Its clock stops, so it ends when the booking is used up:
deadlock checking is off there and on everywhere else.

A booking form of `client_screens` asks for at most three prices and three seat maps
(`FormCalls`), one of an edit for two (`EditCalls`): two are enough for answers in the wrong
order, the third lets the user go on after one was dropped.  The list of users makes four
requests (`ListCalls`: first page, next page, a filter, and one more), another page three
(`PageCalls`: the first list and two actions that overlap).  Two seats and two windows make
an answer wrong in one and right in the other; two bookings make two rows busy at once.
The two sums of `AdminPayments` are ₹600.00, which a typed 600 is not as text, and ₹600.05,
which is.
`client_session` has two calls in flight (`MaxCalls`): a 401 of one overlaps the login, the
logout, the guard or another 401.  Two users show tokens of one session in the next.
No symmetry is used, and deadlock checking is on.

**Fairness.**  `ClientApp!Fairness` is weak fairness of the answers to the booking form
and `Session!Fairness` of the answer to each call: the server answers, or the browser
reports an error, and HttpClient runs one of the callbacks.  Nothing makes the user act or
a navigation end.  (A user who changes the form for ever could keep it waiting for ever;
`FormSettles` is about one who stops, which is what `FormCalls` sees to.)
`BookingTxn!FairSpec` is, for each transaction that has begun, strong fairness of its next
statement and of its commit; for the expiry loop, weak fairness of beginning a pass and
strong fairness of the statements of the pass; and weak fairness of breaking a deadlock.
A statement that waits for a lock is enabled again and again as the lock changes hands,
hence strong: asyncio runs each handler on,
PostgreSQL queues lock requests in order and breaks deadlocks, and
`expiry_background_loop` never ends and survives a failed pass.  Nothing makes a
request begin, and nothing keeps a session from being lost.

**Mutants.**  For every property of a passing run `PROJECT.json` names a mutated
definition (a lock that does nothing, a deletion that is forgotten, a column that
is not reset, an answer that is not compared with the question) under which the run
fails.

## 4. What the code does not do

Five runs end in a counterexample to a sentence of the repository; `findings` in
`PROJECT.json` quotes each.  In short: the booking row is read without a lock, so a late
upload can bring an EXPIRED booking back to life without slots, two approvals lose a
credit, and two edits keep two seats.  Without any concurrency, a paid booking gets
cheaper in two edits.  (There the repository disagrees with itself: the error message says
that paid bookings cannot be changed to a cheaper plan, the docstring of `update_booking`
allows any change of a RESERVED booking, and the first edit makes a paid booking RESERVED.
The code follows the docstring.)  In the booking form, picking the selected seat again
takes the price away and asks for no other.  The same unlocked read lets an edit put slots
under a booking that an expiry pass or a rejection has just closed, and an approval
complete a booking at a price that has just changed; these have no run of their own.

On the client the models follow the code where it is weaker than one might expect.  The
properties are stated so that they hold, which is why they have these exceptions:

- *Booking forms.*  Picking the seat that is selected already clears the invoice, but the
  effect sees no change and asks for no price (`create-booking` 901-905, `edit-booking`
  771-774; the comment says the effect "will fetch a fresh one"): that is the run
  `client_pick`.  There the tooltip goes on saying that the price is awaited; Refresh asks
  for it.  The edit form has no such button.
- *Edit form.*  `canSave` (691-698) returns on the form's status before it reads a signal,
  so once a date has been cleared Save stays disabled: hence `tracks` in
  `CanSaveIsCurrent`.  There is no flag for a price being fetched, so the old price can be
  saved with the new inputs while the new one is under way: hence "settled" in
  `SettledInvoiceIsCurrent`.  A selected seat that a newer map shows as taken stays selected.
- *Seat maps* carry no number: an older one may replace a newer one, and the first answer
  stops the spinner of both.
- *Destroyed pages.*  The answer to create, update or getOne takes the user to the list from
  wherever they are (`LateLeave`).  A QR image that comes too late makes a URL nobody
  revokes (`my-bookings` 423-431, `admin-payment-settings` 193-201).
- *Admin pages.*  One `busyId` serves all rows.  A late list brings back rows that were
  settled.  An approval without an amount credits what is due then, not what the row showed;
  and since sums are compared as text (`admin-payments` 350-354), retyping the due as 600
  where the row shows 600.00 sends an explicit amount, retyping 600.05 does not.
  The search of `admin-bookings` (302-320) is not a signal.  In `admin-users` (201-225) the
  history of tokens never shrinks and Previous cannot reach the first page.  The pricing form
  can be saved with its zeros before the prices have come, and the prices, when they come,
  replace what was typed.  Lists of members, users and bookings are applied as they come.
- *Session.*  At `/login` itself `_doLogout` does not navigate, so a pending navigation
  can enter a shell without a token: hence the exception `AtLogin` in `GuardsHold`.  A
  logout by the interceptor does not reset `currentUser`, so `adminGuard` lets in whoever
  logs in next after an admin, until the document is loaded again.  An answer to the
  refresh of an old session stores its token in the new one, and its failure clears the
  new one's tokens.  A second 401 at `/login?returnTo=...` makes the login page its own
  `returnTo`; a successful login then finds its form still disabled.  Any error of a
  replayed request logs the user out.

## 5. Proofs

The server's for arbitrary finite or infinite sets of users, bookings, seats, cells, plans,
configurations and handlers, and an unbounded clock, from the named assumptions
`RowsAssumption` (footprints are sets of cells, prices integers, timeouts positive),
`ClockAssumption`, `TxnAssumption` (the expiry loop is not a handler) and, for the
intervals, `RulesAssumption`, `WholeAssumption` and `IntervalsAssumption` (requests
and configurations are those the API lets through).

`BookingService_proofs`:

- `TypeCorrect`.  Each row transition keeps a row a row (`BookingRows_proofs`).
- `DeadlineCorrect`, `ProofCorrect`, `PaymentCorrect` from one invariant about each
  row by itself, `RowConsistent`: deadline, screenshot and money fit the status.
  It is needed because, for instance, that COMPLETED is paid survives an edit only
  if a row that is edited while COMPLETED was paid.
- `SlotsCorrect`: slot rows are exactly those the booking rows call for.
- `NoDoubleBooking`: slots are only added after the conflict check.
- `PaidOnlyGrows`, `FinalStatuses`: action properties from the types and
  `RowConsistent`.
- `LedgerImplemented`: with the refinement mapping `SeatHold` each step is a
  `Take`, a `Release` or a stutter; that the claim is free follows from
  `SlotsMatchBookings`, since the code checks slots and the ledger claims.

`BookingTxn_proofs`:

- `TypeCorrect`, with the strengthening that a transaction about to change a booking is
  about one that exists (`Present`).
- `NoDoubleBooking`, `OneSeatHolderCorrect` and `SeatLockHolds`.  `SeatExclusive` is not
  inductive: the commit inserts what was checked several steps before.  The inductive
  invariant `SeatInv` adds `OneSeatHolder` and `CheckedWindowStaysFree`: only the holder
  of a seat adds slots to it, so the window it found free stays free.
- `ExpiryCorrect`.  `ExpiryInv`: the rows of an open pass are overdue (`Pinned`,
  kept by their locks), a creation's id is new (`Fresh`), and no request writes
  EXPIRED unless it read it (`Honest`).
- `SerialImplementsService`: without overlap each commit is the request of
  `BookingService`, every other statement a stutter.  The invariant `SerialInv` says that
  at most one transaction is open (`Alone`) and that the tables are still as it found
  them (`Fits`): the row it read is the row it writes over, its `DELETE` saw all slots of
  its booking, the window is still free.  With `SameService` the theorems of
  `BookingService_proofs` hold of the tables, and from them `SerialKeepsSlots` and
  `SerialCreditsAdd`: what the runs `txn_completed_slots`, `txn_one_seat` and
  `txn_credits` find violated holds for all constants when requests do not overlap, so
  the overlap is the cause.
- `SlotLedgerImplemented`: under every interleaving each statement is a `Take`, a `Close`,
  a `Reopen` or a stutter.  `LedgerInv` adds to `SeatInv` what an open transaction's
  record says by itself (`Sound`): its window is not empty, the slots it deletes are of
  the bookings it is about, and only a rejection or the expiry pass writes a status that
  closes a booking.  `LedgerExcludes`: in the ledger itself no cell has two bookings.

`BookingIntervals_proofs`, for any lengths of slot, week and month, any requests
and any configurations with percentages from 0 to 100:

- `TypeCorrect`, with `SlotsCoverTime`: no slot row is empty.  It is needed because
  the comparison of ends finds an overlap with an empty interval that contains no
  minute.
- `ConflictCorrect`: comparing ends is sharing a minute of a date.
- `AvailabilityCorrect`: the nested dictionary of the seat map and the query of one seat
  find the same slot (`MapFindsSlot`).
- `PriceFair`, from the lemmas of `StudyPricing_proofs`: `Quantize` is off by at most
  half a unit, and the surcharge of an error is at most that error again.
- `InvoiceCorrect`: breakdown, price, days and category of a row come from one
  computation, in every row an edit or a creation leaves.
- `IntervalsImplementService`: `ServiceConflict` (the check over intervals is the one
  over cells), one lemma for each row transition and one for each action.  With it and
  `ServiceConstants` (the footprints and prices that the rules compute satisfy
  `RowsAssumption`) the theorems of `BookingService_proofs` apply to the stored rows:
- `StoredRowsKeepPromises` is their conjunction, down to `SeatLedger`, and
  `NoMinuteTwice` the one about double booking in terms of dates and minutes.

The client's for any sets of windows, seats, bookings, amounts, users, tokens and prices
and any bounds on the calls, from `FormAssumption`, `TableAssumption`, `PageAssumption`,
`SessionAssumption` and `NavAssumption` (the values that stand for "none" are none of the
others).

`ClientApp_proofs`:

- `ClientTypes`.  Only the page on screen has its types, so each page has a lemma that its
  steps keep them (`BookTypes` ... `QrTypes`), and the router one that a new page has them
  (`OpenedPage`).

`ClientForms_proofs`: one invariant per page, put together in `PageInv`; `WorkInv` is the
step of a page, `OpenedInv` the router's.

- `ClientConfirms` and `ClientSeats` from `BookInv`.  That the invoice is the current one
  is not inductive: an answer is applied because its number is the last, so `BookInv` adds
  that the call with the last number asks for what the form shows, and that a spinner that
  runs because an input changed waits for a call whose failure clears the invoice.
- `ClientInvoices` and `ClientSaves` from `EditInv`, which has the same for a form without
  a spinner, and that a `canSave` which no longer tracks its signals is false.
- `ClientDrafts`: a draft remembers the amount due beside it, and a new list has no drafts.
- `ClientSpinners`: on each page, what stops a spinner is in flight.

`Session_proofs`, from the invariant `Inv`:

- `SessionTypes`, `SessionForgets`: no refresh token without an access token.  It needs that
  a call in phase refreshing carries a token, since its answer stores an access token
  without looking whether the session is still there.
- `SessionGuards`: at most one guard waits, it belongs to the pending navigation, and there
  is a token or the tab is at `/login`.

Only model-checked: liveness (`OverdueIsSettled`, `RequestsEnd`, `FormSettles`,
`LogoutCompletes`, `GuardEnds`, `RefreshEnds`), since fairness and ENABLED are out of the
prover's reach. Every other property of a passing run is stated by a theorem.

## 6. Not modelled

- *Pricing rows.*  `update_pricing` is one step; two that overlap can leave two active rows,
  of which `get_active_pricing` reads the later by `created_at`.
- *Roles.*  A set of (user, role) rows with one statement per operation and a unique
  constraint (`user_role.py` 11-13): of two overlapping grants one is rolled back.  That an
  admin remains is promised nowhere; the only rule is the ban on revoking oneself.
- *Payment settings and files.*  One row, written and read whole; a second one would only be
  shadowed (the newest is read).  A screenshot is written to disk before the commit, so a
  rollback leaves a file no row names; the models keep a flag for it.
- *Authentication dependencies.*  The verification of a token is a library's.  The key cache
  is shared by the threads in which FastAPI runs `get_current_user`, and one thread's
  `invalidate` can make another's `get` return None; the modules have no threads.
- *Client and server together.*  The pages are checked against a server that may answer
  anything, the service against any requests.  So what a page shows is related to what it
  asked, never to the tables as they are; likewise `ClientApp` and `Session` are checked
  apart.
- *Several tabs* that share one local storage.
- *For good:* the Cognito gateway (it passes calls on), schema patches and seeding beyond the
  initial state, CORS, layout and wording of the frontend, SQLite (which the tests use; it
  ignores `FOR UPDATE`).

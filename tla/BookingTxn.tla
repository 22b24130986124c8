----------------------------- MODULE BookingTxn -----------------------------
(***************************************************************************)
(* The booking service as it runs: each HTTP request and each pass of the   *)
(* expiry job is one READ COMMITTED transaction of a PostgreSQL session,    *)
(* and the transactions interleave between their SQL statements.            *)
(*                                                                          *)
(* What a transaction has written and not committed is kept in its own      *)
(* record txn[w]; bookings and slots are the committed tables, the ones     *)
(* every other session sees.  The locks are those PostgreSQL takes:         *)
(*  - SELECT ... FOR UPDATE of a seat (create, edit), held to the end;      *)
(*  - SELECT ... FOR UPDATE of the overdue bookings (expiry), held to the   *)
(*    end; an UPDATE of such a booking, and an INSERT of a slot that refers *)
(*    to it, wait;                                                          *)
(*  - the slot rows a DELETE has marked; another DELETE of them waits.      *)
(* INSERT and UPDATE are the last statements of their requests: once they   *)
(* have their locks nothing can stop the commit, so they are one step with  *)
(* it.  Plain reads take no lock.                                           *)
(***************************************************************************)
EXTENDS BookingRows

CONSTANTS
  Handlers,   \* the request handlers that run at the same time
  Expiry,     \* the expiry loop
  MaxNow      \* bound of the clock, for TLC

ASSUME TxnAssumption == Expiry \notin Handlers /\ MaxNow \in Nat

VARIABLES
  bookings,   \* table bookings, as committed
  slots,      \* table seat_booking_days, as committed
  pricing,    \* the active row of pricing_configs
  now,        \* the clock
  txn         \* txn[w]: what worker w's open transaction knows and has done

vars == <<bookings, slots, pricing, now, txn>>

Workers == Handlers \cup {Expiry}

Idle == [op |-> "none", pc |-> "idle", doomed |-> {}]

\* pc: "read" (the booking and the prices are read), "checked" (every check is
\* passed, for a create or an edit with the seat locked), "deleting" (the DELETE
\* has its snapshot and waits for its rows), "deleted" (it has them).
CreateTxn == [op : {"create"}, pc : {"read", "checked"},
              b : Bookings, seat : Seats, cfg : Configs, plan : Plans,
              row : BookingRow, doomed : {{}}]

EditTxn == [op : {"edit"}, pc : {"read", "checked", "deleting", "deleted"},
            b : Bookings, seat : Seats, cfg : Configs, plan : Plans,
            read : BookingRow, row : BookingRow, doomed : SUBSET DaySlot]

RowTxn == [op : {"upload", "approve", "reject"}, pc : {"checked", "deleting", "deleted"},
           b : Bookings, read : BookingRow, row : BookingRow,
           doomed : SUBSET DaySlot]

RequestTxn == CreateTxn \cup EditTxn \cup RowTxn

PassTxn == [op : {"expire"}, pc : {"checked", "deleting", "deleted"},
            ids : SUBSET Bookings, doomed : SUBSET DaySlot]

TypeOK ==
  /\ bookings \in [Bookings -> BookingRow \cup {NoRow}]
  /\ slots \subseteq DaySlot
  /\ pricing \in Configs
  /\ now \in Nat
  /\ txn \in [Workers -> {Idle} \cup RequestTxn \cup PassTxn]
  /\ \A h \in Handlers : txn[h] \in {Idle} \cup RequestTxn
  /\ txn[Expiry] \in {Idle} \cup PassTxn

Init ==
  /\ bookings = [b \in Bookings |-> NoRow]
  /\ slots = {}
  /\ pricing \in Configs
  /\ now = 0
  /\ txn = [w \in Workers |-> Idle]

-----------------------------------------------------------------------------
(* Locks.                                                                  *)

\* The worker has the row of this seat FOR UPDATE.
HoldsSeat(w, seat) ==
  /\ txn[w].op \in {"create", "edit"}
  /\ txn[w].pc # "read"
  /\ txn[w].seat = seat

\* Mutants of SeatFree: FOR UPDATE does nothing; the lock counts as taken while it
\* is only asked for.
SeatFreeAlways(seat) == TRUE
SeatFreeUnasked(seat) ==
  \A v \in Workers : ~(txn[v].op \in {"create", "edit"} /\ txn[v].seat = seat)

\* Nobody makes a SELECT ... FOR UPDATE of this seat wait.
SeatFree(seat) == \A v \in Workers : ~HoldsSeat(v, seat)

\* Mutant of RowLocked: the expiry job selects without FOR UPDATE.
RowNeverLocked(b) == FALSE

\* The expiry pass has the row of booking b FOR UPDATE.
RowLocked(b) == txn[Expiry].op = "expire" /\ b \in txn[Expiry].ids

\* The slot rows a worker's DELETE has marked.
Marked(w) == IF txn[w].pc = "deleted" THEN txn[w].doomed ELSE {}

\* The bookings a worker's transaction is about.
Targets(w) ==
  CASE txn[w].op = "none" -> {}
    [] txn[w].op = "expire" -> txn[w].ids
    [] OTHER -> {txn[w].b}

-----------------------------------------------------------------------------
(* The statements of a request.  A transaction begins with the reads and    *)
(* the checks that need no lock; when one of them fails nothing happens.    *)

Begin(w, t) ==
  /\ txn[w] = Idle
  /\ txn' = [txn EXCEPT ![w] = t]
  /\ UNCHANGED <<bookings, slots, pricing, now>>

\* create_booking up to the lock: prices, window and deadline are computed.
BeginCreate(w, u, b, seat, p) ==
  /\ bookings[b] = NoRow
  /\ \A v \in Workers : b \notin Targets(v)    \* uuid4() gives a fresh id
  /\ Accepted(pricing, p)
  /\ Begin(w, [op |-> "create", pc |-> "read", b |-> b, seat |-> seat,
               cfg |-> pricing, plan |-> p,
               row |-> NewRow(u, seat, pricing, p, now), doomed |-> {}])

\* update_booking up to the lock.
BeginEdit(w, u, b, seat, p) ==
  /\ bookings[b] # NoRow
  /\ Editable(bookings[b], u)
  /\ Accepted(pricing, p)
  /\ Begin(w, [op |-> "edit", pc |-> "read", b |-> b, seat |-> seat,
               cfg |-> pricing, plan |-> p, read |-> bookings[b],
               row |-> bookings[b], doomed |-> {}])

\* The handlers that lock nothing compute the whole new row from what they read.
BeginRow(w, b, op, row) ==
  Begin(w, [op |-> op, pc |-> "checked", b |-> b, read |-> bookings[b],
            row |-> row, doomed |-> {}])

BeginUpload(w, u, b) ==
  /\ bookings[b] # NoRow
  /\ CanUpload(bookings[b], u, now)
  /\ BeginRow(w, b, "upload", ProofRow(bookings[b]))

BeginApprove(w, b, amount) ==
  /\ bookings[b] # NoRow
  /\ CanApprove(bookings[b], amount)
  /\ BeginRow(w, b, "approve", ApproveRow(bookings[b], amount, pricing, now))

BeginReject(w, b) ==
  /\ bookings[b] # NoRow
  /\ CanReject(bookings[b])
  /\ BeginRow(w, b, "reject", RejectRow(bookings[b]))

Overdue == {b \in Bookings : bookings[b] # NoRow /\ IsOverdue(bookings[b], now)}

\* SELECT ... FOR UPDATE of the expiry job; with no row found the pass is over.
BeginExpire ==
  /\ Overdue # {}
  /\ Begin(Expiry, [op |-> "expire", pc |-> "checked", ids |-> Overdue, doomed |-> {}])

\* The cells a create or an edit asks for, under the prices it read.
Window(t) == Footprint[t.cfg][t.plan]

\* Mutants of Refused: an edit looks at the price only; at the window only.
RefusedOnPrice(t) ==
  \/ t.op = "create"
       /\ HasConflict(Window(t), Booked(slots, t.seat, {}))
  \/ t.op = "edit" /\ ~Affordable(t.read, t.cfg, t.plan)
RefusedOnConflict(t) ==
  HasConflict(Window(t),
              Booked(slots, t.seat, IF t.op = "edit" THEN {t.b} ELSE {}))

\* What update_booking and create_booking check once they have the seat.
Refused(t) ==
  \/ HasConflict(Window(t),
                 Booked(slots, t.seat, IF t.op = "edit" THEN {t.b} ELSE {}))
  \/ t.op = "edit" /\ ~Affordable(t.read, t.cfg, t.plan)

\* lock_seat_row, then load_booked_intervals under the lock.  A conflict ends the
\* request; an edit computes its new columns here.
LockSeatAndCheck(w) ==
  LET t == txn[w] IN
  /\ t.op \in {"create", "edit"} /\ t.pc = "read"
  /\ SeatFree(t.seat)
  /\ txn' = [txn EXCEPT ![w] =
       IF Refused(t) THEN Idle
       ELSE [t EXCEPT !.pc = "checked",
                      !.row = IF t.op = "create" THEN t.row
                              ELSE EditRow(t.read, t.seat, t.cfg, t.plan, now)]]
  /\ UNCHANGED <<bookings, slots, pricing, now>>

\* The DELETE of slot rows takes its snapshot ...
StartDelete(w) ==
  /\ txn[w].op \in {"edit", "reject", "expire"} /\ txn[w].pc = "checked"
  /\ txn' = [txn EXCEPT ![w].pc = "deleting", ![w].doomed = SlotsOf(slots, Targets(w))]
  /\ UNCHANGED <<bookings, slots, pricing, now>>

\* ... and waits until no other open transaction has marked one of the rows.
FinishDelete(w) ==
  /\ txn[w].pc = "deleting"
  /\ \A v \in Workers \ {w} : Marked(v) \cap txn[w].doomed = {}
  /\ txn' = [txn EXCEPT ![w].pc = "deleted"]
  /\ UNCHANGED <<bookings, slots, pricing, now>>

-----------------------------------------------------------------------------
(* The last statements, and the commit.                                    *)

\* The flush of a mapped row: UPDATE sets the columns whose value differs from
\* the one the session loaded, in the row as it is now.
Merge(db, read, row) ==
  [owner  |-> db.owner,
   seat   |-> IF row.seat   # read.seat   THEN row.seat   ELSE db.seat,
   cells  |-> IF row.cells  # read.cells  THEN row.cells  ELSE db.cells,
   status |-> IF row.status # read.status THEN row.status ELSE db.status,
   until  |-> IF row.until  # read.until  THEN row.until  ELSE db.until,
   final  |-> IF row.final  # read.final  THEN row.final  ELSE db.final,
   paid   |-> IF row.paid   # read.paid   THEN row.paid   ELSE db.paid,
   proof  |-> IF row.proof  # read.proof  THEN row.proof  ELSE db.proof]

Flush(t) == bookings' = [bookings EXCEPT ![t.b] = Merge(@, t.read, t.row)]

\* The transaction ends.  The rows it deleted are gone for a DELETE that waits:
\* it sees neither them nor the rows that were inserted in their place.
End(w, deleted) ==
  txn' = [v \in Workers |->
            IF v = w THEN Idle ELSE [txn[v] EXCEPT !.doomed = @ \ deleted]]

CommitCreate(w) ==
  LET t == txn[w] IN
  /\ t.op = "create" /\ t.pc = "checked"
  /\ bookings' = [bookings EXCEPT ![t.b] = t.row]
  /\ slots' = slots \cup DaySlots(t.b, t.seat, Window(t))
  /\ End(w, {})
  /\ UNCHANGED <<pricing, now>>

CommitEdit(w) ==
  LET t == txn[w] IN
  /\ t.op = "edit" /\ t.pc = "deleted"
  /\ ~RowLocked(t.b)
  /\ Flush(t)
  /\ slots' = (slots \ t.doomed) \cup DaySlots(t.b, t.seat, Window(t))
  /\ End(w, t.doomed)
  /\ UNCHANGED <<pricing, now>>

\* upload_payment_proof and approve_payment write one row.
CommitRow(w) ==
  LET t == txn[w] IN
  /\ t.op \in {"upload", "approve"} /\ t.pc = "checked"
  /\ ~RowLocked(t.b)
  /\ Flush(t)
  /\ End(w, {})
  /\ UNCHANGED <<slots, pricing, now>>

CommitReject(w) ==
  LET t == txn[w] IN
  /\ t.op = "reject" /\ t.pc = "deleted"
  /\ ~RowLocked(t.b)
  /\ Flush(t)
  /\ slots' = slots \ t.doomed
  /\ End(w, t.doomed)
  /\ UNCHANGED <<pricing, now>>

\* The expiry job's UPDATE is one statement over the ids, not a flush.
CommitExpire ==
  LET t == txn[Expiry] IN
  /\ t.op = "expire" /\ t.pc = "deleted"
  /\ bookings' = [b \in Bookings |->
                    IF b \in t.ids THEN ExpireRow(bookings[b]) ELSE bookings[b]]
  /\ slots' = slots \ t.doomed
  /\ End(Expiry, t.doomed)
  /\ UNCHANGED <<pricing, now>>

\* A session whose connection or process is lost is rolled back.
Abort(w) ==
  /\ txn[w] # Idle
  /\ End(w, {})
  /\ UNCHANGED <<bookings, slots, pricing, now>>

\* Handler h, which has deleted slots, waits for a booking row the expiry pass has
\* locked, and the pass waits for those slots.
Deadlocked(h) ==
  /\ txn[h].pc = "deleted" /\ RowLocked(txn[h].b)
  /\ txn[Expiry].pc = "deleting" /\ Marked(h) \cap txn[Expiry].doomed # {}

\* The database breaks the deadlock by aborting either side.
BreakDeadlock ==
  \E h \in Handlers : Deadlocked(h) /\ (Abort(h) \/ Abort(Expiry))

-----------------------------------------------------------------------------

UpdatePricing(c) ==
  /\ c # pricing
  /\ pricing' = c
  /\ UNCHANGED <<bookings, slots, now, txn>>

Tick ==
  /\ now < MaxNow
  /\ now' = now + 1
  /\ UNCHANGED <<bookings, slots, pricing, txn>>

BeginRequest(w) ==
  \/ \E u \in Users, b \in Bookings, seat \in Seats, p \in Plans :
       BeginCreate(w, u, b, seat, p) \/ BeginEdit(w, u, b, seat, p)
  \/ \E u \in Users, b \in Bookings : BeginUpload(w, u, b)
  \/ \E b \in Bookings, amount \in Amounts \cup {NoAmount} : BeginApprove(w, b, amount)
  \/ \E b \in Bookings : BeginReject(w, b)

Commit(w) == CommitCreate(w) \/ CommitEdit(w) \/ CommitRow(w) \/ CommitReject(w)

Next ==
  \/ \E h \in Handlers : BeginRequest(h) \/ LockSeatAndCheck(h) \/ Commit(h)
  \/ BeginExpire
  \/ CommitExpire
  \/ \E w \in Workers : StartDelete(w) \/ FinishDelete(w) \/ Abort(w)
  \/ BreakDeadlock
  \/ \E c \in Configs : UpdatePricing(c)
  \/ Tick

Spec == Init /\ [][Next]_vars

-----------------------------------------------------------------------------
(* What holds under every interleaving.                                    *)

\* No double booking: two transactions that book or move at the same time never
\* leave one cell of a seat with two bookings.
SeatExclusive ==
  \A s, r \in slots : s.seat = r.seat /\ s.cell = r.cell => s.booking = r.booking

\* The expiry job only ever expires a booking that is RESERVED and overdue at the
\* moment it commits, however long it waited since it selected it.
ExpiresOnlyOverdue ==
  [][\A b \in Bookings :
       bookings[b] # NoRow /\ bookings[b].status # "expired"
         /\ bookings'[b].status = "expired" => b \in Overdue]_vars

-----------------------------------------------------------------------------
(* Why SeatExclusive holds: together with it these are inductive.           *)

\* One transaction at a time has the row of a seat.
OneSeatHolder ==
  \A v, w \in Workers, seat \in Seats : HoldsSeat(v, seat) /\ HoldsSeat(w, seat) => v = w

\* What load_booked_intervals saw under the lock is still so when the slots are
\* inserted: nobody else has taken a cell of the window.
CheckedWindowStaysFree ==
  \A w \in Handlers : HoldsSeat(w, txn[w].seat) =>
    \A s \in slots : s.seat = txn[w].seat /\ s.cell \in Window(txn[w])
                       => s.booking = txn[w].b

-----------------------------------------------------------------------------
(* What is left of the ledger of seats when transactions interleave.        *)

Closed == {b \in Bookings : bookings[b].status \in {"rejected", "expired"}}

Ledger == INSTANCE SlotLedger WITH closed <- Closed

\* Under every interleaving a booking takes only a whole window that no other booking
\* has a cell of, and loses slots only to its own move, rejection or expiry; only a
\* rejection or an expiry closes it.
ImplementsLedger == Ledger!Spec

-----------------------------------------------------------------------------
(* Progress.  The event loop runs every handler on, PostgreSQL grants locks  *)
(* in the order they were asked for, and expiry_background_loop logs a pass  *)
(* that fails and starts another, so each statement that is possible again   *)
(* and again is executed in the end.                                         *)

\* What a handler runs before its last statement.
Statement(h) == LockSeatAndCheck(h) \/ StartDelete(h) \/ FinishDelete(h)

Fairness ==
  /\ \A h \in Handlers : SF_vars(Statement(h)) /\ SF_vars(Commit(h))
  /\ WF_vars(BeginExpire) /\ SF_vars(CommitExpire)
  /\ SF_vars(StartDelete(Expiry)) /\ SF_vars(FinishDelete(Expiry))
  /\ WF_vars(BreakDeadlock)

FairSpec == Spec /\ Fairness

\* No request waits for ever, neither for a seat or a row somebody else has nor in
\* a deadlock with the expiry job.
RequestsEnd == \A h \in Handlers : txn[h] # Idle ~> txn[h] = Idle

\* A RESERVED booking whose deadline has passed is settled by the expiry job or by
\* a request that got there first, even when passes fail and are retried.
OverdueIsSettled == \A b \in Bookings : b \in Overdue ~> b \notin Overdue

-----------------------------------------------------------------------------
(* What the documentation says of the same operations.  Each of these holds  *)
(* when requests run one after the other (module BookingService) and fails   *)
(* here, because get_booking reads the row without a lock.                   *)

HoldsItsSlots(b) ==
  DaySlots(b, bookings[b].seat, bookings[b].cells) \subseteq slots

\* "booking status is completed, and seat slots remain locked".
CompletedHoldsItsSlots ==
  \A b \in Bookings : bookings[b].status = "completed" => HoldsItsSlots(b)

\* "It's added cumulatively to paid_amount": each approval that commits raises
\* paid_amount by what it credits.
CreditsAreCumulative ==
  [][\A h \in Handlers :
       LET t == txn[h] IN
       CommitRow(h) /\ t.op = "approve" =>
         bookings'[t.b].paid = bookings[t.b].paid + (t.row.paid - t.read.paid)]_vars

\* "Replace day slots wholesale. Safe because we just checked availability with
\* this booking excluded, and the seat is locked for the txn": an edit leaves its
\* booking with slots of one seat.
OneSeatPerBooking ==
  \A s, r \in slots : s.booking = r.booking => s.seat = r.seat

-----------------------------------------------------------------------------
(* One transaction at a time.  When no transaction begins and the clock and  *)
(* the prices stand still while one is open, the statements of a request     *)
(* amount to the request as BookingService states it.                        *)

SerialNext ==
  /\ Next
  /\ \/ \A w \in Workers : txn[w] = Idle
     \/ /\ \A w \in Workers : txn[w] = Idle => txn'[w] = Idle
        /\ UNCHANGED <<pricing, now>>

SerialSpec == Init /\ [][SerialNext]_vars

Service == INSTANCE BookingService WITH NoHold <- Idle

\* Run one after the other, the transactions implement the service.
ImplementsService == Service!Spec
=============================================================================

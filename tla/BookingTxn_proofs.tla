------------------------- MODULE BookingTxn_proofs -------------------------
(***************************************************************************)
(* What holds of BookingTxn under every interleaving, for any number of     *)
(* handlers, bookings, seats and windows: the tables keep their types, no   *)
(* seat is booked twice, and the expiry job takes only overdue bookings.    *)
(***************************************************************************)
EXTENDS BookingTxn, BookingRows_proofs

-----------------------------------------------------------------------------
(* Transactions.                                                            *)

\* The kind of a transaction tells its record type.
LEMMA TxnKinds ==
  /\ \A t \in {Idle} \cup RequestTxn :
       /\ t.op = "create" => t \in CreateTxn
       /\ t.op = "edit" => t \in EditTxn
       /\ t.op \in {"upload", "approve", "reject"} => t \in RowTxn
       /\ t.op = "none" => t = Idle
       /\ t.op \in {"none", "create", "edit", "upload", "approve", "reject"}
  /\ \A t \in {Idle} \cup PassTxn :
       /\ t.op = "expire" => t \in PassTxn
       /\ t.op = "none" => t = Idle
       /\ t.op \in {"none", "expire"}
BY DEF Idle, RequestTxn, CreateTxn, EditTxn, RowTxn, PassTxn

\* Giving one worker a transaction of its kind keeps the types of all.
LEMMA OneTxnType ==
  ASSUME TypeOK, NEW w \in Workers, NEW t,
         txn' = [txn EXCEPT ![w] = t],
         w \in Handlers => t \in {Idle} \cup RequestTxn,
         w = Expiry => t \in {Idle} \cup PassTxn
  PROVE  /\ txn' \in [Workers -> {Idle} \cup RequestTxn \cup PassTxn]
         /\ \A h \in Handlers : txn'[h] \in {Idle} \cup RequestTxn
         /\ txn'[Expiry] \in {Idle} \cup PassTxn
         /\ \A v \in Workers : txn'[v] = IF v = w THEN t ELSE txn[v]
BY TxnAssumption DEF TypeOK, Workers

\* What is left of a transaction when another one's deletion is committed.
LEMMA SpareType ==
  ASSUME NEW deleted
  PROVE  /\ \A t \in {Idle} \cup RequestTxn :
              [t EXCEPT !.doomed = @ \ deleted] \in {Idle} \cup RequestTxn
         /\ \A t \in {Idle} \cup PassTxn :
              [t EXCEPT !.doomed = @ \ deleted] \in {Idle} \cup PassTxn
<1>1. [Idle EXCEPT !.doomed = @ \ deleted] = Idle
  BY DEF Idle
<1>2. ASSUME NEW t \in CreateTxn
      PROVE  [t EXCEPT !.doomed = @ \ deleted] \in CreateTxn
  BY DEF CreateTxn
<1>3. ASSUME NEW t \in EditTxn
      PROVE  [t EXCEPT !.doomed = @ \ deleted] \in EditTxn
  BY DEF EditTxn
<1>4. ASSUME NEW t \in RowTxn
      PROVE  [t EXCEPT !.doomed = @ \ deleted] \in RowTxn
  BY DEF RowTxn
<1>5. ASSUME NEW t \in PassTxn
      PROVE  [t EXCEPT !.doomed = @ \ deleted] \in PassTxn
  BY DEF PassTxn
<1> QED
  BY <1>1, <1>2, <1>3, <1>4, <1>5 DEF RequestTxn

\* The end of one transaction leaves every other one as it was, but for the rows
\* its DELETE no longer sees.
LEMMA EndType ==
  ASSUME TypeOK, NEW w \in Workers, NEW deleted, End(w, deleted)
  PROVE  /\ txn' \in [Workers -> {Idle} \cup RequestTxn \cup PassTxn]
         /\ \A h \in Handlers : txn'[h] \in {Idle} \cup RequestTxn
         /\ txn'[Expiry] \in {Idle} \cup PassTxn
         /\ txn'[w] = Idle
         /\ \A v \in Workers \ {w} : txn'[v] = [txn[v] EXCEPT !.doomed = @ \ deleted]
<1>1. /\ txn'[w] = Idle
      /\ \A v \in Workers \ {w} : txn'[v] = [txn[v] EXCEPT !.doomed = @ \ deleted]
      /\ txn' = [v \in Workers |-> txn'[v]]
  BY DEF End
<1>2. ASSUME NEW h \in Handlers
      PROVE  txn'[h] \in {Idle} \cup RequestTxn
  <2>1. txn[h] \in {Idle} \cup RequestTxn /\ h \in Workers
    BY DEF TypeOK, Workers
  <2>2. [txn[h] EXCEPT !.doomed = @ \ deleted] \in {Idle} \cup RequestTxn
    BY <2>1, SpareType, Zenon
  <2> QED
    BY <1>1, <2>1, <2>2
<1>3. txn'[Expiry] \in {Idle} \cup PassTxn
  <2>1. txn[Expiry] \in {Idle} \cup PassTxn /\ Expiry \in Workers
    BY DEF TypeOK, Workers
  <2>2. [txn[Expiry] EXCEPT !.doomed = @ \ deleted] \in {Idle} \cup PassTxn
    BY <2>1, SpareType, Zenon
  <2> QED
    BY <1>1, <2>1, <2>2
<1>4. \A v \in Workers : txn'[v] \in {Idle} \cup RequestTxn \cup PassTxn
  BY <1>2, <1>3 DEF Workers
<1> QED
  BY <1>1, <1>2, <1>3, <1>4

\* What another transaction is, and what it is about, outlives the end of one.
LEMMA SpareFields ==
  ASSUME NEW t \in {Idle} \cup RequestTxn \cup PassTxn, NEW deleted
  PROVE  LET s == [t EXCEPT !.doomed = @ \ deleted]
         IN /\ s.op = t.op /\ s.pc = t.pc /\ s.doomed = t.doomed \ deleted
            /\ s.op \notin {"none", "expire"} => s.b = t.b
            /\ s.op = "expire" => s.ids = t.ids
            /\ s.op \in {"create", "edit"} =>
                 s.seat = t.seat /\ s.cfg = t.cfg /\ s.plan = t.plan /\ s.row = t.row
            /\ s.op \in {"edit", "upload", "approve", "reject"} =>
                 s.read = t.read /\ s.row = t.row
BY DEF Idle, RequestTxn, CreateTxn, EditTxn, RowTxn, PassTxn

-----------------------------------------------------------------------------
(* Types.                                                                   *)

\* A transaction that is to change a booking is about one that exists.
Present(t) ==
  /\ t.op \in {"edit", "upload", "approve", "reject"} => bookings[t.b] # NoRow
  /\ t.op = "expire" => \A b \in t.ids : bookings[b] # NoRow

TypeInv == TypeOK /\ \A w \in Workers : Present(txn[w])

\* A booking row is not the mark of an absent one.
LEMMA RowIsThere ==
  ASSUME NEW row \in BookingRow
  PROVE  row # NoRow
BY DEF BookingRow, BookingStatus, NoRow

\* The row an UPDATE leaves has the columns of a booking.
LEMMA MergeType ==
  ASSUME NEW db \in BookingRow, NEW read \in BookingRow, NEW row \in BookingRow
  PROVE  Merge(db, read, row) \in BookingRow
BY DEF Merge, BookingRow

\* A step that changes one transaction and no table keeps the invariant when the
\* new record fits its worker.
LEMMA OneTxnInv ==
  ASSUME TypeInv, NEW w \in Workers, NEW t, txn' = [txn EXCEPT ![w] = t],
         UNCHANGED <<bookings, slots, pricing, now>>,
         w \in Handlers => t \in {Idle} \cup RequestTxn,
         w = Expiry => t \in {Idle} \cup PassTxn,
         Present(t)
  PROVE  TypeInv'
<1>1. TypeOK'
  BY OneTxnType DEF TypeInv, TypeOK
<1>2. ASSUME NEW v \in Workers
      PROVE  Present(txn[v])'
  <2>1. txn'[v] = t \/ txn'[v] = txn[v]
    BY OneTxnType DEF TypeInv
  <2> QED
    BY <2>1 DEF TypeInv, Present
<1> QED
  BY <1>1, <1>2 DEF TypeInv

\* A step that ends one transaction keeps the invariant when what it writes has the
\* types of the tables and no booking disappears.
LEMMA EndInv ==
  ASSUME TypeInv, NEW w \in Workers, NEW deleted, End(w, deleted),
         bookings' \in [Bookings -> BookingRow \cup {NoRow}], slots' \subseteq DaySlot,
         pricing' = pricing, now' = now,
         \A b \in Bookings : bookings[b] # NoRow => bookings'[b] # NoRow
  PROVE  TypeInv'
<1>1. TypeOK'
  BY EndType DEF TypeInv, TypeOK
<1>2. ASSUME NEW v \in Workers
      PROVE  Present(txn[v])'
  <2>1. CASE v = w
    BY <2>1, EndType DEF Present, Idle, TypeInv
  <2>2. CASE v # w
    <3>1. txn'[v] = [txn[v] EXCEPT !.doomed = @ \ deleted]
      BY <2>2, EndType DEF TypeInv
    <3>2. txn[v] \in {Idle} \cup RequestTxn \cup PassTxn
      BY DEF TypeInv, TypeOK
    <3>3. /\ txn'[v].op = txn[v].op
          /\ txn[v].op \notin {"none", "expire"} => txn'[v].b = txn[v].b
          /\ txn[v].op = "expire" => txn'[v].ids = txn[v].ids
      BY <3>1, <3>2, SpareFields
    <3>4. /\ txn[v].op \in {"edit", "upload", "approve", "reject"} => txn[v].b \in Bookings
          /\ txn[v].op = "expire" => txn[v].ids \subseteq Bookings
      BY <3>2 DEF Idle, RequestTxn, CreateTxn, EditTxn, RowTxn, PassTxn
    <3> QED
      BY <3>3, <3>4 DEF TypeInv, Present
  <2> QED
    BY <2>1, <2>2
<1> QED
  BY <1>1, <1>2 DEF TypeInv


\* The records the first statement of each transaction makes.
LEMMA BeginInv ==
  ASSUME TypeInv
  PROVE  /\ \A h \in Handlers : BeginRequest(h) => TypeInv'
         /\ BeginExpire => TypeInv'
<1> USE DEF TypeInv, TypeOK
<1>1. ASSUME NEW h \in Handlers, NEW t \in RequestTxn, Begin(h, t), Present(t)
      PROVE  TypeInv'
  <2>1. h # Expiry /\ h \in Workers
    BY TxnAssumption DEF Workers
  <2> QED
    BY <1>1, <2>1, OneTxnInv DEF Begin
<1>2. ASSUME NEW h \in Handlers, NEW u \in Users, NEW b \in Bookings,
             NEW seat \in Seats, NEW p \in Plans, BeginCreate(h, u, b, seat, p)
      PROVE  TypeInv'
  <2> DEFINE t == [op |-> "create", pc |-> "read", b |-> b, seat |-> seat,
                   cfg |-> pricing, plan |-> p,
                   row |-> NewRow(u, seat, pricing, p, now), doomed |-> {}]
  <2>1. t \in RequestTxn /\ Present(t)
    BY NewRowType DEF RequestTxn, CreateTxn, Present
  <2>2. Begin(h, t)
    BY <1>2 DEF BeginCreate
  <2> HIDE DEF t
  <2> QED
    BY <1>1, <2>1, <2>2
<1>3. ASSUME NEW h \in Handlers, NEW u \in Users, NEW b \in Bookings,
             NEW seat \in Seats, NEW p \in Plans, BeginEdit(h, u, b, seat, p)
      PROVE  TypeInv'
  <2> DEFINE t == [op |-> "edit", pc |-> "read", b |-> b, seat |-> seat,
                   cfg |-> pricing, plan |-> p, read |-> bookings[b],
                   row |-> bookings[b], doomed |-> {}]
  <2>1. bookings[b] \in BookingRow /\ bookings[b] # NoRow
    BY <1>3 DEF BeginEdit
  <2>2. t \in RequestTxn /\ Present(t)
    BY <2>1 DEF RequestTxn, EditTxn, Present
  <2>3. Begin(h, t)
    BY <1>3 DEF BeginEdit
  <2> HIDE DEF t
  <2> QED
    BY <1>1, <2>2, <2>3
<1>4. ASSUME NEW h \in Handlers, NEW b \in Bookings, NEW row \in BookingRow,
             NEW op \in {"upload", "approve", "reject"},
             bookings[b] # NoRow, BeginRow(h, b, op, row)
      PROVE  TypeInv'
  <2> DEFINE t == [op |-> op, pc |-> "checked", b |-> b, read |-> bookings[b],
                   row |-> row, doomed |-> {}]
  <2>1. t \in RequestTxn /\ Present(t)
    BY <1>4 DEF RequestTxn, RowTxn, Present
  <2>2. Begin(h, t)
    BY <1>4 DEF BeginRow
  <2> HIDE DEF t
  <2> QED
    BY <1>1, <2>1, <2>2
<1>5. ASSUME NEW h \in Handlers, NEW u \in Users, NEW b \in Bookings, BeginUpload(h, u, b)
      PROVE  TypeInv'
  BY <1>4, <1>5, StatusRowType DEF BeginUpload
<1>6. ASSUME NEW h \in Handlers, NEW b \in Bookings,
             NEW amount \in Amounts \cup {NoAmount}, BeginApprove(h, b, amount)
      PROVE  TypeInv'
  BY <1>4, <1>6, ApproveRowType DEF BeginApprove
<1>7. ASSUME NEW h \in Handlers, NEW b \in Bookings, BeginReject(h, b)
      PROVE  TypeInv'
  BY <1>4, <1>7, StatusRowType DEF BeginReject
<1>8. ASSUME BeginExpire
      PROVE  TypeInv'
  <2> DEFINE t == [op |-> "expire", pc |-> "checked", ids |-> Overdue, doomed |-> {}]
  <2>1. t \in PassTxn /\ Present(t)
    BY DEF PassTxn, Present, Overdue
  <2>2. Begin(Expiry, t) /\ Expiry \in Workers /\ Expiry \notin Handlers
    BY <1>8, TxnAssumption DEF BeginExpire, Workers
  <2> HIDE DEF t
  <2> QED
    BY <2>1, <2>2, OneTxnInv DEF Begin
<1> QED
  BY <1>2, <1>3, <1>5, <1>6, <1>7, <1>8 DEF BeginRequest

\* The record of a DELETE that has taken its snapshot d.
LEMMA MarkingType ==
  ASSUME NEW t \in {Idle} \cup RequestTxn \cup PassTxn,
         t.op \in {"edit", "reject", "expire"}, NEW d \in SUBSET DaySlot
  PROVE  LET s == [t EXCEPT !.pc = "deleting", !.doomed = d]
         IN /\ s.op = t.op
            /\ t.op # "expire" => s \in RequestTxn /\ s.b = t.b
            /\ t.op = "expire" => s \in PassTxn /\ s.ids = t.ids
<1> DEFINE r == [t EXCEPT !.pc = "deleting"]
           s == [r EXCEPT !.doomed = d]
<1>1. CASE t \in EditTxn
  <2>1. r \in EditTxn /\ r.op = "edit" /\ r.b = t.b
    BY <1>1 DEF EditTxn
  <2>2. s \in EditTxn /\ s.op = "edit" /\ s.b = t.b
    BY <2>1 DEF EditTxn
  <2> QED
    BY <1>1, <2>2 DEF RequestTxn, EditTxn
<1>2. CASE t \in RowTxn
  <2>1. r \in RowTxn /\ r.op = t.op /\ r.b = t.b
    BY <1>2 DEF RowTxn
  <2>2. s \in RowTxn /\ s.op = t.op /\ s.b = t.b
    BY <2>1 DEF RowTxn
  <2> QED
    BY <1>2, <2>2 DEF RequestTxn, RowTxn
<1>3. CASE t \in PassTxn
  <2>1. r \in PassTxn /\ r.op = "expire" /\ r.ids = t.ids
    BY <1>3 DEF PassTxn
  <2>2. s \in PassTxn /\ s.op = "expire" /\ s.ids = t.ids
    BY <2>1 DEF PassTxn
  <2> QED
    BY <1>3, <2>2 DEF PassTxn
<1> QED
  BY <1>1, <1>2, <1>3 DEF RequestTxn, CreateTxn, Idle

\* The record of a worker after a statement that is not the last.
LEMMA StatementInv ==
  ASSUME TypeInv, NEW w \in Workers
  PROVE  /\ w \in Handlers /\ LockSeatAndCheck(w) => TypeInv'
         /\ StartDelete(w) => TypeInv'
         /\ FinishDelete(w) => TypeInv'
<1> DEFINE t == txn[w]
<1>1. /\ w \in Handlers => t \in {Idle} \cup RequestTxn
      /\ w = Expiry => t \in {Idle} \cup PassTxn
      /\ Present(t)
      /\ slots \subseteq DaySlot /\ pricing \in Configs /\ now \in Nat
      /\ txn \in [Workers -> {Idle} \cup RequestTxn \cup PassTxn]
      /\ w \in Handlers \/ w = Expiry
  BY DEF TypeInv, TypeOK, Workers
<1>2. ASSUME w \in Handlers, LockSeatAndCheck(w)
      PROVE  TypeInv'
  <2>1. CASE Refused(t)
    BY <1>1, <1>2, <2>1, OneTxnInv, TxnAssumption DEF LockSeatAndCheck, Present, Idle
  <2>2. CASE ~Refused(t) /\ t.op = "create"
    <3> DEFINE s == [t EXCEPT !.pc = "checked", !.row = t.row]
    <3>1. t \in CreateTxn
      BY <1>1, <1>2, <2>2, TxnKinds
    <3>2. s \in RequestTxn /\ s.op = "create"
      BY <2>2, <3>1 DEF RequestTxn, CreateTxn
    <3>3. txn' = [txn EXCEPT ![w] = s] /\ UNCHANGED <<bookings, slots, pricing, now>>
      BY <1>2, <2>2, Zenon DEF LockSeatAndCheck
    <3> HIDE DEF s
    <3> QED
      BY <1>2, <3>2, <3>3, OneTxnInv, TxnAssumption DEF Present
  <2>3. CASE ~Refused(t) /\ t.op = "edit"
    <3> DEFINE row == EditRow(t.read, t.seat, t.cfg, t.plan, now)
               s == [t EXCEPT !.pc = "checked", !.row = row]
    <3>1. t \in EditTxn
      BY <1>1, <1>2, <2>3, TxnKinds
    <3>2. row \in BookingRow
      BY <1>1, <3>1, EditRowType DEF EditTxn
    <3>3. txn' = [txn EXCEPT ![w] = s] /\ UNCHANGED <<bookings, slots, pricing, now>>
      BY <1>2, <2>3, Zenon DEF LockSeatAndCheck
    <3> HIDE DEF row
    <3>4. s \in RequestTxn /\ s.op = "edit" /\ s.b = t.b
      BY <2>3, <3>1, <3>2 DEF RequestTxn, EditTxn
    <3>5. Present(s)
      BY <1>1, <3>4, <2>3 DEF Present
    <3> HIDE DEF s
    <3> QED
      BY <1>2, <3>4, <3>5, <3>3, OneTxnInv, TxnAssumption
  <2> QED
    BY <1>2, <2>1, <2>2, <2>3 DEF LockSeatAndCheck
<1>3. ASSUME StartDelete(w)
      PROVE  TypeInv'
  <2> DEFINE d == SlotsOf(slots, Targets(w))
             s == [t EXCEPT !.pc = "deleting", !.doomed = d]
  <2>1. d \in SUBSET DaySlot
    BY <1>1 DEF SlotsOf
  <2>2. t \in {Idle} \cup RequestTxn \cup PassTxn /\ t.op \in {"edit", "reject", "expire"}
    BY <1>1, <1>3 DEF StartDelete
  <2> HIDE DEF d
  <2>3. /\ s.op = t.op
        /\ t.op # "expire" => s \in RequestTxn /\ s.b = t.b
        /\ t.op = "expire" => s \in PassTxn /\ s.ids = t.ids
    BY <2>1, <2>2, MarkingType
  <2>4. txn' = [txn EXCEPT ![w] = s] /\ UNCHANGED <<bookings, slots, pricing, now>>
    BY <1>1, <1>3 DEF StartDelete, d
  <2>5. Present(s)
    BY <1>1, <2>2, <2>3 DEF Present
  <2>6. t.op = "expire" <=> w = Expiry
    BY <1>1, <2>2, TxnKinds, TxnAssumption
  <2> HIDE DEF s
  <2> QED
    BY <1>1, <2>3, <2>4, <2>5, <2>6, OneTxnInv, TxnAssumption
<1>4. \A s : s \in {Idle} \cup RequestTxn \cup PassTxn /\ s.pc = "deleting"
             => LET r == [s EXCEPT !.pc = "deleted"]
                IN /\ r.op = s.op
                   /\ s.op # "expire" => r \in RequestTxn /\ r.b = s.b
                   /\ s.op = "expire" => r \in PassTxn /\ r.ids = s.ids
  BY DEF Idle, RequestTxn, CreateTxn, EditTxn, RowTxn, PassTxn
<1>5. ASSUME FinishDelete(w)
      PROVE  TypeInv'
  <2> DEFINE s == [t EXCEPT !.pc = "deleted"]
  <2>1. t \in {Idle} \cup RequestTxn \cup PassTxn /\ t.pc = "deleting" /\ t.op # "none"
    BY <1>1, <1>5, TxnKinds DEF FinishDelete, Idle
  <2>2. /\ s.op = t.op
        /\ t.op # "expire" => s \in RequestTxn /\ s.b = t.b
        /\ t.op = "expire" => s \in PassTxn /\ s.ids = t.ids
    BY <1>4, <2>1
  <2>3. txn' = [txn EXCEPT ![w] = s] /\ UNCHANGED <<bookings, slots, pricing, now>>
    BY <1>1, <1>5 DEF FinishDelete
  <2>4. Present(s)
    BY <1>1, <2>1, <2>2 DEF Present
  <2>5. t.op = "expire" <=> w = Expiry
    BY <1>1, <2>1, TxnKinds, TxnAssumption
  <2> HIDE DEF s
  <2> QED
    BY <1>1, <2>2, <2>3, <2>4, <2>5, OneTxnInv, TxnAssumption
<1> QED
  BY <1>2, <1>3, <1>5

\* The slots a create or an edit inserts.
LEMMA WindowSlotsType ==
  ASSUME NEW t \in CreateTxn \cup EditTxn
  PROVE  DaySlots(t.b, t.seat, Window(t)) \subseteq DaySlot
<1>1. t.b \in Bookings /\ t.seat \in Seats /\ t.cfg \in Configs /\ t.plan \in Plans
  BY DEF CreateTxn, EditTxn
<1> QED
  BY <1>1, DaySlotsType DEF Window

\* A commit that updates the row its transaction read keeps the invariant.
LEMMA UpdateInv ==
  ASSUME TypeInv, NEW h \in Handlers, NEW deleted,
         txn[h].op \in {"edit", "upload", "approve", "reject"},
         Flush(txn[h]),
         slots' \subseteq DaySlot, End(h, deleted), pricing' = pricing, now' = now
  PROVE  TypeInv'
<1> DEFINE b == txn[h].b
           row == Merge(bookings[b], txn[h].read, txn[h].row)
<1>1. h \in Workers /\ txn[h] \in {Idle} \cup RequestTxn /\ Present(txn[h])
  BY DEF TypeInv, TypeOK, Workers
<1>2. txn[h] \in EditTxn \/ txn[h] \in RowTxn
  BY <1>1, TxnKinds
<1>3. b \in Bookings /\ txn[h].read \in BookingRow /\ txn[h].row \in BookingRow
  BY <1>2 DEF EditTxn, RowTxn
<1>4. bookings[b] \in BookingRow
  BY <1>1, <1>3 DEF Present, TypeInv, TypeOK
<1>5. row \in BookingRow /\ row # NoRow
  BY <1>3, <1>4, MergeType, RowIsThere
<1>6. bookings' = [bookings EXCEPT ![b] = row]
  BY DEF Flush
<1> HIDE DEF b, row
<1>7. /\ bookings' \in [Bookings -> BookingRow \cup {NoRow}]
      /\ \A o \in Bookings : bookings[o] # NoRow => bookings'[o] # NoRow
  BY <1>3, <1>5, <1>6 DEF TypeInv, TypeOK
<1> QED
  BY <1>1, <1>7, EndInv

\* What a commit writes: rows and slots with the columns of their tables.
LEMMA CommitInv ==
  ASSUME TypeInv
  PROVE  /\ \A h \in Handlers : Commit(h) => TypeInv'
         /\ CommitExpire => TypeInv'
<1>1. /\ \A h \in Handlers : h \in Workers /\ txn[h] \in {Idle} \cup RequestTxn
      /\ Expiry \in Workers /\ txn[Expiry] \in {Idle} \cup PassTxn
      /\ \A w \in Workers : Present(txn[w])
      /\ bookings \in [Bookings -> BookingRow \cup {NoRow}] /\ slots \subseteq DaySlot
      /\ NoRow \notin BookingRow
  BY RowIsThere DEF TypeInv, TypeOK, Workers
<1>2. ASSUME NEW h \in Handlers, CommitCreate(h)
      PROVE  TypeInv'
  <2> DEFINE t == txn[h]
  <2>1. t \in CreateTxn
    BY <1>1, <1>2, TxnKinds DEF CommitCreate
  <2>2. /\ t.b \in Bookings /\ t.row \in BookingRow
        /\ DaySlots(t.b, t.seat, Window(t)) \subseteq DaySlot
    BY <2>1, WindowSlotsType DEF CreateTxn
  <2>3. /\ bookings' = [bookings EXCEPT ![t.b] = t.row]
        /\ slots' = slots \cup DaySlots(t.b, t.seat, Window(t))
        /\ End(h, {}) /\ UNCHANGED <<pricing, now>>
    BY <1>2 DEF CommitCreate
  <2> HIDE DEF t
  <2>4. bookings' \in [Bookings -> BookingRow \cup {NoRow}] /\ slots' \subseteq DaySlot
    BY <1>1, <2>2, <2>3
  <2>5. \A b \in Bookings : bookings[b] # NoRow => bookings'[b] # NoRow
    BY <1>1, <2>2, <2>3
  <2> QED
    BY <1>1, <2>3, <2>4, <2>5, EndInv
<1>3. ASSUME NEW h \in Handlers, CommitEdit(h)
      PROVE  TypeInv'
  <2>1. txn[h] \in EditTxn
    BY <1>1, <1>3, TxnKinds DEF CommitEdit
  <2>2. /\ txn[h].op = "edit" /\ End(h, txn[h].doomed) /\ pricing' = pricing /\ now' = now
        /\ slots' = (slots \ txn[h].doomed)
                      \cup DaySlots(txn[h].b, txn[h].seat, Window(txn[h]))
        /\ Flush(txn[h])
    BY <1>3, Zenon DEF CommitEdit
  <2>3. slots' \subseteq DaySlot
    BY <1>1, <2>1, <2>2, WindowSlotsType
  <2> QED
    BY <2>2, <2>3, UpdateInv
<1>4. ASSUME NEW h \in Handlers, CommitRow(h)
      PROVE  TypeInv'
  <2>1. /\ txn[h].op \in {"upload", "approve"} /\ End(h, {})
        /\ slots' = slots /\ pricing' = pricing /\ now' = now
        /\ Flush(txn[h])
    BY <1>4, Zenon DEF CommitRow
  <2> QED
    BY <1>1, <2>1, UpdateInv
<1>5. ASSUME NEW h \in Handlers, CommitReject(h)
      PROVE  TypeInv'
  <2>1. /\ txn[h].op = "reject" /\ End(h, txn[h].doomed)
        /\ slots' = slots \ txn[h].doomed /\ pricing' = pricing /\ now' = now
        /\ Flush(txn[h])
    BY <1>5, Zenon DEF CommitReject
  <2> QED
    BY <1>1, <2>1, UpdateInv
<1>6. ASSUME CommitExpire
      PROVE  TypeInv'
  <2> DEFINE t == txn[Expiry]
  <2>1. \A b \in t.ids : ExpireRow(bookings[b]) \in BookingRow
    <3>1. t.op = "expire" /\ t \in PassTxn
      BY <1>1, <1>6, TxnKinds DEF CommitExpire
    <3>2. \A b \in t.ids : bookings[b] \in BookingRow
      BY <1>1, <3>1 DEF Present, PassTxn
    <3> QED
      BY <3>2, StatusRowType
  <2>2. bookings' = [b \in Bookings |->
                       IF b \in t.ids THEN ExpireRow(bookings[b]) ELSE bookings[b]]
    BY <1>6 DEF CommitExpire
  <2>3. slots' \subseteq DaySlot /\ End(Expiry, t.doomed) /\ UNCHANGED <<pricing, now>>
    BY <1>1, <1>6 DEF CommitExpire
  <2>4. bookings' \in [Bookings -> BookingRow \cup {NoRow}]
    BY <1>1, <2>1, <2>2
  <2>5. \A b \in Bookings : bookings[b] # NoRow => bookings'[b] # NoRow
    BY <1>1, <2>1, <2>2
  <2> HIDE DEF t
  <2> QED
    BY <1>1, <2>3, <2>4, <2>5, EndInv
<1> QED
  BY <1>2, <1>3, <1>4, <1>5, <1>6 DEF Commit

\* Every step keeps the types.
LEMMA TypeStep ==
  ASSUME TypeInv, [Next]_vars
  PROVE  TypeInv'
<1>1. ASSUME NEW h \in Handlers, BeginRequest(h) \/ LockSeatAndCheck(h) \/ Commit(h)
      PROVE  TypeInv'
  BY <1>1, BeginInv, StatementInv, CommitInv DEF Workers
<1>2. CASE BeginExpire \/ CommitExpire
  BY <1>2, BeginInv, CommitInv
<1>3. ASSUME NEW w \in Workers, Abort(w)
      PROVE  TypeInv'
  <2>1. End(w, {}) /\ UNCHANGED <<bookings, slots, pricing, now>>
    BY <1>3 DEF Abort
  <2> QED
    BY <2>1, EndInv DEF TypeInv, TypeOK
<1>4. ASSUME NEW w \in Workers, StartDelete(w) \/ FinishDelete(w)
      PROVE  TypeInv'
  BY <1>4, StatementInv
<1>5. CASE BreakDeadlock
  BY <1>3, <1>5 DEF BreakDeadlock, Workers
<1>6. CASE (\E c \in Configs : UpdatePricing(c)) \/ Tick \/ UNCHANGED vars
  BY <1>6 DEF UpdatePricing, Tick, vars, TypeInv, TypeOK, Present
<1> QED
  BY <1>1, <1>2, <1>3, <1>4, <1>5, <1>6 DEF Next

\* The empty database has them.
LEMMA TypeStart ==
  ASSUME Init
  PROVE  TypeInv
BY DEF Init, TypeInv, TypeOK, Workers, Present, Idle

\* The tables have the types of their columns and every transaction the record of
\* its request, whatever the interleaving.
THEOREM TypeCorrect == Spec => []TypeOK
<1>1. TypeInv => TypeOK
  BY DEF TypeInv
<1> QED
  BY <1>1, TypeStart, TypeStep, PTL DEF Spec

-----------------------------------------------------------------------------
(* Seats.  The argument: who inserts slots has the seat's row; he has had it  *)
(* since he looked for conflicts; so what he looked for is still not there.   *)

SeatInv == SeatExclusive /\ OneSeatHolder /\ CheckedWindowStaysFree

\* Worker v, if it has a seat after the step, had it before, for the same window.
SameSeat(v) ==
  \A seat \in Seats : HoldsSeat(v, seat)' =>
    /\ HoldsSeat(v, seat)
    /\ txn'[v].seat = txn[v].seat
    /\ txn'[v].b = txn[v].b
    /\ Window(txn'[v]) = Window(txn[v])

\* The seat of a transaction that has one is a seat.
LEMMA HeldSeat ==
  ASSUME TypeInv, NEW w \in Workers, HoldsSeat(w, txn[w].seat)
  PROVE  txn[w].seat \in Seats /\ txn[w].op \in {"create", "edit"} /\ w \in Handlers
<1>1. txn[w].op \in {"create", "edit"}
  BY DEF HoldsSeat
<1>2. w \in Handlers
  BY <1>1, TxnKinds DEF TypeInv, TypeOK, Workers
<1>3. txn[w] \in {Idle} \cup RequestTxn
  BY <1>2 DEF TypeInv, TypeOK
<1>4. txn[w] \in CreateTxn \cup EditTxn
  BY <1>1, <1>3, TxnKinds
<1> QED
  BY <1>1, <1>2, <1>4 DEF CreateTxn, EditTxn

\* Steps that give nobody a seat and insert no slot keep the seats in order.
LEMMA NoNewSeat ==
  ASSUME TypeInv, TypeInv', SeatInv, \A v \in Workers : SameSeat(v), slots' \subseteq slots
  PROVE  SeatInv'
<1>1. SeatExclusive'
  BY DEF SeatInv, SeatExclusive
<1>2. OneSeatHolder'
  BY DEF SeatInv, OneSeatHolder, SameSeat
<1>3. CheckedWindowStaysFree'
  <2> SUFFICES ASSUME NEW w \in Handlers, HoldsSeat(w, txn[w].seat)',
                      NEW s \in slots', s.seat = txn'[w].seat, s.cell \in Window(txn'[w])
               PROVE  s.booking = txn'[w].b
    BY DEF CheckedWindowStaysFree
  <2>1. w \in Workers /\ txn'[w].seat \in Seats
    BY HeldSeat DEF Workers, HoldsSeat, TypeInv, TypeOK, RequestTxn, CreateTxn, EditTxn,
                    RowTxn, Idle
  <2>2. PICK seat \in Seats : seat = txn'[w].seat /\ HoldsSeat(w, seat)'
    BY <2>1 DEF HoldsSeat
  <2>3. /\ HoldsSeat(w, txn[w].seat) /\ txn'[w].seat = txn[w].seat
        /\ txn'[w].b = txn[w].b /\ Window(txn'[w]) = Window(txn[w])
    BY <2>1, <2>2 DEF SameSeat
  <2> QED
    BY <2>3 DEF SeatInv, CheckedWindowStaysFree
<1> QED
  BY <1>1, <1>2, <1>3 DEF SeatInv

\* The worker that has a seat may insert the slots of its window when its
\* transaction ends with them.
LEMMA SeatTaken ==
  ASSUME TypeInv, TypeInv', SeatInv, \A v \in Workers : SameSeat(v),
         NEW w \in Handlers, HoldsSeat(w, txn[w].seat), txn'[w] = Idle,
         slots' \subseteq slots \cup DaySlots(txn[w].b, txn[w].seat, Window(txn[w]))
  PROVE  SeatInv'
<1> DEFINE t == txn[w]
<1>1. \A s \in slots : s.seat = t.seat /\ s.cell \in Window(t) => s.booking = t.b
  BY DEF SeatInv, CheckedWindowStaysFree
<1>2. \A s \in DaySlots(t.b, t.seat, Window(t)) :
        s.booking = t.b /\ s.seat = t.seat /\ s.cell \in Window(t)
  BY DEF DaySlots
<1>3. SeatExclusive'
  BY <1>1, <1>2 DEF SeatInv, SeatExclusive
<1>4. OneSeatHolder'
  BY DEF SeatInv, OneSeatHolder, SameSeat
<1>5. CheckedWindowStaysFree'
  <2> SUFFICES ASSUME NEW v \in Handlers, HoldsSeat(v, txn[v].seat)',
                      NEW s \in slots', s.seat = txn'[v].seat, s.cell \in Window(txn'[v])
               PROVE  s.booking = txn'[v].b
    BY DEF CheckedWindowStaysFree
  <2>1. v \in Workers /\ w \in Workers /\ txn'[v].seat \in Seats
    BY DEF Workers, HoldsSeat, TypeInv, TypeOK, RequestTxn, CreateTxn, EditTxn,
           RowTxn, Idle
  <2>2. PICK seat \in Seats : seat = txn'[v].seat /\ HoldsSeat(v, seat)'
    BY <2>1 DEF HoldsSeat
  <2>3. /\ HoldsSeat(v, txn[v].seat) /\ txn'[v].seat = txn[v].seat
        /\ txn'[v].b = txn[v].b /\ Window(txn'[v]) = Window(txn[v])
    BY <2>1, <2>2 DEF SameSeat
  <2>4. v # w
    BY DEF HoldsSeat, Idle
  <2>5. txn[v].seat # t.seat
    BY <2>1, <2>3, <2>4 DEF SeatInv, OneSeatHolder
  <2>6. s \in slots
    BY <1>2, <2>3, <2>5
  <2> QED
    BY <2>3, <2>6 DEF SeatInv, CheckedWindowStaysFree
<1> QED
  BY <1>3, <1>4, <1>5 DEF SeatInv

\* The end of a transaction gives nobody a seat.
LEMMA EndSeat ==
  ASSUME TypeInv, NEW w \in Workers, NEW deleted, End(w, deleted)
  PROVE  \A v \in Workers : SameSeat(v)
<1> SUFFICES ASSUME NEW v \in Workers
             PROVE  SameSeat(v)
  OBVIOUS
<1>1. CASE v = w
  BY <1>1, EndType DEF TypeInv, SameSeat, HoldsSeat, Idle
<1>2. CASE v # w
  <2>1. txn'[v] = [txn[v] EXCEPT !.doomed = @ \ deleted]
    BY <1>2, EndType DEF TypeInv
  <2>2. txn[v] \in {Idle} \cup RequestTxn \cup PassTxn
    BY DEF TypeInv, TypeOK
  <2>3. /\ txn'[v].op = txn[v].op /\ txn'[v].pc = txn[v].pc
        /\ txn[v].op \in {"create", "edit"} =>
             /\ txn'[v].b = txn[v].b
             /\ txn'[v].seat = txn[v].seat
             /\ txn'[v].cfg = txn[v].cfg
             /\ txn'[v].plan = txn[v].plan
    BY <2>1, <2>2, SpareFields
  <2> QED
    BY <2>3 DEF SameSeat, HoldsSeat, Window
<1> QED
  BY <1>1, <1>2

\* Nor does a step of one transaction that has no seat after it, or had it before.
LEMMA OneTxnSeat ==
  ASSUME TypeInv, NEW w \in Workers, NEW t, txn' = [txn EXCEPT ![w] = t],
         t.op \in {"create", "edit"} /\ t.pc # "read" =>
           /\ HoldsSeat(w, t.seat) /\ t.seat = txn[w].seat /\ t.b = txn[w].b
           /\ Window(t) = Window(txn[w])
  PROVE  \A v \in Workers : SameSeat(v)
<1> SUFFICES ASSUME NEW v \in Workers
             PROVE  SameSeat(v)
  OBVIOUS
<1>1. txn'[v] = IF v = w THEN t ELSE txn[v]
  BY DEF TypeInv, TypeOK
<1>2. CASE v = w
  BY <1>1, <1>2 DEF SameSeat, HoldsSeat
<1>3. CASE v # w
  BY <1>1, <1>3 DEF SameSeat, HoldsSeat
<1> QED
  BY <1>2, <1>3

\* The first statements give nobody a seat.
LEMMA BeginSeat ==
  ASSUME TypeInv, TypeInv', SeatInv, NEW w \in Workers, NEW t, Begin(w, t),
         t.op \in {"create", "edit"} => t.pc = "read"
  PROVE  SeatInv'
<1>1. txn' = [txn EXCEPT ![w] = t] /\ slots' = slots
  BY DEF Begin
<1> QED
  BY <1>1, OneTxnSeat, NoNewSeat

\* Whoever gets a seat found its window free of other bookings.
LEMMA LockSeat ==
  ASSUME TypeInv, TypeInv', SeatInv, NEW w \in Handlers, LockSeatAndCheck(w)
  PROVE  SeatInv'
<1> DEFINE t == txn[w]
<1>1. /\ t.op \in {"create", "edit"} /\ SeatFree(t.seat) /\ slots' = slots
      /\ w \in Workers
  BY DEF LockSeatAndCheck, Workers
<1>2. CASE Refused(t)
  <2>1. txn' = [txn EXCEPT ![w] = Idle]
    BY <1>2, Zenon DEF LockSeatAndCheck
  <2> QED
    BY <1>1, <2>1, OneTxnSeat, NoNewSeat DEF Idle
<1>3. CASE ~Refused(t)
  <2>1. PICK row : txn' = [txn EXCEPT ![w] = [t EXCEPT !.pc = "checked", !.row = row]]
    BY <1>3, Zenon DEF LockSeatAndCheck
  <2> DEFINE s == [t EXCEPT !.pc = "checked", !.row = row]
  <2>2. t \in CreateTxn \cup EditTxn
    BY <1>1, TxnKinds DEF TypeInv, TypeOK
  <2>3. /\ s.op = t.op /\ s.pc = "checked" /\ s.seat = t.seat /\ s.b = t.b
        /\ s.cfg = t.cfg /\ s.plan = t.plan
    BY <2>2 DEF CreateTxn, EditTxn
  <2>4. \A v \in Workers : txn'[v] = IF v = w THEN s ELSE txn[v]
    BY <2>1 DEF TypeInv, TypeOK
  <2> HIDE DEF s
  <2>5. \A v \in Workers, seat \in Seats : HoldsSeat(v, seat)' =>
          IF v = w THEN seat = t.seat ELSE HoldsSeat(v, seat) /\ seat # t.seat
    BY <1>1, <2>3, <2>4 DEF HoldsSeat, SeatFree
  <2>6. OneSeatHolder'
    BY <2>5 DEF SeatInv, OneSeatHolder
  <2>7. \A r \in slots : r.seat = t.seat /\ r.cell \in Window(t) => r.booking = t.b
    BY <1>3 DEF Refused, HasConflict, Booked
  <2>8. CheckedWindowStaysFree'
    <3> SUFFICES ASSUME NEW v \in Handlers, HoldsSeat(v, txn[v].seat)',
                        NEW r \in slots', r.seat = txn'[v].seat,
                        r.cell \in Window(txn'[v])
                 PROVE  r.booking = txn'[v].b
      BY DEF CheckedWindowStaysFree
    <3>1. CASE v = w
      BY <1>1, <2>3, <2>4, <2>7, <3>1 DEF Window
    <3>2. CASE v # w
      BY <1>1, <2>4, <3>2 DEF HoldsSeat, SeatInv, CheckedWindowStaysFree, Workers
    <3> QED
      BY <3>1, <3>2
  <2> QED
    BY <1>1, <2>6, <2>8 DEF SeatInv, SeatExclusive
<1> QED
  BY <1>2, <1>3

\* A DELETE changes what its transaction has seen and marked, and nothing else of it.
LEMMA DeleteRecord ==
  ASSUME TypeInv, NEW w \in Workers, StartDelete(w) \/ FinishDelete(w)
  PROVE  /\ txn[w].pc # "read" /\ UNCHANGED <<bookings, slots, pricing, now>>
         /\ \E s : /\ txn' = [txn EXCEPT ![w] = s]
                   /\ s.op = txn[w].op
                   /\ txn[w].op \in {"create", "edit"} =>
                        s.seat = txn[w].seat /\ s.b = txn[w].b /\ Window(s) = Window(txn[w])
                   /\ txn[w].op \in {"edit", "upload", "approve", "reject"} =>
                        s.read = txn[w].read /\ s.row = txn[w].row
                   /\ txn[w].op = "expire" => s.ids = txn[w].ids
<1> DEFINE t == txn[w]
<1>1. t \in {Idle} \cup RequestTxn \cup PassTxn
  BY DEF TypeInv, TypeOK
<1>2. CASE StartDelete(w)
  <2> DEFINE d == SlotsOf(slots, Targets(w))
             s == [t EXCEPT !.pc = "deleting", !.doomed = d]
  <2>1. txn' = [txn EXCEPT ![w] = s]
    BY <1>2 DEF StartDelete, TypeInv, TypeOK
  <2> HIDE DEF d
  <2>2. /\ s.op = t.op
        /\ t.op \in {"create", "edit"} =>
             s.seat = t.seat /\ s.b = t.b /\ Window(s) = Window(t)
        /\ t.op \in {"edit", "upload", "approve", "reject"} =>
             s.read = t.read /\ s.row = t.row
        /\ t.op = "expire" => s.ids = t.ids
    BY <1>1 DEF RequestTxn, PassTxn, CreateTxn, EditTxn, RowTxn, Idle, Window
  <2>3. t.pc # "read" /\ UNCHANGED <<bookings, slots, pricing, now>>
    BY <1>2 DEF StartDelete
  <2> HIDE DEF s
  <2> QED
    BY <2>1, <2>2, <2>3
<1>3. CASE FinishDelete(w)
  <2> DEFINE s == [t EXCEPT !.pc = "deleted"]
  <2>1. txn' = [txn EXCEPT ![w] = s]
    BY <1>3 DEF FinishDelete, TypeInv, TypeOK
  <2>2. /\ s.op = t.op
        /\ t.op \in {"create", "edit"} =>
             s.seat = t.seat /\ s.b = t.b /\ Window(s) = Window(t)
        /\ t.op \in {"edit", "upload", "approve", "reject"} =>
             s.read = t.read /\ s.row = t.row
        /\ t.op = "expire" => s.ids = t.ids
    BY <1>1 DEF RequestTxn, PassTxn, CreateTxn, EditTxn, RowTxn, Idle, Window
  <2>3. t.pc # "read" /\ UNCHANGED <<bookings, slots, pricing, now>>
    BY <1>3 DEF FinishDelete
  <2> HIDE DEF s
  <2> QED
    BY <2>1, <2>2, <2>3
<1> QED
  BY <1>2, <1>3

\* So it gives nobody a seat.
LEMMA DeleteSeat ==
  ASSUME TypeInv, TypeInv', SeatInv, NEW w \in Workers, StartDelete(w) \/ FinishDelete(w)
  PROVE  SeatInv'
BY DeleteRecord, OneTxnSeat, NoNewSeat DEF HoldsSeat

\* A commit inserts slots only on the seat its transaction has.
LEMMA CommitSeat ==
  ASSUME TypeInv, TypeInv', SeatInv, NEW w \in Handlers, Commit(w)
  PROVE  SeatInv'
<1>1. w \in Workers
  BY DEF Workers
<1>2. CASE CommitCreate(w)
  <2>1. /\ End(w, {}) /\ HoldsSeat(w, txn[w].seat)
        /\ slots' = slots \cup DaySlots(txn[w].b, txn[w].seat, Window(txn[w]))
    BY <1>2 DEF CommitCreate, HoldsSeat
  <2> QED
    BY <1>1, <2>1, EndSeat, EndType, SeatTaken DEF TypeInv
<1>3. CASE CommitEdit(w)
  <2>1. /\ End(w, txn[w].doomed) /\ HoldsSeat(w, txn[w].seat)
        /\ slots' \subseteq slots \cup DaySlots(txn[w].b, txn[w].seat, Window(txn[w]))
    BY <1>3 DEF CommitEdit, HoldsSeat
  <2> QED
    BY <1>1, <2>1, EndSeat, EndType, SeatTaken DEF TypeInv
<1>4. CASE CommitRow(w)
  <2>1. End(w, {}) /\ slots' = slots
    BY <1>4 DEF CommitRow
  <2> QED
    BY <1>1, <2>1, EndSeat, NoNewSeat
<1>5. CASE CommitReject(w)
  <2>1. End(w, txn[w].doomed) /\ slots' \subseteq slots
    BY <1>5 DEF CommitReject
  <2> QED
    BY <1>1, <2>1, EndSeat, NoNewSeat
<1> QED
  BY <1>2, <1>3, <1>4, <1>5 DEF Commit

\* Every step keeps the seats in order.
LEMMA SeatStep ==
  ASSUME TypeInv, SeatInv, [Next]_vars
  PROVE  SeatInv'
<1> TypeInv'
  BY TypeStep
<1>1. ASSUME NEW h \in Handlers, BeginRequest(h)
      PROVE  SeatInv'
  <2>1. h \in Workers
    BY DEF Workers
  <2>2. ASSUME NEW u \in Users, NEW b \in Bookings, NEW seat \in Seats, NEW p \in Plans,
               BeginCreate(h, u, b, seat, p) \/ BeginEdit(h, u, b, seat, p)
        PROVE  SeatInv'
    BY <2>1, <2>2, BeginSeat DEF BeginCreate, BeginEdit
  <2>3. ASSUME NEW u \in Users, NEW b \in Bookings, BeginUpload(h, u, b)
        PROVE  SeatInv'
    BY <2>1, <2>3, BeginSeat DEF BeginUpload, BeginRow
  <2>4. ASSUME NEW b \in Bookings, NEW amount \in Amounts \cup {NoAmount},
               BeginApprove(h, b, amount)
        PROVE  SeatInv'
    BY <2>1, <2>4, BeginSeat DEF BeginApprove, BeginRow
  <2>5. ASSUME NEW b \in Bookings, BeginReject(h, b)
        PROVE  SeatInv'
    BY <2>1, <2>5, BeginSeat DEF BeginReject, BeginRow
  <2> QED
    BY <1>1, <2>2, <2>3, <2>4, <2>5 DEF BeginRequest
<1>2. ASSUME NEW h \in Handlers, LockSeatAndCheck(h) \/ Commit(h)
      PROVE  SeatInv'
  BY <1>2, LockSeat, CommitSeat
<1>3. CASE BeginExpire
  BY <1>3, BeginSeat DEF BeginExpire, Workers
<1>4. CASE CommitExpire
  <2>1. End(Expiry, txn[Expiry].doomed) /\ slots' \subseteq slots /\ Expiry \in Workers
    BY <1>4 DEF CommitExpire, Workers
  <2> QED
    BY <2>1, EndSeat, NoNewSeat
<1>5. ASSUME NEW w \in Workers, StartDelete(w) \/ FinishDelete(w)
      PROVE  SeatInv'
  BY <1>5, DeleteSeat
<1>6. ASSUME NEW w \in Workers, Abort(w)
      PROVE  SeatInv'
  BY <1>6, EndSeat, NoNewSeat DEF Abort
<1>7. CASE BreakDeadlock
  BY <1>6, <1>7 DEF BreakDeadlock, Workers
<1>8. CASE (\E c \in Configs : UpdatePricing(c)) \/ Tick \/ UNCHANGED vars
  <2>1. txn' = txn /\ slots' = slots
    BY <1>8 DEF UpdatePricing, Tick, vars
  <2> QED
    BY <2>1, NoNewSeat DEF SameSeat, HoldsSeat
<1> QED
  BY <1>1, <1>2, <1>3, <1>4, <1>5, <1>6, <1>7, <1>8 DEF Next

\* No double booking: whatever requests and expiry passes run at the same time, no
\* cell of a seat is ever in the slots of two bookings.
THEOREM NoDoubleBooking == Spec => []SeatExclusive
<1>1. Init => SeatInv
  BY DEF Init, SeatInv, SeatExclusive, OneSeatHolder, CheckedWindowStaysFree, HoldsSeat,
         Workers, Idle
<1>2. SeatInv => SeatExclusive
  BY DEF SeatInv
<1> QED
  BY <1>1, <1>2, TypeStart, TypeStep, SeatStep, PTL DEF Spec

\* Two requests never have one seat FOR UPDATE at the same time, neither when they
\* ask for it together nor when an edit moves to a seat another one books.
THEOREM OneSeatHolderCorrect == Spec => []OneSeatHolder
<1>1. Init => SeatInv
  BY DEF Init, SeatInv, SeatExclusive, OneSeatHolder, CheckedWindowStaysFree, HoldsSeat,
         Workers, Idle
<1>2. SeatInv => OneSeatHolder
  BY DEF SeatInv
<1> QED
  BY <1>1, <1>2, TypeStart, TypeStep, SeatStep, PTL DEF Spec

\* While a request has a seat nobody else takes a cell of the window it was found
\* free for.
THEOREM SeatLockHolds == Spec => []CheckedWindowStaysFree
<1>1. Init => SeatInv
  BY DEF Init, SeatInv, SeatExclusive, OneSeatHolder, CheckedWindowStaysFree, HoldsSeat,
         Workers, Idle
<1>2. SeatInv => CheckedWindowStaysFree
  BY DEF SeatInv
<1> QED
  BY <1>1, <1>2, TypeStart, TypeStep, SeatStep, PTL DEF Spec

-----------------------------------------------------------------------------
(* Expiry.  The argument: the rows a pass has locked stay as they were, so they *)
(* are still overdue when it commits; and no request writes the status EXPIRED. *)

\* A request's new row has the status EXPIRED only if it read it.
Honest(t) ==
  t.op \in {"edit", "upload", "approve", "reject"} /\ t.row.status = "expired"
    => t.read.status = "expired"

\* A creation is about an id that is not in the table, and no other creation is.
Fresh(w) ==
  txn[w].op = "create" =>
    /\ bookings[txn[w].b] = NoRow
    /\ \A v \in Workers \ {w} : txn[v].op = "create" => txn[v].b # txn[w].b

\* The bookings a pass has locked are overdue.
Pinned == txn[Expiry].op = "expire" => txn[Expiry].ids \subseteq Overdue

ExpiryInv == /\ Pinned
             /\ \A w \in Workers : Fresh(w) /\ Honest(txn[w])

\* One transaction changes and no table.
LEMMA OneTxnExpiry ==
  ASSUME TypeInv, ExpiryInv, NEW w \in Workers, NEW t, txn' = [txn EXCEPT ![w] = t],
         bookings' = bookings, now' = now, Honest(t),
         t.op = "expire" /\ w = Expiry => t.ids \subseteq Overdue,
         t.op = "create" =>
           /\ bookings[t.b] = NoRow
           /\ \A v \in Workers \ {w} : txn[v].op = "create" => txn[v].b # t.b
  PROVE  ExpiryInv'
<1>1. \A v \in Workers : txn'[v] = IF v = w THEN t ELSE txn[v]
  BY DEF TypeInv, TypeOK
<1>2. Overdue' = Overdue
  BY DEF Overdue
<1>3. Pinned'
  BY <1>1, <1>2 DEF ExpiryInv, Pinned, Workers
<1>4. ASSUME NEW v \in Workers
      PROVE  Fresh(v)' /\ Honest(txn[v])'
  <2>1. CASE v = w
    BY <1>1, <2>1 DEF ExpiryInv, Fresh, Honest
  <2>2. CASE v # w
    BY <1>1, <2>2 DEF ExpiryInv, Fresh, Honest
  <2> QED
    BY <2>1, <2>2
<1> QED
  BY <1>3, <1>4 DEF ExpiryInv

\* One transaction ends, and what it writes is not a row another one relies on.
LEMMA EndExpiry ==
  ASSUME TypeInv, ExpiryInv, NEW w \in Workers, NEW deleted, End(w, deleted), now' = now,
         \A b \in Bookings : w # Expiry /\ RowLocked(b) => bookings'[b] = bookings[b],
         \A v \in Workers \ {w} :
           txn[v].op = "create" => bookings'[txn[v].b] = bookings[txn[v].b]
  PROVE  ExpiryInv'
<1>1. txn'[w] = Idle
  BY EndType DEF TypeInv
<1>2. ASSUME NEW v \in Workers, v # w
      PROVE  /\ txn'[v].op = txn[v].op
             /\ txn[v].op = "create" => txn'[v].b = txn[v].b
             /\ txn[v].op = "expire" => txn'[v].ids = txn[v].ids
             /\ txn[v].op \in {"edit", "upload", "approve", "reject"} =>
                  txn'[v].read = txn[v].read /\ txn'[v].row = txn[v].row
  <2>1. txn'[v] = [txn[v] EXCEPT !.doomed = @ \ deleted]
    BY <1>2, EndType DEF TypeInv
  <2>2. txn[v] \in {Idle} \cup RequestTxn \cup PassTxn
    BY DEF TypeInv, TypeOK
  <2> QED
    BY <2>1, <2>2, SpareFields
<1>3. Pinned'
  <2>1. CASE w = Expiry
    BY <1>1, <2>1 DEF Pinned, Idle
  <2>2. CASE w # Expiry
    <3>1. txn[Expiry].op = "expire" =>
            \A b \in txn[Expiry].ids : b \in Bookings /\ bookings'[b] = bookings[b]
      BY <2>2 DEF ExpiryInv, Pinned, Overdue, RowLocked
    <3> QED
      BY <1>2, <2>2, <3>1 DEF ExpiryInv, Pinned, Overdue, Workers
  <2> QED
    BY <2>1, <2>2
<1>4. ASSUME NEW v \in Workers
      PROVE  Fresh(v)' /\ Honest(txn[v])'
  <2>1. CASE v = w
    BY <1>1, <2>1 DEF Fresh, Honest, Idle
  <2>2. CASE v # w
    <3>1. Honest(txn[v])'
      BY <1>2, <2>2 DEF ExpiryInv, Honest
    <3>2. Fresh(v)'
      BY <1>1, <1>2, <2>2 DEF ExpiryInv, Fresh, Idle
    <3> QED
      BY <3>1, <3>2
  <2> QED
    BY <2>1, <2>2
<1> QED
  BY <1>3, <1>4 DEF ExpiryInv

\* The transactions begin as ExpiryInv wants them.
LEMMA BeginExpiry ==
  ASSUME TypeInv, ExpiryInv
  PROVE  /\ \A h \in Handlers : BeginRequest(h) => ExpiryInv'
         /\ BeginExpire => ExpiryInv'
<1>1. /\ \A h \in Handlers : h \in Workers /\ h # Expiry
      /\ Expiry \in Workers /\ pricing \in Configs /\ now \in Nat
      /\ bookings \in [Bookings -> BookingRow \cup {NoRow}]
  BY TxnAssumption DEF TypeInv, TypeOK, Workers
<1>2. ASSUME NEW h \in Handlers, NEW t, Begin(h, t), Honest(t), t.op # "create"
      PROVE  ExpiryInv'
  BY <1>1, <1>2, OneTxnExpiry DEF Begin
<1>3. ASSUME NEW h \in Handlers, NEW u \in Users, NEW b \in Bookings,
             NEW seat \in Seats, NEW p \in Plans, BeginCreate(h, u, b, seat, p)
      PROVE  ExpiryInv'
  <2> DEFINE t == [op |-> "create", pc |-> "read", b |-> b, seat |-> seat,
                   cfg |-> pricing, plan |-> p,
                   row |-> NewRow(u, seat, pricing, p, now), doomed |-> {}]
  <2>1. /\ bookings[b] = NoRow /\ Begin(h, t)
        /\ \A v \in Workers : txn[v].op = "create" => txn[v].b # b
    BY <1>3 DEF BeginCreate, Targets
  <2>2. t.op = "create" /\ t.b = b /\ Honest(t)
    BY DEF Honest
  <2> HIDE DEF t
  <2> QED
    BY <1>1, <2>1, <2>2, OneTxnExpiry DEF Begin
<1>4. ASSUME NEW h \in Handlers, NEW u \in Users, NEW b \in Bookings,
             NEW seat \in Seats, NEW p \in Plans, BeginEdit(h, u, b, seat, p)
      PROVE  ExpiryInv'
  <2> DEFINE t == [op |-> "edit", pc |-> "read", b |-> b, seat |-> seat,
                   cfg |-> pricing, plan |-> p, read |-> bookings[b],
                   row |-> bookings[b], doomed |-> {}]
  <2>1. Begin(h, t)
    BY <1>4 DEF BeginEdit
  <2>2. t.op # "create" /\ Honest(t)
    BY DEF Honest
  <2> HIDE DEF t
  <2> QED
    BY <1>2, <2>1, <2>2
<1>5. ASSUME NEW h \in Handlers, NEW b \in Bookings, NEW row,
             NEW op \in {"upload", "approve", "reject"},
             row.status # "expired", BeginRow(h, b, op, row)
      PROVE  ExpiryInv'
  <2> DEFINE t == [op |-> op, pc |-> "checked", b |-> b, read |-> bookings[b],
                   row |-> row, doomed |-> {}]
  <2>1. Begin(h, t)
    BY <1>5 DEF BeginRow
  <2>2. t.op # "create" /\ Honest(t)
    BY <1>5 DEF Honest
  <2> HIDE DEF t
  <2> QED
    BY <1>2, <2>1, <2>2
<1>6. ASSUME NEW h \in Handlers, NEW u \in Users, NEW b \in Bookings, BeginUpload(h, u, b)
      PROVE  ExpiryInv'
  BY <1>1, <1>5, <1>6, StatusRowStatus DEF BeginUpload
<1>7. ASSUME NEW h \in Handlers, NEW b \in Bookings,
             NEW amount \in Amounts \cup {NoAmount}, BeginApprove(h, b, amount)
      PROVE  ExpiryInv'
  <2>1. bookings[b] \in BookingRow
    BY <1>1, <1>7 DEF BeginApprove
  <2>2. ApproveRow(bookings[b], amount, pricing, now).status # "expired"
    BY <1>1, <2>1, ApproveRowColumns
  <2> QED
    BY <1>5, <1>7, <2>2 DEF BeginApprove
<1>8. ASSUME NEW h \in Handlers, NEW b \in Bookings, BeginReject(h, b)
      PROVE  ExpiryInv'
  BY <1>1, <1>5, <1>8, StatusRowStatus DEF BeginReject
<1>9. ASSUME BeginExpire
      PROVE  ExpiryInv'
  <2> DEFINE t == [op |-> "expire", pc |-> "checked", ids |-> Overdue, doomed |-> {}]
  <2>1. Begin(Expiry, t)
    BY <1>9 DEF BeginExpire
  <2>2. t.op # "create" /\ Honest(t) /\ t.ids = Overdue
    BY DEF Honest
  <2> HIDE DEF t
  <2> QED
    BY <1>1, <2>1, <2>2, OneTxnExpiry DEF Begin
<1> QED
  BY <1>3, <1>4, <1>6, <1>7, <1>8, <1>9 DEF BeginRequest

\* The seat lock and the DELETE leave what the transaction is about.
LEMMA StatementExpiry ==
  ASSUME TypeInv, ExpiryInv, NEW w \in Workers
  PROVE  /\ w \in Handlers /\ LockSeatAndCheck(w) => ExpiryInv'
         /\ StartDelete(w) \/ FinishDelete(w) => ExpiryInv'
<1> DEFINE t == txn[w]
<1>1. /\ t \in {Idle} \cup RequestTxn \cup PassTxn
      /\ w \in Handlers => t \in {Idle} \cup RequestTxn
      /\ Fresh(w) /\ Honest(t) /\ now \in Nat
      /\ t.op = "expire" /\ w = Expiry => t.ids \subseteq Overdue
      /\ w \in Handlers \/ w = Expiry
  BY DEF TypeInv, TypeOK, ExpiryInv, Pinned, Workers
<1>2. ASSUME NEW s, txn' = [txn EXCEPT ![w] = s], bookings' = bookings, now' = now,
             s.op = t.op, Honest(s), t.op = "create" => s.b = t.b,
             t.op = "expire" => s.ids = t.ids
      PROVE  ExpiryInv'
  BY <1>1, <1>2, OneTxnExpiry DEF Fresh
<1>3. ASSUME w \in Handlers, LockSeatAndCheck(w)
      PROVE  ExpiryInv'
  <2>1. CASE Refused(t)
    BY <1>3, <2>1, OneTxnExpiry DEF LockSeatAndCheck, Honest, Idle
  <2>2. CASE ~Refused(t) /\ t.op = "create"
    <3> DEFINE s == [t EXCEPT !.pc = "checked", !.row = t.row]
    <3>1. t \in CreateTxn
      BY <1>1, <1>3, <2>2, TxnKinds
    <3>2. s.op = t.op /\ s.b = t.b /\ Honest(s)
      BY <2>2, <3>1 DEF CreateTxn, Honest
    <3>3. txn' = [txn EXCEPT ![w] = s] /\ bookings' = bookings /\ now' = now
      BY <1>3, <2>2, Zenon DEF LockSeatAndCheck
    <3> HIDE DEF s
    <3> QED
      BY <1>2, <2>2, <3>2, <3>3
  <2>3. CASE ~Refused(t) /\ t.op = "edit"
    <3> DEFINE row == EditRow(t.read, t.seat, t.cfg, t.plan, now)
               s == [t EXCEPT !.pc = "checked", !.row = row]
    <3>1. t \in EditTxn
      BY <1>1, <1>3, <2>3, TxnKinds
    <3>2. row.status # "expired"
      BY <1>1, <3>1, EditRowColumns DEF EditTxn
    <3>3. txn' = [txn EXCEPT ![w] = s] /\ bookings' = bookings /\ now' = now
      BY <1>3, <2>3, Zenon DEF LockSeatAndCheck
    <3> HIDE DEF row
    <3>4. s.op = t.op /\ s.b = t.b /\ s.row = row
      BY <3>1 DEF EditTxn
    <3>5. Honest(s)
      BY <3>2, <3>4 DEF Honest
    <3> HIDE DEF s
    <3> QED
      BY <1>2, <2>3, <3>3, <3>4, <3>5
  <2> QED
    BY <1>3, <2>1, <2>2, <2>3 DEF LockSeatAndCheck
<1>4. ASSUME StartDelete(w) \/ FinishDelete(w)
      PROVE  ExpiryInv'
  <2>1. PICK s : /\ txn' = [txn EXCEPT ![w] = s]
                 /\ s.op = t.op
                 /\ t.op \in {"create", "edit"} => s.b = t.b
                 /\ t.op \in {"edit", "upload", "approve", "reject"} =>
                      s.read = t.read /\ s.row = t.row
                 /\ t.op = "expire" => s.ids = t.ids
    BY <1>4, DeleteRecord
  <2>2. bookings' = bookings /\ now' = now
    BY <1>4, DeleteRecord
  <2>3. Honest(s)
    BY <1>1, <2>1 DEF Honest
  <2> QED
    BY <1>2, <2>1, <2>2, <2>3
<1> QED
  BY <1>3, <1>4

\* A commit writes no row that the expiry pass has locked or that another creation
\* is about, and gives no booking the status EXPIRED.
LEMMA CommitExpiry ==
  ASSUME TypeInv, ExpiryInv, NEW h \in Handlers, Commit(h)
  PROVE  /\ ExpiryInv'
         /\ \A b \in Bookings : bookings[b] # NoRow /\ bookings'[b].status = "expired"
                                  => bookings[b].status = "expired"
<1> DEFINE t == txn[h]
<1>1. /\ h \in Workers /\ h # Expiry /\ t \in {Idle} \cup RequestTxn
      /\ Fresh(h) /\ Honest(t) /\ Present(t) /\ Pinned
      /\ \A v \in Workers : Fresh(v)
      /\ bookings \in [Bookings -> BookingRow \cup {NoRow}]
  BY TxnAssumption DEF TypeInv, TypeOK, ExpiryInv, Workers
<1>2. CASE CommitCreate(h)
  <2>1. /\ t.op = "create" /\ End(h, {}) /\ now' = now
        /\ bookings' = [bookings EXCEPT ![t.b] = t.row]
    BY <1>2 DEF CommitCreate
  <2>2. t \in CreateTxn
    BY <1>1, <2>1, TxnKinds
  <2>3. t.b \in Bookings /\ bookings[t.b] = NoRow
    BY <1>1, <2>1, <2>2 DEF Fresh, CreateTxn
  <2>4. \A b \in Bookings : bookings[b] # NoRow => bookings'[b] = bookings[b]
    BY <1>1, <2>1, <2>3
  <2>5. \A b \in Bookings : RowLocked(b) => bookings'[b] = bookings[b]
    BY <1>1, <2>4 DEF RowLocked, Pinned, Overdue
  <2>6. \A v \in Workers \ {h} :
          txn[v].op = "create" => bookings'[txn[v].b] = bookings[txn[v].b]
    BY <1>1, <2>1 DEF Fresh
  <2>7. ExpiryInv'
    BY <1>1, <2>1, <2>5, <2>6, EndExpiry
  <2> QED
    BY <2>4, <2>7
<1>3. CASE CommitEdit(h) \/ CommitRow(h) \/ CommitReject(h)
  <2>1. /\ t.op \in {"edit", "upload", "approve", "reject"} /\ now' = now
        /\ ~RowLocked(t.b) /\ Flush(t)
    BY <1>3, Zenon DEF CommitEdit, CommitRow, CommitReject
  <2>2. PICK deleted : End(h, deleted)
    BY <1>3 DEF CommitEdit, CommitRow, CommitReject
  <2>3. t \in EditTxn \cup RowTxn
    BY <1>1, <2>1, TxnKinds
  <2>4. t.b \in Bookings /\ bookings[t.b] # NoRow
    BY <1>1, <2>1, <2>3 DEF Present, EditTxn, RowTxn
  <2>5. \A b \in Bookings : b # t.b => bookings'[b] = bookings[b]
    BY <1>1, <2>1 DEF Flush
  <2>6. \A b \in Bookings : RowLocked(b) => bookings'[b] = bookings[b]
    BY <2>1, <2>5
  <2>7. \A v \in Workers \ {h} :
          txn[v].op = "create" => bookings'[txn[v].b] = bookings[txn[v].b]
    <3> SUFFICES ASSUME NEW v \in Workers, txn[v].op = "create"
                 PROVE  bookings'[txn[v].b] = bookings[txn[v].b]
      OBVIOUS
    <3>1. txn[v].b \in Bookings
      BY DEF TypeInv, TypeOK, Idle, RequestTxn, CreateTxn, EditTxn, RowTxn, PassTxn
    <3>2. bookings[txn[v].b] = NoRow
      BY <1>1 DEF Fresh
    <3> QED
      BY <2>4, <2>5, <3>1, <3>2
  <2>8. ExpiryInv'
    BY <1>1, <2>1, <2>2, <2>6, <2>7, EndExpiry
  <2>9. bookings'[t.b].status = "expired" => bookings[t.b].status = "expired"
    <3>1. bookings'[t.b] = Merge(bookings[t.b], t.read, t.row)
      BY <1>1, <2>1, <2>4 DEF Flush
    <3>2. Merge(bookings[t.b], t.read, t.row).status =
            IF t.row.status # t.read.status THEN t.row.status ELSE bookings[t.b].status
      BY DEF Merge
    <3> QED
      BY <1>1, <2>1, <3>1, <3>2 DEF Honest
  <2> QED
    BY <2>5, <2>8, <2>9
<1> QED
  BY <1>2, <1>3 DEF Commit

\* Every step keeps ExpiryInv, and only the end of a pass expires a booking.
LEMMA ExpiryStep ==
  ASSUME TypeInv, ExpiryInv, [Next]_vars
  PROVE  /\ ExpiryInv'
         /\ \A b \in Bookings :
              bookings[b] # NoRow /\ bookings[b].status # "expired"
                /\ bookings'[b].status = "expired" => b \in Overdue
<1>1. ASSUME NEW h \in Handlers, Commit(h)
      PROVE  ExpiryInv' /\ \A b \in Bookings :
               bookings[b] # NoRow /\ bookings'[b].status = "expired"
                 => bookings[b].status = "expired"
  BY <1>1, CommitExpiry
<1>2. CASE CommitExpire
  <2> DEFINE t == txn[Expiry]
  <2>1. /\ t.op = "expire" /\ End(Expiry, t.doomed) /\ now' = now
        /\ bookings' = [b \in Bookings |->
                          IF b \in t.ids THEN ExpireRow(bookings[b]) ELSE bookings[b]]
    BY <1>2 DEF CommitExpire
  <2>2. t.ids \subseteq Overdue
    BY <2>1 DEF ExpiryInv, Pinned
  <2>3. \A v \in Workers \ {Expiry} :
          txn[v].op = "create" => bookings'[txn[v].b] = bookings[txn[v].b]
    <3> SUFFICES ASSUME NEW v \in Workers, txn[v].op = "create"
                 PROVE  bookings'[txn[v].b] = bookings[txn[v].b]
      OBVIOUS
    <3>1. txn[v].b \in Bookings
      BY DEF TypeInv, TypeOK, Idle, RequestTxn, CreateTxn, EditTxn, RowTxn, PassTxn
    <3>2. bookings[txn[v].b] = NoRow
      BY DEF ExpiryInv, Fresh
    <3> QED
      BY <2>1, <2>2, <3>1, <3>2 DEF Overdue
  <2>4. Expiry \in Workers
    BY DEF Workers
  <2>5. ExpiryInv'
    BY <2>1, <2>3, <2>4, EndExpiry
  <2>6. \A b \in Bookings : b \notin Overdue => bookings'[b] = bookings[b]
    BY <2>1, <2>2
  <2> QED
    BY <2>5, <2>6
<1>3. ASSUME NEW w \in Workers, Abort(w)
      PROVE  ExpiryInv' /\ bookings' = bookings
  BY <1>3, EndExpiry DEF Abort
<1>4. ASSUME \/ \E h \in Handlers : BeginRequest(h) \/ LockSeatAndCheck(h)
             \/ BeginExpire
             \/ \E w \in Workers : StartDelete(w) \/ FinishDelete(w)
      PROVE  ExpiryInv' /\ bookings' = bookings
  <2>1. ExpiryInv'
    BY <1>4, BeginExpiry, StatementExpiry DEF Workers
  <2>2. ASSUME NEW h \in Handlers, BeginRequest(h)
        PROVE  bookings' = bookings
    <3>1. ASSUME NEW t, Begin(h, t)
          PROVE  bookings' = bookings
      BY <3>1 DEF Begin
    <3> QED
      BY <2>2, <3>1, Zenon DEF BeginRequest, BeginCreate, BeginEdit, BeginUpload,
                               BeginApprove, BeginReject, BeginRow
  <2>3. ASSUME \E h \in Handlers : LockSeatAndCheck(h)
        PROVE  bookings' = bookings
    BY <2>3, Zenon DEF LockSeatAndCheck
  <2>4. BeginExpire => bookings' = bookings
    BY DEF BeginExpire, Begin
  <2>5. \A w \in Workers : StartDelete(w) \/ FinishDelete(w) => bookings' = bookings
    BY DEF StartDelete, FinishDelete
  <2> QED
    BY <1>4, <2>1, <2>2, <2>3, <2>4, <2>5
<1>5. CASE BreakDeadlock
  BY <1>3, <1>5 DEF BreakDeadlock, Workers
<1>6. CASE (\E c \in Configs : UpdatePricing(c)) \/ Tick \/ UNCHANGED vars
  <2>1. bookings' = bookings /\ txn' = txn /\ now' \in Nat /\ now' >= now
    BY <1>6 DEF UpdatePricing, Tick, vars, TypeInv, TypeOK
  <2>2. Overdue \subseteq Overdue'
    BY <2>1 DEF Overdue, IsOverdue, TypeInv, TypeOK, BookingRow, NoTime
  <2> QED
    BY <2>1, <2>2 DEF ExpiryInv, Pinned, Fresh, Honest
<1> QED
  BY <1>1, <1>2, <1>3, <1>4, <1>5, <1>6 DEF Next

\* The expiry job expires only bookings that are RESERVED and overdue when it
\* commits, whatever the users and the admin did since it began.
THEOREM ExpiryCorrect == Spec => ExpiresOnlyOverdue
<1> DEFINE Step == \A b \in Bookings :
             bookings[b] # NoRow /\ bookings[b].status # "expired"
               /\ bookings'[b].status = "expired" => b \in Overdue
<1>1. Init => ExpiryInv
  BY DEF Init, ExpiryInv, Pinned, Fresh, Honest, Workers, Idle
<1>2. TypeInv /\ ExpiryInv /\ [Next]_vars => ExpiryInv' /\ [Step]_vars
  BY ExpiryStep
<1> QED
  BY <1>1, <1>2, TypeStart, TypeStep, PTL DEF Spec, ExpiresOnlyOverdue

-----------------------------------------------------------------------------
(* One transaction at a time.  The argument: what a transaction has read is still *)
(* so at its commit, because nobody else has written; so what it writes is what    *)
(* the service writes in one step.                                                 *)

\* Only one transaction is open.
Alone == \A v, w \in Workers : txn[v] # Idle /\ txn[w] # Idle => v = w

\* The checks of a creation or an edit still hold under the prices it read.
WindowFits(t) ==
  /\ t.cfg = pricing /\ Accepted(pricing, t.plan)
  /\ t.pc # "read" => ~Refused(t)

\* What a DELETE has seen are still all the slots of these bookings.
SnapshotFits(t, ids) == t.pc \in {"deleting", "deleted"} => t.doomed = SlotsOf(slots, ids)

CreateFits(t) ==
  /\ WindowFits(t)
  /\ bookings[t.b] = NoRow
  /\ \E u \in Users : t.row = NewRow(u, t.seat, pricing, t.plan, now)

EditFits(t) ==
  /\ WindowFits(t) /\ SnapshotFits(t, {t.b})
  /\ t.read = bookings[t.b]
  /\ \E u \in Users : Editable(t.read, u)
  /\ t.pc # "read" => t.row = EditRow(t.read, t.seat, pricing, t.plan, now)

RowFits(t) ==
  /\ SnapshotFits(t, {t.b})
  /\ t.read = bookings[t.b]
  /\ t.op = "upload" =>
       (\E u \in Users : CanUpload(t.read, u, now)) /\ t.row = ProofRow(t.read)
  /\ t.op = "approve" =>
       \E amount \in Amounts \cup {NoAmount} :
         CanApprove(t.read, amount) /\ t.row = ApproveRow(t.read, amount, pricing, now)
  /\ t.op = "reject" => CanReject(t.read) /\ t.row = RejectRow(t.read)

PassFits(t) == t.ids = Overdue /\ Overdue # {} /\ SnapshotFits(t, t.ids)

\* The tables are as the transaction found them.
Fits(t) ==
  /\ t.op = "create" => CreateFits(t)
  /\ t.op = "edit" => EditFits(t)
  /\ t.op \in {"upload", "approve", "reject"} => RowFits(t)
  /\ t.op = "expire" => PassFits(t)

SerialInv == Alone /\ \A w \in Workers : Fits(txn[w])

\* When every transaction has ended the invariant holds of any tables.
LEMMA AllIdle ==
  ASSUME \A w \in Workers : txn[w] = Idle
  PROVE  SerialInv
BY DEF SerialInv, Alone, Fits, Idle

\* The end of the only open transaction leaves none.
LEMMA SerialEnd ==
  ASSUME TypeInv, Alone, NEW w \in Workers, txn[w] # Idle, NEW deleted, End(w, deleted)
  PROVE  SerialInv'
<1>1. [Idle EXCEPT !.doomed = @ \ deleted] = Idle
  BY DEF Idle
<1>2. ASSUME NEW v \in Workers
      PROVE  txn'[v] = Idle
  <2>1. CASE v = w
    BY <2>1, EndType DEF TypeInv
  <2>2. CASE v # w
    <3>1. txn[v] = Idle
      BY <2>2 DEF Alone
    <3>2. txn'[v] = [txn[v] EXCEPT !.doomed = @ \ deleted]
      BY <2>2, EndType DEF TypeInv
    <3> QED
      BY <1>1, <3>1, <3>2
  <2> QED
    BY <2>1, <2>2
<1> QED
  BY <1>2 DEF SerialInv, Alone, Fits, Idle

\* Another record for the open transaction, or the first, when it fits the tables.
LEMMA SerialTxn ==
  ASSUME TypeInv, SerialInv, NEW w \in Workers, NEW t, txn' = [txn EXCEPT ![w] = t],
         UNCHANGED <<bookings, slots, pricing, now>>,
         \A v \in Workers \ {w} : txn[v] = Idle,
         Fits(t)
  PROVE  SerialInv'
<1>1. \A v \in Workers : txn'[v] = IF v = w THEN t ELSE txn[v]
  BY DEF TypeInv, TypeOK
<1>2. Alone'
  BY <1>1 DEF Alone
<1>3. ASSUME NEW v \in Workers
      PROVE  Fits(txn[v])'
  <2>1. CASE v = w
    <3>1. txn'[v] = t
      BY <1>1, <2>1
    <3> QED
      BY <3>1 DEF Fits, CreateFits, EditFits, RowFits, PassFits, WindowFits, SnapshotFits,
                  Refused, Overdue
  <2>2. CASE v # w
    BY <1>1, <2>2 DEF Fits, Idle
  <2> QED
    BY <2>1, <2>2
<1> QED
  BY <1>2, <1>3 DEF SerialInv

\* A transaction that begins, the only one, fits the tables it reads.
LEMMA SerialBegin ==
  ASSUME TypeInv, SerialInv, SerialNext, NEW w \in Workers, NEW t, Begin(w, t),
         t # Idle, Fits(t)
  PROVE  SerialInv'
<1>1. txn' = [txn EXCEPT ![w] = t] /\ txn[w] = Idle /\ UNCHANGED <<bookings, slots, pricing, now>>
  BY DEF Begin
<1>2. txn'[w] # txn[w]
  BY <1>1 DEF TypeInv, TypeOK
<1>3. \A v \in Workers \ {w} : txn[v] = Idle
  BY <1>1, <1>2 DEF SerialNext
<1> QED
  BY <1>1, <1>3, SerialTxn

\* Whatever transaction it is.
LEMMA SerialBegins ==
  ASSUME TypeInv, SerialInv, SerialNext
  PROVE  /\ \A h \in Handlers : BeginRequest(h) => SerialInv'
         /\ BeginExpire => SerialInv'
<1>1. /\ \A h \in Handlers : h \in Workers
      /\ Expiry \in Workers
  BY DEF Workers
<1>2. ASSUME NEW h \in Handlers, NEW u \in Users, NEW b \in Bookings,
             NEW seat \in Seats, NEW p \in Plans, BeginCreate(h, u, b, seat, p)
      PROVE  SerialInv'
  <2> DEFINE t == [op |-> "create", pc |-> "read", b |-> b, seat |-> seat,
                   cfg |-> pricing, plan |-> p,
                   row |-> NewRow(u, seat, pricing, p, now), doomed |-> {}]
  <2>1. Begin(h, t) /\ bookings[b] = NoRow /\ Accepted(pricing, p)
    BY <1>2 DEF BeginCreate
  <2>2. Fits(t)
    BY <2>1 DEF Fits, CreateFits, WindowFits
  <2>3. t # Idle
    BY DEF Idle
  <2> HIDE DEF t
  <2> QED
    BY <1>1, <2>1, <2>2, <2>3, SerialBegin
<1>3. ASSUME NEW h \in Handlers, NEW u \in Users, NEW b \in Bookings,
             NEW seat \in Seats, NEW p \in Plans, BeginEdit(h, u, b, seat, p)
      PROVE  SerialInv'
  <2> DEFINE t == [op |-> "edit", pc |-> "read", b |-> b, seat |-> seat,
                   cfg |-> pricing, plan |-> p, read |-> bookings[b],
                   row |-> bookings[b], doomed |-> {}]
  <2>1. Begin(h, t) /\ Editable(bookings[b], u) /\ Accepted(pricing, p)
    BY <1>3 DEF BeginEdit
  <2>2. Fits(t)
    BY <2>1 DEF Fits, EditFits, WindowFits, SnapshotFits
  <2>3. t # Idle
    BY DEF Idle
  <2> HIDE DEF t
  <2> QED
    BY <1>1, <2>1, <2>2, <2>3, SerialBegin
<1>4. ASSUME NEW h \in Handlers, NEW b \in Bookings, NEW row,
             NEW op \in {"upload", "approve", "reject"}, BeginRow(h, b, op, row),
             op = "upload" =>
               (\E u \in Users : CanUpload(bookings[b], u, now)) /\ row = ProofRow(bookings[b]),
             op = "approve" =>
               \E amount \in Amounts \cup {NoAmount} :
                 /\ CanApprove(bookings[b], amount)
                 /\ row = ApproveRow(bookings[b], amount, pricing, now),
             op = "reject" => CanReject(bookings[b]) /\ row = RejectRow(bookings[b])
      PROVE  SerialInv'
  <2> DEFINE t == [op |-> op, pc |-> "checked", b |-> b, read |-> bookings[b],
                   row |-> row, doomed |-> {}]
  <2>1. Begin(h, t)
    BY <1>4 DEF BeginRow
  <2>2. RowFits(t)
    BY <1>4 DEF RowFits, SnapshotFits
  <2>3. t # Idle /\ t.op \in {"upload", "approve", "reject"}
    BY DEF Idle
  <2> HIDE DEF t
  <2> QED
    BY <1>1, <2>1, <2>2, <2>3, SerialBegin DEF Fits
<1>5. ASSUME NEW h \in Handlers, NEW u \in Users, NEW b \in Bookings, BeginUpload(h, u, b)
      PROVE  SerialInv'
  BY <1>4, <1>5 DEF BeginUpload
<1>6. ASSUME NEW h \in Handlers, NEW b \in Bookings,
             NEW amount \in Amounts \cup {NoAmount}, BeginApprove(h, b, amount)
      PROVE  SerialInv'
  BY <1>4, <1>6 DEF BeginApprove
<1>7. ASSUME NEW h \in Handlers, NEW b \in Bookings, BeginReject(h, b)
      PROVE  SerialInv'
  BY <1>4, <1>7 DEF BeginReject
<1>8. ASSUME BeginExpire
      PROVE  SerialInv'
  <2> DEFINE t == [op |-> "expire", pc |-> "checked", ids |-> Overdue, doomed |-> {}]
  <2>1. Begin(Expiry, t) /\ Overdue # {}
    BY <1>8 DEF BeginExpire
  <2>2. Fits(t)
    BY <2>1 DEF Fits, PassFits, SnapshotFits
  <2>3. t # Idle
    BY DEF Idle
  <2> HIDE DEF t
  <2> QED
    BY <1>1, <2>1, <2>2, <2>3, SerialBegin
<1> QED
  BY <1>2, <1>3, <1>5, <1>6, <1>7, <1>8 DEF BeginRequest

\* The checks under the seat's lock find what holds until the commit.
LEMMA SerialLock ==
  ASSUME TypeInv, SerialInv, NEW w \in Handlers, LockSeatAndCheck(w)
  PROVE  SerialInv'
<1> DEFINE t == txn[w]
<1>1. /\ t.op \in {"create", "edit"} /\ t.pc = "read" /\ w \in Workers /\ Fits(t)
      /\ t \in {Idle} \cup RequestTxn /\ pricing \in Configs /\ now \in Nat
  BY DEF LockSeatAndCheck, Workers, SerialInv, TypeInv, TypeOK
<1>2. \A v \in Workers \ {w} : txn[v] = Idle
  BY <1>1 DEF SerialInv, Alone, Idle
<1>3. UNCHANGED <<bookings, slots, pricing, now>>
  BY Zenon DEF LockSeatAndCheck
<1>4. CASE Refused(t)
  <2>1. txn' = [txn EXCEPT ![w] = Idle]
    BY <1>4, Zenon DEF LockSeatAndCheck
  <2>2. Fits(Idle)
    BY DEF Fits, Idle
  <2> QED
    BY <1>1, <1>2, <1>3, <2>1, <2>2, SerialTxn
<1>5. CASE ~Refused(t) /\ t.op = "create"
  <2> DEFINE s == [t EXCEPT !.pc = "checked", !.row = t.row]
  <2>1. txn' = [txn EXCEPT ![w] = s]
    BY <1>5, Zenon DEF LockSeatAndCheck
  <2>2. t \in CreateTxn
    BY <1>1, <1>5, TxnKinds
  <2>3. /\ s.op = "create" /\ s.b = t.b /\ s.seat = t.seat /\ s.cfg = t.cfg
        /\ s.plan = t.plan /\ s.row = t.row
    BY <1>5, <2>2 DEF CreateTxn
  <2> HIDE DEF s
  <2>4. ~Refused(s)
    BY <1>5, <2>3 DEF Refused, Window
  <2>5. Fits(s)
    BY <1>1, <1>5, <2>3, <2>4 DEF Fits, CreateFits, WindowFits
  <2> QED
    BY <1>1, <1>2, <1>3, <2>1, <2>5, SerialTxn
<1>6. CASE ~Refused(t) /\ t.op = "edit"
  <2> DEFINE row == EditRow(t.read, t.seat, t.cfg, t.plan, now)
             s == [t EXCEPT !.pc = "checked", !.row = row]
  <2>1. txn' = [txn EXCEPT ![w] = s]
    BY <1>6, Zenon DEF LockSeatAndCheck
  <2>2. t \in EditTxn
    BY <1>1, <1>6, TxnKinds
  <2> HIDE DEF row
  <2>3. /\ s.op = "edit" /\ s.b = t.b /\ s.seat = t.seat /\ s.cfg = t.cfg
        /\ s.plan = t.plan /\ s.read = t.read /\ s.row = row /\ s.pc = "checked"
    BY <1>6, <2>2 DEF EditTxn
  <2> HIDE DEF s
  <2>4. ~Refused(s)
    BY <1>6, <2>3 DEF Refused, Window
  <2>5. EditFits(t)
    BY <1>1, <1>6 DEF Fits
  <2>6. Fits(s)
    BY <2>3, <2>4, <2>5 DEF Fits, EditFits, WindowFits, SnapshotFits, row
  <2> QED
    BY <1>1, <1>2, <1>3, <2>1, <2>6, SerialTxn
<1> QED
  BY <1>1, <1>4, <1>5, <1>6

\* A DELETE sees and removes all the slots its transaction is about.
LEMMA SerialDelete ==
  ASSUME TypeInv, SerialInv, NEW w \in Workers, StartDelete(w) \/ FinishDelete(w)
  PROVE  SerialInv'
<1> DEFINE t == txn[w]
<1>1. t \in {Idle} \cup RequestTxn \cup PassTxn /\ Fits(t)
  BY DEF SerialInv, TypeInv, TypeOK
<1>2. /\ UNCHANGED <<bookings, slots, pricing, now>>
      /\ t.op \in {"edit", "upload", "approve", "reject", "expire"} /\ t.pc # "read"
  <2>1. CASE StartDelete(w)
    BY <2>1 DEF StartDelete
  <2>2. CASE FinishDelete(w)
    BY <1>1, <2>2 DEF FinishDelete, Idle, RequestTxn, CreateTxn, EditTxn, RowTxn, PassTxn
  <2> QED
    BY <2>1, <2>2
<1>3. \A v \in Workers \ {w} : txn[v] = Idle
  BY <1>2 DEF SerialInv, Alone, Idle
<1> DEFINE ids == IF t.op = "expire" THEN t.ids ELSE {t.b}
<1>4. \E s : /\ txn' = [txn EXCEPT ![w] = s]
             /\ s.op = t.op /\ s.pc # "read" /\ s.doomed = SlotsOf(slots, ids)
             /\ t.op = "expire" => s.ids = t.ids
             /\ t.op # "expire" => s.b = t.b /\ s.read = t.read /\ s.row = t.row
             /\ t.op = "edit" => s.seat = t.seat /\ s.cfg = t.cfg /\ s.plan = t.plan
  <2>1. CASE StartDelete(w)
    <3> DEFINE d == SlotsOf(slots, Targets(w))
               s == [t EXCEPT !.pc = "deleting", !.doomed = d]
    <3>1. txn' = [txn EXCEPT ![w] = s]
      BY <2>1 DEF StartDelete, TypeInv, TypeOK
    <3>2. d = SlotsOf(slots, ids)
      BY <1>2 DEF Targets
    <3> HIDE DEF d, ids
    <3>3. /\ s.op = t.op /\ s.pc # "read" /\ s.doomed = d
          /\ t.op = "expire" => s.ids = t.ids
          /\ t.op # "expire" => s.b = t.b /\ s.read = t.read /\ s.row = t.row
          /\ t.op = "edit" => s.seat = t.seat /\ s.cfg = t.cfg /\ s.plan = t.plan
      BY <1>1, <1>2 DEF Idle, RequestTxn, CreateTxn, EditTxn, RowTxn, PassTxn
    <3> HIDE DEF s
    <3> QED
      BY <3>1, <3>2, <3>3
  <2>2. CASE FinishDelete(w)
    <3> DEFINE s == [t EXCEPT !.pc = "deleted"]
    <3>1. txn' = [txn EXCEPT ![w] = s] /\ t.pc = "deleting"
      BY <2>2 DEF FinishDelete, TypeInv, TypeOK
    <3>2. t.doomed = SlotsOf(slots, ids)
      BY <1>1, <1>2, <3>1 DEF Fits, EditFits, RowFits, PassFits, SnapshotFits
    <3> HIDE DEF ids
    <3>3. /\ s.op = t.op /\ s.pc # "read" /\ s.doomed = t.doomed
          /\ t.op = "expire" => s.ids = t.ids
          /\ t.op # "expire" => s.b = t.b /\ s.read = t.read /\ s.row = t.row
          /\ t.op = "edit" => s.seat = t.seat /\ s.cfg = t.cfg /\ s.plan = t.plan
      BY <1>1, <1>2 DEF Idle, RequestTxn, CreateTxn, EditTxn, RowTxn, PassTxn
    <3> HIDE DEF s
    <3> QED
      BY <3>1, <3>2, <3>3
  <2> QED
    BY <2>1, <2>2
<1>5. PICK s : /\ txn' = [txn EXCEPT ![w] = s]
               /\ s.op = t.op /\ s.pc # "read" /\ s.doomed = SlotsOf(slots, ids)
               /\ t.op = "expire" => s.ids = t.ids
               /\ t.op # "expire" => s.b = t.b /\ s.read = t.read /\ s.row = t.row
               /\ t.op = "edit" => s.seat = t.seat /\ s.cfg = t.cfg /\ s.plan = t.plan
  BY <1>4
<1>6. Fits(s)
  <2>1. CASE t.op = "edit"
    <3>1. EditFits(t)
      BY <1>1, <2>1 DEF Fits
    <3>2. ~Refused(s)
      BY <1>2, <1>5, <2>1, <3>1 DEF EditFits, WindowFits, Refused, Window
    <3> QED
      BY <1>2, <1>5, <2>1, <3>1, <3>2 DEF Fits, EditFits, WindowFits, SnapshotFits
  <2>2. CASE t.op \in {"upload", "approve", "reject"}
    <3>1. RowFits(t)
      BY <1>1, <2>2 DEF Fits
    <3> QED
      BY <1>5, <2>2, <3>1 DEF Fits, RowFits, SnapshotFits
  <2>3. CASE t.op = "expire"
    BY <1>1, <1>5, <2>3 DEF Fits, PassFits, SnapshotFits
  <2> QED
    BY <1>2, <2>1, <2>2, <2>3
<1> HIDE DEF ids
<1> QED
  BY <1>2, <1>3, <1>5, <1>6, SerialTxn

\* Every step of a serial run keeps the invariant.
LEMMA SerialStep ==
  ASSUME TypeInv, SerialInv, [SerialNext]_vars
  PROVE  SerialInv'
<1>1. CASE UNCHANGED vars
  BY <1>1 DEF vars, SerialInv, Alone, Fits, CreateFits, EditFits, RowFits, PassFits,
              WindowFits, SnapshotFits, Refused, Overdue
<1> SUFFICES ASSUME SerialNext
             PROVE  SerialInv'
  BY <1>1
<1>2. ASSUME NEW w \in Workers, txn[w] # Idle, NEW deleted, End(w, deleted)
      PROVE  SerialInv'
  BY <1>2, SerialEnd DEF SerialInv
<1>3. ASSUME NEW h \in Handlers, BeginRequest(h) \/ LockSeatAndCheck(h)
      PROVE  SerialInv'
  BY <1>3, SerialBegins, SerialLock
<1>4. ASSUME NEW h \in Handlers, Commit(h)
      PROVE  SerialInv'
  <2>1. txn[h] # Idle /\ \E deleted : End(h, deleted)
    BY <1>4 DEF Commit, CommitCreate, CommitEdit, CommitRow, CommitReject, Idle
  <2> QED
    BY <1>2, <2>1 DEF Workers
<1>5. CASE BeginExpire
  BY <1>5, SerialBegins
<1>6. CASE CommitExpire
  <2>1. txn[Expiry] # Idle /\ \E deleted : End(Expiry, deleted)
    BY <1>6 DEF CommitExpire, Idle
  <2> QED
    BY <1>2, <2>1 DEF Workers
<1>7. ASSUME NEW w \in Workers, StartDelete(w) \/ FinishDelete(w)
      PROVE  SerialInv'
  BY <1>7, SerialDelete
<1>8. ASSUME NEW w \in Workers, Abort(w)
      PROVE  SerialInv'
  BY <1>2, <1>8 DEF Abort
<1>9. CASE BreakDeadlock
  BY <1>8, <1>9 DEF BreakDeadlock, Workers
<1>10. CASE (\E c \in Configs : UpdatePricing(c)) \/ Tick
  <2>1. txn' = txn /\ ~(pricing' = pricing /\ now' = now)
    BY <1>10 DEF UpdatePricing, Tick, TypeInv, TypeOK
  <2>2. \A w \in Workers : txn'[w] = Idle
    BY <2>1 DEF SerialNext
  <2> QED
    BY <2>2 DEF SerialInv, Alone, Fits, Idle
<1> QED
  BY <1>3, <1>4, <1>5, <1>6, <1>7, <1>8, <1>9, <1>10 DEF SerialNext, Next

-----------------------------------------------------------------------------

\* The flush of a row that is still as it was read writes the whole new row.
LEMMA FlushOfRead ==
  ASSUME NEW read \in BookingRow, NEW row \in BookingRow, row.owner = read.owner
  PROVE  Merge(read, read, row) = row
<1> DEFINE m == Merge(read, read, row)
<1>1. /\ m.owner = row.owner /\ m.seat = row.seat /\ m.cells = row.cells
      /\ m.status = row.status /\ m.until = row.until /\ m.final = row.final
      /\ m.paid = row.paid /\ m.proof = row.proof
  BY DEF Merge
<1>2. m \in BookingRow
  BY MergeType
<1>3. m = row
  <2> HIDE DEF m
  <2> QED BY <1>1, <1>2 DEF BookingRow
<1> QED
  BY <1>3

\* No operation changes whose booking it is.
LEMMA SameOwner ==
  ASSUME NEW row \in BookingRow, NEW c \in Configs, NEW t \in Nat
  PROVE  /\ \A seat \in Seats, p \in Plans : EditRow(row, seat, c, p, t).owner = row.owner
         /\ \A amount \in Amounts \cup {NoAmount} :
              ApproveRow(row, amount, c, t).owner = row.owner
         /\ ProofRow(row).owner = row.owner
         /\ RejectRow(row).owner = row.owner
<1>1. ASSUME NEW seat \in Seats, NEW p \in Plans
      PROVE  EditRow(row, seat, c, p, t).owner = row.owner
  BY DEF EditRow, BookingRow
<1>2. ASSUME NEW amount \in Amounts \cup {NoAmount}
      PROVE  ApproveRow(row, amount, c, t).owner = row.owner
  BY DEF ApproveRow, BookingRow
<1> QED
  BY <1>1, <1>2 DEF ProofRow, RejectRow, BookingRow

\* The service's operators on rows and slots are the ones the transactions use.
LEMMA SameRows ==
  /\ Service!NoRow = NoRow
  /\ \A c, p : Service!Accepted(c, p) = Accepted(c, p)
  /\ \A cells, booked : Service!HasConflict(cells, booked) = HasConflict(cells, booked)
  /\ \A seat, except : Service!Booked(slots, seat, except) = Booked(slots, seat, except)
  /\ \A ids : Service!SlotsOf(slots, ids) = SlotsOf(slots, ids)
  /\ \A b, seat, cells : Service!DaySlots(b, seat, cells) = DaySlots(b, seat, cells)
  /\ \A u, seat, c, p, t : Service!NewRow(u, seat, c, p, t) = NewRow(u, seat, c, p, t)
  /\ \A row, u : Service!Editable(row, u) = Editable(row, u)
  /\ \A row, c, p : Service!Affordable(row, c, p) = Affordable(row, c, p)
  /\ \A row, seat, c, p, t : Service!EditRow(row, seat, c, p, t) = EditRow(row, seat, c, p, t)
  /\ \A row, u, t : Service!CanUpload(row, u, t) = CanUpload(row, u, t)
  /\ \A row : Service!ProofRow(row) = ProofRow(row)
  /\ \A row, amount : Service!CanApprove(row, amount) = CanApprove(row, amount)
  /\ \A row, amount, c, t : Service!ApproveRow(row, amount, c, t) = ApproveRow(row, amount, c, t)
  /\ \A row : Service!CanReject(row) = CanReject(row)
  /\ \A row : Service!RejectRow(row) = RejectRow(row)
  /\ \A row : Service!ExpireRow(row) = ExpireRow(row)
  /\ Service!NoAmount = NoAmount
  /\ Service!Overdue = Overdue
BY ZenonT(60) DEF Service!NoRow, NoRow, Service!Accepted, Accepted, Service!HasConflict, HasConflict,
   Service!Booked, Booked, Service!SlotsOf, SlotsOf, Service!DaySlots, DaySlots,
   Service!NewRow, NewRow, Service!Editable, Editable, Service!Affordable, Affordable,
   Service!EditRow, EditRow, Service!CanUpload, CanUpload, Service!ProofRow, ProofRow,
   Service!CanApprove, CanApprove, Service!ApproveRow, ApproveRow, Service!CanReject,
   CanReject, Service!RejectRow, RejectRow, Service!ExpireRow, ExpireRow,
   Service!NoAmount, NoAmount, Service!Overdue, Overdue, Service!IsOverdue, IsOverdue,
   Service!NoTime, NoTime, Service!Credit, Credit, Service!Outstanding, Outstanding

\* What a transaction about one row writes is the new row it computed.
LEMMA FlushFits ==
  ASSUME TypeInv, NEW h \in Handlers, Flush(txn[h]),
         txn[h].op \in {"edit", "upload", "approve", "reject"},
         txn[h].read = bookings[txn[h].b],
         txn[h].row.owner = txn[h].read.owner
  PROVE  /\ txn[h].b \in Bookings /\ bookings[txn[h].b] # NoRow
         /\ bookings' = [bookings EXCEPT ![txn[h].b] = txn[h].row]
<1> DEFINE t == txn[h]
<1>1. t \in {Idle} \cup RequestTxn /\ Present(t)
  BY DEF TypeInv, TypeOK, Workers
<1>2. t \in EditTxn \cup RowTxn
  BY <1>1, TxnKinds
<1>3. t.b \in Bookings /\ t.read \in BookingRow /\ t.row \in BookingRow
  BY <1>2 DEF EditTxn, RowTxn
<1>4. Merge(bookings[t.b], t.read, t.row) = t.row
  BY <1>3, FlushOfRead
<1>5. bookings' = [bookings EXCEPT ![t.b] = Merge(bookings[t.b], t.read, t.row)]
  BY DEF Flush
<1> HIDE DEF t
<1> QED
  BY <1>1, <1>3, <1>4, <1>5 DEF Present, t

\* Each commit is a step of the service: create_booking's ...
LEMMA SerialCreate ==
  ASSUME TypeInv, SerialInv, NEW h \in Handlers, CommitCreate(h)
  PROVE  Service!Next
<1> DEFINE t == txn[h]
<1>1. /\ t.op = "create" /\ t.pc = "checked" /\ UNCHANGED <<pricing, now>>
      /\ bookings' = [bookings EXCEPT ![t.b] = t.row]
      /\ slots' = slots \cup DaySlots(t.b, t.seat, Window(t))
  BY DEF CommitCreate
<1>2. CreateFits(t) /\ t \in CreateTxn
  <2>1. Fits(t) /\ t \in {Idle} \cup RequestTxn
    BY DEF SerialInv, TypeInv, TypeOK, Workers
  <2> QED
    BY <1>1, <2>1, TxnKinds DEF Fits
<1>3. /\ t.b \in Bookings /\ t.seat \in Seats /\ t.plan \in Plans
      /\ bookings[t.b] = NoRow /\ t.cfg = pricing /\ Accepted(pricing, t.plan)
      /\ ~HasConflict(Footprint[pricing][t.plan], Booked(slots, t.seat, {}))
      /\ Window(t) = Footprint[pricing][t.plan]
  BY <1>1, <1>2 DEF CreateFits, WindowFits, Refused, Window, CreateTxn
<1>4. PICK u \in Users : t.row = NewRow(u, t.seat, pricing, t.plan, now)
  BY <1>2 DEF CreateFits
<1> HIDE DEF t
<1>5. Service!CreateBooking(u, t.b, t.seat, t.plan)
  BY <1>1, <1>3, <1>4, SameRows DEF Service!CreateBooking
<1> QED
  BY <1>3, <1>5 DEF Service!Next

\* A commit of update_booking ...
LEMMA SerialEdit ==
  ASSUME TypeInv, SerialInv, NEW h \in Handlers, CommitEdit(h)
  PROVE  Service!Next
<1> DEFINE t == txn[h]
<1>1. /\ t.op = "edit" /\ t.pc = "deleted" /\ UNCHANGED <<pricing, now>> /\ Flush(t)
      /\ slots' = (slots \ t.doomed) \cup DaySlots(t.b, t.seat, Window(t))
  BY Zenon DEF CommitEdit
<1>2. EditFits(t) /\ t \in EditTxn
  <2>1. Fits(t) /\ t \in {Idle} \cup RequestTxn
    BY DEF SerialInv, TypeInv, TypeOK, Workers
  <2> QED
    BY <1>1, <2>1, TxnKinds DEF Fits
<1>3. /\ t.b \in Bookings /\ t.seat \in Seats /\ t.plan \in Plans
      /\ t.read = bookings[t.b] /\ t.cfg = pricing /\ Accepted(pricing, t.plan)
      /\ ~HasConflict(Footprint[pricing][t.plan], Booked(slots, t.seat, {t.b}))
      /\ Affordable(bookings[t.b], pricing, t.plan)
      /\ t.doomed = SlotsOf(slots, {t.b})
      /\ Window(t) = Footprint[pricing][t.plan]
      /\ t.row = EditRow(bookings[t.b], t.seat, pricing, t.plan, now)
  BY <1>1, <1>2 DEF EditFits, WindowFits, SnapshotFits, Refused, Window, EditTxn
<1>4. PICK u \in Users : Editable(bookings[t.b], u)
  BY <1>2 DEF EditFits
<1>5. bookings[t.b] # NoRow /\ bookings' = [bookings EXCEPT ![t.b] = t.row]
  <2>1. t.read \in BookingRow /\ pricing \in Configs /\ now \in Nat
    BY <1>2 DEF EditTxn, TypeInv, TypeOK
  <2>2. t.row.owner = t.read.owner
    BY <1>3, <2>1, SameOwner
  <2> QED
    BY <1>1, <1>3, <2>2, FlushFits
<1> HIDE DEF t
<1>6. Service!UpdateBooking(u, t.b, t.seat, t.plan)
  BY <1>1, <1>3, <1>4, <1>5, SameRows DEF Service!UpdateBooking
<1> QED
  BY <1>3, <1>6 DEF Service!Next

\* ... of a payment proof, an approval or a rejection ...
LEMMA SerialRow ==
  ASSUME TypeInv, SerialInv, NEW h \in Handlers, CommitRow(h) \/ CommitReject(h)
  PROVE  Service!Next
<1> DEFINE t == txn[h]
<1>1. /\ t.op \in {"upload", "approve", "reject"} /\ UNCHANGED <<pricing, now>> /\ Flush(t)
      /\ t.op \in {"upload", "approve"} => slots' = slots
      /\ t.op = "reject" => t.pc = "deleted" /\ slots' = slots \ t.doomed
  BY Zenon DEF CommitRow, CommitReject
<1>2. RowFits(t) /\ t \in RowTxn
  <2>1. Fits(t) /\ t \in {Idle} \cup RequestTxn
    BY DEF SerialInv, TypeInv, TypeOK, Workers
  <2> QED
    BY <1>1, <2>1, TxnKinds DEF Fits
<1>3. t.read \in BookingRow /\ t.read = bookings[t.b] /\ pricing \in Configs /\ now \in Nat
  BY <1>2 DEF RowFits, RowTxn, TypeInv, TypeOK
<1>4. t.row.owner = t.read.owner
  BY <1>1, <1>2, <1>3, SameOwner DEF RowFits
<1>5. /\ t.b \in Bookings /\ bookings[t.b] # NoRow
      /\ bookings' = [bookings EXCEPT ![t.b] = t.row]
  BY <1>1, <1>3, <1>4, FlushFits
<1>6. CASE t.op = "upload"
  <2>1. PICK u \in Users : CanUpload(t.read, u, now) /\ t.row = ProofRow(t.read)
    BY <1>2, <1>6 DEF RowFits
  <2> HIDE DEF t
  <2>2. Service!UploadPaymentProof(u, t.b)
    BY <1>1, <1>3, <1>5, <1>6, <2>1, SameRows DEF Service!UploadPaymentProof
  <2> QED
    BY <1>5, <2>2 DEF Service!Next
<1>7. CASE t.op = "approve"
  <2>1. PICK amount \in Amounts \cup {NoAmount} :
          CanApprove(t.read, amount) /\ t.row = ApproveRow(t.read, amount, pricing, now)
    BY <1>2, <1>7 DEF RowFits
  <2> HIDE DEF t
  <2>2. Service!ApprovePayment(t.b, amount)
    BY <1>1, <1>3, <1>5, <1>7, <2>1, SameRows DEF Service!ApprovePayment
  <2> QED
    BY <1>5, <2>2, SameRows DEF Service!Next
<1>8. CASE t.op = "reject"
  <2>1. CanReject(t.read) /\ t.row = RejectRow(t.read) /\ t.doomed = SlotsOf(slots, {t.b})
    BY <1>1, <1>2, <1>8 DEF RowFits, SnapshotFits
  <2> HIDE DEF t
  <2>2. Service!RejectPayment(t.b)
    BY <1>1, <1>3, <1>5, <1>8, <2>1, SameRows DEF Service!RejectPayment
  <2> QED
    BY <1>5, <2>2 DEF Service!Next
<1> QED
  BY <1>1, <1>6, <1>7, <1>8

\* ... and of a pass of the expiry job.
LEMMA SerialPass ==
  ASSUME TypeInv, SerialInv, CommitExpire
  PROVE  Service!Next
<1> DEFINE t == txn[Expiry]
<1>1. /\ t.op = "expire" /\ t.pc = "deleted" /\ UNCHANGED <<pricing, now>>
      /\ bookings' = [b \in Bookings |->
                        IF b \in t.ids THEN ExpireRow(bookings[b]) ELSE bookings[b]]
      /\ slots' = slots \ t.doomed
  BY DEF CommitExpire
<1>2. PassFits(t)
  BY <1>1 DEF SerialInv, Fits, Workers
<1>3. t.ids = Overdue /\ Overdue # {} /\ t.doomed = SlotsOf(slots, Overdue)
  BY <1>1, <1>2 DEF PassFits, SnapshotFits
<1> HIDE DEF t
<1>4. Service!ExpireReservedPast
  BY <1>1, <1>3, SameRows DEF Service!ExpireReservedPast
<1> QED
  BY <1>4 DEF Service!Next

\* Every other statement leaves the tables alone: the service stutters.
LEMMA SerialImplements ==
  ASSUME TypeInv, SerialInv, [SerialNext]_vars
  PROVE  [Service!Next]_Service!vars
<1>1. ASSUME UNCHANGED <<bookings, slots, pricing, now>>
      PROVE  [Service!Next]_Service!vars
  BY <1>1 DEF Service!vars
<1>2. CASE UNCHANGED vars
  BY <1>1, <1>2 DEF vars
<1>3. ASSUME NEW h \in Handlers, BeginRequest(h)
      PROVE  [Service!Next]_Service!vars
  <2>1. ASSUME NEW t, Begin(h, t)
        PROVE  UNCHANGED <<bookings, slots, pricing, now>>
    BY <2>1 DEF Begin
  <2>2. UNCHANGED <<bookings, slots, pricing, now>>
    BY <1>3, <2>1, Zenon DEF BeginRequest, BeginCreate, BeginEdit, BeginUpload,
                             BeginApprove, BeginReject, BeginRow
  <2> QED
    BY <1>1, <2>2
<1>4. ASSUME NEW h \in Handlers, LockSeatAndCheck(h)
      PROVE  [Service!Next]_Service!vars
  <2>1. UNCHANGED <<bookings, slots, pricing, now>>
    BY <1>4, Zenon DEF LockSeatAndCheck
  <2> QED
    BY <1>1, <2>1
<1>5. ASSUME NEW h \in Handlers, Commit(h)
      PROVE  Service!Next
  BY <1>5, SerialCreate, SerialEdit, SerialRow DEF Commit
<1>6. CASE BeginExpire
  BY <1>1, <1>6 DEF BeginExpire, Begin
<1>7. CASE CommitExpire
  BY <1>7, SerialPass
<1>8. ASSUME NEW w \in Workers, StartDelete(w) \/ FinishDelete(w) \/ Abort(w)
      PROVE  [Service!Next]_Service!vars
  BY <1>1, <1>8 DEF StartDelete, FinishDelete, Abort
<1>9. CASE BreakDeadlock
  BY <1>8, <1>9 DEF BreakDeadlock, Workers
<1>10. CASE \E c \in Configs : UpdatePricing(c)
  BY <1>10 DEF UpdatePricing, Service!UpdatePricing, Service!Next
<1>11. CASE Tick
  BY <1>11 DEF Tick, Service!Tick, Service!Next
<1> QED
  BY <1>2, <1>3, <1>4, <1>5, <1>6, <1>7, <1>8, <1>9, <1>10, <1>11 DEF SerialNext, Next

\* When transactions run one after the other, the statements of each amount to the
\* request as BookingService states it, so all that holds of the service holds then.
THEOREM SerialImplementsService == SerialSpec => ImplementsService
<1>1. Init => SerialInv /\ Service!Init
  <2>1. Init => \A w \in Workers : txn[w] = Idle
    BY DEF Init
  <2>2. Init => Service!Init
    BY SameRows DEF Init, Service!Init
  <2> QED
    BY <2>1, <2>2, AllIdle
<1>2. [SerialNext]_vars => [Next]_vars
  BY DEF SerialNext
<1> QED
  BY <1>1, <1>2, TypeStart, TypeStep, SerialStep, SerialImplements, PTL
     DEF SerialSpec, ImplementsService, Service!Spec

\* What is proved of the atomic service, for the tables that the transactions leave.
Atomic == INSTANCE BookingService_proofs WITH NoHold <- Idle

\* BookingService_proofs speaks of the service that the transactions implement.
LEMMA SameService == ImplementsService => Atomic!Spec
BY DEF ImplementsService, Service!Spec, Atomic!Spec, Service!Init, Atomic!Init,
       Service!vars, Atomic!vars, Service!Next, Atomic!Next, Service!CreateBooking,
       Atomic!CreateBooking, Service!UpdateBooking, Atomic!UpdateBooking,
       Service!UploadPaymentProof, Atomic!UploadPaymentProof, Service!ApprovePayment,
       Atomic!ApprovePayment, Service!RejectPayment, Atomic!RejectPayment,
       Service!UpdatePricing, Atomic!UpdatePricing, Service!Overdue, Atomic!Overdue,
       Service!ExpireReservedPast, Atomic!ExpireReservedPast, Service!Tick,
       Atomic!Tick, Service!NoTime, Atomic!NoTime, Service!NoAmount, Atomic!NoAmount,
       Service!NoRow, Atomic!NoRow, Service!DaySlots, Atomic!DaySlots, Service!SlotsOf,
       Atomic!SlotsOf, Service!Booked, Atomic!Booked, Service!HasConflict,
       Atomic!HasConflict, Service!Accepted, Atomic!Accepted, Service!NewRow,
       Atomic!NewRow, Service!Editable, Atomic!Editable, Service!Affordable,
       Atomic!Affordable, Service!EditRow, Atomic!EditRow, Service!CanUpload,
       Atomic!CanUpload, Service!ProofRow, Atomic!ProofRow, Service!Outstanding,
       Atomic!Outstanding, Service!Credit, Atomic!Credit, Service!CanApprove,
       Atomic!CanApprove, Service!ApproveRow, Atomic!ApproveRow, Service!CanReject,
       Atomic!CanReject, Service!RejectRow, Atomic!RejectRow, Service!IsOverdue,
       Atomic!IsOverdue, Service!ExpireRow, Atomic!ExpireRow

\* The table of slots is what the booking rows call for, so no booking has slots of
\* two seats and none that is COMPLETED has lost one: it takes overlapping requests
\* for update_booking or upload_payment_proof to break that.
THEOREM SerialKeepsSlots == SerialSpec => [](CompletedHoldsItsSlots /\ OneSeatPerBooking)
<1>1. Atomic!Spec => [](Atomic!TypeOK /\ Atomic!SlotsMatchBookings)
  BY Atomic!TypeCorrect, Atomic!SlotsCorrect, RowsAssumption, TxnAssumption, PTL
<1>2. ASSUME Atomic!TypeOK, Atomic!SlotsMatchBookings
      PROVE  CompletedHoldsItsSlots /\ OneSeatPerBooking
  <2>1. ASSUME NEW b \in Bookings, bookings[b].status = "completed"
        PROVE  HoldsItsSlots(b)
    BY <1>2, <2>1 DEF Atomic!SlotsMatchBookings, Atomic!Live, Atomic!SlotsOf,
                      Atomic!DaySlots, HoldsItsSlots, DaySlots
  <2>2. ASSUME NEW s \in slots
        PROVE  s.seat = bookings[s.booking].seat
    BY <1>2, <2>2 DEF Atomic!SlotsMatchBookings, Atomic!TypeOK, Atomic!SlotsOf,
                      Atomic!DaySlots, Atomic!DaySlot
  <2> QED
    BY <2>1, <2>2 DEF CompletedHoldsItsSlots, OneSeatPerBooking
<1> QED
  BY <1>1, <1>2, SerialImplementsService, SameService, PTL

\* No credit is lost: without overlap an approval adds to the amount that is there
\* when it commits.
THEOREM SerialCreditsAdd == SerialSpec => CreditsAreCumulative
<1>1. ASSUME TypeInv, SerialInv, NEW h \in Handlers, CommitRow(h), txn[h].op = "approve"
      PROVE  bookings'[txn[h].b].paid =
               bookings[txn[h].b].paid + (txn[h].row.paid - txn[h].read.paid)
  <2> DEFINE t == txn[h]
  <2>1. RowFits(t) /\ t \in RowTxn
    <3>1. Fits(t) /\ t \in {Idle} \cup RequestTxn
      BY <1>1 DEF SerialInv, TypeInv, TypeOK, Workers
    <3> QED
      BY <1>1, <3>1, TxnKinds DEF Fits
  <2>2. /\ t.b \in Bookings /\ t.read \in BookingRow /\ t.row \in BookingRow
        /\ t.read = bookings[t.b]
    BY <2>1 DEF RowTxn, RowFits
  <2>3. bookings'[t.b] = Merge(bookings[t.b], t.read, t.row)
    BY <1>1, <2>2 DEF CommitRow, Flush, TypeInv, TypeOK
  <2>4. bookings'[t.b].paid = t.row.paid
    BY <2>2, <2>3 DEF Merge
  <2>5. t.row.paid \in Int /\ t.read.paid \in Int
    BY <2>2 DEF BookingRow
  <2> QED
    BY <2>2, <2>4, <2>5
<1>2. ASSUME TypeInv, SerialInv
      PROVE  [\A h \in Handlers :
                LET t == txn[h] IN
                CommitRow(h) /\ t.op = "approve" =>
                  bookings'[t.b].paid = bookings[t.b].paid + (t.row.paid - t.read.paid)]_vars
  BY <1>1, <1>2
<1>3. Init => SerialInv
  <2>1. Init => \A w \in Workers : txn[w] = Idle
    BY DEF Init
  <2> QED
    BY <2>1, AllIdle
<1>4. [SerialNext]_vars => [Next]_vars
  BY DEF SerialNext
<1> QED
  BY <1>2, <1>3, <1>4, TypeStart, TypeStep, SerialStep, PTL
     DEF SerialSpec, CreditsAreCumulative

-----------------------------------------------------------------------------
(* The ledger of slots.  The argument: a transaction inserts a window it found free *)
(* under the seat's lock, deletes only slots of the bookings it is about, and only  *)
(* a rejection or an expiry writes a status that closes a booking.                  *)

Ended == {"rejected", "expired"}

\* What a transaction's record says by itself, whatever the tables are.
Sound(t) ==
  /\ t.op \in {"create", "edit"} => Window(t) # {}
  /\ t.op = "create" => t.row.status = "reserved"
  /\ t.op = "edit" /\ t.pc # "read" => t.row.status \notin Ended
  /\ t.op \in {"upload", "approve"} => t.row.status \notin Ended
  /\ t.op = "reject" => t.read.status = "payment_pending" /\ t.row.status = "rejected"
  /\ \A s \in t.doomed : s.booking \in IF t.op = "expire" THEN t.ids ELSE {t.b}

LedgerInv == \A w \in Workers : Sound(txn[w])

\* A sound record for one transaction.
LEMMA OneTxnLedger ==
  ASSUME TypeInv, LedgerInv, NEW w \in Workers, NEW t, txn' = [txn EXCEPT ![w] = t], Sound(t)
  PROVE  LedgerInv'
<1>1. \A v \in Workers : txn'[v] = IF v = w THEN t ELSE txn[v]
  BY DEF TypeInv, TypeOK
<1>2. ASSUME NEW v \in Workers
      PROVE  Sound(txn'[v])
  BY <1>1 DEF LedgerInv
<1> QED
  BY <1>2 DEF LedgerInv, Sound, Window

\* The end of a transaction leaves the others sound.
LEMMA EndLedger ==
  ASSUME TypeInv, LedgerInv, NEW w \in Workers, NEW deleted, End(w, deleted)
  PROVE  LedgerInv'
<1>1. ASSUME NEW v \in Workers
      PROVE  Sound(txn'[v])
  <2>1. CASE v = w
    <3>1. txn'[v] = Idle
      BY <2>1, EndType DEF TypeInv
    <3> QED
      BY <3>1 DEF Sound, Idle
  <2>2. CASE v # w
    <3> DEFINE s == [txn[v] EXCEPT !.doomed = @ \ deleted]
    <3>1. txn'[v] = s
      BY <2>2, EndType DEF TypeInv
    <3>2. txn[v] \in {Idle} \cup RequestTxn \cup PassTxn /\ Sound(txn[v])
      BY DEF TypeInv, TypeOK, LedgerInv
    <3>3. /\ s.op = txn[v].op /\ s.pc = txn[v].pc /\ s.doomed = txn[v].doomed \ deleted
          /\ s.op \notin {"none", "expire"} => s.b = txn[v].b
          /\ s.op = "expire" => s.ids = txn[v].ids
          /\ s.op \in {"create", "edit"} =>
               s.cfg = txn[v].cfg /\ s.plan = txn[v].plan /\ s.row = txn[v].row
          /\ s.op \in {"upload", "approve", "reject"} =>
               s.read = txn[v].read /\ s.row = txn[v].row
          /\ s.op = "none" => txn[v].doomed = {}
      BY <3>2, SpareFields, TxnKinds DEF Idle
    <3> HIDE DEF s
    <3>4. Sound(s)
      BY <3>2, <3>3 DEF Sound, Window
    <3> QED
      BY <3>1, <3>4
  <2> QED
    BY <2>1, <2>2
<1> QED
  BY <1>1 DEF LedgerInv, Sound, Window

\* The first statements make sound records.
LEMMA BeginLedger ==
  ASSUME TypeInv, LedgerInv
  PROVE  /\ \A h \in Handlers : BeginRequest(h) => LedgerInv'
         /\ BeginExpire => LedgerInv'
<1>1. /\ \A h \in Handlers : h \in Workers
      /\ Expiry \in Workers /\ pricing \in Configs /\ now \in Nat
      /\ \A b \in Bookings : bookings[b] # NoRow => bookings[b] \in BookingRow
  BY DEF Workers, TypeInv, TypeOK
<1>2. ASSUME NEW w \in Workers, NEW t, Begin(w, t), Sound(t)
      PROVE  LedgerInv'
  BY <1>2, OneTxnLedger DEF Begin
<1>3. ASSUME NEW h \in Handlers, NEW u \in Users, NEW b \in Bookings,
             NEW seat \in Seats, NEW p \in Plans, BeginCreate(h, u, b, seat, p)
      PROVE  LedgerInv'
  <2> DEFINE t == [op |-> "create", pc |-> "read", b |-> b, seat |-> seat,
                   cfg |-> pricing, plan |-> p,
                   row |-> NewRow(u, seat, pricing, p, now), doomed |-> {}]
  <2>1. Begin(h, t) /\ Accepted(pricing, p)
    BY <1>3 DEF BeginCreate
  <2>2. Sound(t)
    BY <2>1 DEF Sound, Window, Accepted, NewRow
  <2> HIDE DEF t
  <2> QED
    BY <1>1, <1>2, <2>1, <2>2
<1>4. ASSUME NEW h \in Handlers, NEW u \in Users, NEW b \in Bookings,
             NEW seat \in Seats, NEW p \in Plans, BeginEdit(h, u, b, seat, p)
      PROVE  LedgerInv'
  <2> DEFINE t == [op |-> "edit", pc |-> "read", b |-> b, seat |-> seat,
                   cfg |-> pricing, plan |-> p, read |-> bookings[b],
                   row |-> bookings[b], doomed |-> {}]
  <2>1. Begin(h, t) /\ Accepted(pricing, p)
    BY <1>4 DEF BeginEdit
  <2>2. Sound(t)
    BY <2>1 DEF Sound, Window, Accepted
  <2> HIDE DEF t
  <2> QED
    BY <1>1, <1>2, <2>1, <2>2
<1>5. ASSUME NEW h \in Handlers, NEW b \in Bookings, NEW row,
             NEW op \in {"upload", "approve", "reject"}, BeginRow(h, b, op, row),
             op \in {"upload", "approve"} => row.status \notin Ended,
             op = "reject" => bookings[b].status = "payment_pending" /\ row.status = "rejected"
      PROVE  LedgerInv'
  <2> DEFINE t == [op |-> op, pc |-> "checked", b |-> b, read |-> bookings[b],
                   row |-> row, doomed |-> {}]
  <2>1. Begin(h, t)
    BY <1>5 DEF BeginRow
  <2>2. Sound(t)
    BY <1>5 DEF Sound
  <2> HIDE DEF t
  <2> QED
    BY <1>1, <1>2, <2>1, <2>2
<1>6. ASSUME NEW h \in Handlers, NEW u \in Users, NEW b \in Bookings, BeginUpload(h, u, b)
      PROVE  LedgerInv'
  BY <1>1, <1>5, <1>6, StatusRowStatus DEF BeginUpload, Ended
<1>7. ASSUME NEW h \in Handlers, NEW b \in Bookings,
             NEW amount \in Amounts \cup {NoAmount}, BeginApprove(h, b, amount)
      PROVE  LedgerInv'
  <2>1. ApproveRow(bookings[b], amount, pricing, now).status \notin Ended
    <3>1. bookings[b] \in BookingRow
      BY <1>1, <1>7 DEF BeginApprove
    <3>2. ApproveRow(bookings[b], amount, pricing, now).status \in {"completed", "reserved"}
      BY <1>1, <3>1, ApproveRowColumns
    <3> QED
      BY <3>2 DEF Ended
  <2>2. BeginRow(h, b, "approve", ApproveRow(bookings[b], amount, pricing, now))
    BY <1>7 DEF BeginApprove
  <2> QED
    BY <1>5, <2>1, <2>2
<1>8. ASSUME NEW h \in Handlers, NEW b \in Bookings, BeginReject(h, b)
      PROVE  LedgerInv'
  BY <1>1, <1>5, <1>8, StatusRowStatus DEF BeginReject, CanReject
<1>9. ASSUME BeginExpire
      PROVE  LedgerInv'
  <2> DEFINE t == [op |-> "expire", pc |-> "checked", ids |-> Overdue, doomed |-> {}]
  <2>1. Begin(Expiry, t)
    BY <1>9 DEF BeginExpire
  <2>2. Sound(t)
    BY DEF Sound
  <2> HIDE DEF t
  <2> QED
    BY <1>1, <1>2, <2>1, <2>2
<1> QED
  BY <1>3, <1>4, <1>6, <1>7, <1>8, <1>9 DEF BeginRequest

\* An edit that passes its checks computes a status that keeps the booking open, and
\* a DELETE sees only slots of the bookings its transaction is about.
LEMMA StatementLedger ==
  ASSUME TypeInv, LedgerInv, NEW w \in Workers
  PROVE  /\ w \in Handlers /\ LockSeatAndCheck(w) => LedgerInv'
         /\ StartDelete(w) => LedgerInv'
         /\ FinishDelete(w) => LedgerInv'
<1> DEFINE t == txn[w]
<1>1. /\ t \in {Idle} \cup RequestTxn \cup PassTxn /\ Sound(t) /\ now \in Nat
      /\ w \in Handlers => t \in {Idle} \cup RequestTxn
  BY DEF TypeInv, TypeOK, LedgerInv
<1>2. ASSUME w \in Handlers, LockSeatAndCheck(w)
      PROVE  LedgerInv'
  <2>1. CASE Refused(t)
    <3>1. txn' = [txn EXCEPT ![w] = Idle]
      BY <1>2, <2>1, Zenon DEF LockSeatAndCheck
    <3>2. Sound(Idle)
      BY DEF Sound, Idle
    <3> QED
      BY <3>1, <3>2, OneTxnLedger
  <2>2. CASE ~Refused(t) /\ t.op = "create"
    <3> DEFINE s == [t EXCEPT !.pc = "checked", !.row = t.row]
    <3>1. txn' = [txn EXCEPT ![w] = s]
      BY <1>2, <2>2, Zenon DEF LockSeatAndCheck
    <3>2. t \in CreateTxn
      BY <1>1, <1>2, <2>2, TxnKinds
    <3>3. /\ s.op = "create" /\ s.b = t.b /\ s.cfg = t.cfg /\ s.plan = t.plan
          /\ s.row = t.row /\ s.doomed = t.doomed
      BY <2>2, <3>2 DEF CreateTxn
    <3> HIDE DEF s
    <3>4. Sound(s)
      BY <1>1, <2>2, <3>3 DEF Sound, Window
    <3> QED
      BY <3>1, <3>4, OneTxnLedger
  <2>3. CASE ~Refused(t) /\ t.op = "edit"
    <3> DEFINE row == EditRow(t.read, t.seat, t.cfg, t.plan, now)
               s == [t EXCEPT !.pc = "checked", !.row = row]
    <3>1. txn' = [txn EXCEPT ![w] = s]
      BY <1>2, <2>3, Zenon DEF LockSeatAndCheck
    <3>2. t \in EditTxn
      BY <1>1, <1>2, <2>3, TxnKinds
    <3>3. row.status \notin Ended
      BY <1>1, <3>2, EditRowColumns DEF EditTxn, Ended
    <3> HIDE DEF row
    <3>4. /\ s.op = "edit" /\ s.b = t.b /\ s.cfg = t.cfg /\ s.plan = t.plan
          /\ s.row = row /\ s.doomed = t.doomed
      BY <2>3, <3>2 DEF EditTxn
    <3> HIDE DEF s
    <3>5. Sound(s)
      BY <1>1, <2>3, <3>3, <3>4 DEF Sound, Window
    <3> QED
      BY <3>1, <3>5, OneTxnLedger
  <2> QED
    BY <1>2, <2>1, <2>2, <2>3 DEF LockSeatAndCheck
<1>3. ASSUME StartDelete(w)
      PROVE  LedgerInv'
  <2> DEFINE d == SlotsOf(slots, Targets(w))
             s == [t EXCEPT !.pc = "deleting", !.doomed = d]
  <2>1. txn' = [txn EXCEPT ![w] = s] /\ t.op \in {"edit", "reject", "expire"} /\ t.pc # "read"
    BY <1>3 DEF StartDelete, TypeInv, TypeOK
  <2>2. \A x \in d : x.booking \in IF t.op = "expire" THEN t.ids ELSE {t.b}
    BY <2>1 DEF SlotsOf, Targets
  <2> HIDE DEF d
  <2>3. /\ s.op = t.op /\ s.pc # "read" /\ s.doomed = d
        /\ t.op = "expire" => s.ids = t.ids
        /\ t.op # "expire" => s.b = t.b /\ s.read = t.read /\ s.row = t.row
        /\ t.op = "edit" => s.cfg = t.cfg /\ s.plan = t.plan
    BY <1>1, <2>1 DEF Idle, RequestTxn, CreateTxn, EditTxn, RowTxn, PassTxn
  <2> HIDE DEF s
  <2>4. Sound(s)
    BY <1>1, <2>1, <2>2, <2>3 DEF Sound, Window
  <2> QED
    BY <2>1, <2>4, OneTxnLedger
<1>4. ASSUME FinishDelete(w)
      PROVE  LedgerInv'
  <2> DEFINE s == [t EXCEPT !.pc = "deleted"]
  <2>1. txn' = [txn EXCEPT ![w] = s] /\ t.pc = "deleting"
    BY <1>4 DEF FinishDelete, TypeInv, TypeOK
  <2>2. /\ s.op = t.op /\ s.doomed = t.doomed
        /\ t.op \in {"edit", "upload", "approve", "reject", "expire"}
        /\ t.op = "expire" => s.ids = t.ids
        /\ t.op # "expire" => s.b = t.b /\ s.read = t.read /\ s.row = t.row
        /\ t.op = "edit" => s.cfg = t.cfg /\ s.plan = t.plan
    BY <1>1, <2>1 DEF Idle, RequestTxn, CreateTxn, EditTxn, RowTxn, PassTxn
  <2> HIDE DEF s
  <2>3. Sound(s)
    BY <1>1, <2>1, <2>2 DEF Sound, Window
  <2> QED
    BY <2>1, <2>3, OneTxnLedger
<1> QED
  BY <1>2, <1>3, <1>4

\* Every step leaves every transaction sound.
LEMMA LedgerInvStep ==
  ASSUME TypeInv, LedgerInv, [Next]_vars
  PROVE  LedgerInv'
<1>1. ASSUME NEW h \in Handlers, BeginRequest(h) \/ LockSeatAndCheck(h)
      PROVE  LedgerInv'
  BY <1>1, BeginLedger, StatementLedger DEF Workers
<1>2. ASSUME NEW h \in Handlers, Commit(h)
      PROVE  LedgerInv'
  <2>1. \E deleted : End(h, deleted)
    BY <1>2 DEF Commit, CommitCreate, CommitEdit, CommitRow, CommitReject
  <2> QED
    BY <2>1, EndLedger DEF Workers
<1>3. CASE BeginExpire
  BY <1>3, BeginLedger
<1>4. CASE CommitExpire
  BY <1>4, EndLedger DEF CommitExpire, Workers
<1>5. ASSUME NEW w \in Workers, StartDelete(w) \/ FinishDelete(w)
      PROVE  LedgerInv'
  BY <1>5, StatementLedger
<1>6. ASSUME NEW w \in Workers, Abort(w)
      PROVE  LedgerInv'
  BY <1>6, EndLedger DEF Abort
<1>7. CASE BreakDeadlock
  BY <1>6, <1>7 DEF BreakDeadlock, Workers
<1>8. CASE (\E c \in Configs : UpdatePricing(c)) \/ Tick \/ UNCHANGED vars
  <2>1. txn' = txn
    BY <1>8 DEF UpdatePricing, Tick, vars
  <2> QED
    BY <2>1 DEF LedgerInv, Sound, Window
<1> QED
  BY <1>1, <1>2, <1>3, <1>4, <1>5, <1>6, <1>7, <1>8 DEF Next

\* The status a flush leaves: the transaction's, if it changed it.
LEMMA FlushStatus ==
  ASSUME TypeInv, NEW h \in Handlers, Flush(txn[h]),
         txn[h].op \in {"edit", "upload", "approve", "reject"}
  PROVE  LET t == txn[h] IN
         /\ t.b \in Bookings
         /\ \A o \in Bookings \ {t.b} : bookings'[o] = bookings[o]
         /\ bookings'[t.b].status =
              IF t.row.status # t.read.status THEN t.row.status ELSE bookings[t.b].status
<1> DEFINE t == txn[h]
<1>1. t.b \in Bookings
  <2>1. t \in {Idle} \cup RequestTxn
    BY DEF TypeInv, TypeOK
  <2>2. t \in EditTxn \cup RowTxn
    BY <2>1, TxnKinds
  <2> QED
    BY <2>2 DEF EditTxn, RowTxn
<1>2. bookings' = [bookings EXCEPT ![t.b] = Merge(bookings[t.b], t.read, t.row)]
  BY DEF Flush
<1>3. Merge(bookings[t.b], t.read, t.row).status =
        IF t.row.status # t.read.status THEN t.row.status ELSE bookings[t.b].status
  BY DEF Merge
<1> HIDE DEF t
<1> QED
  BY <1>1, <1>2, <1>3 DEF TypeInv, TypeOK, t

\* A transaction that has a seat may take its window in the ledger.
LEMMA MayTake ==
  ASSUME TypeInv, SeatInv, LedgerInv, NEW h \in Handlers, HoldsSeat(h, txn[h].seat)
  PROVE  LET t == txn[h] IN
         /\ t.b \in Bookings /\ t.seat \in Seats /\ Window(t) \in SUBSET Cells
         /\ Window(t) # {} /\ Ledger!FreeFor(t.b, t.seat, Window(t))
<1> DEFINE t == txn[h]
<1>1. h \in Workers /\ t \in {Idle} \cup RequestTxn /\ t.op \in {"create", "edit"}
  BY DEF TypeInv, TypeOK, Workers, HoldsSeat
<1>2. t \in CreateTxn \cup EditTxn
  BY <1>1, TxnKinds
<1>3. t.b \in Bookings /\ t.seat \in Seats /\ t.cfg \in Configs /\ t.plan \in Plans
  BY <1>2 DEF CreateTxn, EditTxn
<1>4. Window(t) \in SUBSET Cells
  BY <1>3, RowsAssumption DEF Window
<1>5. Window(t) # {}
  BY <1>1 DEF LedgerInv, Sound
<1>6. Ledger!FreeFor(t.b, t.seat, Window(t))
  BY DEF SeatInv, CheckedWindowStaysFree, Ledger!FreeFor
<1> QED
  BY <1>3, <1>4, <1>5, <1>6

\* Each commit is a step of the ledger: a creation ...
LEMMA LedgerCreate ==
  ASSUME TypeInv, SeatInv, LedgerInv, NEW h \in Handlers, CommitCreate(h)
  PROVE  Ledger!Next
<1> DEFINE t == txn[h]
<1>1. /\ t.op = "create" /\ t.pc = "checked"
      /\ bookings' = [bookings EXCEPT ![t.b] = t.row]
      /\ slots' = slots \cup DaySlots(t.b, t.seat, Window(t))
  BY DEF CommitCreate
<1>2. /\ t.b \in Bookings /\ t.seat \in Seats /\ Window(t) \in SUBSET Cells
      /\ Window(t) # {} /\ Ledger!FreeFor(t.b, t.seat, Window(t))
  BY <1>1, MayTake DEF HoldsSeat
<1>3. t.row.status = "reserved"
  BY <1>1 DEF LedgerInv, Sound, Workers
<1> HIDE DEF t
<1>4. Closed' = Closed \ {t.b}
  BY <1>1, <1>2, <1>3 DEF Closed, TypeInv, TypeOK
<1>5. {} \in SUBSET Ledger!SlotsOf({t.b})
  OBVIOUS
<1>6. slots' = (slots \ {}) \cup [booking : {t.b}, seat : {t.seat}, cell : Window(t)]
  BY <1>1 DEF DaySlots
<1>7. Ledger!Take(t.b, t.seat, Window(t))
  BY <1>2, <1>4, <1>5, <1>6 DEF Ledger!Take
<1> QED
  BY <1>2, <1>7 DEF Ledger!Next

\* ... an edit ...
LEMMA LedgerEdit ==
  ASSUME TypeInv, SeatInv, LedgerInv, NEW h \in Handlers, CommitEdit(h)
  PROVE  Ledger!Next
<1> DEFINE t == txn[h]
           given == slots \cap t.doomed
<1>1. /\ t.op = "edit" /\ t.pc = "deleted" /\ Flush(t)
      /\ slots' = (slots \ t.doomed) \cup DaySlots(t.b, t.seat, Window(t))
  BY Zenon DEF CommitEdit
<1>2. /\ t.b \in Bookings /\ t.seat \in Seats /\ Window(t) \in SUBSET Cells
      /\ Window(t) # {} /\ Ledger!FreeFor(t.b, t.seat, Window(t))
  BY <1>1, MayTake DEF HoldsSeat
<1>3. t.row.status \notin Ended /\ \A s \in t.doomed : s.booking = t.b
  BY <1>1 DEF LedgerInv, Sound, Workers
<1>4. /\ \A o \in Bookings \ {t.b} : bookings'[o] = bookings[o]
      /\ bookings'[t.b].status =
           IF t.row.status # t.read.status THEN t.row.status ELSE bookings[t.b].status
  BY <1>1, FlushStatus
<1> HIDE DEF t
<1>5. Closed' \in {Closed, Closed \ {t.b}}
  <2>1. CASE t.row.status # t.read.status
    <3>1. Closed' = Closed \ {t.b}
      BY <1>2, <1>3, <1>4, <2>1 DEF Closed, Ended
    <3> QED
      BY <3>1
  <2>2. CASE t.row.status = t.read.status
    <3>1. Closed' = Closed
      BY <1>2, <1>4, <2>2 DEF Closed
    <3> QED
      BY <3>1
  <2> QED
    BY <2>1, <2>2
<1>6. given \in SUBSET Ledger!SlotsOf({t.b})
  BY <1>3 DEF Ledger!SlotsOf
<1>7. slots' = (slots \ given) \cup [booking : {t.b}, seat : {t.seat}, cell : Window(t)]
  BY <1>1 DEF DaySlots
<1> HIDE DEF given
<1>8. Ledger!Take(t.b, t.seat, Window(t))
  BY <1>2, <1>5, <1>6, <1>7 DEF Ledger!Take
<1> QED
  BY <1>2, <1>8 DEF Ledger!Next

\* ... a proof or an approval, which may open a closed booking again ...
LEMMA LedgerRow ==
  ASSUME TypeInv, LedgerInv, NEW h \in Handlers, CommitRow(h)
  PROVE  [Ledger!Next]_Ledger!ledger
<1> DEFINE t == txn[h]
<1>1. t.op \in {"upload", "approve"} /\ Flush(t) /\ slots' = slots
  BY Zenon DEF CommitRow
<1>2. t.row.status \notin Ended
  BY <1>1 DEF LedgerInv, Sound, Workers
<1>3. /\ t.b \in Bookings
      /\ \A o \in Bookings \ {t.b} : bookings'[o] = bookings[o]
      /\ bookings'[t.b].status =
           IF t.row.status # t.read.status THEN t.row.status ELSE bookings[t.b].status
  BY <1>1, FlushStatus
<1> HIDE DEF t
<1>4. CASE t.row.status # t.read.status
  <2>1. Closed' = Closed \ {t.b}
    BY <1>2, <1>3, <1>4 DEF Closed, Ended
  <2> QED
    BY <1>1, <1>3, <2>1 DEF Ledger!Reopen, Ledger!Next
<1>5. CASE t.row.status = t.read.status
  <2>1. Closed' = Closed
    BY <1>3, <1>5 DEF Closed
  <2> QED
    BY <1>1, <2>1 DEF Ledger!ledger
<1> QED
  BY <1>4, <1>5

\* ... a rejection ...
LEMMA LedgerReject ==
  ASSUME TypeInv, LedgerInv, NEW h \in Handlers, CommitReject(h)
  PROVE  Ledger!Next
<1> DEFINE t == txn[h]
           given == slots \cap t.doomed
<1>1. t.op = "reject" /\ Flush(t) /\ slots' = slots \ t.doomed
  BY Zenon DEF CommitReject
<1>2. /\ t.read.status = "payment_pending" /\ t.row.status = "rejected"
      /\ \A s \in t.doomed : s.booking = t.b
  BY <1>1 DEF LedgerInv, Sound, Workers
<1>3. /\ t.b \in Bookings
      /\ \A o \in Bookings \ {t.b} : bookings'[o] = bookings[o]
      /\ bookings'[t.b].status = "rejected"
  BY <1>1, <1>2, FlushStatus
<1> HIDE DEF t
<1>4. Closed' = Closed \cup {t.b}
  BY <1>3 DEF Closed
<1>5. given \in SUBSET Ledger!SlotsOf({t.b}) /\ slots' = slots \ given
  BY <1>1, <1>2 DEF Ledger!SlotsOf
<1>6. Ledger!Close({t.b})
  BY <1>4, <1>5 DEF Ledger!Close
<1> QED
  BY <1>3, <1>6 DEF Ledger!Next

\* ... and a pass of the expiry job.
LEMMA LedgerPass ==
  ASSUME TypeInv, LedgerInv, CommitExpire
  PROVE  Ledger!Next
<1> DEFINE t == txn[Expiry]
           given == slots \cap t.doomed
<1>1. /\ t.op = "expire" /\ slots' = slots \ t.doomed
      /\ bookings' = [b \in Bookings |->
                        IF b \in t.ids THEN ExpireRow(bookings[b]) ELSE bookings[b]]
  BY DEF CommitExpire
<1>2. /\ \A s \in t.doomed : s.booking \in t.ids
      /\ t \in {Idle} \cup PassTxn /\ Present(t)
  BY <1>1 DEF LedgerInv, Sound, Workers, TypeInv, TypeOK
<1>3. t.ids \in SUBSET Bookings
  <2>1. t \in PassTxn
    BY <1>1, <1>2, TxnKinds
  <2> QED
    BY <2>1 DEF PassTxn
<1>4. \A b \in t.ids : ExpireRow(bookings[b]).status = "expired"
  BY <1>1, <1>2, <1>3, StatusRowStatus DEF Present, TypeInv, TypeOK
<1> HIDE DEF t
<1>5. Closed' = Closed \cup t.ids
  BY <1>1, <1>3, <1>4 DEF Closed
<1>6. given \in SUBSET Ledger!SlotsOf(t.ids) /\ slots' = slots \ given
  BY <1>1, <1>2 DEF Ledger!SlotsOf
<1>7. Ledger!Close(t.ids)
  BY <1>5, <1>6 DEF Ledger!Close
<1> QED
  BY <1>3, <1>7 DEF Ledger!Next

\* Every other statement leaves the ledger as it is.
LEMMA LedgerStep ==
  ASSUME TypeInv, SeatInv, LedgerInv, [Next]_vars
  PROVE  [Ledger!Next]_Ledger!ledger
<1>1. ASSUME bookings' = bookings, slots' = slots
      PROVE  [Ledger!Next]_Ledger!ledger
  BY <1>1 DEF Ledger!ledger, Closed
<1>2. ASSUME NEW h \in Handlers, BeginRequest(h)
      PROVE  [Ledger!Next]_Ledger!ledger
  <2>1. ASSUME NEW t, Begin(h, t)
        PROVE  bookings' = bookings /\ slots' = slots
    BY <2>1 DEF Begin
  <2>2. bookings' = bookings /\ slots' = slots
    BY <1>2, <2>1, Zenon DEF BeginRequest, BeginCreate, BeginEdit, BeginUpload,
                             BeginApprove, BeginReject, BeginRow
  <2> QED
    BY <1>1, <2>2
<1>3. ASSUME NEW h \in Handlers, LockSeatAndCheck(h)
      PROVE  [Ledger!Next]_Ledger!ledger
  <2>1. bookings' = bookings /\ slots' = slots
    BY <1>3, Zenon DEF LockSeatAndCheck
  <2> QED
    BY <1>1, <2>1
<1>4. ASSUME NEW h \in Handlers, Commit(h)
      PROVE  [Ledger!Next]_Ledger!ledger
  BY <1>4, LedgerCreate, LedgerEdit, LedgerRow, LedgerReject DEF Commit
<1>5. CASE BeginExpire
  BY <1>1, <1>5 DEF BeginExpire, Begin
<1>6. CASE CommitExpire
  BY <1>6, LedgerPass
<1>7. ASSUME NEW w \in Workers, StartDelete(w) \/ FinishDelete(w) \/ Abort(w)
      PROVE  [Ledger!Next]_Ledger!ledger
  BY <1>1, <1>7 DEF StartDelete, FinishDelete, Abort
<1>8. CASE BreakDeadlock
  BY <1>7, <1>8 DEF BreakDeadlock, Workers
<1>9. CASE (\E c \in Configs : UpdatePricing(c)) \/ Tick \/ UNCHANGED vars
  BY <1>1, <1>9 DEF UpdatePricing, Tick, vars
<1> QED
  BY <1>2, <1>3, <1>4, <1>5, <1>6, <1>7, <1>8, <1>9 DEF Next

\* However transactions interleave, the slot table is a ledger in which windows are
\* taken whole and free, and slots go with their own booking's move or end only.
THEOREM SlotLedgerImplemented == Spec => ImplementsLedger
<1>1. Init => SeatInv /\ LedgerInv /\ Ledger!Init
  <2>1. Init => SeatInv
    BY DEF Init, SeatInv, SeatExclusive, OneSeatHolder, CheckedWindowStaysFree, HoldsSeat,
           Workers, Idle
  <2>2. Init => LedgerInv
    BY DEF Init, LedgerInv, Sound, Idle
  <2>3. Init => Ledger!Init
    BY DEF Init, Ledger!Init, Closed, NoRow
  <2> QED
    BY <2>1, <2>2, <2>3
<1> QED
  BY <1>1, TypeStart, TypeStep, SeatStep, LedgerInvStep, LedgerStep, PTL
     DEF Spec, ImplementsLedger, Ledger!Spec

\* Such a ledger is enough to exclude double bookings.
THEOREM LedgerExcludes == Ledger!Spec => []SeatExclusive
<1>1. Ledger!Init => SeatExclusive
  BY DEF Ledger!Init, SeatExclusive
<1>2. ASSUME SeatExclusive, [Ledger!Next]_Ledger!ledger
      PROVE  SeatExclusive'
  <2>1. ASSUME NEW b \in Bookings, NEW seat \in Seats, NEW cells \in SUBSET Cells,
               Ledger!Take(b, seat, cells)
        PROVE  SeatExclusive'
    <3> DEFINE new == [booking : {b}, seat : {seat}, cell : cells]
    <3>1. slots' \subseteq slots \cup new /\ Ledger!FreeFor(b, seat, cells)
      BY <2>1 DEF Ledger!Take
    <3>2. \A s \in new : s.booking = b /\ s.seat = seat /\ s.cell \in cells
      OBVIOUS
    <3> HIDE DEF new
    <3> QED
      BY <1>2, <3>1, <3>2 DEF SeatExclusive, Ledger!FreeFor
  <2>2. ASSUME slots' \subseteq slots
        PROVE  SeatExclusive'
    BY <1>2, <2>2 DEF SeatExclusive
  <2>3. ASSUME NEW ids \in SUBSET Bookings, Ledger!Close(ids)
        PROVE  SeatExclusive'
    BY <2>2, <2>3 DEF Ledger!Close
  <2>4. ASSUME NEW b \in Bookings, Ledger!Reopen(b)
        PROVE  SeatExclusive'
    BY <2>2, <2>4 DEF Ledger!Reopen
  <2>5. CASE UNCHANGED Ledger!ledger
    BY <2>2, <2>5 DEF Ledger!ledger
  <2> QED
    BY <1>2, <2>1, <2>3, <2>4, <2>5 DEF Ledger!Next
<1> QED
  BY <1>1, <1>2, PTL DEF Ledger!Spec

=============================================================================

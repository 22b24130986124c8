------------------------- MODULE BookingRows_proofs -------------------------
(***************************************************************************)
(* Lemmas about the row transitions of BookingRows, for the proofs about    *)
(* BookingService and BookingTxn.                                           *)
(***************************************************************************)
EXTENDS BookingRows, TLAPS

-----------------------------------------------------------------------------
(* The row transitions keep a row a row.                                    *)

\* Assigning a value of its type to a column keeps the row a row.
LEMMA ColumnType ==
  ASSUME NEW row \in BookingRow
  PROVE  /\ \A x \in Seats : [row EXCEPT !.seat = x] \in BookingRow
         /\ \A x \in SUBSET Cells : [row EXCEPT !.cells = x] \in BookingRow
         /\ \A x \in BookingStatus : [row EXCEPT !.status = x] \in BookingRow
         /\ \A x \in Nat \cup {NoTime} : [row EXCEPT !.until = x] \in BookingRow
         /\ \A x \in Int : [row EXCEPT !.final = x] \in BookingRow
         /\ \A x \in Nat : [row EXCEPT !.paid = x] \in BookingRow
         /\ \A x \in BOOLEAN : [row EXCEPT !.proof = x] \in BookingRow
<1> USE DEF BookingRow
<1>1. \A x \in Seats : [row EXCEPT !.seat = x] \in BookingRow
  OBVIOUS
<1>2. \A x \in SUBSET Cells : [row EXCEPT !.cells = x] \in BookingRow
  OBVIOUS
<1>3. \A x \in BookingStatus : [row EXCEPT !.status = x] \in BookingRow
  OBVIOUS
<1>4. \A x \in Nat \cup {NoTime} : [row EXCEPT !.until = x] \in BookingRow
  OBVIOUS
<1>5. \A x \in Int : [row EXCEPT !.final = x] \in BookingRow
  OBVIOUS
<1>6. \A x \in Nat : [row EXCEPT !.paid = x] \in BookingRow
  OBVIOUS
<1>7. \A x \in BOOLEAN : [row EXCEPT !.proof = x] \in BookingRow
  OBVIOUS
<1> HIDE DEF BookingRow
<1> QED
  BY <1>1, <1>2, <1>3, <1>4, <1>5, <1>6, <1>7

\* The row a creation inserts has the columns of a booking.
LEMMA NewRowType ==
  ASSUME NEW u \in Users, NEW seat \in Seats, NEW c \in Configs, NEW p \in Plans,
         NEW t \in Nat
  PROVE  NewRow(u, seat, c, p, t) \in BookingRow
BY RowsAssumption DEF NewRow, BookingRow, BookingStatus, NoTime

\* An edit, whatever its outcome, leaves a row.
LEMMA EditRowType ==
  ASSUME NEW row \in BookingRow, NEW seat \in Seats, NEW c \in Configs,
         NEW p \in Plans, NEW t \in Nat
  PROVE  EditRow(row, seat, c, p, t) \in BookingRow
<1> DEFINE r1 == [row EXCEPT !.seat = seat]
           r2 == [r1 EXCEPT !.cells = Footprint[c][p]]
           r3 == [r2 EXCEPT !.final = Price[c][p]]
           r4 == [r3 EXCEPT !.status = "reserved"]
           r5 == [r4 EXCEPT !.until = t + Timeout[c]]
           r6 == [r5 EXCEPT !.proof = FALSE]
<1>1. /\ Footprint[c][p] \in SUBSET Cells /\ Price[c][p] \in Int
      /\ "reserved" \in BookingStatus /\ t + Timeout[c] \in Nat \cup {NoTime}
  BY RowsAssumption DEF BookingStatus
<1>2. r1 \in BookingRow
  BY ColumnType
<1>3. r2 \in BookingRow
  <2> HIDE DEF r1
  <2> QED BY <1>1, <1>2, ColumnType
<1>4. r3 \in BookingRow
  <2> HIDE DEF r2
  <2> QED BY <1>1, <1>3, ColumnType
<1>5. r4 \in BookingRow
  <2> HIDE DEF r3
  <2> QED BY <1>1, <1>4, ColumnType
<1>6. r5 \in BookingRow
  <2> HIDE DEF r4
  <2> QED BY <1>1, <1>5, ColumnType
<1>7. r6 \in BookingRow
  <2> HIDE DEF r5
  <2> QED BY <1>6, ColumnType
<1>8. EditRow(row, seat, c, p, t) \in {r3, r6}
  BY Zenon DEF EditRow
<1> QED
  BY <1>4, <1>7, <1>8

\* The proof, the rejection and the expiry of a booking leave a row.
LEMMA StatusRowType ==
  ASSUME NEW row \in BookingRow
  PROVE  /\ ProofRow(row) \in BookingRow
         /\ RejectRow(row) \in BookingRow
         /\ ExpireRow(row) \in BookingRow
<1> DEFINE r1 == [row EXCEPT !.proof = TRUE]
           r2 == [r1 EXCEPT !.status = "payment_pending"]
           r3 == [r2 EXCEPT !.until = NoTime]
           e1 == [row EXCEPT !.status = "expired"]
           e2 == [e1 EXCEPT !.until = NoTime]
<1>1. {"payment_pending", "rejected", "expired"} \subseteq BookingStatus
  BY DEF BookingStatus
<1>2. r1 \in BookingRow
  BY ColumnType
<1>3. r2 \in BookingRow
  <2> HIDE DEF r1
  <2> QED BY <1>1, <1>2, ColumnType
<1>4. r3 \in BookingRow
  <2> HIDE DEF r2
  <2> QED BY <1>3, ColumnType
<1>5. e1 \in BookingRow
  BY <1>1, ColumnType
<1>6. e2 \in BookingRow
  <2> HIDE DEF e1
  <2> QED BY <1>5, ColumnType
<1>7. RejectRow(row) \in BookingRow
  BY <1>1, ColumnType DEF RejectRow
<1> QED
  BY <1>4, <1>6, <1>7, Zenon DEF ProofRow, ExpireRow

\* An approval credits a natural number of cents, so what is paid stays one.
LEMMA ApproveRowType ==
  ASSUME NEW row \in BookingRow, NEW amount \in Amounts \cup {NoAmount},
         NEW c \in Configs, NEW t \in Nat
  PROVE  ApproveRow(row, amount, c, t) \in BookingRow
<1> DEFINE paid == row.paid + Credit(row, amount)
           r1 == [row EXCEPT !.paid = paid]
           r2 == [r1 EXCEPT !.status = "completed"]
           r3 == [r1 EXCEPT !.status = "reserved"]
           r4 == [r3 EXCEPT !.until = t + Timeout[c]]
           r5 == [r4 EXCEPT !.proof = FALSE]
<1>1. paid \in Nat
  <2>1. Credit(row, amount) \in Nat
    BY RowsAssumption DEF Credit, Outstanding, NoAmount, BookingRow
  <2> QED
    BY <2>1 DEF BookingRow
<1>2. /\ {"completed", "reserved"} \subseteq BookingStatus
      /\ t + Timeout[c] \in Nat \cup {NoTime}
  BY RowsAssumption DEF BookingStatus
<1>3. r1 \in BookingRow
  <2> HIDE DEF paid
  <2> QED BY <1>1, ColumnType
<1>4. r2 \in BookingRow /\ r3 \in BookingRow
  <2> HIDE DEF r1
  <2> QED BY <1>2, <1>3, ColumnType
<1>5. r4 \in BookingRow
  <2> HIDE DEF r3
  <2> QED BY <1>2, <1>4, ColumnType
<1>6. r5 \in BookingRow
  <2> HIDE DEF r4
  <2> QED BY <1>5, ColumnType
<1>7. ApproveRow(row, amount, c, t) \in {r2, r5}
  BY Zenon DEF ApproveRow
<1> QED
  BY <1>4, <1>6, <1>7

\* The slots of a booking are rows of the slot table.
LEMMA DaySlotsType ==
  ASSUME NEW b \in Bookings, NEW seat \in Seats, NEW c \in Configs, NEW p \in Plans
  PROVE  DaySlots(b, seat, Footprint[c][p]) \subseteq DaySlot
BY RowsAssumption DEF DaySlots, DaySlot

-----------------------------------------------------------------------------
(* What the transitions preserve of one row.                                *)

\* The claims of BookingService about one row: its deadline, its screenshot and
\* its money fit its status.
RowConsistent(row) ==
  /\ row.status = "reserved" <=> row.until # NoTime
  /\ row.proof <=> row.status \in {"payment_pending", "completed", "rejected"}
  /\ row.status = "completed" => row.paid >= row.final

\* A new booking is consistent.
LEMMA NewRowConsistent ==
  ASSUME NEW u \in Users, NEW seat \in Seats, NEW c \in Configs, NEW p \in Plans,
         NEW t \in Nat
  PROVE  RowConsistent(NewRow(u, seat, c, p, t))
BY RowsAssumption DEF RowConsistent, NewRow, NoTime

\* An edit of a consistent row gives one.
LEMMA EditRowConsistent ==
  ASSUME NEW row \in BookingRow, RowConsistent(row), NEW seat \in Seats,
         NEW c \in Configs, NEW p \in Plans, NEW t \in Nat
  PROVE  RowConsistent(EditRow(row, seat, c, p, t))
<1>1. CASE row.status = "completed" /\ Price[c][p] = row.paid
  BY <1>1, RowsAssumption DEF RowConsistent, EditRow, BookingRow
<1>2. CASE ~(row.status = "completed" /\ Price[c][p] = row.paid)
  BY <1>2, RowsAssumption DEF RowConsistent, EditRow, BookingRow, NoTime
<1> QED
  BY <1>1, <1>2

\* So do a proof, a rejection and an expiry.
LEMMA StatusRowConsistent ==
  ASSUME NEW row \in BookingRow, RowConsistent(row)
  PROVE  /\ RowConsistent(ProofRow(row))
         /\ CanReject(row) => RowConsistent(RejectRow(row))
         /\ row.status = "reserved" => RowConsistent(ExpireRow(row))
BY DEF RowConsistent, ProofRow, CanReject, RejectRow, ExpireRow, BookingRow, NoTime

\* And an approval, of whatever amount.
LEMMA ApproveRowConsistent ==
  ASSUME NEW row \in BookingRow, RowConsistent(row), row.status = "payment_pending",
         NEW amount \in Amounts \cup {NoAmount}, NEW c \in Configs, NEW t \in Nat
  PROVE  RowConsistent(ApproveRow(row, amount, c, t))
<1>1. Credit(row, amount) \in Nat
  BY RowsAssumption DEF Credit, Outstanding, NoAmount, BookingRow
<1>2. CASE row.paid + Credit(row, amount) >= row.final
  BY <1>1, <1>2 DEF RowConsistent, ApproveRow, BookingRow, NoTime
<1>3. CASE ~(row.paid + Credit(row, amount) >= row.final)
  BY <1>1, <1>3, RowsAssumption DEF RowConsistent, ApproveRow, BookingRow, NoTime
<1> QED
  BY <1>2, <1>3

-----------------------------------------------------------------------------
(* What the transitions do to the columns other lemmas rest on.             *)

\* An edit moves the booking to what was asked for and keeps it editable.
LEMMA EditRowColumns ==
  ASSUME NEW row \in BookingRow, NEW seat \in Seats, NEW c \in Configs,
         NEW p \in Plans, NEW t \in Nat
  PROVE  LET new == EditRow(row, seat, c, p, t) IN
         /\ new.seat = seat /\ new.cells = Footprint[c][p]
         /\ new.final = Price[c][p] /\ new.paid = row.paid
         /\ new.status = IF row.status = "completed" /\ Price[c][p] = row.paid
                           THEN "completed" ELSE "reserved"
BY DEF EditRow, BookingRow

\* A proof, a rejection and an expiry change neither seat, window nor money.
LEMMA StatusRowColumns ==
  ASSUME NEW row \in BookingRow, NEW new \in {ProofRow(row), RejectRow(row), ExpireRow(row)}
  PROVE  new.seat = row.seat /\ new.cells = row.cells /\ new.final = row.final
           /\ new.paid = row.paid
BY DEF ProofRow, RejectRow, ExpireRow, BookingRow

\* The statuses they set.
LEMMA StatusRowStatus ==
  ASSUME NEW row \in BookingRow
  PROVE  /\ ProofRow(row).status = "payment_pending"
         /\ RejectRow(row).status = "rejected"
         /\ ExpireRow(row).status = "expired"
BY DEF ProofRow, RejectRow, ExpireRow, BookingRow

\* An approval adds to what is paid and keeps the seat.
LEMMA ApproveRowColumns ==
  ASSUME NEW row \in BookingRow, NEW amount \in Amounts \cup {NoAmount},
         NEW c \in Configs, NEW t \in Nat
  PROVE  LET new == ApproveRow(row, amount, c, t) IN
         /\ new.seat = row.seat /\ new.cells = row.cells /\ new.final = row.final
         /\ new.paid = row.paid + Credit(row, amount)
         /\ new.status \in {"completed", "reserved"}
<1>1. CASE row.paid + Credit(row, amount) >= row.final
  BY <1>1 DEF ApproveRow, BookingRow
<1>2. CASE ~(row.paid + Credit(row, amount) >= row.final)
  BY <1>2 DEF ApproveRow, BookingRow
<1> QED
  BY <1>1, <1>2

=============================================================================

----------------------------- MODULE RetryProofs -----------------------------
(***************************************************************************)
(* What a request can fail of, however often its operations have been      *)
(* carried out before: of an update whose document is missing, and of      *)
(* nothing else that the engine does without trouble.                      *)
(***************************************************************************)
EXTENDS IndexProofs

(* Behind the i-th of the rows and up to the j-th, one brings the document. *)
BroughtIn(rows, i, j, id) ==
  \E k \in i + 1..j : rows[k].id = id /\ rows[k].action = "index"

(* A row that was deleted is inserted again before it is updated. *)
InsertedBetween(rows, id) ==
  \A i, j \in 1..Len(rows) :
    /\ i < j /\ rows[i].id = id /\ rows[j].id = id
    /\ rows[i].action = "delete" /\ rows[j].action = "update"
    => BroughtIn(rows, i, j - 1, id)

(* A row that was deleted and is in the table was inserted again. *)
InsertedAgain(rows, id) ==
  \A i \in 1..Len(rows) :
    rows[i].id = id /\ rows[i].action = "delete" => BroughtIn(rows, i, Len(rows), id)

(* The order of the rows fits a table, if no change was dropped. *)
OrderInv ==
  \A id \in Ids \ dropped :
    /\ InsertedBetween(Handed, id)
    /\ table[id] # Absent => InsertedAgain(Handed, id)

(* A delete of the row among the committed ones was carried out before. *)
Removed(id) ==
  \E j \in 1..FlushLen : /\ buffer[j].id = id /\ buffer[j].action = "delete"
                         /\ buffer[j] \in applied

(* When an update in the backlog has no document, a row before it brings   *)
(* it, or the document was there and a committed delete took it away.      *)
Present(id) ==
  docs[id] = Absent =>
    \A i \in 1..Len(Backlog) :
      Backlog[i].id = id /\ Backlog[i].action = "update" =>
        BroughtIn(Backlog, 0, i - 1, id) \/ Removed(id)

(* The inductive invariant. *)
RetryInv ==
  /\ IndexInv
  /\ OrderInv
  /\ \A id \in Ids \ (dropped \union Unindexed) : Present(id)

------------------------------------------------------------------------------
(* The order of the rows. *)

(* What was brought in stays so when a row joins. *)
LEMMA BroughtInStays ==
  ASSUME NEW rows, Len(rows) \in Nat, NEW more,
         \A k \in 1..Len(rows) : more[k] = rows[k],
         NEW i \in 1..Len(rows), NEW j \in Nat, j <= Len(rows),
         NEW id, BroughtIn(rows, i, j, id)
  PROVE  BroughtIn(more, i, j, id)
<1>1. \A k \in i + 1..j : more[k] = rows[k]
  OBVIOUS
<1>. QED
  BY <1>1 DEF BroughtIn

(* The rows of `id' stay in an order that fits a table. *)
LEMMA OrderFits ==
  ASSUME NEW rows, Len(rows) \in Nat, NEW id, InsertedBetween(rows, id),
         NEW more, Len(more) = Len(rows) + 1,
         \A k \in 1..Len(rows) : more[k] = rows[k],
         NEW row, more[Len(rows) + 1] = row,
         row.id = id /\ row.action = "update" => InsertedAgain(rows, id)
  PROVE  InsertedBetween(more, id)
<1>1. SUFFICES ASSUME NEW i \in 1..Len(more), NEW j \in 1..Len(more),
                      i < j, more[i].id = id, more[j].id = id,
                      more[i].action = "delete", more[j].action = "update"
               PROVE  BroughtIn(more, i, j - 1, id)
  BY DEF InsertedBetween
<1>2. i \in 1..Len(rows) /\ more[i] = rows[i] /\ j - 1 \in Nat /\ j - 1 <= Len(rows)
  BY <1>1
<1>3. CASE j \in 1..Len(rows)
  <2>1. more[j] = rows[j]
    BY <1>3
  <2>2. BroughtIn(rows, i, j - 1, id)
    BY <1>1, <1>2, <1>3, <2>1 DEF InsertedBetween
  <2>. QED
    BY <1>2, <2>1, <2>2, BroughtInStays
<1>4. CASE j = Len(rows) + 1
  <2>1. j - 1 = Len(rows) /\ more[j] = row
    BY <1>4
  <2>2. BroughtIn(rows, i, Len(rows), id)
    BY <1>1, <1>2, <2>1 DEF InsertedAgain
  <2>3. BroughtIn(rows, i, j - 1, id)
    BY <2>1, <2>2
  <2>. QED
    BY <1>2, <2>3, BroughtInStays
<1>. QED
  BY <1>3, <1>4

(* A row that is still, or again, in the table was inserted again. *)
LEMMA InsertedStays ==
  ASSUME NEW rows, Len(rows) \in Nat,
         NEW more, Len(more) = Len(rows) + 1,
         \A k \in 1..Len(rows) : more[k] = rows[k],
         NEW row, more[Len(rows) + 1] = row, NEW id,
         \/ InsertedAgain(rows, id) /\ (row.id # id \/ row.action # "delete")
         \/ row.id = id /\ row.action = "index"
  PROVE  InsertedAgain(more, id)
<1>1. SUFFICES ASSUME NEW i \in 1..Len(more), more[i].id = id, more[i].action = "delete"
               PROVE  BroughtIn(more, i, Len(more), id)
  BY DEF InsertedAgain
<1>2. i # Len(rows) + 1
  BY <1>1
<1>3. i \in 1..Len(rows) /\ more[i] = rows[i]
  BY <1>2
<1>4. CASE row.id = id /\ row.action = "index"
  <2>1. Len(rows) + 1 \in i + 1..Len(more)
    BY <1>3
  <2>. QED
    BY <1>4, <2>1 DEF BroughtIn
<1>5. CASE InsertedAgain(rows, id)
  <2>1. PICK k \in i + 1..Len(rows) : rows[k].id = id /\ rows[k].action = "index"
    BY <1>1, <1>3, <1>5 DEF InsertedAgain, BroughtIn
  <2>2. k \in i + 1..Len(more) /\ more[k] = rows[k]
    BY <1>3
  <2>. QED
    BY <2>1, <2>2 DEF BroughtIn
<1>. QED
  BY <1>4, <1>5

(* A change in the database, of a row or of all. *)
DatabaseMoves == ChangeRow \/ TruncateTable

(* Only such a change hands over a row. *)
LEMMA HandedStays ==
  ASSUME RowsInv, [DeliveryNext]_deliveryVars
  PROVE  \/ DatabaseMoves
         \/ Handed' = Handed /\ table' = table /\ dropped' = dropped
<1>0. BatcherInv /\ BatcherTypeOK
  BY DEF RowsInv, BatcherInv
<1>1. ASSUME BulkFail \/ BulkOk
      PROVE  Handed' = Handed
  BY <1>0, <1>1, BulkOkRows DEF BulkFail, Handed
<1>2. CASE ChangeAdded
  BY <1>0, <1>2, FinishAddRows DEF ChangeAdded, outsideVars
<1>3. CASE CommitChange
  BY <1>3 DEF CommitChange, CommitN, Handed, outsideVars
<1>4. CASE SendBatch
  BY <1>4 DEF SendBatch, Flush, Handed, outsideVars
<1>5. CASE EngineReady
  BY <1>1, <1>5 DEF EngineReady, EngineWorks, Perform
<1>6. CASE EngineBusy
  BY <1>1, <1>6 DEF EngineBusy, EngineWorks, Perform
<1>7. CASE EngineRefuses
  BY <1>1, <1>7 DEF EngineRefuses, outsideVars
<1>8. CASE NoAnswer
  BY <1>1, <1>8 DEF NoAnswer, outsideVars, Perform
<1>9. CASE UNCHANGED deliveryVars
  BY <1>9 DEF deliveryVars, batcherVars, Handed
<1>. QED
  BY <1>2, <1>3, <1>4, <1>5, <1>6, <1>7, <1>8, <1>9 DEF DeliveryNext, DatabaseMoves

(* A change: a row of the table that is there is updated or deleted, one   *)
(* that is not is inserted.                                                *)
LEMMA ChangeOrder ==
  ASSUME RowsInv, OrderInv, ChangeRow
  PROVE  OrderInv'
<1>0. PICK id \in Ids : \E new \in TableDocs(id) : ChangeShape(id, new)
  BY ChangeOf
<1>1. PICK new \in TableDocs(id) : ChangeShape(id, new)
  BY <1>0
<1>2. DOMAIN table = Ids /\ BatcherTypeOK
  BY DEF RowsInv, DeliveryTypeOK
<1>3. table'[id] = new /\ \A other \in Ids \ {id} : table'[other] = table[other]
  BY <1>1, <1>2 DEF ChangeShape
<1>4. CASE dropped' = dropped \union {id} /\ UNCHANGED batcherVars
  <2>1. Handed' = Handed
    BY <1>4 DEF batcherVars, Handed
  <2>2. \A other \in Ids \ dropped' :
          other \in Ids \ dropped /\ table'[other] = table[other]
    BY <1>3, <1>4
  <2>. QED
    BY <2>1, <2>2 DEF OrderInv, InsertedBetween, InsertedAgain, BroughtIn
<1>5. ASSUME NEW row \in Row, Add(row),
             Describes(row, changes + 1, id, table[id], new), dropped' = dropped
      PROVE  OrderInv'
  <2>1. PICK more : more = Handed'
    OBVIOUS
  <2>2. /\ Len(Handed) \in Nat /\ Len(more) = Len(Handed) + 1
        /\ \A k \in 1..Len(Handed) : more[k] = Handed[k]
        /\ more[Len(Handed) + 1] = row
    BY <1>2, <1>5, <2>1, AddedRow
  <2>3. /\ row.id = id
        /\ row.action = "index" <=> table[id] = Absent
        /\ row.action = "delete" <=> new = Absent
    BY <1>5 DEF Describes
  <2>4. ASSUME NEW other \in Ids \ dropped
        PROVE  /\ InsertedBetween(more, other)
               /\ table'[other] # Absent => InsertedAgain(more, other)
    <3>1. /\ InsertedBetween(Handed, other)
          /\ table[other] # Absent => InsertedAgain(Handed, other)
      BY <2>4 DEF OrderInv
    <3>2. row.id = other /\ row.action = "update" => InsertedAgain(Handed, other)
      BY <2>3, <3>1
    <3>3. InsertedBetween(more, other)
      BY <2>2, <3>1, <3>2, OrderFits
    <3>4. ASSUME table'[other] # Absent
          PROVE  InsertedAgain(more, other)
      <4>1. \/ InsertedAgain(Handed, other) /\ (row.id # other \/ row.action # "delete")
            \/ row.id = other /\ row.action = "index"
        BY <1>3, <2>3, <3>1, <3>4
      <4>. QED
        BY <2>2, <4>1, InsertedStays
    <3>. QED
      BY <3>3, <3>4
  <2>. QED
    BY <1>5, <2>1, <2>4 DEF OrderInv, InsertedBetween, InsertedAgain, BroughtIn
<1>. QED
  BY <1>1, <1>4, <1>5 DEF ChangeShape

(* Every step keeps the order. *)
LEMMA OrderNext ==
  ASSUME RowsInv, OrderInv, [DeliveryNext]_deliveryVars
  PROVE  OrderInv'
<1>1. CASE Handed' = Handed /\ table' = table /\ dropped' = dropped
  BY <1>1 DEF OrderInv, InsertedBetween, InsertedAgain, BroughtIn
<1>2. CASE TruncateTable
  <2>1. Handed' = Handed
    BY <1>2 DEF TruncateTable, batcherVars, Handed
  <2>2. \A id \in Ids \ dropped' : id \in Ids \ dropped /\ table'[id] = Absent
    BY <1>2 DEF TruncateTable
  <2>. QED
    BY <2>1, <2>2 DEF OrderInv, InsertedBetween, InsertedAgain, BroughtIn
<1>. QED
  BY <1>1, <1>2, HandedStays, ChangeOrder DEF DatabaseMoves

------------------------------------------------------------------------------
(* The failures of a request. *)

(* Bulk answers with nil exactly when no operation failed. *)
LEMMA SuccessIsNoFailure ==
  ASSUME Sendable, NEW busy
  PROVE  BulkSucceeds(Answered(Work(Request, busy), Request))
           <=> Work(Request, busy).failed = {}
<1> DEFINE answer == Answered(Work(Request, busy), Request)
<1>1. ASSUME Work(Request, busy).failed = {}
      PROVE  BulkSucceeds(answer)
  <2>1. ~answer.errors /\ answer.code = 200
    BY <1>1 DEF Answered
  <2>. HIDE DEF answer
  <2>. QED
    BY <2>1 DEF BulkSucceeds, BulkHTTPSucceeds, BulkGRPCSucceeds,
                ReportErrors, ReportGRPCBulkErrors
<1>. QED
  BY <1>1, SuccessHasNoFailures

(* An update of a missing document that nothing before it brings. *)
Missing(i) ==
  /\ buffer[i].action = "update" /\ docs[buffer[i].id] = Absent
  /\ ~BroughtIn(buffer, 0, i - 1, buffer[i].id)

(* Why a document may be missing behind the first k operations: it was     *)
(* never there, or one of them deletes it.                                 *)
GoneBy(id, k) ==
  \/ /\ docs[id] = Absent
     /\ \A j \in 1..k : buffer[j].id = id => buffer[j].action = "update"
  \/ \E j \in 1..k : /\ buffer[j].id = id /\ buffer[j].action = "delete"
                     /\ ~BroughtIn(buffer, j, k, id)

(* What the order of the rows handed over says of those not delivered.     *)
LEMMA BacklogInserted ==
  ASSUME RowsInv, NEW id, InsertedBetween(Handed, id),
         NEW j \in 1..Len(Backlog), NEW k \in 1..Len(Backlog), j < k,
         Backlog[j].id = id, Backlog[k].id = id,
         Backlog[j].action = "delete", Backlog[k].action = "update"
  PROVE  BroughtIn(Backlog, j, k - 1, id)
<1> DEFINE d == Len(delivered)
<1>1. /\ d \in Nat /\ Len(Backlog) \in Nat
      /\ \A i \in 1..Len(Backlog) : d + i \in 1..Len(Handed) /\ Handed[d + i] = Backlog[i]
  <2>1. HandedLayout
    BY HandedParts DEF RowsInv, BatcherInv
  <2>2. d \in Nat /\ Len(Backlog) \in Nat /\ Len(Handed) = d + Len(Backlog)
    BY <2>1 DEF HandedLayout
  <2>3. \A i \in 1..Len(Backlog) : d + i \in 1..Len(Handed)
    BY <2>2
  <2>. QED
    BY <2>1, <2>2, <2>3 DEF HandedLayout
<1>. HIDE DEF d
<1>2. d + j \in 1..Len(Handed) /\ d + k \in 1..Len(Handed) /\ d + j < d + k
  BY <1>1
<1>3. Handed[d + j] = Backlog[j] /\ Handed[d + k] = Backlog[k]
  BY <1>1
<1>4. BroughtIn(Handed, d + j, (d + k) - 1, id)
  BY <1>2, <1>3 DEF InsertedBetween
<1>5. PICK m \in (d + j) + 1..(d + k) - 1 : Handed[m].id = id /\ Handed[m].action = "index"
  BY <1>4 DEF BroughtIn
<1>6. PICK i \in j + 1..k - 1 : m = d + i /\ i \in 1..Len(Backlog)
  <2>1. m - d \in j + 1..k - 1 /\ m = d + (m - d) /\ m - d \in 1..Len(Backlog)
    BY <1>1
  <2>. QED
    BY <2>1
<1>. QED
  BY <1>1, <1>5, <1>6 DEF BroughtIn

(* So it is in a request.                                                  *)
LEMMA RequestInserted ==
  ASSUME RowsInv, NEW id, InsertedBetween(Handed, id),
         NEW j \in 1..FlushLen, NEW k \in 1..FlushLen, j < k,
         buffer[j].id = id, buffer[k].id = id,
         buffer[j].action = "delete", buffer[k].action = "update"
  PROVE  BroughtIn(buffer, j, k - 1, id)
<1>1. /\ FlushLen \in Nat
      /\ \A i \in 1..FlushLen : i \in 1..Len(Backlog) /\ Backlog[i] = buffer[i]
  BY InvRows DEF Sendable
<1>2. BroughtIn(Backlog, j, k - 1, id)
  BY <1>1, BacklogInserted
<1>3. PICK i \in j + 1..k - 1 : Backlog[i].id = id /\ Backlog[i].action = "index"
  BY <1>2 DEF BroughtIn
<1>4. i \in 1..FlushLen
  BY <1>1
<1>. QED
  BY <1>1, <1>3, <1>4 DEF BroughtIn

(* Another operation, which succeeds. *)
LEMMA GoneNext ==
  ASSUME Sendable, NEW k \in 1..FlushLen, NEW id \in Ids,
         NEW before, NEW after, IsWork(before), Writes(buffer[k], before, after),
         before.index[id] = Absent => GoneBy(id, k - 1),
         after.index[id] = Absent
  PROVE  GoneBy(id, k)
<1>1. WellFormed(buffer[k]) /\ k \in Nat
  BY DEF Sendable
<1>2. \A j \in 1..k : j = k \/ j \in 1..k - 1
  BY <1>1
<1>3. CASE buffer[k].id # id
  <2>1. before.index[id] = Absent
    BY <1>3 DEF Writes
  <2>2. GoneBy(id, k - 1)
    BY <2>1
  <2>3. CASE /\ docs[id] = Absent
             /\ \A j \in 1..k - 1 : buffer[j].id = id => buffer[j].action = "update"
    BY <1>2, <1>3, <2>3 DEF GoneBy
  <2>4. ASSUME NEW j \in 1..k - 1, buffer[j].id = id, buffer[j].action = "delete",
               ~BroughtIn(buffer, j, k - 1, id)
        PROVE  GoneBy(id, k)
    <3>1. j \in 1..k
      BY <1>1
    <3>2. \A m \in j + 1..k : m = k \/ m \in j + 1..k - 1
      BY <1>1
    <3>3. ~BroughtIn(buffer, j, k, id)
      BY <1>3, <2>4, <3>2 DEF BroughtIn
    <3>. QED
      BY <2>4, <3>1, <3>3 DEF GoneBy
  <2>. QED
    BY <2>2, <2>3, <2>4 DEF GoneBy
<1>4. CASE buffer[k].id = id
  <2>1. before.index[buffer[k].id] \in Docs(buffer[k].id)
    BY <1>4 DEF IsWork
  <2>2. After(before.index[id], buffer[k]) = Absent
    BY <1>4 DEF Writes
  <2>3. buffer[k].action = "delete"
    <3>1. buffer[k].action = "update" => before.index[buffer[k].id] # Absent
      BY DEF Writes
    <3>. QED
      BY <1>1, <1>4, <2>1, <2>2, <3>1, AfterRow
  <2>4. k \in 1..k /\ ~BroughtIn(buffer, k, k, id)
    BY <1>1 DEF BroughtIn
  <2>. QED
    BY <1>4, <2>3, <2>4 DEF GoneBy
<1>. QED
  BY <1>3, <1>4

(* When nothing fails, a document that is missing afterwards has gone so.  *)
LEMMA GoneAfter ==
  ASSUME Sendable, NEW busy, Work(Request, busy).failed = {},
         NEW id \in Ids, Work(Request, busy).index[id] = Absent
  PROVE  GoneBy(id, FlushLen)
<1> DEFINE P == Progress(Request, busy)
           S == {k \in Nat : P[k].index[id] = Absent => GoneBy(id, k)}
<1>0. FlushLen \in Nat
  BY DEF Sendable
<1>1. 0 \in S
  <2>1. P[0].index = docs
    BY ProgressOf
  <2>2. docs[id] = Absent => GoneBy(id, 0)
    BY DEF GoneBy
  <2>. HIDE DEF P
  <2>. QED
    BY <2>1, <2>2
<1>2. ASSUME NEW k \in 1..FlushLen, k - 1 \in S
      PROVE  k \in S
  <2> DEFINE before == P[k - 1]
             after == P[k]
  <2>1. IsWork(before) /\ TakesUp(k, busy, before, after)
    BY ProgressStep
  <2>2. k \in Nat /\ k \in 0..FlushLen
    BY <1>0
  <2>3. after.failed = {}
    BY <2>2, FailuresStay
  <2>4. before.index[id] = Absent => GoneBy(id, k - 1)
    <3>. HIDE DEF P
    <3>. QED
      BY <1>2
  <2>. HIDE DEF P, before, after
  <2>5. Writes(buffer[k], before, after)
    BY <2>1, <2>3 DEF TakesUp
  <2>6. after.index[id] = Absent => GoneBy(id, k)
    BY <2>1, <2>4, <2>5, GoneNext
  <2>. QED
    BY <2>2, <2>6 DEF after
<1>3. FlushLen \in S
  <2>. HIDE DEF S
  <2>. QED
    BY <1>0, <1>1, <1>2, RangeInduction
<1>4. P[FlushLen].index[id] = Absent
  BY ProgressOf
<1>. HIDE DEF P
<1>. QED
  BY <1>3, <1>4

(* When a document is missing after a request that may have failed in      *)
(* part, it was missing before, or a delete of it has been carried out.    *)
LEMMA TakenAway ==
  ASSUME Sendable, NEW busy, NEW id \in Ids, docs[id] # Absent,
         Work(Request, busy).index[id] = Absent
  PROVE  \E j \in 1..FlushLen \ Work(Request, busy).failed :
           buffer[j].id = id /\ buffer[j].action = "delete"
<1> DEFINE P == Progress(Request, busy)
           Gone(work, k) ==
             \E j \in 1..k \ work.failed : buffer[j].id = id /\ buffer[j].action = "delete"
           Fine(work, k) == /\ work.failed \subseteq 1..k
                            /\ work.index[id] = Absent => Gone(work, k)
           S == {k \in Nat : Fine(P[k], k)}
<1>0. FlushLen \in Nat
  BY DEF Sendable
<1>1. 0 \in S
  <2>1. P[0] = [index |-> docs, failed |-> {}, notFound |-> {}]
    BY ProgressOf
  <2>2. P[0].index = docs /\ P[0].failed = {}
    BY <2>1
  <2>. HIDE DEF P, Gone
  <2>. QED
    BY <2>2
<1>2. ASSUME NEW k \in 1..FlushLen, k - 1 \in S
      PROVE  k \in S
  <2> DEFINE before == P[k - 1]
             after == P[k]
  <2>1. IsWork(before) /\ TakesUp(k, busy, before, after)
    BY ProgressStep
  <2>2. k \in Nat /\ k \in 1..k /\ k \notin 1..k - 1 /\ 1..k - 1 \subseteq 1..k
    BY <1>0
  <2>3. Fine(before, k - 1)
    <3>. HIDE DEF P, Fine
    <3>. QED
      BY <1>2
  <2>4. WellFormed(buffer[k])
    BY DEF Sendable
  <2>. HIDE DEF P, before, after
  <2>5. ASSUME after.index = before.index, after.failed = before.failed \union {k}
        PROVE  Fine(after, k)
    <3>1. \A j \in 1..k - 1 : j # k /\ j \in 1..k
      BY <2>2
    <3>. QED
      BY <2>2, <2>3, <2>5, <3>1
  <2>6. ASSUME after.failed = before.failed, Writes(buffer[k], before, after)
        PROVE  Fine(after, k)
    <3>1. after.failed \subseteq 1..k /\ k \notin after.failed
      BY <2>2, <2>3, <2>6
    <3>2. ASSUME after.index[id] = Absent, before.index[id] = Absent
          PROVE  Gone(after, k)
      BY <2>2, <2>3, <2>6, <3>2
    <3>3. ASSUME after.index[id] = Absent, before.index[id] # Absent
          PROVE  Gone(after, k)
      <4>1. buffer[k].id = id
        BY <2>6, <3>3 DEF Writes
      <4>2. before.index[buffer[k].id] \in Docs(buffer[k].id)
        BY <2>1, <4>1 DEF IsWork
      <4>3. After(before.index[buffer[k].id], buffer[k]) = Absent
        BY <2>6, <3>3, <4>1 DEF Writes
      <4>4. buffer[k].action = "delete"
        BY <2>4, <3>3, <4>1, <4>2, <4>3, AfterRow
      <4>. QED
        BY <2>2, <3>1, <4>1, <4>4
    <3>. HIDE DEF Gone
    <3>. QED
      BY <3>1, <3>2, <3>3
  <2>. HIDE DEF Fine
  <2>7. Fine(after, k)
    BY <2>1, <2>5, <2>6 DEF TakesUp
  <2>. QED
    BY <2>2, <2>7 DEF after
<1>3. FlushLen \in S
  <2>. HIDE DEF S
  <2>. QED
    BY <1>0, <1>1, <1>2, RangeInduction
<1>4. Work(Request, busy) = P[FlushLen]
  BY ProgressOf
<1>. HIDE DEF P
<1>. QED
  BY <1>3, <1>4

(* Without such an update, and without trouble, nothing fails of which no  *)
(* change was dropped.                                                     *)
LEMMA NothingFails ==
  ASSUME RowsInv, OrderInv,
         \A i \in 1..FlushLen :
           buffer[i].action = "update" => buffer[i].id \notin dropped /\ ~Missing(i)
  PROVE  Work(Request, {}).failed = {}
<1> DEFINE P == Progress(Request, {})
           Fine(work, k) == /\ work.failed = {}
                            /\ \A id \in Ids : work.index[id] = Absent => GoneBy(id, k)
           S == {k \in Nat : Fine(P[k], k)}
<1>0. Sendable /\ FlushLen \in Nat
  BY InvRows DEF Sendable
<1>1. 0 \in S
  <2>1. P[0] = [index |-> docs, failed |-> {}, notFound |-> {}]
    BY <1>0, ProgressOf
  <2>2. \A id \in Ids : docs[id] = Absent => GoneBy(id, 0)
    BY DEF GoneBy
  <2>. HIDE DEF P
  <2>. QED
    BY <2>1, <2>2
<1>2. ASSUME NEW k \in 1..FlushLen, k - 1 \in S
      PROVE  k \in S
  <2> DEFINE before == P[k - 1]
             after == P[k]
  <2>1. IsWork(before) /\ TakesUp(k, {}, before, after)
    BY <1>0, ProgressStep
  <2>2. Fine(before, k - 1)
    <3>. HIDE DEF P, Fine
    <3>. QED
      BY <1>2
  <2>3. WellFormed(buffer[k]) /\ k \in Nat
    BY <1>0 DEF Sendable
  <2>. HIDE DEF P, before, after
  <2>4. ~(buffer[k].action = "update" /\ before.index[buffer[k].id] = Absent)
    <3>1. SUFFICES ASSUME buffer[k].action = "update", before.index[buffer[k].id] = Absent
                   PROVE  FALSE
      OBVIOUS
    <3>2. PICK id \in Ids : id = buffer[k].id
      BY <2>3, RowForm
    <3>3. GoneBy(id, k - 1)
      BY <2>2, <3>1, <3>2
    <3>4. InsertedBetween(Handed, id) /\ ~Missing(k)
      BY <3>1, <3>2 DEF OrderInv
    <3>5. CASE /\ docs[id] = Absent
               /\ \A j \in 1..k - 1 : buffer[j].id = id => buffer[j].action = "update"
      BY <2>3, <3>1, <3>2, <3>4, <3>5 DEF Missing, BroughtIn
    <3>6. ASSUME NEW j \in 1..k - 1, buffer[j].id = id,
                 buffer[j].action = "delete", ~BroughtIn(buffer, j, k - 1, id)
          PROVE  FALSE
      <4>1. j \in 1..FlushLen /\ j < k
        BY <1>0, <2>3
      <4>. QED
        BY <3>1, <3>2, <3>4, <3>6, <4>1, RequestInserted
    <3>. QED
      BY <3>3, <3>5, <3>6 DEF GoneBy
  <2>5. Writes(buffer[k], before, after) /\ after.failed = {}
    BY <2>1, <2>2, <2>4 DEF TakesUp
  <2>6. ASSUME NEW id \in Ids, after.index[id] = Absent
        PROVE  GoneBy(id, k)
    BY <1>0, <2>1, <2>2, <2>5, <2>6, GoneNext
  <2>7. Fine(after, k)
    BY <2>5, <2>6
  <2>. HIDE DEF Fine
  <2>. QED
    BY <2>3, <2>7 DEF after
<1>3. FlushLen \in S
  <2>. HIDE DEF S
  <2>1. 0..FlushLen \subseteq S
    BY <1>0, <1>1, <1>2, RangeInduction
  <2>. QED
    BY <1>0, <2>1
<1>4. P[FlushLen].failed = {}
  <2>. HIDE DEF P
  <2>. QED
    BY <1>3
<1>. QED
  BY <1>0, <1>4, ProgressOf

------------------------------------------------------------------------------
(* The documents that updates need. *)

(* What was brought in is brought in by more rows, too. *)
LEMMA BroughtInMore ==
  ASSUME NEW rows, NEW n \in Nat, NEW more, \A k \in 1..n : more[k] = rows[k],
         NEW i \in 0..n, NEW j \in 0..n, i <= j,
         NEW id, BroughtIn(rows, 0, i, id)
  PROVE  BroughtIn(more, 0, j, id)
<1>1. PICK k \in 0 + 1..i : rows[k].id = id /\ rows[k].action = "index"
  BY DEF BroughtIn
<1>2. k \in 0 + 1..j /\ more[k] = rows[k]
  OBVIOUS
<1>. QED
  BY <1>1, <1>2 DEF BroughtIn

(* A row of the table whose document is missing will have one: the rows in *)
(* the backlog bring it, or a delete of it was carried out early.          *)
LEMMA StillPresent ==
  ASSUME IndexInv, NEW id \in Ids \ (dropped \union Unindexed), Present(id),
         docs[id] = Absent, table[id] # Absent
  PROVE  BroughtIn(Backlog, 0, Len(Backlog), id) \/ Removed(id)
<1>1. /\ BatcherTypeOK /\ table[id] \in TableRows(id)
      /\ \A k \in 1..Len(Handed) : WellFormed(Handed[k])
  BY DEF IndexInv, RowsInv, DeliveryTypeOK, RowsHanded, Ordered, InOrder
<1>2. /\ Len(Backlog) \in Nat
      /\ \A k \in 1..Len(Backlog) : WellFormed(Backlog[k])
  <2>1. HandedLayout
    BY <1>1, HandedParts
  <2>2. /\ Len(delivered) \in Nat /\ Len(Backlog) \in Nat
        /\ Len(Handed) = Len(delivered) + Len(Backlog)
    BY <2>1 DEF HandedLayout
  <2>3. \A k \in 1..Len(Backlog) : Len(delivered) + k \in 1..Len(Handed)
    BY <2>2
  <2>4. \A k \in 1..Len(Backlog) : Handed[Len(delivered) + k] = Backlog[k]
    BY <2>1 DEF HandedLayout
  <2>. QED
    BY <1>1, <2>2, <2>3, <2>4
<1>3. Mirrors(docs[id], table[id], Backlog, 0, id)
  BY DEF IndexInv, WillMirror, NotIndexed
<1>4. /\ Shown(table[id], IdColumn) = id /\ id \in Nat
      /\ Shown(docs[id], IdColumn) = Unsent
      /\ id # Undecodable /\ id # Unsent
  <2>1. DOMAIN table[id] = Columns /\ table[id][IdColumn] = id /\ id \in Nat
    BY <1>1, TableRowForm
  <2>2. DOMAIN docs[id] = {}
    BY DEF Absent, NoValues
  <2>. QED
    BY <2>1, <2>2, RowsAssumption DEF Shown, Undecodable, Unsent
<1>5. PICK k \in 1..Len(Backlog) : /\ Backlog[k].id = id
                                  /\ Shown(Backlog[k].body, IdColumn) = id
  BY <1>3, <1>4, RowsAssumption DEF Mirrors
<1>6. Backlog[k].action = "index" \/ Backlog[k].action = "update"
  <2>1. Backlog[k].action = "delete" => Shown(Backlog[k].body, IdColumn) = Unsent
    <3>1. DOMAIN Absent = {}
      BY DEF Absent, NoValues
    <3>. QED
      BY <1>2, <3>1, RowForm DEF Shown
  <2>. QED
    BY <1>2, <1>4, <1>5, <2>1, RowForm
<1>7. CASE Backlog[k].action = "index"
  BY <1>2, <1>5, <1>7 DEF BroughtIn
<1>8. CASE Backlog[k].action = "update"
  <2>1. BroughtIn(Backlog, 0, k - 1, id) \/ Removed(id)
    BY <1>5, <1>8 DEF Present
  <2>2. k - 1 \in 0..Len(Backlog) /\ Len(Backlog) \in 0..Len(Backlog) /\ k - 1 <= Len(Backlog)
    BY <1>2
  <2>. QED
    BY <1>2, <2>1, <2>2, BroughtInMore
<1>. QED
  BY <1>6, <1>7, <1>8

(* A change. *)
LEMMA PresentAfterChange ==
  ASSUME RetryInv, ChangeRow, NEW other \in Ids \ (dropped' \union Unindexed)
  PROVE  Present(other)'
<1>0. PICK id \in Ids : \E new \in TableDocs(id) : ChangeShape(id, new)
  BY ChangeOf DEF RetryInv, IndexInv
<1>1. PICK new \in TableDocs(id) : ChangeShape(id, new)
  BY <1>0
<1>2. docs' = docs /\ applied' = applied
  BY <1>1 DEF ChangeShape
<1>3. other \in Ids \ (dropped \union Unindexed)
  BY <1>1 DEF ChangeShape
<1>4. Present(other)
  BY <1>3 DEF RetryInv
<1>5. CASE UNCHANGED batcherVars
  <2>1. Backlog' = Backlog /\ FlushLen' = FlushLen /\ buffer' = buffer
    BY <1>5 DEF batcherVars, Backlog, FlushLen
  <2>. QED
    BY <1>2, <1>4, <2>1 DEF Present, Removed, BroughtIn
<1>6. ASSUME NEW row \in Row, Add(row), Describes(row, changes + 1, id, table[id], new)
      PROVE  Present(other)'
  <2>1. PICK more : more = Backlog'
    OBVIOUS
  <2>2. BatcherTypeOK
    BY DEF RetryInv, IndexInv, RowsInv, BatcherInv
  <2>3. /\ Len(Backlog) \in Nat /\ Len(more) = Len(Backlog) + 1
        /\ \A k \in 1..Len(Backlog) : more[k] = Backlog[k]
        /\ more[Len(Backlog) + 1] = row
    BY <1>6, <2>1, <2>2, AddedRow
  <2>4. FlushLen' = FlushLen /\ buffer' = buffer
    BY <1>6 DEF Add, FlushLen
  <2>5. ASSUME docs[other] = Absent, NEW i \in 1..Len(more),
               more[i].id = other, more[i].action = "update"
        PROVE  BroughtIn(more, 0, i - 1, other) \/ Removed(other)
    <3>1. PICK j \in Nat : j = i - 1
      BY <2>3
    <3>2. j \in 0..Len(Backlog)
      BY <2>3, <3>1
    <3>3. BroughtIn(Backlog, 0, j, other) \/ Removed(other)
      <4>1. CASE i \in 1..Len(Backlog)
        BY <1>4, <2>3, <2>5, <3>1, <4>1 DEF Present
      <4>2. CASE i = Len(Backlog) + 1
        <5>1. more[i] = row /\ j = Len(Backlog)
          BY <2>3, <3>1, <4>2
        <5>2. other = id /\ table[other] # Absent
          BY <1>6, <2>5, <5>1 DEF Describes
        <5>3. IndexInv
          BY DEF RetryInv
        <5>. QED
          BY <1>3, <1>4, <2>5, <5>1, <5>2, <5>3, StillPresent
      <4>. QED
        BY <2>3, <4>1, <4>2
    <3>4. BroughtIn(Backlog, 0, j, other) => BroughtIn(more, 0, j, other)
      <4>1. \A k \in 0 + 1..j : more[k] = Backlog[k]
        BY <2>3, <3>2
      <4>. QED
        BY <4>1 DEF BroughtIn
    <3>. QED
      BY <3>1, <3>3, <3>4
  <2>. QED
    BY <1>2, <2>1, <2>4, <2>5 DEF Present, Removed, BroughtIn
<1>. QED
  BY <1>1, <1>5, <1>6 DEF ChangeShape

(* A request that failed, but may have been carried out in part. *)
LEMMA PresentAfterFailure ==
  ASSUME RetryInv, NEW busy, Perform(Work(Request, busy)), BulkFail,
         NEW id \in Ids \ (dropped \union Unindexed)
  PROVE  Present(id)'
<1>1. Sendable /\ Present(id)
  BY InvRows DEF RetryInv, IndexInv
<1>2. PICK work : work = Work(Request, busy)
  OBVIOUS
<1>3. /\ docs' = work.index
      /\ applied' = applied \union {buffer[i] : i \in 1..FlushLen \ work.failed}
  BY <1>2 DEF Perform
<1>4. Backlog' = Backlog /\ FlushLen' = FlushLen /\ buffer' = buffer
  BY DEF BulkFail, Backlog, FlushLen
<1>5. CASE docs[id] = Absent
  BY <1>1, <1>3, <1>4, <1>5 DEF Present, Removed, BroughtIn
<1>6. CASE docs[id] # Absent /\ work.index[id] = Absent
  <2>1. PICK j \in 1..FlushLen \ work.failed :
                buffer[j].id = id /\ buffer[j].action = "delete"
    BY <1>1, <1>2, <1>6, TakenAway
  <2>2. buffer[j] \in applied'
    BY <1>3
  <2>. QED
    BY <1>4, <2>1, <2>2 DEF Present, Removed
<1>7. CASE work.index[id] # Absent
  BY <1>3, <1>7 DEF Present
<1>. QED
  BY <1>5, <1>6, <1>7

(* A request that was carried out completely. *)
LEMMA PresentAfterSuccess ==
  ASSUME RetryInv, NEW busy, Work(Request, busy).failed = {},
         Perform(Work(Request, busy)), BulkOk,
         NEW id \in Ids \ (dropped \union Unindexed)
  PROVE  Present(id)'
<1>1. Sendable /\ Present(id) /\ RowsInv /\ InsertedBetween(Handed, id)
  BY InvRows DEF RetryInv, IndexInv, OrderInv
<1>2. docs' = Work(Request, busy).index
  BY DEF Perform
<1>3. PICK rest : rest = Backlog'
  OBVIOUS
<1>4. /\ FlushLen \in Nat /\ Len(Backlog) \in Nat
      /\ Len(rest) = Len(Backlog) - FlushLen
      /\ \A k \in 1..Len(rest) : rest[k] = Backlog[FlushLen + k]
      /\ \A k \in 1..FlushLen : k \in 1..Len(Backlog) /\ Backlog[k] = buffer[k]
  BY <1>1, <1>3, BulkOkRows, InvRows DEF RowsInv, Sendable
<1>5. ASSUME Work(Request, busy).index[id] = Absent, NEW i \in 1..Len(rest),
             rest[i].id = id, rest[i].action = "update"
      PROVE  BroughtIn(rest, 0, i - 1, id)
  <2>1. PICK n \in 1..Len(Backlog) : n = FlushLen + i
    BY <1>4
  <2>2. Backlog[n].id = id /\ Backlog[n].action = "update"
    BY <1>4, <1>5, <2>1
  <2>3. GoneBy(id, FlushLen)
    BY <1>1, <1>5, GoneAfter
  <2>4. \E k \in FlushLen + 1..n - 1 : Backlog[k].id = id /\ Backlog[k].action = "index"
    <3>1. CASE /\ docs[id] = Absent
               /\ \A j \in 1..FlushLen : buffer[j].id = id => buffer[j].action = "update"
      <4>1. ~Removed(id)
        BY <3>1 DEF Removed
      <4>2. BroughtIn(Backlog, 0, n - 1, id)
        BY <1>1, <2>2, <3>1, <4>1 DEF Present
      <4>3. PICK k \in 0 + 1..n - 1 : Backlog[k].id = id /\ Backlog[k].action = "index"
        BY <4>2 DEF BroughtIn
      <4>4. k \notin 1..FlushLen
        BY <1>4, <3>1, <4>3
      <4>. QED
        BY <1>4, <2>1, <4>3, <4>4
    <3>2. ASSUME NEW j \in 1..FlushLen, buffer[j].id = id, buffer[j].action = "delete",
                 ~BroughtIn(buffer, j, FlushLen, id)
          PROVE  \E k \in FlushLen + 1..n - 1 :
                   Backlog[k].id = id /\ Backlog[k].action = "index"
      <4>1. j \in 1..Len(Backlog) /\ Backlog[j] = buffer[j] /\ j < n
        BY <1>4, <2>1
      <4>2. BroughtIn(Backlog, j, n - 1, id)
        BY <1>1, <2>2, <3>2, <4>1, BacklogInserted
      <4>3. PICK k \in j + 1..n - 1 : Backlog[k].id = id /\ Backlog[k].action = "index"
        BY <4>2 DEF BroughtIn
      <4>4. k \notin j + 1..FlushLen
        <5>1. SUFFICES ASSUME k \in j + 1..FlushLen
                       PROVE  FALSE
          OBVIOUS
        <5>2. buffer[k] = Backlog[k]
          BY <1>4, <5>1
        <5>. QED
          BY <3>2, <4>3, <5>1, <5>2 DEF BroughtIn
      <4>. QED
        BY <1>4, <2>1, <4>3, <4>4
    <3>. QED
      BY <2>3, <3>1, <3>2 DEF GoneBy
  <2>5. PICK k \in FlushLen + 1..n - 1 : Backlog[k].id = id /\ Backlog[k].action = "index"
    BY <2>4
  <2>6. PICK m \in 0 + 1..i - 1 : k = FlushLen + m /\ m \in 1..Len(rest)
    <3>1. k - FlushLen \in 0 + 1..i - 1 /\ k = FlushLen + (k - FlushLen)
      BY <1>4, <2>1
    <3>2. k - FlushLen \in 1..Len(rest)
      BY <1>4, <3>1
    <3>. QED
      BY <3>1, <3>2
  <2>. QED
    BY <1>4, <2>5, <2>6 DEF BroughtIn
<1>. QED
  BY <1>2, <1>3, <1>5 DEF Present, BroughtIn

(* Nothing changes for the documents: more rows are committed, or fewer    *)
(* are pending.                                                            *)
LEMMA PresentStays ==
  ASSUME RetryInv, NEW id \in Ids \ (dropped \union Unindexed),
         docs' = docs, applied' = applied, Backlog' = Backlog,
         FlushLen' \in Nat, FlushLen <= FlushLen',
         \A j \in 1..FlushLen : buffer'[j] = buffer[j]
  PROVE  Present(id)'
<1>1. Present(id) /\ FlushLen \in Nat
  BY InvRows DEF RetryInv, IndexInv, Sendable
<1>2. PICK n \in Nat : n = FlushLen'
  OBVIOUS
<1>3. 1..FlushLen \subseteq 1..n
  BY <1>1, <1>2
<1>4. Removed(id) => Removed(id)'
  BY <1>2, <1>3 DEF Removed
<1>. QED
  BY <1>1, <1>4 DEF Present, BroughtIn

(* A request that the engine works on. *)
LEMMA PresentAfterWork ==
  ASSUME RetryInv, NEW busy, EngineWorks(busy),
         NEW id \in Ids \ (dropped \union Unindexed)
  PROVE  Present(id)'
<1>1. /\ Perform(Work(Request, busy))
      /\ IF BulkSucceeds(Answered(Work(Request, busy), Request)) THEN BulkOk ELSE BulkFail
  BY DEF EngineWorks
<1>2. Sendable
  BY InvRows DEF RetryInv, IndexInv
<1>3. CASE BulkSucceeds(Answered(Work(Request, busy), Request))
  BY <1>1, <1>2, <1>3, SuccessIsNoFailure, PresentAfterSuccess
<1>4. CASE ~BulkSucceeds(Answered(Work(Request, busy), Request))
  BY <1>1, <1>4, PresentAfterFailure
<1>. QED
  BY <1>3, <1>4

(* Every step preserves the invariant, unless a refused request counts as  *)
(* a success.                                                              *)
LEMMA RetryNext ==
  ASSUME Refusing \subseteq {"grpc"}
  PROVE  RetryInv /\ [DeliveryNext]_deliveryVars => RetryInv'
<1>. SUFFICES ASSUME RetryInv, [DeliveryNext]_deliveryVars
              PROVE  RetryInv'
  OBVIOUS
<1>0. /\ IndexInv' /\ OrderInv' /\ RowsInv /\ BatcherTypeOK
      /\ FlushLen \in 0..Len(buffer) /\ Len(buffer) \in Nat
  BY IndexNext, OrderNext, InvRows, HandedParts
     DEF RetryInv, IndexInv, RowsInv, BatcherInv, HandedLayout
<1> DEFINE Goal == \A id \in Ids \ (dropped' \union Unindexed) : Present(id)'
<1>1. ASSUME UNCHANGED <<docs, applied, dropped, buffer, lastCommitted, pending>>
      PROVE  Goal
  <2>1. Backlog' = Backlog /\ FlushLen' = FlushLen
    BY <1>1 DEF Backlog, FlushLen
  <2>. QED
    BY <1>0, <1>1, <2>1, PresentStays
<1>2. ASSUME ChangeRow
      PROVE  Goal
  BY <1>2, PresentAfterChange
<1>3. ASSUME TruncateTable
      PROVE  Goal
  <2>1. UNCHANGED <<docs, applied, buffer, lastCommitted, pending>> /\ dropped \subseteq dropped'
    BY <1>3 DEF TruncateTable, batcherVars
  <2>2. Backlog' = Backlog /\ FlushLen' = FlushLen
    BY <2>1 DEF Backlog, FlushLen
  <2>. QED
    BY <1>0, <2>1, <2>2, PresentStays
<1>4. ASSUME ChangeAdded
      PROVE  Goal
  <2>1. Backlog' = Backlog
    BY <1>0, <1>4, FinishAddRows DEF ChangeAdded
  <2>2. FlushLen' = FlushLen /\ UNCHANGED <<docs, applied, dropped>>
    BY <1>4 DEF ChangeAdded, FinishAdd, FlushLen, outsideVars
  <2>3. \A j \in 1..FlushLen : buffer'[j] = buffer[j]
    <3>1. buffer' = Backlog
      BY <1>4 DEF ChangeAdded, FinishAdd, Backlog
    <3>2. \A k \in 1..Len(buffer) : Backlog[k] = buffer[k]
      BY <1>0, HandedParts DEF HandedLayout
    <3>. QED
      BY <1>0, <3>1, <3>2
  <2>. QED
    BY <1>0, <2>1, <2>2, <2>3, PresentStays
<1>5. ASSUME CommitChange
      PROVE  Goal
  <2>1. UNCHANGED <<docs, applied, dropped, buffer, pending>>
    BY <1>5 DEF CommitChange, CommitN, outsideVars
  <2>2. FlushLen' \in Nat /\ FlushLen <= FlushLen'
    <3>1. lastCommitted' = IF lastCommitted + 1 < Len(buffer)
                           THEN lastCommitted + 1 ELSE Len(buffer) - 1
      BY <1>5 DEF CommitChange, CommitN
    <3>2. PICK n : n = lastCommitted'
      OBVIOUS
    <3>3. lastCommitted \in Int /\ lastCommitted + 1 \in 0..Len(buffer)
      BY <1>0 DEF FlushLen, BatcherTypeOK
    <3>4. n + 1 \in Nat /\ lastCommitted + 1 <= n + 1
      BY <1>0, <3>1, <3>2, <3>3
    <3>. QED
      BY <3>2, <3>4 DEF FlushLen
  <2>3. Backlog' = Backlog
    BY <2>1 DEF Backlog
  <2>. QED
    BY <2>1, <2>2, <2>3, PresentStays
<1>6. ASSUME SendBatch
      PROVE  Goal
  BY <1>1, <1>6 DEF SendBatch, Flush, outsideVars
<1>7. ASSUME EngineReady
      PROVE  Goal
  BY <1>7, PresentAfterWork DEF EngineReady, EngineWorks, Perform
<1>8. ASSUME EngineBusy
      PROVE  Goal
  BY <1>8, PresentAfterWork DEF EngineBusy, EngineWorks, Perform
<1>9. ASSUME EngineRefuses
      PROVE  Goal
  <2>1. transport = "grpc"
    BY <1>9 DEF EngineRefuses
  <2>2. ~BulkSucceeds(Refused)
    BY <2>1 DEF BulkSucceeds, BulkGRPCSucceeds, Refused
  <2>. QED
    BY <1>1, <1>9, <2>2 DEF EngineRefuses, BulkFail, outsideVars
<1>10. ASSUME NoAnswer
      PROVE  Goal
  <2>1. CASE UNCHANGED outsideVars
    BY <1>1, <1>10, <2>1 DEF NoAnswer, BulkFail, outsideVars
  <2>2. CASE Perform(Work(Request, {}))
    BY <1>10, <2>2, PresentAfterFailure DEF NoAnswer, Perform
  <2>. QED
    BY <1>10, <2>1, <2>2 DEF NoAnswer
<1>11. ASSUME UNCHANGED deliveryVars
      PROVE  Goal
  BY <1>1, <1>11 DEF deliveryVars, batcherVars
<1>12. Goal
  <2>. HIDE DEF Goal
  <2>. QED
    BY <1>2, <1>3, <1>4, <1>5, <1>6, <1>7, <1>8, <1>9, <1>10, <1>11 DEF DeliveryNext
<1>. QED
  BY <1>0, <1>12 DEF RetryInv

(* At the start no rows are handed over. *)
LEMMA RetryInit == DeliveryInit => RetryInv
<1>. SUFFICES ASSUME DeliveryInit
              PROVE  RetryInv
  OBVIOUS
<1>1. IndexInv
  BY IndexInit
<1>2. buffer = <<>> /\ delivered = <<>> /\ pending = <<>>
  BY DEF DeliveryInit, BatcherInit
<1>3. Len(Handed) = 0 /\ Len(Backlog) = 0
  BY <1>2 DEF Handed, Backlog
<1>. QED
  BY <1>1, <1>3 DEF RetryInv, OrderInv, InsertedBetween, InsertedAgain, Present

(* Repeating a request is no error, whatever part of it was carried out    *)
(* before: when Bulk fails of a request that meets no trouble in the       *)
(* engine, it is for an update whose document is not there, because it was *)
(* never sent, a change of the row was dropped, or a delete behind the     *)
(* update was carried out by an earlier attempt.                           *)
THEOREM RetriesFailOnMissing ==
  ASSUME Refusing \subseteq {"grpc"}
  PROVE  DeliverySpec => []FailsOnlyOnMissing
<1>1. ASSUME RetryInv
      PROVE  FailsOnlyOnMissing
  <2>1. SUFFICES ASSUME \A i \in 1..FlushLen :
                          buffer[i].action = "update" =>
                            /\ buffer[i].id \notin dropped \union Unindexed
                            /\ \A j \in i + 1..FlushLen :
                                  buffer[j].id = buffer[i].id /\ buffer[j].action = "delete"
                                    => buffer[j] \notin applied
                 PROVE  BulkSucceeds(Answered(Work(Request, {}), Request))
    BY DEF FailsOnlyOnMissing
  <2>2. Sendable /\ RowsInv /\ OrderInv
    BY <1>1, InvRows DEF RetryInv, IndexInv
  <2>3. ASSUME NEW i \in 1..FlushLen, buffer[i].action = "update"
        PROVE  ~Missing(i)
    <3>1. SUFFICES ASSUME Missing(i)
                   PROVE  FALSE
      OBVIOUS
    <3>2. PICK id \in Ids : id = buffer[i].id
      BY <2>2, RowForm DEF Sendable
    <3>3. id \notin dropped \union Unindexed
      BY <2>1, <2>3, <3>2
    <3>4. /\ FlushLen \in Nat
          /\ \A k \in 1..FlushLen : k \in 1..Len(Backlog) /\ Backlog[k] = buffer[k]
      BY <2>2, InvRows DEF Sendable
    <3>5. Present(id) /\ InsertedBetween(Handed, id)
      BY <1>1, <3>3 DEF RetryInv, OrderInv
    <3>6. BroughtIn(Backlog, 0, i - 1, id) \/ Removed(id)
      BY <2>3, <3>1, <3>2, <3>4, <3>5 DEF Present, Missing
    <3>7. ~BroughtIn(Backlog, 0, i - 1, id)
      <4>1. \A k \in 0 + 1..i - 1 : k \in 1..FlushLen
        BY <3>4
      <4>. QED
        BY <3>1, <3>2, <3>4, <4>1 DEF Missing, BroughtIn
    <3>8. PICK j \in 1..FlushLen : /\ buffer[j].id = id /\ buffer[j].action = "delete"
                                  /\ buffer[j] \in applied
      BY <3>6, <3>7 DEF Removed
    <3>9. j \notin i + 1..FlushLen /\ j # i
      BY <2>1, <2>3, <3>2, <3>8
    <3>10. j < i
      BY <3>4, <3>9
    <3>11. BroughtIn(buffer, j, i - 1, id)
      BY <2>2, <2>3, <3>2, <3>5, <3>8, <3>10, RequestInserted
    <3>. QED
      BY <3>1, <3>2, <3>4, <3>11 DEF BroughtIn, Missing
  <2>4. Work(Request, {}).failed = {}
    BY <2>1, <2>2, <2>3, NothingFails
  <2>. QED
    BY <2>2, <2>4, SuccessIsNoFailure
<1>2. RetryInv /\ [DeliveryNext]_deliveryVars => RetryInv'
  BY RetryNext
<1>. QED
  BY <1>1, <1>2, RetryInit, PTL DEF DeliverySpec
==============================================================================

--------------------------- MODULE DeliveryProofs ---------------------------
(***************************************************************************)
(* Client.Bulk and the batcher, for every table, every set of faults and   *)
(* every buffer size: rows are dropped only when they were applied, as     *)
(* long as no request is turned down over HTTP.                            *)
(***************************************************************************)
EXTENDS Delivery, BatcherProofs, FiniteSetTheorems

(* The batcher holds rows of some set, whatever changes they come from.    *)
HoldsRows ==
  \E S : /\ buffer \in Seq(S) /\ delivered \in Seq(S)
         /\ pending = <<>> \/ \E row \in S : pending = <<row>>

(* The inductive invariant. *)
DeliveryInv ==
  /\ HoldsRows
  /\ lastCommitted \in Int
  /\ PointerInBuffer
  /\ DroppedIsApplied

------------------------------------------------------------------------------
(* The answer of the engine. *)

(* Counting none of n operations means that there is none. *)
LEMMA NoneCounted ==
  ASSUME NEW n \in Nat, NEW S \in SUBSET (1..n), Cardinality(S) = 0
  PROVE  S = {}
<1>1. IsFiniteSet(1..n)
  BY FS_Interval
<1>2. IsFiniteSet(S)
  BY <1>1, FS_Subset
<1>. QED
  BY <1>2, FS_EmptySet

(* The request has an operation for each committed row. *)
LEMMA RequestLength ==
  ASSUME FlushLen \in Nat
  PROVE  Len(Request) = FlushLen
<1> DEFINE Op(i) == IF transport = "grpc" THEN ToBulkRequest(buffer[i]) ELSE Bytes(buffer[i])
           Ops == {Op(i) : i \in 1..FlushLen}
<1>1. Request = [i \in 1..FlushLen |-> Op(i)]
  BY DEF Request
<1>2. [i \in 1..FlushLen |-> Op(i)] \in [1..FlushLen -> Ops]
  OBVIOUS
<1>. HIDE DEF Op, Ops
<1>3. Request \in Seq(Ops) /\ DOMAIN Request = 1..FlushLen
  BY <1>1, <1>2
<1>. QED
  BY <1>3, LenProperties

(* Bulk answers with nil only when no operation of the request failed.     *)
LEMMA SuccessIsComplete ==
  ASSUME FlushLen \in Nat, NEW work,
         BulkSucceeds(Answered(work, Request))
  PROVE  \A i \in 1..FlushLen : i \notin work.failed
<1> DEFINE answer == Answered(work, Request)
           items == answer.items
<1>1. Len(Request) = FlushLen
  BY RequestLength
<1>2. answer.errors = (work.failed # {})
  BY DEF Answered
<1>3. /\ Len(items) = FlushLen
      /\ \A i \in 1..FlushLen : items[i].error = (i \in work.failed)
  <2> DEFINE Item(i) == [error |-> i \in work.failed,
                         status |-> IF i \in work.failed THEN 400
                                    ELSE IF i \in work.notFound THEN 404 ELSE 200]
             Items == {Item(i) : i \in 1..FlushLen}
  <2>1. items = [i \in 1..FlushLen |-> Item(i)]
    BY <1>1 DEF Answered
  <2>2. [i \in 1..FlushLen |-> Item(i)] \in [1..FlushLen -> Items]
    OBVIOUS
  <2>3. \A i \in 1..FlushLen : Item(i).error = (i \in work.failed)
    OBVIOUS
  <2>. HIDE DEF Item, Items, items
  <2>4. items \in Seq(Items) /\ DOMAIN items = 1..FlushLen
    BY <2>1, <2>2
  <2>5. Len(items) = FlushLen
    BY <2>4, LenProperties
  <2>. QED
    BY <2>1, <2>3, <2>5
<1>4. CASE work.failed = {}
  BY <1>4
<1>5. CASE work.failed # {}
  <2>1. answer.errors
    BY <1>2, <1>5
  <2>2. CASE transport = "grpc"
    <3> DEFINE counted == {i \in 1..Len(items) : items[i].error \/ items[i].status >= 400}
    <3>1. ReportGRPCBulkErrors(answer) = 0
      BY <2>2 DEF BulkSucceeds, BulkGRPCSucceeds
    <3>2. Cardinality(counted) = 0
      BY <2>1, <3>1 DEF ReportGRPCBulkErrors
    <3>3. counted = {}
      <4>. HIDE DEF answer
      <4>1. counted \in SUBSET (1..FlushLen)
        BY <1>3
      <4>. HIDE DEF counted, items
      <4>. QED
        BY <3>2, <4>1, NoneCounted
    <3>. HIDE DEF answer
    <3>. QED
      BY <1>3, <3>3
  <2>3. CASE transport # "grpc"
    <3> DEFINE counted == {i \in 1..Len(items) : items[i].error}
    <3>1. ReportErrors(answer) = 0
      BY <2>3 DEF BulkSucceeds, BulkHTTPSucceeds
    <3>2. Cardinality(counted) = 0
      BY <2>1, <3>1 DEF ReportErrors
    <3>3. counted = {}
      <4>. HIDE DEF answer
      <4>1. counted \in SUBSET (1..FlushLen)
        BY <1>3
      <4>. HIDE DEF counted, items
      <4>. QED
        BY <3>2, <4>1, NoneCounted
    <3>. HIDE DEF answer
    <3>. QED
      BY <1>3, <3>3
  <2>. QED
    BY <2>2, <2>3
<1>. QED
  BY <1>4, <1>5

------------------------------------------------------------------------------
(* The steps of the batcher, whoever takes them. *)

(* The sizes of the batcher in a state of the invariant. *)
LEMMA Sizes ==
  ASSUME DeliveryInv
  PROVE  /\ Len(buffer) \in Nat /\ FlushLen \in Nat
         /\ FlushLen \in 0..Len(buffer)
         /\ lastCommitted \in Int /\ lastCommitted + 1 = FlushLen
<1>1. Len(buffer) \in Nat
  BY LenProperties DEF DeliveryInv, HoldsRows
<1>. QED
  BY <1>1 DEF DeliveryInv, PointerInBuffer, FlushLen

(* A step that changes neither the rows nor the pointer. *)
LEMMA RowsStay ==
  ASSUME DeliveryInv,
         UNCHANGED <<buffer, lastCommitted, pending, delivered>>,
         applied \subseteq applied'
  PROVE  DeliveryInv'
<1>1. HoldsRows'
  BY DEF DeliveryInv, HoldsRows
<1>2. PointerInBuffer' /\ lastCommitted' \in Int
  BY DEF DeliveryInv, PointerInBuffer
<1>3. DroppedIsApplied'
  BY DEF DeliveryInv, DroppedIsApplied
<1>. QED
  BY <1>1, <1>2, <1>3 DEF DeliveryInv

(* Add hands over a row of a change. *)
LEMMA AddKeeps ==
  ASSUME DeliveryInv, NEW row, Add(row), UNCHANGED applied
  PROVE  DeliveryInv'
<1>1. HoldsRows'
  <2>1. PICK S : buffer \in Seq(S) /\ delivered \in Seq(S)
    BY DEF DeliveryInv, HoldsRows
  <2>2. S \subseteq S \union {row}
    OBVIOUS
  <2>3. buffer \in Seq(S \union {row}) /\ delivered \in Seq(S \union {row})
    BY <2>1, <2>2, SeqMonotonic
  <2>4. buffer' = buffer /\ delivered' = delivered /\ pending' = <<row>>
    BY DEF Add
  <2>. QED
    BY <2>3, <2>4 DEF HoldsRows
<1>2. PointerInBuffer' /\ lastCommitted' \in Int
  BY DEF DeliveryInv, PointerInBuffer, Add
<1>3. DroppedIsApplied'
  BY DEF DeliveryInv, DroppedIsApplied, Add
<1>. QED
  BY <1>1, <1>2, <1>3 DEF DeliveryInv

(* Add appends it. *)
LEMMA FinishAddKeeps ==
  ASSUME DeliveryInv, FinishAdd, UNCHANGED applied
  PROVE  DeliveryInv'
<1>1. PICK S : /\ buffer \in Seq(S) /\ delivered \in Seq(S)
               /\ pending = <<>> \/ \E row \in S : pending = <<row>>
  BY DEF DeliveryInv, HoldsRows
<1>2. PICK row \in S : pending = <<row>>
  BY <1>1 DEF FinishAdd
<1>3. <<row>> \in Seq(S) /\ Len(<<row>>) = 1
  OBVIOUS
<1>4. buffer \o <<row>> \in Seq(S) /\ Len(buffer \o <<row>>) = Len(buffer) + 1
  BY <1>1, <1>3, ConcatProperties
<1>5. /\ buffer' = buffer \o <<row>> /\ pending' = <<>>
      /\ delivered' = delivered /\ lastCommitted' = lastCommitted
  BY <1>2 DEF FinishAdd
<1>6. HoldsRows'
  BY <1>1, <1>4, <1>5 DEF HoldsRows
<1>7. PointerInBuffer' /\ lastCommitted' \in Int
  <2>1. Len(buffer') = Len(buffer) + 1
    BY <1>4, <1>5
  <2>. QED
    BY <1>5, <2>1, Sizes DEF DeliveryInv, PointerInBuffer
<1>8. DroppedIsApplied'
  BY <1>5 DEF DeliveryInv, DroppedIsApplied
<1>. QED
  BY <1>6, <1>7, <1>8 DEF DeliveryInv

(* The pointer moves over rows that are there. *)
LEMMA CommitKeeps ==
  ASSUME DeliveryInv, CommitN(1), UNCHANGED applied
  PROVE  DeliveryInv'
<1>1. /\ buffer' = buffer /\ delivered' = delivered /\ pending' = pending
      /\ lastCommitted' = IF lastCommitted + 1 < Len(buffer)
                          THEN lastCommitted + 1 ELSE Len(buffer) - 1
  BY DEF CommitN
<1>2. HoldsRows'
  BY <1>1 DEF DeliveryInv, HoldsRows
<1>3. PointerInBuffer' /\ lastCommitted' \in Int
  <2>1. PICK last : last = lastCommitted'
    OBVIOUS
  <2>2. last \in Int /\ last >= -1 /\ last < Len(buffer)
    BY <1>1, <2>1, Sizes DEF DeliveryInv, PointerInBuffer
  <2>. QED
    BY <1>1, <2>1, <2>2 DEF PointerInBuffer
<1>4. DroppedIsApplied'
  BY <1>1 DEF DeliveryInv, DroppedIsApplied
<1>. QED
  BY <1>2, <1>3, <1>4 DEF DeliveryInv

(* A request that Bulk counts as a success drops the committed rows: they  *)
(* must have been applied.                                                 *)
LEMMA BulkOkKeeps ==
  ASSUME DeliveryInv, BulkOk,
         applied \subseteq applied',
         \A i \in 1..FlushLen : buffer[i] \in applied'
  PROVE  DeliveryInv'
<1>1. PICK S : /\ buffer \in Seq(S) /\ delivered \in Seq(S)
               /\ pending = <<>> \/ \E row \in S : pending = <<row>>
  BY DEF DeliveryInv, HoldsRows
<1>2. /\ Committed \in Seq(S) /\ Len(Committed) = FlushLen
      /\ \A i \in 1..FlushLen : Committed[i] = buffer[i]
      /\ Uncommitted \in Seq(S)
  BY <1>1, Sizes, CutOfSeq DEF Committed, Uncommitted
<1>3. /\ delivered \o Committed \in Seq(S)
      /\ Len(delivered) \in Nat
      /\ Len(delivered \o Committed) = Len(delivered) + FlushLen
      /\ \A i \in 1..Len(delivered) + FlushLen :
           (delivered \o Committed)[i] =
             IF i <= Len(delivered) THEN delivered[i] ELSE Committed[i - Len(delivered)]
  BY <1>1, <1>2, ConcatProperties, LenProperties
<1>4. /\ delivered' = delivered \o Committed /\ buffer' = Uncommitted
      /\ lastCommitted' = -1 /\ pending' = pending
  BY DEF BulkOk
<1>5. HoldsRows'
  BY <1>1, <1>2, <1>3, <1>4 DEF HoldsRows
<1>6. PointerInBuffer' /\ lastCommitted' \in Int
  BY <1>2, <1>4, LenProperties DEF PointerInBuffer
<1>7. DroppedIsApplied'
  <2>1. ASSUME NEW i \in 1..Len(delivered) + FlushLen
        PROVE  (delivered \o Committed)[i] \in applied'
    <3>1. CASE i <= Len(delivered)
      BY <1>3, <3>1 DEF DeliveryInv, DroppedIsApplied
    <3>2. CASE ~(i <= Len(delivered))
      <4>1. i - Len(delivered) \in 1..FlushLen
        BY <1>3, <3>2, Sizes
      <4>. QED
        BY <1>2, <1>3, <3>2, <4>1
    <3>. QED
      BY <3>1, <3>2
  <2>. QED
    BY <1>3, <1>4, <2>1 DEF DroppedIsApplied
<1>. QED
  BY <1>5, <1>6, <1>7 DEF DeliveryInv

------------------------------------------------------------------------------
(* The steps of the delivery. *)

(* The engine carries out a request, of which it may reject operations,    *)
(* and the batcher does with the answer what Bulk makes of it.             *)
LEMMA EngineWorksKeeps ==
  ASSUME DeliveryInv, NEW busy, EngineWorks(busy)
  PROVE  DeliveryInv'
<1>1. PICK work : /\ Perform(work)
                  /\ IF BulkSucceeds(Answered(work, Request)) THEN BulkOk ELSE BulkFail
  BY DEF EngineWorks
<1>2. applied' = applied \union {buffer[i] : i \in 1..FlushLen \ work.failed}
  BY <1>1 DEF Perform
<1>3. CASE BulkSucceeds(Answered(work, Request))
  <2>1. \A i \in 1..FlushLen : i \notin work.failed
    BY <1>3, Sizes, SuccessIsComplete
  <2>2. \A i \in 1..FlushLen : buffer[i] \in applied'
    BY <1>2, <2>1
  <2>. QED
    BY <1>1, <1>2, <1>3, <2>2, BulkOkKeeps
<1>4. CASE ~BulkSucceeds(Answered(work, Request))
  BY <1>1, <1>2, <1>4, RowsStay DEF BulkFail
<1>. QED
  BY <1>3, <1>4

(* Every step preserves the invariant. *)
LEMMA DeliveryNextInv ==
  ASSUME Refusing \subseteq {"grpc"}, DeliveryInv, [DeliveryNext]_deliveryVars
  PROVE  DeliveryInv'
<1>1. CASE ChangeRow
  <2>1. UNCHANGED applied
    BY <1>1 DEF ChangeRow
  <2>2. (\E row : Add(row)) \/ UNCHANGED batcherVars
    BY <1>1 DEF ChangeRow
  <2>. QED
    BY <2>1, <2>2, AddKeeps, RowsStay DEF batcherVars
<1>2. CASE ChangeAdded
  BY <1>2, FinishAddKeeps DEF ChangeAdded, outsideVars
<1>3. CASE CommitChange
  BY <1>3, CommitKeeps DEF CommitChange, outsideVars
<1>4. CASE SendBatch
  BY <1>4, RowsStay DEF SendBatch, Flush, outsideVars
<1>5. CASE EngineReady
  BY <1>5, EngineWorksKeeps DEF EngineReady
<1>6. CASE EngineBusy
  BY <1>6, EngineWorksKeeps DEF EngineBusy
<1>7. CASE EngineRefuses
  <2>1. transport = "grpc"
    BY <1>7 DEF EngineRefuses
  <2>2. ~BulkSucceeds(Refused)
    BY <2>1 DEF BulkSucceeds, BulkGRPCSucceeds, Refused
  <2>. QED
    BY <1>7, <2>2, RowsStay DEF EngineRefuses, BulkFail, outsideVars
<1>8. CASE NoAnswer
  <2>1. applied \subseteq applied'
    BY <1>8 DEF NoAnswer, outsideVars, Perform
  <2>. QED
    BY <1>8, <2>1, RowsStay DEF NoAnswer, BulkFail
<1>9. CASE UNCHANGED deliveryVars
  BY <1>9, RowsStay DEF deliveryVars, batcherVars
<1>10. CASE TruncateTable
  BY <1>10, RowsStay DEF TruncateTable, batcherVars
<1>. QED
  BY <1>1, <1>2, <1>3, <1>4, <1>5, <1>6, <1>7, <1>8, <1>9, <1>10 DEF DeliveryNext

(* The batcher drops no row that the index did not get, whatever mix of    *)
(* failed operations, refusals and lost answers came before, over gRPC and *)
(* over HTTP; only the refusal of a whole request over HTTP is excluded.   *)
THEOREM DroppedRowsApplied ==
  ASSUME Refusing \subseteq {"grpc"}
  PROVE  DeliverySpec => []DroppedIsApplied
<1>1. DeliveryInit => DeliveryInv
  <2>. SUFFICES ASSUME DeliveryInit
                PROVE  DeliveryInv
    OBVIOUS
  <2>1. /\ buffer = <<>> /\ delivered = <<>> /\ pending = <<>>
        /\ lastCommitted = -1
    BY DEF DeliveryInit, BatcherInit
  <2>2. <<>> \in Seq({}) /\ Len(<<>>) = 0
    OBVIOUS
  <2>. QED
    BY <2>1, <2>2 DEF DeliveryInv, HoldsRows, PointerInBuffer, DroppedIsApplied
<1>2. DeliveryInv /\ [DeliveryNext]_deliveryVars => DeliveryInv'
  BY DeliveryNextInv
<1>3. DeliveryInv => DroppedIsApplied
  BY DEF DeliveryInv
<1>. QED
  BY <1>1, <1>2, <1>3, PTL DEF DeliverySpec
==============================================================================

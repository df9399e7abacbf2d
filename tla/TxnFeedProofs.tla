---------------------------- MODULE TxnFeedProofs ----------------------------
(***************************************************************************)
(* Theorems about the reader and the batcher together: transactions stay   *)
(* whole, for every stream of transactions and every interleaving with the *)
(* flush loop and the search engine.                                       *)
(***************************************************************************)
EXTENDS TxnFeed, BatcherProofs

(* While the reader waits inside Add, the row it holds belongs to the open *)
(* transaction.                                                            *)
PendingIsOpenTxn ==
  pending # <<>> => open /\ pending[1].txn = txn

(* Committed rows belong to transactions that are over. *)
CommittedTxnsAreOver ==
  \A i \in 1..FlushLen : buffer[i].txn <= txn /\ (open => buffer[i].txn < txn)

DeliveredTxnsAreOver ==
  \A i \in 1..Len(delivered) :
    delivered[i].txn <= txn /\ (open => delivered[i].txn < txn)

(* An open transaction has a number. *)
FeedOpenIsNumbered == open => txn # 0

(* The inductive invariant. *)
FeedInv ==
  /\ BatcherInv
  /\ FeedTypeOK
  /\ FeedOpenIsNumbered
  /\ TailIsOpenTxn
  /\ PendingIsOpenTxn
  /\ CommittedTxnsAreOver
  /\ DeliveredTxnsAreOver
  /\ TxnsNotSplit

(* The facts about the numbers of a state that every step needs. *)
LEMMA FeedNumbers ==
  ASSUME FeedInv
  PROVE  /\ buffer \in Seq(Row) /\ Len(buffer) \in Nat
         /\ delivered \in Seq(Row) /\ Len(delivered) \in Nat
         /\ FlushLen \in 0..Len(buffer)
         /\ adds \in Nat
         /\ Len(buffer) = FlushLen + adds
         /\ \A i \in 1..Len(buffer) : buffer[i].txn \in Nat
         /\ \A i \in 1..Len(delivered) : delivered[i].txn \in Nat
         /\ txn \in Nat /\ seq \in Nat /\ open \in BOOLEAN /\ failed \in BOOLEAN
<1>1. /\ buffer \in Seq(Row) /\ Len(buffer) \in Nat
      /\ delivered \in Seq(Row) /\ Len(delivered) \in Nat
      /\ FlushLen \in 0..Len(buffer)
  BY LogSizes DEF FeedInv
<1>2. /\ adds \in Nat /\ txn \in Nat /\ seq \in Nat
      /\ open \in BOOLEAN /\ failed \in BOOLEAN
  BY FeedAssumption DEF FeedInv, FeedTypeOK
<1>3. Len(buffer) = FlushLen + adds
  BY <1>1, <1>2 DEF FeedInv, TailIsOpenTxn
<1>4. \A r \in Row : r.txn \in Nat
  BY FeedAssumption
<1>5. /\ \A i \in 1..Len(buffer) : buffer[i] \in Row
      /\ \A i \in 1..Len(delivered) : delivered[i] \in Row
  BY <1>1, ElementOfSeq
<1>. QED
  BY <1>1, <1>2, <1>3, <1>4, <1>5

(* Before the first message everything is empty. *)
LEMMA FeedInitInv == FeedInit => FeedInv
<1>. SUFFICES ASSUME FeedInit
              PROVE  FeedInv
  OBVIOUS
<1>1. BatcherInv
  BY BatcherInitInv DEF FeedInit, ProcessInit
<1>2. /\ Len(buffer) = 0 /\ Len(delivered) = 0
      /\ FlushLen = 0 /\ adds = 0 /\ txn = 0 /\ seq = 0
      /\ pending = <<>> /\ ~open /\ open \in BOOLEAN /\ failed \in BOOLEAN
  <2>1. Len(buffer) = 0 /\ Len(delivered) = 0
    BY EmptySeq DEF FeedInit, ProcessInit, BatcherInit
  <2>2. FlushLen = 0
    BY DEF FeedInit, ProcessInit, BatcherInit, FlushLen
  <2>3. adds = 0 /\ txn = 0 /\ seq = 0 /\ pending = <<>> /\ open = FALSE /\ failed = FALSE
    BY DEF FeedInit, ProcessInit, BatcherInit
  <2>. QED
    BY <2>1, <2>2, <2>3
<1>3. FeedTypeOK
  BY <1>1, <1>2, FeedAssumption DEF FeedTypeOK, BatcherInv
<1>4. TailIsOpenTxn
  BY <1>2 DEF TailIsOpenTxn
<1>. QED
  BY <1>1, <1>2, <1>3, <1>4
     DEF FeedInv, FeedOpenIsNumbered, PendingIsOpenTxn, CommittedTxnsAreOver,
         DeliveredTxnsAreOver, TxnsNotSplit

(* A Begin message: the batcher is between transactions, so nothing in it  *)
(* is uncommitted.                                                         *)
LEMMA BeginInv ==
  ASSUME FeedInv, Begin
  PROVE  FeedInv'
<1>1. BatcherInv' /\ UNCHANGED batcherVars
  BY BatcherStutterInv DEF Begin, OnBegin, FeedInv
<1>2. /\ UNCHANGED <<buffer, delivered, pending>> /\ FlushLen' = FlushLen
      /\ adds' = 0 /\ txn' = txn + 1 /\ seq' = 0 /\ open' = TRUE
      /\ ~open /\ txn < MaxTxns /\ pending = <<>> /\ failed' = failed
  BY <1>1 DEF Begin, OnBegin, batcherVars, FlushLen, ReaderReady
<1>3. FlushLen = Len(buffer)
  <2>1. adds = 0
    BY <1>2, FeedNumbers DEF FeedInv, TailIsOpenTxn
  <2>. QED
    BY <2>1, FeedNumbers
<1>4. FeedTypeOK'
  BY <1>1, <1>2, FeedNumbers, FeedAssumption
     DEF FeedInv, FeedTypeOK, BatcherInv
<1>5. TailIsOpenTxn'
  BY <1>2, <1>3, FeedNumbers DEF TailIsOpenTxn
<1>6. PendingIsOpenTxn'
  BY <1>2 DEF PendingIsOpenTxn
<1>7. CommittedTxnsAreOver' /\ DeliveredTxnsAreOver'
  <2>1. \A i \in 1..FlushLen : buffer[i].txn \in Nat /\ buffer[i].txn <= txn
    BY FeedNumbers DEF FeedInv, CommittedTxnsAreOver
  <2>2. \A i \in 1..Len(delivered) :
           delivered[i].txn \in Nat /\ delivered[i].txn <= txn
    BY FeedNumbers DEF FeedInv, DeliveredTxnsAreOver
  <2>3. txn \in Nat
    BY FeedNumbers
  <2>4. \A n \in Nat : n <= txn => n <= txn + 1 /\ n < txn + 1
    BY <2>3
  <2>5. /\ \A i \in 1..FlushLen :
             buffer[i].txn <= txn + 1 /\ buffer[i].txn < txn + 1
        /\ \A i \in 1..Len(delivered) :
             delivered[i].txn <= txn + 1 /\ delivered[i].txn < txn + 1
    BY <2>1, <2>2, <2>4
  <2>. QED
    BY <1>2, <2>5 DEF CommittedTxnsAreOver, DeliveredTxnsAreOver
<1>8. TxnsNotSplit'
  BY <1>2 DEF FeedInv, TxnsNotSplit
<1>9. FeedOpenIsNumbered'
  BY <1>2, FeedNumbers DEF FeedOpenIsNumbered
<1>. QED
  BY <1>1, <1>4, <1>5, <1>6, <1>7, <1>8, <1>9 DEF FeedInv

(* A change is dropped, or handed to Add as a row of the open transaction. *)
LEMMA ChangeInv ==
  ASSUME FeedInv, NEW usable \in BOOLEAN, Change(usable)
  PROVE  FeedInv'
<1> DEFINE row == [txn |-> txn, seq |-> seq + 1]
<1>1. /\ row \in Row /\ row.txn = txn
      /\ open /\ open' = open /\ txn' = txn /\ seq' \in 0..MaxTxnRows
      /\ UNCHANGED <<adds, failed>>
      /\ UNCHANGED <<buffer, delivered, lastCommitted>>
      /\ pending' = pending \/ pending' = <<row>>
  <2>1. txn \in 0..MaxTxns /\ seq \in 0..MaxTxnRows
    BY DEF FeedInv, FeedTypeOK
  <2>2. txn # 0
    \* transactions are numbered from 1
    BY DEF FeedInv, FeedOpenIsNumbered, Change
  <2>3. row \in Row /\ row.txn = txn
    BY <2>1, <2>2, FeedAssumption DEF Change
  <2>4. seq' \in 0..MaxTxnRows
    BY <2>1, FeedAssumption DEF Change
  <2>5. open /\ open' = open /\ txn' = txn
    BY DEF Change
  <2>6. /\ UNCHANGED <<adds, failed>> /\ UNCHANGED <<buffer, delivered, lastCommitted>>
        /\ pending' = pending \/ pending' = <<row>>
    BY DEF Change, OnChange, Add, processVars, batcherVars
  <2>. QED
    BY <2>3, <2>4, <2>5, <2>6
<1>2. BatcherInv'
  <2>1. CASE Add(row)
    BY <1>1, <2>1, AddInv DEF FeedInv
  <2>2. CASE UNCHANGED batcherVars
    BY <2>2, BatcherStutterInv DEF FeedInv
  <2>. QED
    BY <2>1, <2>2 DEF Change, OnChange, processVars
<1>3. FeedTypeOK'
  BY <1>1, <1>2 DEF FeedInv, FeedTypeOK, BatcherInv
<1>4. FlushLen' = FlushLen
  BY <1>1 DEF FlushLen
<1>5. PendingIsOpenTxn'
  BY <1>1 DEF FeedInv, PendingIsOpenTxn
<1>6. TailIsOpenTxn'
  BY <1>1, <1>4 DEF FeedInv, TailIsOpenTxn
<1>7. CommittedTxnsAreOver' /\ DeliveredTxnsAreOver' /\ TxnsNotSplit'
  BY <1>1, <1>4
     DEF FeedInv, CommittedTxnsAreOver, DeliveredTxnsAreOver, TxnsNotSplit
<1>8. FeedOpenIsNumbered'
  BY <1>1 DEF FeedInv, FeedOpenIsNumbered
<1>. QED
  BY <1>2, <1>3, <1>5, <1>6, <1>7, <1>8 DEF FeedInv

(* Add returns: the row joins the uncommitted tail and is counted. *)
LEMMA ChangeDoneInv ==
  ASSUME FeedInv, ChangeDone
  PROVE  FeedInv'
<1>1. PICK row \in Row : pending = <<row>>
  BY DEF ChangeDone, OnChangeDone, FinishAdd, FeedInv, BatcherInv, BatcherTypeOK
<1>2. row.txn = txn /\ open
  BY <1>1 DEF FeedInv, PendingIsOpenTxn
<1>3. BatcherInv'
  BY FinishAddInv DEF ChangeDone, OnChangeDone, FeedInv
<1>4. /\ UNCHANGED <<txn, seq, open, failed, delivered>> /\ FlushLen' = FlushLen
      /\ adds' = adds + 1 /\ pending' = <<>>
      /\ buffer' = buffer \o <<row>>
  BY <1>1 DEF ChangeDone, OnChangeDone, FinishAdd, FlushLen, streamVars
<1>5. /\ Len(buffer') = Len(buffer) + 1
      /\ \A i \in 1..Len(buffer) : buffer'[i] = buffer[i]
      /\ buffer'[Len(buffer) + 1] = row
  <2>1. <<row>> \in Seq(Row) /\ Len(<<row>>) = 1 /\ <<row>>[1] = row
    OBVIOUS
  <2>. QED
    BY <1>4, <2>1, FeedNumbers, ConcatProperties
<1>6. \A i \in 1..Len(buffer') : i \in 1..Len(buffer) \/ i = Len(buffer) + 1
  BY <1>5, FeedNumbers
<1>7. FeedTypeOK'
  BY <1>3, <1>4, FeedNumbers DEF FeedInv, FeedTypeOK, BatcherInv
<1>8. TailIsOpenTxn'
  <2>1. Len(buffer') - FlushLen' = adds'
    BY <1>4, <1>5, FeedNumbers
  <2>2. ASSUME NEW i \in FlushLen' + 1 .. Len(buffer')
        PROVE  buffer'[i].txn = txn'
    <3>1. i \in FlushLen + 1 .. Len(buffer) \/ i = Len(buffer) + 1
      BY <1>4, <1>5, FeedNumbers
    <3>2. CASE i \in FlushLen + 1 .. Len(buffer)
      <4>1. FlushLen \in Nat
        BY FeedNumbers
      <4>2. i \in 1..Len(buffer)
        BY <3>2, <4>1, FeedNumbers
      <4>3. buffer[i].txn = txn
        BY <3>2 DEF FeedInv, TailIsOpenTxn
      <4>. QED
        BY <1>4, <1>5, <4>2, <4>3
    <3>3. CASE i = Len(buffer) + 1
      BY <1>2, <1>4, <1>5, <3>3
    <3>. QED
      BY <3>1, <3>2, <3>3
  <2>. QED
    BY <1>2, <1>4, <2>1, <2>2 DEF TailIsOpenTxn
<1>9. PendingIsOpenTxn'
  BY <1>4 DEF PendingIsOpenTxn
<1>10. CommittedTxnsAreOver' /\ DeliveredTxnsAreOver'
  <2>1. \A i \in 1..FlushLen : i \in 1..Len(buffer)
    BY FeedNumbers
  <2>. QED
    BY <1>4, <1>5, <2>1 DEF FeedInv, CommittedTxnsAreOver, DeliveredTxnsAreOver
<1>11. TxnsNotSplit'
  BY <1>2, <1>4, <1>5, <1>6 DEF FeedInv, TxnsNotSplit, DeliveredTxnsAreOver
<1>12. FeedOpenIsNumbered'
  BY <1>4 DEF FeedInv, FeedOpenIsNumbered
<1>. QED
  BY <1>3, <1>7, <1>8, <1>9, <1>10, <1>11, <1>12 DEF FeedInv

(* A Commit message: CommitN(adds) reaches exactly the end of the buffer. *)
LEMMA CommitInv ==
  ASSUME FeedInv, Commit
  PROVE  FeedInv'
<1>1. /\ UNCHANGED <<buffer, delivered, pending, txn, seq, failed>>
      /\ open /\ ~open' /\ open' \in BOOLEAN /\ adds' = 0 /\ pending = <<>>
  BY DEF Commit, OnCommit, CommitN, processVars, batcherVars, ReaderReady
<1>2. BatcherInv'
  <2>1. CASE UNCHANGED batcherVars
    BY <2>1, BatcherStutterInv DEF FeedInv
  <2>2. CASE CommitN(adds)
    BY <2>2, FeedNumbers, CommitNInv DEF FeedInv
  <2>. QED
    BY <2>1, <2>2 DEF Commit, OnCommit, processVars
<1>3. FlushLen' = Len(buffer)
  <2>1. CASE adds = 0 /\ UNCHANGED processVars
    <3>1. FlushLen' = FlushLen
      BY <2>1 DEF processVars, batcherVars, FlushLen
    <3>. QED
      BY <2>1, <3>1, FeedNumbers
  <2>2. CASE adds > 0 /\ CommitN(adds)
    <3>1. lastCommitted \in Int /\ FlushLen = lastCommitted + 1
      BY DEF FeedInv, BatcherInv, BatcherTypeOK, FlushLen
    <3>2. lastCommitted + adds = Len(buffer) - 1
      <4>1. adds \in Nat /\ Len(buffer) \in Nat /\ Len(buffer) = FlushLen + adds
        BY FeedNumbers
      <4>. QED
        BY <3>1, <4>1
    <3>3. lastCommitted' = Len(buffer) - 1
      BY <2>2, <3>2 DEF CommitN
    <3>4. FlushLen' = lastCommitted' + 1
      BY DEF FlushLen
    <3>. QED
      BY <3>3, <3>4, FeedNumbers
  <2>. QED
    BY <2>1, <2>2 DEF Commit, OnCommit
<1>4. FeedTypeOK'
  BY <1>1, <1>2 DEF FeedInv, FeedTypeOK, BatcherInv
<1>5. TailIsOpenTxn'
  BY <1>1, <1>3, FeedNumbers DEF TailIsOpenTxn
<1>6. PendingIsOpenTxn'
  BY <1>1 DEF PendingIsOpenTxn
<1>7. CommittedTxnsAreOver'
  <2>1. ASSUME NEW i \in 1..Len(buffer)
        PROVE  buffer[i].txn <= txn
    <3>1. i \in 1..FlushLen \/ i \in FlushLen + 1 .. Len(buffer)
      BY FeedNumbers
    <3>2. CASE i \in 1..FlushLen
      BY <3>2 DEF FeedInv, CommittedTxnsAreOver
    <3>3. CASE i \in FlushLen + 1 .. Len(buffer)
      <4>1. buffer[i].txn = txn
        BY <3>3 DEF FeedInv, TailIsOpenTxn
      <4>. QED
        BY <4>1, FeedNumbers
    <3>. QED
      BY <3>1, <3>2, <3>3
  <2>. QED
    BY <1>1, <1>3, <2>1 DEF CommittedTxnsAreOver
<1>8. DeliveredTxnsAreOver' /\ TxnsNotSplit'
  BY <1>1 DEF FeedInv, DeliveredTxnsAreOver, TxnsNotSplit
<1>9. FeedOpenIsNumbered'
  BY <1>1 DEF FeedOpenIsNumbered
<1>. QED
  BY <1>2, <1>4, <1>5, <1>6, <1>7, <1>8, <1>9 DEF FeedInv

(* A confirmed request: the committed rows move from the buffer to what    *)
(* was delivered; the rows that stay belong to the open transaction.       *)
LEMMA BulkOkFeedInv ==
  ASSUME FeedInv, BulkOk, UNCHANGED <<adds, streamVars, failed>>
  PROVE  FeedInv'
<1>1. /\ delivered' = delivered \o Committed
      /\ buffer' = Uncommitted
      /\ UNCHANGED <<pending, adds, txn, seq, open, failed>>
  BY DEF BulkOk, streamVars
<1>2. FlushLen' = 0
  BY DEF BulkOk, FlushLen
<1>3. BatcherInv'
  BY BulkOkInv DEF FeedInv
<1>4. /\ Committed \in Seq(Row) /\ Len(Committed) = FlushLen
      /\ \A i \in 1..FlushLen : Committed[i] = buffer[i]
      /\ Uncommitted \in Seq(Row) /\ Len(Uncommitted) = adds
      /\ \A i \in 1..adds : Uncommitted[i] = buffer[FlushLen + i]
  <2>1. Len(buffer) - FlushLen = adds
    BY DEF FeedInv, TailIsOpenTxn
  <2>2. buffer \in Seq(Row) /\ FlushLen \in 0..Len(buffer)
    BY FeedNumbers
  <2>. QED
    BY <2>1, <2>2, CutOfSeq DEF Committed, Uncommitted
<1>5. \A i \in 1..adds : Uncommitted[i].txn = txn
  <2>1. \A i \in 1..adds : FlushLen + i \in FlushLen + 1 .. Len(buffer)
    BY FeedNumbers
  <2>. QED
    BY <1>4, <2>1 DEF FeedInv, TailIsOpenTxn
<1>6. /\ Len(delivered') = Len(delivered) + FlushLen
      /\ \A i \in 1..Len(delivered') :
           \/ i \in 1..Len(delivered) /\ delivered'[i] = delivered[i]
           \/ i - Len(delivered) \in 1..FlushLen
              /\ delivered'[i] = buffer[i - Len(delivered)]
  <2>1. /\ delivered \in Seq(Row) /\ Len(delivered) \in Nat
        /\ FlushLen \in Nat
    BY FeedNumbers
  <2>2. /\ Len(delivered') = Len(delivered) + FlushLen
        /\ \A i \in 1..Len(delivered) + FlushLen :
             delivered'[i] = IF i <= Len(delivered)
                             THEN delivered[i]
                             ELSE Committed[i - Len(delivered)]
    BY <1>1, <1>4, <2>1, ConcatProperties
  <2>3. \A i \in 1..Len(delivered) + FlushLen :
           \/ i \in 1..Len(delivered) /\ i <= Len(delivered)
           \/ i - Len(delivered) \in 1..FlushLen /\ ~(i <= Len(delivered))
    BY <2>1
  <2>. QED
    BY <1>4, <2>2, <2>3
<1>7. FeedTypeOK'
  BY <1>1, <1>3 DEF FeedInv, FeedTypeOK, BatcherInv
<1>8. TailIsOpenTxn'
  <2>1. Len(buffer') - FlushLen' = adds'
    BY <1>1, <1>2, <1>4, FeedNumbers
  <2>2. \A i \in FlushLen' + 1 .. Len(buffer') : buffer'[i].txn = txn'
    BY <1>1, <1>2, <1>4, <1>5
  <2>. QED
    BY <1>1, <2>1, <2>2 DEF FeedInv, TailIsOpenTxn
<1>9. PendingIsOpenTxn'
  BY <1>1 DEF FeedInv, PendingIsOpenTxn
<1>10. CommittedTxnsAreOver'
  BY <1>2 DEF CommittedTxnsAreOver
<1>11. DeliveredTxnsAreOver'
  BY <1>1, <1>6 DEF FeedInv, CommittedTxnsAreOver, DeliveredTxnsAreOver
<1>12. TxnsNotSplit'
  <2>1. ASSUME NEW i \in 1..Len(delivered'), NEW j \in 1..Len(buffer')
        PROVE  delivered'[i].txn < buffer'[j].txn
    <3>1. j \in 1..adds /\ buffer'[j].txn = txn
      BY <1>1, <1>4, <1>5
    <3>2. open
      <4>1. adds > 0
        BY <3>1, FeedNumbers
      <4>. QED
        BY <4>1 DEF FeedInv, TailIsOpenTxn
    <3>3. delivered'[i].txn < txn
      BY <1>1, <1>11, <3>2 DEF DeliveredTxnsAreOver
    <3>. QED
      BY <3>1, <3>3
  <2>. QED
    BY <2>1 DEF TxnsNotSplit
<1>13. FeedOpenIsNumbered'
  BY <1>1 DEF FeedInv, FeedOpenIsNumbered
<1>. QED
  BY <1>3, <1>7, <1>8, <1>9, <1>10, <1>11, <1>12, <1>13 DEF FeedInv

(* A request going out, a failed request and a stuttering step move no row.*)
LEMMA QuietFeedInv ==
  ASSUME FeedInv, BatcherInv', failed' \in BOOLEAN,
         UNCHANGED <<buffer, delivered, lastCommitted, pending, adds, streamVars>>
  PROVE  FeedInv'
<1>1. UNCHANGED <<buffer, delivered, pending, adds, txn, seq, open>>
  BY DEF streamVars
<1>2. FlushLen' = FlushLen
  BY DEF FlushLen
<1>3. FeedTypeOK'
  BY <1>1 DEF FeedInv, FeedTypeOK, BatcherInv
<1>. QED
  BY <1>1, <1>2, <1>3
     DEF FeedInv, FeedOpenIsNumbered, TailIsOpenTxn, PendingIsOpenTxn,
         CommittedTxnsAreOver, DeliveredTxnsAreOver, TxnsNotSplit

(* The flush loop and the search engine. *)
LEMMA BackgroundInv ==
  ASSUME FeedInv, Background
  PROVE  FeedInv'
<1>. UNCHANGED <<adds, streamVars>>
  BY DEF Background
<1>1. CASE BulkOk /\ UNCHANGED failed
  BY <1>1, BulkOkFeedInv
<1>2. CASE Flush /\ UNCHANGED failed
  <2>1. BatcherInv'
    BY <1>2, FlushInv DEF FeedInv
  <2>. QED
    BY <1>2, <2>1, QuietFeedInv DEF Background, Flush, FeedInv, FeedTypeOK
<1>3. CASE BulkFail /\ failed' = TRUE
  <2>1. BatcherInv'
    BY <1>3, BulkFailInv DEF FeedInv
  <2>. QED
    BY <1>3, <2>1, QuietFeedInv DEF BulkFail
<1>. QED
  BY <1>1, <1>2, <1>3 DEF Background

(* Every step of the feed. *)
LEMMA FeedNextInv == FeedInv /\ [FeedNext]_feedVars => FeedInv'
<1>. SUFFICES ASSUME FeedInv, [FeedNext]_feedVars
              PROVE  FeedInv'
  OBVIOUS
<1>1. CASE Begin
  BY <1>1, BeginInv
<1>2. CASE \E usable \in BOOLEAN : Change(usable)
  BY <1>2, ChangeInv
<1>3. CASE ChangeDone
  BY <1>3, ChangeDoneInv
<1>4. CASE Commit
  BY <1>4, CommitInv
<1>5. CASE Background
  BY <1>5, BackgroundInv
<1>6. CASE UNCHANGED feedVars
  <2>1. UNCHANGED batcherVars /\ UNCHANGED <<adds, streamVars, failed>>
    BY <1>6 DEF feedVars, processVars
  <2>2. BatcherInv'
    BY <2>1, BatcherStutterInv DEF FeedInv
  <2>. QED
    BY <2>1, <2>2, QuietFeedInv DEF batcherVars, FeedInv, FeedTypeOK
<1>. QED
  BY <1>1, <1>2, <1>3, <1>4, <1>5, <1>6 DEF FeedNext

(* The invariant that carries all the theorems about the feed. *)
THEOREM FeedInvariant == FeedSpec => []FeedInv
<1>. QED
  BY FeedInitInv, FeedNextInv, PTL DEF FeedSpec

(* The variables of the reader's transaction tracker and of the batcher    *)
(* keep their types: the count of the tracker is never negative.           *)
THEOREM FeedTypeCorrect == FeedSpec => []FeedTypeOK
<1>1. FeedInv => FeedTypeOK
  BY DEF FeedInv
<1>. QED
  BY <1>1, FeedInvariant, PTL

(* The uncommitted tail of the buffer is exactly what the tracker counted  *)
(* for the open transaction: CommitN(adds) commits that transaction, all   *)
(* of it and nothing else.                                                 *)
THEOREM TrackerMatchesTail == FeedSpec => []TailIsOpenTxn
<1>1. FeedInv => TailIsOpenTxn
  BY DEF FeedInv
<1>. QED
  BY <1>1, FeedInvariant, PTL

(* No change of a transaction reaches the search engine before its Commit. *)
THEOREM DeliveredAfterCommit == FeedSpec => []OnlyCommittedTxnsDelivered
<1>1. FeedInv => OnlyCommittedTxnsDelivered
  BY DEF FeedInv, DeliveredTxnsAreOver, OnlyCommittedTxnsDelivered
<1>. QED
  BY <1>1, FeedInvariant, PTL

(* No request ends inside a transaction: what is still buffered belongs to *)
(* later transactions than what was delivered.                             *)
THEOREM TransactionsWhole == FeedSpec => []TxnsNotSplit
<1>1. FeedInv => TxnsNotSplit
  BY DEF FeedInv
<1>. QED
  BY <1>1, FeedInvariant, PTL

------------------------------------------------------------------------------
(* Growth of the buffer.  Before a request fails, an Add that found the    *)
(* buffer full has flushed every committed row before it appends.          *)
FullMeansFlushed ==
  ~failed =>
    (pending # <<>> /\ Len(buffer) >= BufferSize /\ FlushLen > 0 => sending)

OverflowInv == FeedInv /\ FullMeansFlushed /\ OverflowIsOneTxn

(* With nothing committed, every buffered row is of the open transaction. *)
LEMMA TailIsAll ==
  ASSUME FeedInv, FlushLen = 0
  PROVE  \A i \in 1..Len(buffer) : buffer[i].txn = txn
<1>1. \A i \in 1..Len(buffer) : i \in FlushLen + 1 .. Len(buffer)
  BY FeedNumbers
<1>. QED
  BY <1>1 DEF FeedInv, TailIsOpenTxn

(* An Add that returns makes the buffer too long only for its transaction. *)
LEMMA ChangeDoneOverflow ==
  ASSUME OverflowInv, FeedInv', ChangeDone
  PROVE  FullMeansFlushed' /\ OverflowIsOneTxn'
<1>1. /\ pending # <<>> /\ pending' = <<>> /\ ~sending
      /\ UNCHANGED <<txn, lastCommitted, failed>>
      /\ buffer' = buffer \o pending
  BY DEF ChangeDone, OnChangeDone, FinishAdd, streamVars
<1>2. FullMeansFlushed'
  BY <1>1 DEF FullMeansFlushed
<1>3. ASSUME ~failed', Len(buffer') > BufferSize
      PROVE  \A i, j \in 1..Len(buffer') : buffer'[i].txn = buffer'[j].txn
  <2>1. Len(buffer') = Len(buffer) + 1
    <3>1. PICK row \in Row : pending = <<row>>
      BY <1>1 DEF OverflowInv, FeedInv, BatcherInv, BatcherTypeOK
    <3>. QED
      BY <1>1, <3>1, FeedNumbers, ConcatProperties DEF OverflowInv
  <2>2. Len(buffer) >= BufferSize
    BY <1>3, <2>1, FeedNumbers, BatcherAssumption DEF OverflowInv
  <2>3. FlushLen = 0
    <3>1. ~(FlushLen > 0)
      BY <1>1, <1>3, <2>2 DEF OverflowInv, FullMeansFlushed
    <3>2. FlushLen \in Nat
      BY FeedNumbers DEF OverflowInv
    <3>. QED
      BY <3>1, <3>2
  <2>4. FlushLen' = 0
    BY <1>1, <2>3 DEF FlushLen
  <2>5. \A i \in FlushLen' + 1 .. Len(buffer') : buffer'[i].txn = txn'
    BY DEF FeedInv, TailIsOpenTxn
  <2>6. \A i \in 1..Len(buffer') : i \in FlushLen' + 1 .. Len(buffer')
    BY <2>4
  <2>. QED
    BY <2>5, <2>6
<1>. QED
  BY <1>2, <1>3 DEF OverflowIsOneTxn

(* After a confirmed request only the open transaction is buffered. *)
LEMMA BulkOkOverflow ==
  ASSUME OverflowInv, FeedInv', BulkOk
  PROVE  FullMeansFlushed' /\ OverflowIsOneTxn'
<1>1. FlushLen' = 0
  BY DEF BulkOk, FlushLen
<1>2. \A i \in FlushLen' + 1 .. Len(buffer') : buffer'[i].txn = txn'
  BY DEF FeedInv, TailIsOpenTxn
<1>3. \A i \in 1..Len(buffer') : i \in FlushLen' + 1 .. Len(buffer')
  BY <1>1
<1>. QED
  BY <1>1, <1>2, <1>3 DEF FullMeansFlushed, OverflowIsOneTxn

(* Every step of the feed preserves the invariant. *)
LEMMA OverflowNextInv == OverflowInv /\ [FeedNext]_feedVars => OverflowInv'
<1>. SUFFICES ASSUME OverflowInv, [FeedNext]_feedVars
              PROVE  OverflowInv'
  OBVIOUS
<1>1. FeedInv'
  BY FeedNextInv DEF OverflowInv
<1>2. CASE ChangeDone
  BY <1>1, <1>2, ChangeDoneOverflow DEF OverflowInv
<1>3. CASE BulkOk
  BY <1>1, <1>3, BulkOkOverflow DEF OverflowInv
<1>4. ASSUME UNCHANGED <<buffer, lastCommitted, failed>>,
             \/ UNCHANGED <<pending, sending>>
             \/ sending'
             \/ sending' = (Len(buffer) >= BufferSize /\ FlushLen > 0)
             \/ pending' = <<>>
      PROVE  OverflowInv'
  <2>1. FlushLen' = FlushLen
    BY <1>4 DEF FlushLen
  <2>2. OverflowIsOneTxn'
    BY <1>4 DEF OverflowInv, OverflowIsOneTxn
  <2>3. FullMeansFlushed'
    BY <1>4, <2>1 DEF OverflowInv, FullMeansFlushed
  <2>. QED
    BY <1>1, <2>2, <2>3 DEF OverflowInv
<1>5. CASE Begin
  BY <1>4, <1>5 DEF Begin, OnBegin, batcherVars
<1>6. CASE \E usable \in BOOLEAN : Change(usable)
  <2>1. PICK usable \in BOOLEAN : Change(usable)
    BY <1>6
  <2>. UNCHANGED failed
    BY <2>1 DEF Change
  <2>2. CASE Add([txn |-> txn, seq |-> seq + 1])
    BY <1>4, <2>2 DEF Add
  <2>3. CASE UNCHANGED processVars
    BY <1>4, <2>3 DEF processVars, batcherVars
  <2>. QED
    BY <2>1, <2>2, <2>3 DEF Change, OnChange
<1>7. CASE Commit
  <2>1. UNCHANGED <<buffer, failed>> /\ pending' = <<>> /\ FeedInv'
    BY <1>1, <1>7
       DEF Commit, OnCommit, CommitN, processVars, batcherVars, ReaderReady
  <2>. QED
    BY <2>1 DEF OverflowInv, FullMeansFlushed, OverflowIsOneTxn
<1>8. CASE Background /\ ~BulkOk
  <2>1. CASE Flush /\ UNCHANGED failed
    BY <1>4, <2>1 DEF Flush
  <2>2. CASE BulkFail /\ failed' = TRUE
    BY <1>1, <2>2 DEF OverflowInv, FullMeansFlushed, OverflowIsOneTxn
  <2>. QED
    BY <1>8, <2>1, <2>2 DEF Background
<1>9. CASE UNCHANGED feedVars
  BY <1>4, <1>9 DEF feedVars, processVars, batcherVars
<1>. QED
  BY <1>2, <1>3, <1>5, <1>6, <1>7, <1>8, <1>9 DEF FeedNext

(* Until a request fails the buffer outgrows its configured size only with *)
(* the rows of a single transaction.                                       *)
THEOREM OverflowBounded == FeedSpec => []OverflowIsOneTxn
<1>1. FeedInit => OverflowInv
  <2>. SUFFICES ASSUME FeedInit
                PROVE  OverflowInv
    OBVIOUS
  <2>1. FeedInv
    BY FeedInitInv
  <2>2. Len(buffer) = 0 /\ pending = <<>>
    BY EmptySeq DEF FeedInit, ProcessInit, BatcherInit
  <2>. QED
    BY <2>1, <2>2 DEF OverflowInv, FullMeansFlushed, OverflowIsOneTxn
<1>2. OverflowInv => OverflowIsOneTxn
  BY DEF OverflowInv
<1>. QED
  BY <1>1, <1>2, OverflowNextInv, PTL DEF FeedSpec
==============================================================================

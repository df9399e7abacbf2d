---------------------------- MODULE BatcherProofs ----------------------------
(***************************************************************************)
(* Theorems about the batcher, for every set of rows, every buffer size    *)
(* and every bound.                                                        *)
(***************************************************************************)
EXTENDS Batcher, SequenceTheorems, TLAPS

(* The inductive invariant.  The conjunct on `sending' is what the early   *)
(* return of flush() guarantees: a request always carries committed rows.  *)
BatcherInv ==
  /\ BatcherTypeOK
  /\ PointerInBuffer
  /\ GaugeIsBufferLength
  /\ sending => FlushLen > 0

(* Cutting a sequence behind its n-th element. *)
LEMMA CutOfSeq ==
  ASSUME NEW S, NEW s \in Seq(S), NEW n \in 0..Len(s)
  PROVE  /\ SubSeq(s, 1, n) \in Seq(S)
         /\ Len(SubSeq(s, 1, n)) = n
         /\ \A i \in 1..n : SubSeq(s, 1, n)[i] = s[i]
         /\ SubSeq(s, n + 1, Len(s)) \in Seq(S)
         /\ Len(SubSeq(s, n + 1, Len(s))) = Len(s) - n
         /\ \A i \in 1..Len(s) - n : SubSeq(s, n + 1, Len(s))[i] = s[n + i]
         /\ SubSeq(s, 1, n) \o SubSeq(s, n + 1, Len(s)) = s
<1>1. /\ Len(s) \in Nat
      /\ n \in Nat
      /\ \A i \in 1..Len(s) : s[i] \in S
  BY ElementOfSeq, LenProperties
<1>2. \A i \in 1..n : s[i] \in S
  BY <1>1
<1>3. \A i \in n + 1 .. Len(s) : s[i] \in S
  BY <1>1
<1>4. /\ 1 \in 1 .. Len(s)+1
      /\ n \in 1-1 .. Len(s)
      /\ Len(s) \in n .. Len(s)
  BY <1>1
<1>5. SubSeq(s, 1, n) \o SubSeq(s, n + 1, Len(s)) = SubSeq(s, 1, Len(s))
  BY <1>1, <1>4, ConcatAdjacentSubSeq
<1>6. /\ SubSeq(s, 1, n) \in Seq(S)
      /\ Len(SubSeq(s, 1, n)) = n
      /\ \A i \in 1..n : SubSeq(s, 1, n)[i] = s[i]
  BY <1>1, <1>2, SubSeqProperties
<1>7. /\ SubSeq(s, n + 1, Len(s)) \in Seq(S)
      /\ Len(SubSeq(s, n + 1, Len(s))) = Len(s) - n
      /\ \A i \in 1..Len(s) - n : SubSeq(s, n + 1, Len(s))[i] = s[n + i]
  BY <1>1, <1>3, SubSeqProperties
<1>. QED
  BY <1>5, <1>6, <1>7, SubSeqFull

(* What the two halves of a buffer cut at the commit pointer are. *)
LEMMA CutAtPointer ==
  ASSUME BatcherTypeOK, PointerInBuffer
  PROVE  /\ FlushLen \in 0..Len(buffer)
         /\ Committed \in Seq(Row)
         /\ Len(Committed) = FlushLen
         /\ \A i \in 1..FlushLen : Committed[i] = buffer[i]
         /\ Uncommitted \in Seq(Row)
         /\ Len(Uncommitted) = Len(buffer) - FlushLen
         /\ Committed \o Uncommitted = buffer
<1>1. buffer \in Seq(Row) /\ Len(buffer) \in Nat
  BY LenProperties DEF BatcherTypeOK
<1>2. FlushLen \in 0..Len(buffer)
  BY <1>1 DEF BatcherTypeOK, PointerInBuffer, FlushLen
<1>. QED
  BY <1>1, <1>2, CutOfSeq DEF Committed, Uncommitted

(* Each operation, whoever calls it, preserves the invariant. *)
LEMMA AddInv ==
  ASSUME BatcherInv, NEW row \in Row, Add(row)
  PROVE  BatcherInv'
BY DEF BatcherInv, BatcherTypeOK, PointerInBuffer, GaugeIsBufferLength,
       FlushLen, Add, Locked

(* The row handed to Add joins the buffer behind the commit pointer. *)
LEMMA FinishAddInv ==
  ASSUME BatcherInv, FinishAdd
  PROVE  BatcherInv'
<1>1. PICK row \in Row : pending = <<row>>
  BY DEF BatcherInv, BatcherTypeOK, FinishAdd
<1>2. /\ buffer' \in Seq(Row)
      /\ Len(buffer') = Len(buffer) + 1
      /\ Len(buffer) \in Nat
  BY <1>1, ConcatProperties, LenProperties
     DEF BatcherInv, BatcherTypeOK, FinishAdd
<1>. QED
  BY <1>1, <1>2 DEF BatcherInv, BatcherTypeOK, PointerInBuffer,
                    GaugeIsBufferLength, FlushLen, FinishAdd

(* Moving the commit pointer by N stays inside the buffer. *)
LEMMA CommitNInv ==
  ASSUME BatcherInv, NEW n \in Nat, CommitN(n)
  PROVE  BatcherInv'
<1>1. Len(buffer) \in Nat
  BY LenProperties DEF BatcherInv, BatcherTypeOK
<1>. QED
  BY <1>1 DEF BatcherInv, BatcherTypeOK, PointerInBuffer,
              GaugeIsBufferLength, FlushLen, CommitN, Locked

(* Cutting rows off the tail cuts no committed one. *)
LEMMA RollbackNInv ==
  ASSUME BatcherInv, NEW n \in Nat, RollbackN(n)
  PROVE  BatcherInv'
<1>1. Len(buffer) \in Nat
  BY LenProperties DEF BatcherInv, BatcherTypeOK
<1>2. PICK left \in FlushLen..Len(buffer) :
         buffer' = SubSeq(buffer, 1, left) /\ gauge' = left
  BY <1>1 DEF BatcherInv, BatcherTypeOK, PointerInBuffer, FlushLen, RollbackN
<1>3. FlushLen >= 0
  BY DEF BatcherInv, BatcherTypeOK, PointerInBuffer, FlushLen
<1>4. buffer' \in Seq(Row) /\ Len(buffer') = left
  <2>1. left \in 0..Len(buffer)
    BY <1>1, <1>3 DEF BatcherInv, BatcherTypeOK, FlushLen
  <2>. QED
    BY <1>2, <2>1, CutOfSeq DEF BatcherInv, BatcherTypeOK
<1>. QED
  BY <1>1, <1>2, <1>3, <1>4
     DEF BatcherInv, BatcherTypeOK, PointerInBuffer,
         GaugeIsBufferLength, FlushLen, RollbackN, Locked

(* Starting a request changes nothing but the mutex. *)
LEMMA FlushInv ==
  ASSUME BatcherInv, Flush
  PROVE  BatcherInv'
BY DEF BatcherInv, BatcherTypeOK, PointerInBuffer, GaugeIsBufferLength,
       FlushLen, Flush

(* A confirmed request empties the committed half and resets the pointer. *)
LEMMA BulkOkInv ==
  ASSUME BatcherInv, BulkOk
  PROVE  BatcherInv'
<1>1. /\ Committed \in Seq(Row)
      /\ Uncommitted \in Seq(Row)
      /\ Len(Uncommitted) \in Nat
  BY CutAtPointer, LenProperties DEF BatcherInv
<1>2. delivered' \in Seq(Row)
  BY <1>1, ConcatProperties DEF BatcherInv, BatcherTypeOK, BulkOk
<1>3. BatcherTypeOK'
  <2>1. buffer' \in Seq(Row)
    BY <1>1 DEF BulkOk
  <2>2. gauge' \in Nat /\ lastCommitted' \in Int
    BY <1>1 DEF BulkOk
  <2>3. pending' = pending /\ sending' \in BOOLEAN
    BY DEF BulkOk
  <2>. QED
    BY <1>2, <2>1, <2>2, <2>3 DEF BatcherInv, BatcherTypeOK
<1>4. /\ lastCommitted' = -1
      /\ gauge' = Len(buffer')
      /\ Len(buffer') \in Nat
      /\ ~sending'
  BY <1>1 DEF BulkOk
<1>. QED
  BY <1>3, <1>4 DEF BatcherInv, PointerInBuffer, GaugeIsBufferLength

(* A failed request leaves the buffer as it was. *)
LEMMA BulkFailInv ==
  ASSUME BatcherInv, BulkFail
  PROVE  BatcherInv'
BY DEF BatcherInv, BatcherTypeOK, PointerInBuffer, GaugeIsBufferLength,
       FlushLen, BulkFail

(* A step of other components leaves the invariant alone. *)
LEMMA BatcherStutterInv ==
  ASSUME BatcherInv, UNCHANGED batcherVars
  PROVE  BatcherInv'
BY DEF BatcherInv, BatcherTypeOK, PointerInBuffer, GaugeIsBufferLength,
       FlushLen, batcherVars

(* The empty batcher satisfies the invariant. *)
LEMMA BatcherInitInv == BatcherInit => BatcherInv
<1>. SUFFICES ASSUME BatcherInit
              PROVE  BatcherInv
  OBVIOUS
<1>1. BatcherTypeOK
  <2>1. buffer \in Seq(Row) /\ delivered \in Seq(Row)
    BY EmptySeq DEF BatcherInit
  <2>2. lastCommitted \in Int /\ gauge \in Nat
    BY DEF BatcherInit
  <2>3. sending \in BOOLEAN /\ pending = <<>>
    BY DEF BatcherInit
  <2>. QED
    BY <2>1, <2>2, <2>3 DEF BatcherTypeOK
<1>2. PointerInBuffer /\ GaugeIsBufferLength
  BY EmptySeq DEF BatcherInit, PointerInBuffer, GaugeIsBufferLength
<1>3. sending => FlushLen > 0
  BY DEF BatcherInit
<1>. QED
  BY <1>1, <1>2, <1>3 DEF BatcherInv

(* Every step of the batcher preserves the invariant. *)
LEMMA BatcherNextInv == BatcherInv /\ [BatcherNext]_batcherVars => BatcherInv'
<1>. SUFFICES ASSUME BatcherInv, [BatcherNext]_batcherVars
              PROVE  BatcherInv'
  OBVIOUS
<1>0. 1..MaxRows \subseteq Nat
  BY BatcherAssumption
<1>1. CASE \E row \in Row : Add(row)
  BY <1>1, AddInv
<1>2. CASE FinishAdd
  BY <1>2, FinishAddInv
<1>3. CASE \E n \in 1..MaxRows : CommitN(n)
  BY <1>0, <1>3, CommitNInv
<1>4. CASE \E n \in 1..MaxRows : RollbackN(n)
  BY <1>0, <1>4, RollbackNInv
<1>5. CASE Flush
  BY <1>5, FlushInv
<1>6. CASE BulkOk
  BY <1>6, BulkOkInv
<1>7. CASE BulkFail
  BY <1>7, BulkFailInv
<1>8. CASE UNCHANGED batcherVars
  BY <1>8, BatcherStutterInv
<1>. QED
  BY <1>1, <1>2, <1>3, <1>4, <1>5, <1>6, <1>7, <1>8 DEF BatcherNext

(* The invariant holds in every reachable state. *)
THEOREM BatcherInvariant == BatcherSpec => []BatcherInv
<1>. QED
  BY BatcherInitInv, BatcherNextInv, PTL DEF BatcherSpec

(* The variables keep their types under every mix of operations. *)
THEOREM BatcherTypeCorrect == BatcherSpec => []BatcherTypeOK
<1>1. BatcherInv => BatcherTypeOK
  BY DEF BatcherInv
<1>. QED
  BY <1>1, BatcherInvariant, PTL

(* flush() never slices outside the buffer: the commit pointer stays       *)
(* inside it under every mix of Add, CommitN, RollbackN and flushes.       *)
THEOREM PointerSafe == BatcherSpec => []PointerInBuffer
<1>1. BatcherInv => PointerInBuffer
  BY DEF BatcherInv
<1>. QED
  BY <1>1, BatcherInvariant, PTL

(* The buffer-size gauge is exact in every state: no path that changes the *)
(* buffer forgets to report it.                                            *)
THEOREM GaugeExact == BatcherSpec => []GaugeIsBufferLength
<1>1. BatcherInv => GaugeIsBufferLength
  BY DEF BatcherInv
<1>. QED
  BY <1>1, BatcherInvariant, PTL

------------------------------------------------------------------------------
(* Sequence facts the library does not state. *)

(* Sequences that agree stay in the prefix relation behind a common front. *)
LEMMA FrontOfConcat ==
  ASSUME NEW S, NEW d \in Seq(S), NEW x \in Seq(S), NEW y \in Seq(S),
         Len(x) <= Len(y), \A i \in 1..Len(x) : y[i] = x[i]
  PROVE  /\ Len(d \o x) <= Len(d \o y)
         /\ SubSeq(d \o y, 1, Len(d \o x)) = d \o x
<1>1. /\ d \o x \in Seq(S)
      /\ d \o y \in Seq(S)
      /\ Len(d \o x) = Len(d) + Len(x)
      /\ Len(d \o y) = Len(d) + Len(y)
      /\ Len(d) \in Nat /\ Len(x) \in Nat /\ Len(y) \in Nat
  BY ConcatProperties, LenProperties
<1>2. \A i \in 1..Len(d) + Len(y) : (d \o y)[i] \in S
  BY <1>1, ElementOfSeq
<1>3. \A i \in 1..Len(d) + Len(x) : (d \o y)[i] \in S
  BY <1>1, <1>2
<1>4. /\ SubSeq(d \o y, 1, Len(d) + Len(x)) \in Seq(S)
      /\ Len(SubSeq(d \o y, 1, Len(d) + Len(x))) = Len(d) + Len(x)
  BY <1>1, <1>3, SubSeqProperties
<1>5. ASSUME NEW i \in 1..Len(d) + Len(x)
      PROVE  SubSeq(d \o y, 1, Len(d) + Len(x))[i] = (d \o x)[i]
  <2>1. SubSeq(d \o y, 1, Len(d) + Len(x))[i] = (d \o y)[i]
    BY <1>1, <1>3, <1>4, SubSeqProperties
  <2>2. CASE i <= Len(d)
    BY <1>1, <2>1, <2>2, ConcatProperties
  <2>3. CASE i > Len(d)
    <3>1. i - Len(d) \in 1..Len(x)
      BY <1>1, <2>3
    <3>2. (d \o y)[i] = y[i - Len(d)] /\ (d \o x)[i] = x[i - Len(d)]
      BY <1>1, <2>3, ConcatProperties
    <3>. QED
      BY <2>1, <3>1, <3>2
  <2>. QED
    BY <1>1, <2>2, <2>3
<1>. QED
  BY <1>1, <1>4, <1>5, SeqEqual

------------------------------------------------------------------------------
(* Committed rows stay. *)

(* What a rollback leaves of the buffer. *)
LEMMA RollbackShape ==
  ASSUME BatcherInv, NEW n \in Nat, RollbackN(n)
  PROVE  \E left \in FlushLen..Len(buffer) :
           /\ buffer' = SubSeq(buffer, 1, left)
           /\ n > 0 => left < Len(buffer)
<1>1. Len(buffer) \in Nat
  BY LenProperties DEF BatcherInv, BatcherTypeOK
<1>. QED
  BY <1>1 DEF BatcherInv, BatcherTypeOK, PointerInBuffer, FlushLen, RollbackN

(* The pointer behind n committed rows is in the range of the buffer. *)
LEMMA SuccInRange ==
  ASSUME NEW i \in Int, NEW n \in Nat, i >= -1, i < n
  PROVE  i + 1 \in 0..n
OBVIOUS

(* The committed prefix is a prefix of the buffer, before and after a step.*)
LEMMA FlushLenRange ==
  /\ BatcherInv => FlushLen \in 0..Len(buffer)
  /\ BatcherInv' => FlushLen' \in 0..Len(buffer')
<1>1. BatcherInv => FlushLen \in 0..Len(buffer)
  BY LenProperties DEF BatcherInv, BatcherTypeOK, PointerInBuffer, FlushLen
<1>2. ASSUME BatcherInv'
      PROVE  FlushLen' \in 0..Len(buffer')
  <2>1. lastCommitted' \in Int /\ Len(buffer') \in Nat
    BY <1>2, LenProperties DEF BatcherInv, BatcherTypeOK
  <2>2. lastCommitted' >= -1 /\ lastCommitted' < Len(buffer')
    BY <1>2 DEF BatcherInv, PointerInBuffer
  <2>3. FlushLen' = lastCommitted' + 1
    BY DEF FlushLen
  <2>4. lastCommitted' + 1 \in 0..Len(buffer')
    BY <2>1, <2>2, SuccInRange
  <2>. QED
    BY <2>3, <2>4
<1>. QED
  BY <1>1, <1>2

(* An operation that leaves `delivered' alone and keeps the committed rows *)
(* where they are in the buffer only extends the history.                  *)
LEMMA HistoryExtends ==
  ASSUME BatcherInv, BatcherInv', delivered' = delivered,
         FlushLen <= FlushLen',
         \A i \in 1..FlushLen : buffer'[i] = buffer[i]
  PROVE  /\ Len(History) <= Len(History')
         /\ SubSeq(History', 1, Len(History)) = History
<1>1. /\ buffer \in Seq(Row) /\ Len(buffer) \in Nat
      /\ buffer' \in Seq(Row) /\ Len(buffer') \in Nat
      /\ delivered \in Seq(Row)
  BY LenProperties DEF BatcherInv, BatcherTypeOK
<1>2. FlushLen \in 0..Len(buffer) /\ FlushLen' \in 0..Len(buffer')
  BY FlushLenRange
<1>3. /\ Committed \in Seq(Row)
      /\ Len(Committed) = FlushLen
      /\ \A i \in 1..FlushLen : Committed[i] = buffer[i]
  BY <1>1, <1>2, CutOfSeq DEF Committed
<1>4. /\ Committed' \in Seq(Row)
      /\ Len(Committed') = FlushLen'
      /\ \A i \in 1..FlushLen' : Committed'[i] = buffer'[i]
  BY <1>1, <1>2, CutOfSeq DEF Committed
<1>5. \A i \in 1..FlushLen : Committed'[i] = Committed[i]
  BY <1>2, <1>3, <1>4
<1>. QED
  BY <1>1, <1>2, <1>3, <1>4, <1>5, FrontOfConcat DEF History

(* A confirmed request moves the committed rows and keeps their history. *)
LEMMA BulkOkKeepsHistory ==
  ASSUME BatcherInv, BulkOk
  PROVE  History' = History
<1>1. /\ Committed \in Seq(Row)
      /\ delivered \in Seq(Row)
      /\ delivered \o Committed \in Seq(Row)
  BY CutAtPointer, ConcatProperties DEF BatcherInv, BatcherTypeOK
<1>2. FlushLen' = 0
  BY DEF BulkOk, FlushLen
<1>3. Committed' = <<>>
  BY <1>2, SubSeqEmpty DEF Committed
<1>4. delivered' = delivered \o Committed
  BY DEF BulkOk
<1>. QED
  BY <1>1, <1>3, <1>4, ConcatEmptySeq DEF History

(* Where FlushLen points and what it covers, per operation. *)
LEMMA StepKeepsHistory ==
  ASSUME BatcherInv, BatcherInv', [BatcherNext]_batcherVars
  PROVE  /\ Len(History) <= Len(History')
         /\ SubSeq(History', 1, Len(History)) = History
<1>0. /\ 1..MaxRows \subseteq Nat
      /\ buffer \in Seq(Row) /\ Len(buffer) \in Nat
      /\ FlushLen \in 0..Len(buffer)
  BY BatcherAssumption, CutAtPointer, LenProperties DEF BatcherInv, BatcherTypeOK
<1>1. ASSUME UNCHANGED <<delivered, buffer, lastCommitted>>
      PROVE  /\ Len(History) <= Len(History')
             /\ SubSeq(History', 1, Len(History)) = History
  BY <1>0, <1>1, HistoryExtends DEF FlushLen
<1>2. CASE FinishAdd
  <2>1. PICK row \in Row : pending = <<row>>
    BY <1>2 DEF BatcherInv, BatcherTypeOK, FinishAdd
  <2>2. \A i \in 1..Len(buffer) : buffer'[i] = buffer[i]
    BY <1>0, <1>2, <2>1, ConcatProperties DEF FinishAdd
  <2>3. delivered' = delivered /\ FlushLen' = FlushLen
    BY <1>2 DEF FinishAdd, FlushLen
  <2>. QED
    BY <1>0, <2>2, <2>3, HistoryExtends
<1>3. CASE \E n \in 1..MaxRows : CommitN(n)
  <2>1. PICK n \in Nat : CommitN(n)
    BY <1>0, <1>3
  <2>2. delivered' = delivered /\ buffer' = buffer /\ FlushLen <= FlushLen'
    BY <1>0, <2>1 DEF CommitN, FlushLen, BatcherInv, BatcherTypeOK
  <2>. QED
    BY <2>2, HistoryExtends
<1>4. CASE \E n \in 1..MaxRows : RollbackN(n)
  <2>1. PICK n \in Nat : RollbackN(n)
    BY <1>0, <1>4
  <2>2. PICK left \in FlushLen..Len(buffer) : buffer' = SubSeq(buffer, 1, left)
    BY <2>1, RollbackShape
  <2>3. left \in 0..Len(buffer) /\ FlushLen <= left
    BY <1>0
  <2>4. \A i \in 1..left : buffer'[i] = buffer[i]
    BY <1>0, <2>2, <2>3, CutOfSeq
  <2>5. delivered' = delivered /\ FlushLen' = FlushLen
    BY <2>1 DEF RollbackN, FlushLen
  <2>. QED
    BY <1>0, <2>3, <2>4, <2>5, HistoryExtends
<1>5. CASE BulkOk
  <2>1. History' = History
    BY <1>5, BulkOkKeepsHistory
  <2>2. History \in Seq(Row)
    BY CutAtPointer, ConcatProperties DEF BatcherInv, BatcherTypeOK, History
  <2>. QED
    BY <2>1, <2>2, SubSeqFull, LenProperties
<1>6. CASE \/ \E row \in Row : Add(row)
           \/ Flush
           \/ BulkFail
           \/ UNCHANGED batcherVars
  <2>1. UNCHANGED <<delivered, buffer, lastCommitted>>
    BY <1>6 DEF Add, Flush, BulkFail, batcherVars
  <2>. QED
    BY <1>1, <2>1
<1>. QED
  BY <1>2, <1>3, <1>4, <1>5, <1>6 DEF BatcherNext

(* No committed row is ever dropped, reordered or rolled back, whatever    *)
(* flushes, failed flushes and rollbacks follow its commit.                *)
THEOREM CommittedRowsSafe == BatcherSpec => CommittedRowsStay
<1>1. BatcherInv /\ BatcherInv' /\ [BatcherNext]_batcherVars
        => [/\ Len(History) <= Len(History')
            /\ SubSeq(History', 1, Len(History)) = History]_batcherVars
  BY StepKeepsHistory
<1>. QED
  BY <1>1, BatcherInvariant, PTL DEF BatcherSpec, CommittedRowsStay

------------------------------------------------------------------------------
(* The batcher implements the commit log. *)

(* The log behind the confirmed rows can be cut in the buffer. *)
LEMMA CutBehindFront ==
  ASSUME NEW S, NEW d \in Seq(S), NEW s \in Seq(S), NEW n \in 0..Len(s)
  PROVE  SubSeq(d \o s, 1, Len(d) + n) = d \o SubSeq(s, 1, n)
<1>1. /\ SubSeq(s, 1, n) \in Seq(S)
      /\ Len(SubSeq(s, 1, n)) = n
      /\ \A i \in 1..n : SubSeq(s, 1, n)[i] = s[i]
      /\ n <= Len(s)
  BY CutOfSeq, LenProperties
<1>2. SubSeq(d \o s, 1, Len(d \o SubSeq(s, 1, n))) = d \o SubSeq(s, 1, n)
  BY <1>1, FrontOfConcat
<1>3. Len(d \o SubSeq(s, 1, n)) = Len(d) + n
  BY <1>1, ConcatProperties
<1>. QED
  BY <1>2, <1>3

(* The empty batcher is the empty log. *)
LEMMA RefinesInit == BatcherInit => CL!Init
<1>. SUFFICES ASSUME BatcherInit
              PROVE  CL!Init
  OBVIOUS
<1>1. delivered \o buffer = <<>> /\ Len(delivered) = 0
  BY EmptySeq, ConcatEmptySeq DEF BatcherInit
<1>2. FlushLen = 0
  BY DEF BatcherInit, FlushLen
<1>. QED
  BY <1>1, <1>2 DEF CL!Init

(* Sizes of the abstract log in a state of the batcher. *)
LEMMA LogSizes ==
  ASSUME BatcherInv
  PROVE  /\ delivered \in Seq(Row) /\ Len(delivered) \in Nat
         /\ buffer \in Seq(Row) /\ Len(buffer) \in Nat
         /\ delivered \o buffer \in Seq(Row)
         /\ Len(delivered \o buffer) = Len(delivered) + Len(buffer)
         /\ FlushLen \in 0..Len(buffer)
<1>1. /\ delivered \in Seq(Row) /\ Len(delivered) \in Nat
      /\ buffer \in Seq(Row) /\ Len(buffer) \in Nat
  BY LenProperties DEF BatcherInv, BatcherTypeOK
<1>. QED
  BY <1>1, ConcatProperties, FlushLenRange

(* Appending a row after Add adds it to the log. *)
LEMMA RefinesFinishAdd ==
  ASSUME BatcherInv, FinishAdd
  PROVE  \E row \in Row : CL!AddRow(row)
<1>1. PICK row \in Row : pending = <<row>>
  BY DEF BatcherInv, BatcherTypeOK, FinishAdd
<1>2. <<row>> \in Seq(Row)
  OBVIOUS
<1>3. delivered' \o buffer' = Append(delivered \o buffer, row)
  <2>1. delivered' \o buffer' = delivered \o (buffer \o <<row>>)
    BY <1>1 DEF FinishAdd
  <2>2. delivered \o (buffer \o <<row>>) = (delivered \o buffer) \o <<row>>
    BY <1>2, LogSizes, ConcatAssociative
  <2>3. (delivered \o buffer) \o <<row>> = Append(delivered \o buffer, row)
    BY LogSizes, AppendIsConcat
  <2>. QED
    BY <2>1, <2>2, <2>3
<1>4. delivered' = delivered /\ FlushLen' = FlushLen
  BY DEF FinishAdd, FlushLen
<1>. QED
  BY <1>3, <1>4 DEF CL!AddRow

(* CommitN moves the commit cursor forward, or leaves it alone when every  *)
(* row was committed already.                                              *)
LEMMA RefinesCommitN ==
  ASSUME BatcherInv, NEW n \in Nat, CommitN(n)
  PROVE  [CL!Next]_CL!vars
<1>1. delivered' = delivered /\ buffer' = buffer
  BY DEF CommitN
<1>2. FlushLen' \in FlushLen..Len(buffer)
  BY LogSizes DEF CommitN, FlushLen, BatcherInv, BatcherTypeOK
<1>3. CASE FlushLen' = FlushLen
  BY <1>1, <1>3 DEF CL!vars
<1>4. CASE FlushLen' # FlushLen
  <2>1. Len(delivered) + FlushLen'
          \in Len(delivered) + FlushLen + 1 .. Len(delivered \o buffer)
    BY <1>2, <1>4, LogSizes
  <2>2. CL!CommitRows(Len(delivered) + FlushLen')
    BY <1>1 DEF CL!CommitRows
  <2>. QED
    BY <2>1, <2>2 DEF CL!Next
<1>. QED
  BY <1>3, <1>4

(* RollbackN withdraws rows behind the commit cursor, and only those. *)
LEMMA RefinesRollbackN ==
  ASSUME BatcherInv, NEW n \in Nat \ {0}, RollbackN(n)
  PROVE  CL!Next
<1>1. PICK left \in FlushLen..Len(buffer) :
        buffer' = SubSeq(buffer, 1, left) /\ left < Len(buffer)
  BY RollbackShape
<1>2. left \in 0..Len(buffer) /\ FlushLen <= left
  BY <1>1, LogSizes
<1>3. delivered' = delivered /\ FlushLen' = FlushLen
  BY DEF RollbackN, FlushLen
<1>4. delivered' \o buffer' = SubSeq(delivered \o buffer, 1, Len(delivered) + left)
  BY <1>1, <1>2, <1>3, LogSizes, CutBehindFront
<1>5. Len(delivered) + left
        \in Len(delivered) + FlushLen .. Len(delivered \o buffer) - 1
  BY <1>1, <1>2, LogSizes
<1>6. CL!WithdrawRows(Len(delivered) + left)
  BY <1>3, <1>4 DEF CL!WithdrawRows
<1>. QED
  BY <1>5, <1>6 DEF CL!Next

(* An answered request confirms every committed row at once. *)
LEMMA RefinesBulkOk ==
  ASSUME BatcherInv, BulkOk
  PROVE  CL!Confirm
<1>1. /\ Committed \in Seq(Row) /\ Len(Committed) = FlushLen
      /\ Uncommitted \in Seq(Row)
      /\ Committed \o Uncommitted = buffer
  BY CutAtPointer DEF BatcherInv
<1>2. delivered' \o buffer' = delivered \o buffer
  <2>1. delivered' \o buffer' = (delivered \o Committed) \o Uncommitted
    BY DEF BulkOk
  <2>2. (delivered \o Committed) \o Uncommitted
          = delivered \o (Committed \o Uncommitted)
    <3>1. /\ delivered \in Seq(Row)
          /\ Committed \in Seq(Row)
          /\ Uncommitted \in Seq(Row)
      BY <1>1, LogSizes
    <3>. QED
      BY <3>1, ConcatAssociative
  <2>. QED
    BY <1>1, <2>1, <2>2
<1>3. Len(delivered') = Len(delivered) + FlushLen
  BY <1>1, LogSizes, ConcatProperties DEF BulkOk
<1>4. FlushLen' = 0 /\ FlushLen > 0
  BY DEF BulkOk, FlushLen, BatcherInv
<1>5. Len(delivered') + FlushLen' = Len(delivered) + FlushLen
  BY <1>3, <1>4, LogSizes
<1>6. Len(delivered) < Len(delivered) + FlushLen
  BY <1>4, LogSizes
<1>. QED
  BY <1>2, <1>3, <1>5, <1>6 DEF CL!Confirm

(* Every step of the batcher is a step of the log or a stutter. *)
LEMMA RefinesNext ==
  ASSUME BatcherInv, [BatcherNext]_batcherVars
  PROVE  [CL!Next]_CL!vars
<1>1. CASE \E row \in Row : Add(row)
  BY <1>1 DEF Add, FlushLen, CL!vars
<1>2. CASE FinishAdd
  BY <1>2, RefinesFinishAdd DEF CL!Next
<1>3. CASE \E n \in 1..MaxRows : CommitN(n)
  BY <1>3, RefinesCommitN, BatcherAssumption
<1>4. CASE \E n \in 1..MaxRows : RollbackN(n)
  BY <1>4, RefinesRollbackN, BatcherAssumption
<1>5. CASE BulkOk
  BY <1>5, RefinesBulkOk DEF CL!Next
<1>6. CASE Flush \/ BulkFail \/ UNCHANGED batcherVars
  BY <1>6 DEF Flush, BulkFail, batcherVars, FlushLen, CL!vars
<1>. QED
  BY <1>1, <1>2, <1>3, <1>4, <1>5, <1>6 DEF BatcherNext

(* The batcher implements the commit log: buffering, slicing, locking and  *)
(* failed requests never lose, duplicate, reorder or withdraw a committed  *)
(* row, and never confirm an uncommitted one.                              *)
THEOREM BatcherRefinesCommitLog == BatcherSpec => ImplementsCommitLog
<1>. QED
  BY RefinesInit, RefinesNext, BatcherInvariant, PTL
     DEF BatcherSpec, ImplementsCommitLog, CL!Spec
==============================================================================

-------------------------- MODULE FlushLoopProofs --------------------------
(***************************************************************************)
(* Theorems about the flush loop, for every configured interval and size,  *)
(* every bound on requests and every set of rows: no committed row waits   *)
(* for twice the interval.                                                 *)
(***************************************************************************)
EXTENDS FlushLoop, BatcherProofs

(* Validate leaves no interval at which the loop would not run. *)
LEMMA TimeoutPositive == FlushTimeout \in Nat \ {0} /\ LoopRuns
BY FlushLoopAssumption, SettingsAssumption DEF FlushTimeout, ValidInterval, LoopRuns

(* The clocks stay in their ranges. *)
ClocksOK ==
  /\ idle \in 0..FlushTimeout + 1
  /\ tickIn \in 1..FlushTimeout
  /\ ticked \in BOOLEAN
  /\ loop \in {"waits", "due", "flushes"}
  /\ asking \in 0..MaxRequest
  /\ waiting \in 0..2 * FlushTimeout

(* Rows wait only while there are some and no request carries them, and    *)
(* no longer than since the last flush.  Until the next tick they will     *)
(* have waited for less than two intervals: a tick that finds the idle     *)
(* time too short leaves rows that have waited for less than one.  A tick  *)
(* the loop has taken waits for the mutex as one in the channel does.      *)
WaitInv ==
  /\ loop = "flushes" => sending
  /\ FlushLen <= 0 \/ sending => waiting = 0
  /\ waiting <= idle \/ FlushTimeout <= idle
  /\ ~sending /\ FlushLen > 0 =>
       IF ticked \/ loop = "due"
       THEN waiting < 2 * FlushTimeout ELSE waiting + tickIn < 2 * FlushTimeout

(* The inductive invariant. *)
LoopInv == ClocksOK /\ WaitInv

(* Every step of the loop, of its callers and of time is a step of the     *)
(* batcher or leaves it alone.                                             *)
LEMMA FlushLoopStep == [FlushLoopNext]_flushLoopVars => [BatcherNext]_batcherVars
<1>. SUFFICES ASSUME [FlushLoopNext]_flushLoopVars
              PROVE  [BatcherNext]_batcherVars
  OBVIOUS
<1>1. CASE AddCall \/ FinishAddCall \/ CommitCall \/ RollbackCall \/ FlushCall
  BY <1>1 DEF AddCall, FinishAddCall, CommitCall, RollbackCall, FlushCall, Call, BatcherNext
<1>2. CASE TakeTick \/ HandleTick
  BY <1>2 DEF TakeTick, HandleTick, BatcherNext
<1>3. CASE RequestSucceeds \/ RequestFails
  BY <1>3 DEF RequestSucceeds, RequestFails, BatcherNext
<1>4. CASE TimePasses \/ UNCHANGED flushLoopVars
  BY <1>4 DEF TimePasses, flushLoopVars
<1>. QED
  BY <1>1, <1>2, <1>3, <1>4 DEF FlushLoopNext

(* So what is proved of the batcher without time holds with its timer. *)
LEMMA FlushLoopIsBatcher == FlushLoopSpec => BatcherSpec
<1>1. FlushLoopInit => BatcherInit
  BY DEF FlushLoopInit
<1>. QED
  BY <1>1, FlushLoopStep, PTL DEF FlushLoopSpec, BatcherSpec

(* A call leaves the clocks alone, but for rows that are now under way. *)
LEMMA CallKeepsInv ==
  ASSUME LoopInv, BatcherInv,
         AddCall \/ FinishAddCall \/ CommitCall \/ RollbackCall \/ FlushCall
  PROVE  LoopInv'
<1>1. /\ UNCHANGED <<idle, tickIn, ticked, loop>>
      /\ asking' = 0
      /\ waiting' = IF sending' THEN 0 ELSE waiting
  BY DEF AddCall, FinishAddCall, CommitCall, RollbackCall, FlushCall, Call
<1>2. ~sending
  BY DEF AddCall, FinishAddCall, CommitCall, RollbackCall, FlushCall, Call,
         Add, FinishAdd, CommitN, RollbackN, Flush, Locked
<1>3. Len(buffer) \in Nat /\ lastCommitted \in Int /\ lastCommitted < Len(buffer)
  BY LenProperties DEF BatcherInv, BatcherTypeOK, PointerInBuffer
<1>4. FlushLen \in Int /\ FlushLen' \in Int /\ (FlushLen' > 0 \/ FlushLen' = FlushLen)
  <2>1. CASE CommitCall
    <3>1. PICK n \in 1..MaxRows : CommitN(n)
      BY <2>1 DEF CommitCall, Call
    <3>2. n \in Nat \ {0} /\ lastCommitted >= -1
      BY BatcherAssumption DEF BatcherInv, PointerInBuffer
    <3>3. lastCommitted' = IF lastCommitted + n < Len(buffer)
                           THEN lastCommitted + n ELSE Len(buffer) - 1
      BY <3>1 DEF CommitN
    <3>. QED
      BY <3>2, <3>3, <1>3 DEF FlushLen
  <2>2. CASE AddCall \/ FinishAddCall \/ RollbackCall \/ FlushCall
    <3>1. lastCommitted' = lastCommitted
      BY <2>2 DEF AddCall, FinishAddCall, RollbackCall, FlushCall, Call,
                  Add, FinishAdd, RollbackN, Flush
    <3>. QED
      BY <3>1, <1>3 DEF FlushLen
  <2>. QED
    BY <2>1, <2>2
<1>5. ClocksOK'
  BY <1>1, FlushLoopAssumption, TimeoutPositive DEF LoopInv, ClocksOK
<1>6. WaitInv'
  <2>1. CASE sending'
    BY <2>1, <1>1, TimeoutPositive DEF LoopInv, ClocksOK, WaitInv
  <2>2. CASE ~sending'
    BY <2>2, <1>1, <1>2, <1>4, TimeoutPositive DEF LoopInv, ClocksOK, WaitInv
  <2>. QED
    BY <2>1, <2>2
<1>. QED
  BY <1>5, <1>6 DEF LoopInv

(* The loop takes the tick out of the channel: nothing else moves. *)
LEMMA TakeKeepsInv ==
  ASSUME LoopInv, BatcherInv, TakeTick
  PROVE  LoopInv'
<1>1. /\ ticked /\ loop' = "due" /\ ticked' = FALSE
      /\ UNCHANGED <<sending, FlushLen, idle, tickIn, asking, waiting>>
  BY DEF TakeTick, batcherVars, FlushLen
<1>. QED
  BY <1>1 DEF LoopInv, ClocksOK, WaitInv

(* A tick: rows it leaves are younger than the interval. *)
LEMMA TickKeepsInv ==
  ASSUME LoopInv, BatcherInv, HandleTick
  PROVE  LoopInv'
<1>1. ~sending /\ UNCHANGED <<idle, tickIn, ticked>>
  BY DEF HandleTick, Locked
<1>2. FlushLen \in Int /\ FlushLen' = FlushLen
  BY DEF HandleTick, Flush, batcherVars, FlushLen, BatcherInv, BatcherTypeOK
<1>3. CASE idle >= FlushTimeout /\ FlushLen > 0
  <2>1. asking' = 0 /\ waiting' = 0 /\ sending' /\ loop' = "flushes"
    BY <1>3 DEF HandleTick, Flush
  <2>2. ClocksOK'
    <3>1. 0 \in 0..MaxRequest /\ 0 \in 0..2 * FlushTimeout
      BY TimeoutPositive, FlushLoopAssumption
    <3>. QED
      BY <2>1, <1>1, <3>1 DEF LoopInv, ClocksOK
  <2>3. WaitInv'
    BY <2>1, <1>1, TimeoutPositive DEF LoopInv, ClocksOK, WaitInv
  <2>. QED
    BY <2>2, <2>3 DEF LoopInv
<1>4. CASE ~(idle >= FlushTimeout /\ FlushLen > 0)
  <2>1. UNCHANGED <<asking, waiting, sending>> /\ loop' = "waits"
    BY <1>4 DEF HandleTick, batcherVars
  <2>2. ClocksOK'
    BY <2>1, <1>1 DEF LoopInv, ClocksOK
  <2>3. FlushLen > 0 /\ ~sending => waiting < FlushTimeout
    BY <1>4, <1>2, TimeoutPositive DEF LoopInv, ClocksOK, WaitInv
  <2>4. WaitInv'
    BY <2>1, <2>3, <1>1, <1>2, TimeoutPositive DEF LoopInv, ClocksOK, WaitInv
  <2>. QED
    BY <2>2, <2>4 DEF LoopInv
<1>. QED
  BY <1>3, <1>4

(* An answer: no committed rows are left, or those that are wait anew. *)
LEMMA AnswerKeepsInv ==
  ASSUME LoopInv, BatcherInv, RequestSucceeds \/ RequestFails
  PROVE  LoopInv'
<1>1. /\ sending /\ sending' = FALSE
      /\ asking' = 0
      /\ idle' = 0 \/ idle' = idle
      /\ loop' = IF loop = "flushes" THEN "waits" ELSE loop
      /\ UNCHANGED <<tickIn, ticked, waiting>>
  BY DEF RequestSucceeds, RequestFails, Answered, BulkOk, BulkFail
<1>. QED
  BY <1>1, TimeoutPositive, FlushLoopAssumption DEF LoopInv, ClocksOK, WaitInv

(* A unit of time: what is waited more is nearer to the tick, and rows do  *)
(* not wait while the mutex keeps a tick waiting.                          *)
LEMMA TimeKeepsInv ==
  ASSUME LoopInv, BatcherInv, TimePasses
  PROVE  LoopInv'
<1>1. /\ UNCHANGED <<sending, FlushLen, loop>>
      /\ ticked => loop # "waits"
      /\ loop = "due" => sending
      /\ FlushLen \in Int
  BY DEF TimePasses, batcherVars, FlushLen, Locked, BatcherInv, BatcherTypeOK
<1>2. idle' = IF idle + 1 < FlushTimeout + 1 THEN idle + 1 ELSE FlushTimeout + 1
  BY DEF TimePasses, AtMost
<1>3. IF tickIn = 1 THEN tickIn' = FlushTimeout /\ ticked' = TRUE
                    ELSE tickIn' = tickIn - 1 /\ ticked' = ticked
  BY TimeoutPositive DEF TimePasses
<1>4. asking' \in 0..MaxRequest
  BY FlushLoopAssumption DEF TimePasses, LoopInv, ClocksOK
<1>5. waiting' = IF FlushLen > 0 /\ ~sending
                 THEN IF waiting + 1 < 2 * FlushTimeout THEN waiting + 1 ELSE 2 * FlushTimeout
                 ELSE waiting
  BY DEF TimePasses, AtMost
<1>6. ClocksOK'
  <2>1. idle' \in 0..FlushTimeout + 1
    BY <1>2, TimeoutPositive DEF LoopInv, ClocksOK
  <2>2. tickIn' \in 1..FlushTimeout
    BY <1>3, TimeoutPositive DEF LoopInv, ClocksOK
  <2>4. ticked' \in BOOLEAN
    BY <1>3 DEF LoopInv, ClocksOK
  <2>3. waiting' \in 0..2 * FlushTimeout
    BY <1>5, TimeoutPositive DEF LoopInv, ClocksOK
  <2>5. loop' \in {"waits", "due", "flushes"}
    BY <1>1 DEF LoopInv, ClocksOK
  <2>. QED
    BY <2>1, <2>2, <2>3, <2>4, <2>5, <1>4 DEF ClocksOK
<1>7. WaitInv'
  BY <1>1, <1>2, <1>3, <1>5, TimeoutPositive DEF LoopInv, ClocksOK, WaitInv
<1>. QED
  BY <1>6, <1>7 DEF LoopInv

(* The invariant holds in every reachable state. *)
THEOREM LoopInvariant == FlushLoopSpec => []LoopInv
<1>1. FlushLoopInit => LoopInv
  <2>1. FlushLoopInit => ClocksOK
    <3>1. /\ 0 \in 0..FlushTimeout + 1
          /\ FlushTimeout \in 1..FlushTimeout
          /\ 0 \in 0..MaxRequest
          /\ 0 \in 0..2 * FlushTimeout
      BY TimeoutPositive, FlushLoopAssumption
    <3>. QED
      BY <3>1 DEF FlushLoopInit, ClocksOK
  <2>2. FlushLoopInit => WaitInv
    BY TimeoutPositive DEF FlushLoopInit, BatcherInit, WaitInv, FlushLen
  <2>. QED
    BY <2>1, <2>2 DEF LoopInv
<1>2. LoopInv /\ BatcherInv /\ [FlushLoopNext]_flushLoopVars => LoopInv'
  <2>. SUFFICES ASSUME LoopInv, BatcherInv, [FlushLoopNext]_flushLoopVars
                PROVE  LoopInv'
    OBVIOUS
  <2>1. CASE UNCHANGED flushLoopVars
    BY <2>1 DEF flushLoopVars, batcherVars, loopVars, LoopInv, ClocksOK, WaitInv, FlushLen
  <2>2. CASE FlushLoopNext
    BY <2>2, CallKeepsInv, TakeKeepsInv, TickKeepsInv, AnswerKeepsInv, TimeKeepsInv DEF FlushLoopNext
  <2>. QED
    BY <2>1, <2>2
<1>3. FlushLoopSpec => []BatcherInv
  BY FlushLoopIsBatcher, BatcherInvariant
<1>. QED
  BY <1>1, <1>2, <1>3, PTL DEF FlushLoopSpec

(* The clocks and the batcher keep their types. *)
THEOREM FlushLoopTypeCorrect == FlushLoopSpec => []FlushLoopTypeOK
<1>1. LoopInv /\ BatcherInv => FlushLoopTypeOK
  BY TimeoutPositive DEF LoopInv, ClocksOK, BatcherInv, FlushLoopTypeOK
<1>2. FlushLoopSpec => []BatcherInv
  BY FlushLoopIsBatcher, BatcherInvariant
<1>. QED
  BY <1>1, <1>2, LoopInvariant, PTL

(* Committed rows wait less than twice the interval for a request, for     *)
(* every configured interval, size and length of requests.                 *)
THEOREM WaitIsBounded == FlushLoopSpec => []WaitBounded
<1>1. LoopInv /\ BatcherInv => WaitBounded
  BY TimeoutPositive DEF LoopInv, ClocksOK, WaitInv, WaitBounded, FlushLen, BatcherInv, BatcherTypeOK
<1>2. FlushLoopSpec => []BatcherInv
  BY FlushLoopIsBatcher, BatcherInvariant
<1>. QED
  BY <1>1, <1>2, LoopInvariant, PTL
==============================================================================

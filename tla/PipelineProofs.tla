--------------------------- MODULE PipelineProofs ---------------------------
(***************************************************************************)
(* Theorems about the whole process, for every WAL, every set of faults    *)
(* and every number of runs: order, completeness, transactions as a whole, *)
(* and the position that is reported to PostgreSQL.                        *)
(***************************************************************************)
EXTENDS Pipeline, BatcherProofs

(* What was handed to the batcher, and how much of it is committed there. *)
Log == delivered \o buffer
Marked == Len(delivered) + FlushLen

(* The reader works on a message of a kind. *)
Has(kind) == hand # <<>> /\ hand[1].kind = kind

(* The commit of the transaction whose changes are not committed in the    *)
(* batcher yet.                                                            *)
OpenLsn == IF Has("commit") THEN hand[1].pos ELSE sent + 1

(* The walsender has sent the change in this run. *)
SentInRun(row) ==
  /\ startPos < CommitLsn[row]
  /\ CommitLsn[row] <= sent \/ (CommitLsn[row] = sent + 1 /\ row <= upto)

LogOrdered ==
  \A i, j \in 1..Len(Log) : i < j => Before(Log[i], Log[j])

LogUsable == \A i \in 1..Len(Log) : Log[i] \in Usable

TailCounted == adds = Len(Log) - Marked

(* The first n rows are whole transactions. *)
WholeTxns(n) ==
  \A i \in 1..n, row \in Usable :
    CommitLsn[row] = CommitLsn[Log[i]] => \E j \in 1..n : Log[j] = row

TxnsComplete == WholeTxns(Len(delivered)) /\ WholeTxns(Marked)

DeliveredWritten ==
  \A i \in 1..Len(delivered) :
    /\ CommitLsn[Log[i]] <= walEnd
    /\ phase = "ready" => CommitLsn[Log[i]] <= xLogPos

Positions ==
  /\ confirmed <= walEnd /\ sent <= walEnd /\ xLogPos <= walEnd
  /\ out # "nothing" => sent < walEnd
  /\ out # "changes" => upto = 0
  /\ InSession => startPos <= sent /\ xLogPos < OpenLsn

(* Outside of a session nothing is under way. *)
Quiet ==
  ~InSession =>
    /\ buffer = <<>> /\ pending = <<>> /\ FlushLen = 0 /\ ~sending
    /\ hand = <<>> /\ ~reader /\ ~streaming /\ out = "nothing"

(* A message in the reader's hand, as it relates to the walsender and to   *)
(* what the batcher has.                                                   *)
BeginFits ==
  Has("begin") => /\ out = "changes" /\ upto = 0
                  /\ hand[1].pos <= sent
                  /\ Marked = Len(Log)

ChangeFits ==
  Has("change") => /\ out = "changes" /\ upto = hand[1].pos + 1
                   /\ upto \in Row /\ CommitLsn[upto] = sent + 1
                   /\ \A i \in 1..Len(Log) : Before(Log[i], upto)

CommitFits ==
  Has("commit") => /\ out # "changes"
                   /\ startPos < hand[1].pos /\ hand[1].pos <= sent
                   /\ \A row \in Row : CommitLsn[row] <= hand[1].pos
                                       \/ sent < CommitLsn[row]

KeepaliveFits == Has("keepalive") => hand[1].pos <= sent

PendingFits ==
  pending # <<>> => Has("change") /\ upto \in Usable /\ pending = <<upto>>

HandFits == BeginFits /\ ChangeFits /\ CommitFits /\ KeepaliveFits /\ PendingFits

(* The log of a session: what was delivered before it, all that was sent   *)
(* in it, and at its end the changes of the open transaction.              *)
OldRows ==
  /\ base <= Len(delivered)
  /\ \A i \in 1..base : CommitLsn[Log[i]] <= startPos

NewRows == \A i \in base + 1 .. Len(Log) : SentInRun(Log[i])

NothingMissing ==
  \A row \in Usable : SentInRun(row) => InSeq(row, Log) \/ (Has("change") /\ row = upto)

TailIsOpen ==
  /\ \A i \in 1..Marked : CommitLsn[Log[i]] < OpenLsn
  /\ \A i \in Marked + 1 .. Len(Log) : CommitLsn[Log[i]] = OpenLsn
  /\ Marked < Len(Log) => Has("commit") \/ out = "changes"

SessionLog == InSession => OldRows /\ NewRows /\ NothingMissing /\ TailIsOpen

(* What was owed when the signal came is in the log, and delivered by the  *)
(* final flush.                                                            *)
OwedCommitted ==
  /\ ctxDone => owed <= Marked
  /\ phase \in {"flushing", "closing"} => ctxDone
  /\ phase = "flushing" => sending
  /\ SignalledRowsFlushed

(* The inductive invariant. *)
PipelineInv ==
  /\ BatcherInv
  /\ PipelineTypeOK
  /\ LogOrdered /\ LogUsable /\ TailCounted /\ TxnsComplete
  /\ DeliveredWritten /\ Positions /\ Quiet /\ HandFits
  /\ SessionLog
  /\ OwedCommitted

------------------------------------------------------------------------------
(* The order of the changes. *)

(* A change stands in the WAL before the commit of its transaction, and    *)
(* changes of one transaction share that commit.                           *)
LEMMA CommitLsnFacts ==
  /\ Len(Wal) \in Nat
  /\ \A row \in Row : /\ row \in 1..Len(Wal)
                      /\ CommitLsn[row] \in Nat
                      /\ row < CommitLsn[row]
  /\ \A row1, row2 \in Row :
       Wal[row1].xid = Wal[row2].xid => CommitLsn[row1] = CommitLsn[row2]
<1>1. Len(Wal) \in Nat
  BY PipelineAssumption, LenProperties
<1>2. ASSUME NEW row \in Row
      PROVE  /\ row \in 1..Len(Wal)
             /\ CommitLsn[row] \in Nat
             /\ row < CommitLsn[row]
  <2> DEFINE Commits(l) == IsCommit(l) /\ Wal[l].xid = Wal[row].xid
  <2>1. row \in 1..Len(Wal) /\ ~IsCommit(row)
    BY PipelineAssumption
  <2>2. CASE \E l \in 1..Len(Wal) : Commits(l)
    <3>1. CommitLsn[row] = CHOOSE l \in 1..Len(Wal) : Commits(l)
      BY <2>2 DEF CommitLsn
    <3>2. CommitLsn[row] \in 1..Len(Wal) /\ Commits(CommitLsn[row])
      BY <2>2, <3>1
    <3>3. CommitLsn[row] # row
      BY <2>1, <3>2
    <3>4. ~(CommitLsn[row] < row)
      BY <2>1, <3>2, PipelineAssumption
    <3>. QED
      BY <1>1, <2>1, <3>2, <3>3, <3>4
  <2>3. CASE ~ \E l \in 1..Len(Wal) : Commits(l)
    <3>1. CommitLsn[row] = Len(Wal) + 1
      BY <2>3 DEF CommitLsn
    <3>. QED
      BY <1>1, <2>1, <3>1
  <2>. QED
    BY <2>2, <2>3
<1>3. ASSUME NEW row1 \in Row, NEW row2 \in Row, Wal[row1].xid = Wal[row2].xid
      PROVE  CommitLsn[row1] = CommitLsn[row2]
  BY <1>3 DEF CommitLsn
<1>. QED
  BY <1>1, <1>2, <1>3

(* Before is a strict order. *)
LEMMA BeforeIsStrict ==
  ASSUME NEW row1 \in Row, NEW row2 \in Row, Before(row1, row2)
  PROVE  ~Before(row2, row1) /\ row1 # row2
BY CommitLsnFacts DEF Before

------------------------------------------------------------------------------
(* The log, and what the operations of the batcher do to it. *)

(* The log in a state of the batcher. *)
LogShape ==
  /\ Log \in Seq(Row)
  /\ Len(delivered) \in Nat /\ Marked \in Nat /\ Len(Log) \in Nat
  /\ Len(delivered) <= Marked /\ Marked <= Len(Log)
  /\ \A i \in 1..Len(Log) : Log[i] \in Row
  /\ \A i \in 1..Len(delivered) : Log[i] = delivered[i]

(* A state of the batcher has such a log. *)
LEMMA LogHasShape == BatcherInv => LogShape
<1>. SUFFICES ASSUME BatcherInv
              PROVE  LogShape
  OBVIOUS
<1>1. /\ delivered \in Seq(Row) /\ Len(delivered) \in Nat
      /\ buffer \in Seq(Row) /\ Len(buffer) \in Nat
      /\ Log \in Seq(Row)
      /\ Len(Log) = Len(delivered) + Len(buffer)
      /\ FlushLen \in 0..Len(buffer)
  BY LogSizes DEF Log
<1>2. Marked \in Nat /\ Len(delivered) <= Marked /\ Marked <= Len(Log)
  BY <1>1 DEF Marked
<1>3. \A i \in 1..Len(Log) : Log[i] \in Row
  BY <1>1, ElementOfSeq
<1>4. \A i \in 1..Len(delivered) : Log[i] = delivered[i]
  BY <1>1, ConcatProperties DEF Log
<1>. QED
  BY <1>1, <1>2, <1>3, <1>4 DEF LogShape

(* And so has the state after a step. *)
LEMMA LogHasShapeNext == BatcherInv' => LogShape'
BY LogHasShape, PTL

(* The committed part of the log is the history. *)
LEMMA HistoryIsLog ==
  ASSUME BatcherInv
  PROVE  /\ Len(History) = Marked
         /\ \A i \in 1..Marked : History[i] = Log[i]
<1>1. /\ delivered \in Seq(Row) /\ Len(delivered) \in Nat
      /\ buffer \in Seq(Row) /\ Len(buffer) \in Nat
      /\ FlushLen \in 0..Len(buffer)
      /\ Committed \in Seq(Row) /\ Len(Committed) = FlushLen
      /\ \A i \in 1..FlushLen : Committed[i] = buffer[i]
  BY LogSizes, CutAtPointer DEF BatcherInv
<1>2. /\ Len(History) = Marked
      /\ \A i \in 1..Marked : History[i] = IF i <= Len(delivered)
                                           THEN delivered[i]
                                           ELSE Committed[i - Len(delivered)]
  BY <1>1, ConcatProperties DEF History, Marked
<1>3. \A i \in 1..Len(delivered) + Len(buffer) :
         Log[i] = IF i <= Len(delivered) THEN delivered[i]
                                         ELSE buffer[i - Len(delivered)]
  BY <1>1, ConcatProperties DEF Log
<1>4. \A i \in 1..Marked : /\ i \in 1..Len(delivered) + Len(buffer)
                           /\ ~(i <= Len(delivered)) => i - Len(delivered) \in 1..FlushLen
  BY <1>1 DEF Marked
<1>. QED
  BY <1>1, <1>2, <1>3, <1>4

(* Steps that leave the contents of the batcher alone. *)
LEMMA SameLog ==
  ASSUME UNCHANGED <<buffer, delivered, lastCommitted>>
  PROVE  Log' = Log /\ Marked' = Marked /\ FlushLen' = FlushLen
BY DEF Log, Marked, FlushLen

(* A confirmed request delivers what is committed. *)
LEMMA BulkOkLog ==
  ASSUME BatcherInv, BulkOk
  PROVE  Log' = Log /\ Marked' = Marked /\ Len(delivered') = Marked
<1>1. /\ Committed \in Seq(Row) /\ Len(Committed) = FlushLen
      /\ Uncommitted \in Seq(Row)
      /\ Committed \o Uncommitted = buffer
      /\ delivered \in Seq(Row) /\ Len(delivered) \in Nat /\ FlushLen \in Nat
  BY CutAtPointer, LogSizes DEF BatcherInv
<1>2. delivered' = delivered \o Committed /\ buffer' = Uncommitted
  BY DEF BulkOk
<1>3. (delivered \o Committed) \o Uncommitted = delivered \o (Committed \o Uncommitted)
  <2>1. /\ delivered \in Seq(Row)
        /\ Committed \in Seq(Row)
        /\ Uncommitted \in Seq(Row)
    BY <1>1
  <2>. QED
    BY <2>1, ConcatAssociative
<1>4. Log' = Log
  BY <1>1, <1>2, <1>3 DEF Log
<1>5. Len(delivered') = Marked
  BY <1>1, <1>2, ConcatProperties DEF Marked
<1>6. FlushLen' = 0
  BY DEF BulkOk, FlushLen
<1>. QED
  BY <1>1, <1>4, <1>5, <1>6 DEF Marked

(* An Add that returns appends its row. *)
LEMMA FinishAddLog ==
  ASSUME BatcherInv, FinishAdd, NEW row \in Row, pending = <<row>>
  PROVE  /\ Marked' = Marked /\ delivered' = delivered
         /\ Len(Log') = Len(Log) + 1
         /\ \A i \in 1..Len(Log) : Log'[i] = Log[i]
         /\ Log'[Len(Log) + 1] = row
<1>1. delivered' = delivered /\ buffer' = buffer \o <<row>> /\ FlushLen' = FlushLen
  BY DEF FinishAdd, FlushLen
<1>2. <<row>> \in Seq(Row)
  OBVIOUS
<1>3. Log' = Append(Log, row)
  <2>1. delivered \o (buffer \o <<row>>) = (delivered \o buffer) \o <<row>>
    BY <1>2, LogSizes, ConcatAssociative
  <2>2. (delivered \o buffer) \o <<row>> = Append(delivered \o buffer, row)
    BY LogSizes, AppendIsConcat
  <2>. QED
    BY <1>1, <2>1, <2>2 DEF Log
<1>4. Log \in Seq(Row)
  BY LogHasShape DEF LogShape
<1>. QED
  BY <1>1, <1>3, <1>4, AppendProperties DEF Marked

(* A Commit message commits the whole log. *)
LEMMA OnCommitLog ==
  ASSUME BatcherInv, adds \in Nat, TailCounted, OnCommit
  PROVE  /\ Log' = Log /\ Marked' = Len(Log) /\ delivered' = delivered
         /\ adds' = 0 /\ UNCHANGED <<pending, sending>>
<1>1. UNCHANGED <<buffer, delivered, pending, sending>> /\ adds' = 0
  BY DEF OnCommit, CommitN, processVars, batcherVars
<1>2. /\ Len(Log) = Len(delivered) + Len(buffer)
      /\ Len(delivered) \in Nat /\ Len(buffer) \in Nat /\ FlushLen \in 0..Len(buffer)
      /\ lastCommitted \in Int /\ FlushLen = lastCommitted + 1
  BY LogSizes DEF Log, BatcherInv, BatcherTypeOK, FlushLen
<1>3. adds = Len(buffer) - FlushLen
  BY <1>2 DEF TailCounted, Marked
<1>4. FlushLen' = Len(buffer)
  <2>1. CASE adds = 0 /\ UNCHANGED processVars
    <3>1. FlushLen' = FlushLen
      BY <2>1 DEF processVars, batcherVars, FlushLen
    <3>. QED
      BY <1>2, <1>3, <2>1, <3>1
  <2>2. CASE adds > 0 /\ CommitN(adds)
    <3>1. lastCommitted + adds = Len(buffer) - 1
      BY <1>2, <1>3
    <3>2. lastCommitted' = Len(buffer) - 1
      BY <2>2, <3>1 DEF CommitN
    <3>3. FlushLen' = lastCommitted' + 1
      BY DEF FlushLen
    <3>. QED
      BY <1>2, <3>2, <3>3
  <2>. QED
    BY <2>1, <2>2 DEF OnCommit
<1>. QED
  BY <1>1, <1>2, <1>4 DEF Log, Marked

------------------------------------------------------------------------------
(* Types, and the batcher's own invariant. *)

(* The numbers and the flags of a state. *)
LEMMA TypeFacts ==
  PipelineTypeOK =>
    /\ adds \in Nat
    /\ walEnd \in 0..Len(Wal) /\ confirmed \in 0..Len(Wal)
    /\ startPos \in 0..Len(Wal) /\ sent \in 0..Len(Wal)
    /\ upto \in 0..Len(Wal) /\ xLogPos \in 0..Len(Wal)
    /\ hand # <<>> => hand[1] \in Message /\ hand = <<hand[1]>>
    /\ base \in Nat /\ owed \in Nat
BY DEF PipelineTypeOK

(* The position of the message in hand. *)
LEMMA HandPos ==
  ASSUME PipelineTypeOK, hand # <<>>
  PROVE  hand[1].pos \in 0..Len(Wal) /\ hand[1].pos \in Nat
<1>1. hand[1] \in Message
  BY TypeFacts
<1>2. hand[1].pos \in 0..Len(Wal)
  BY <1>1 DEF Message
<1>. QED
  BY <1>2, CommitLsnFacts

(* A step that leaves a part of the state alone keeps its types. *)
LEMMA TypesStay ==
  ASSUME PipelineTypeOK, BatcherInv',
         adds' \in Nat, UNCHANGED mainVars,
         {walEnd', confirmed', startPos', sent', upto', xLogPos'} \subseteq 0..Len(Wal),
         out' \in {"nothing", "begin", "changes"},
         hand' \in {<<>>} \union {<<m>> : m \in Message},
         streaming' \in BOOLEAN, reader' \in BOOLEAN
  PROVE  PipelineTypeOK'
BY DEF PipelineTypeOK, mainVars, BatcherInv

(* A step of the main goroutine or of a flush keeps the types. *)
LEMMA MainTypesStay ==
  ASSUME PipelineTypeOK, BatcherInv',
         UNCHANGED <<adds, serverVars, readerVars>>,
         phase' \in {"down", "ready", "running", "flushing", "closing"},
         {ctxDone', loop', stopFailed'} \subseteq BOOLEAN,
         starts' \in 0..MaxStarts,
         {base', owed'} \subseteq Nat
  PROVE  PipelineTypeOK'
BY DEF PipelineTypeOK, serverVars, readerVars, BatcherInv

(* What a process leaves behind when it is gone. *)
LEMMA GoneBatcherInv ==
  ASSUME BatcherInv, Gone
  PROVE  BatcherInv'
<1>1. buffer' = <<>> /\ lastCommitted' = -1 /\ gauge' = 0 /\ sending' = FALSE
      /\ pending' = <<>> /\ delivered' = delivered
  BY DEF Gone
<1>2. buffer' \in Seq(Row) /\ Len(buffer') = 0
  BY <1>1, EmptySeq
<1>3. /\ lastCommitted' \in Int /\ gauge' \in Nat
      /\ sending' \in BOOLEAN
  <2>1. lastCommitted' \in Int /\ gauge' \in Nat
    BY DEF Gone
  <2>2. sending' \in BOOLEAN
    BY DEF Gone
  <2>. QED
    BY <2>1, <2>2
<1>4. BatcherTypeOK'
  <2>1. delivered' \in Seq(Row) /\ pending' = <<>>
    BY <1>1 DEF BatcherInv, BatcherTypeOK
  <2>. QED
    BY <1>2, <1>3, <2>1 DEF BatcherTypeOK
<1>5. PointerInBuffer' /\ GaugeIsBufferLength' /\ ~sending'
  BY <1>1, <1>2 DEF PointerInBuffer, GaugeIsBufferLength
<1>. QED
  BY <1>4, <1>5 DEF BatcherInv

(* The invariant of the batcher survives every step of the process. *)
LEMMA BatcherPartInv ==
  ASSUME PipelineInv, [PipelineNext]_pipelineVars
  PROVE  BatcherInv'
<1>. USE DEF PipelineInv
<1>1. adds \in Nat
  BY TypeFacts
<1>2. CASE UNCHANGED batcherVars
  BY <1>2, BatcherStutterInv
<1>3. ASSUME Flush \/ BulkOk \/ BulkFail PROVE BatcherInv'
  BY <1>3, FlushInv, BulkOkInv, BulkFailInv
<1>4. CASE HandleChange
  <2>1. OnChange(hand[1].pos + 1, TRUE)
    BY <1>4 DEF HandleChange
  <2>2. Add(hand[1].pos + 1)
    BY <2>1 DEF OnChange
  <2>3. hand[1].pos + 1 \in Row
    BY <1>4 DEF HandFits, ChangeFits, HandleChange, Has
  <2>. QED
    BY <2>2, <2>3, AddInv
<1>5. CASE HandleChangeDone
  <2>1. FinishAdd \/ UNCHANGED batcherVars
    BY <1>5 DEF HandleChangeDone, OnChangeDone, OnChange, processVars
  <2>. QED
    BY <2>1, <1>2, FinishAddInv
<1>6. CASE HandleCommit
  <2>1. CommitN(adds) \/ UNCHANGED batcherVars
    BY <1>6 DEF HandleCommit, OnCommit, processVars
  <2>. QED
    BY <1>1, <1>2, <2>1, CommitNInv
<1>7. CASE HandleBegin
  BY <1>2, <1>7 DEF HandleBegin, OnBegin
<1>8. CASE ShutdownFlush
  BY <1>2, <1>3, <1>8 DEF ShutdownFlush
<1>9. CASE Exit \/ Crash
  BY <1>9, GoneBatcherInv DEF Exit, Crash
<1>10. CASE LoopFlush \/ \E ok \in BOOLEAN : Answer(ok)
  BY <1>3, <1>10 DEF LoopFlush, Answer
<1>11. CASE \/ WriteWal \/ Decode \/ Disconnect \/ ReceiveData
            \/ \E reply \in BOOLEAN : ReceiveKeepalive(reply)
            \/ HandleKeepalive \/ ReaderStops
            \/ New \/ StartReplication \/ Signal
            \/ UNCHANGED pipelineVars
  <2>1. UNCHANGED processVars
    BY <1>11 DEF WriteWal, Decode, Disconnect, ReceiveData, ReceiveBegin,
        ReceiveChange, ReceiveCommit, Receive, ReceiveKeepalive, HandleKeepalive,
        ReaderStops, New, StartReplication, Signal, pipelineVars
  <2>. QED
    BY <1>2, <2>1 DEF processVars
<1>. QED
  BY <1>4, <1>5, <1>6, <1>7, <1>8, <1>9, <1>10, <1>11
     DEF PipelineNext, Reading, Handle

------------------------------------------------------------------------------
(* Frames: what a step preserves because it leaves something alone. *)

(* Replication was started when anything of it is under way. *)
LEMMA UnderWayInSession ==
  ASSUME Quiet,
         \/ reader \/ streaming \/ sending
         \/ hand # <<>> \/ pending # <<>> \/ out # "nothing"
         \/ FlushLen > 0
  PROVE  InSession
BY DEF Quiet

(* The contents of the batcher and the main goroutine stay as they are. *)
LEMMA LogStays ==
  ASSUME PipelineInv,
         UNCHANGED <<buffer, delivered, lastCommitted, mainVars>>,
         sending => sending',
         walEnd' \in Nat, walEnd <= walEnd',
         phase = "ready" => xLogPos' = xLogPos
  PROVE  /\ Log' = Log /\ Marked' = Marked /\ FlushLen' = FlushLen
         /\ LogOrdered' /\ LogUsable' /\ TxnsComplete'
         /\ DeliveredWritten' /\ OwedCommitted'
<1>1. Log' = Log /\ Marked' = Marked /\ FlushLen' = FlushLen
  BY SameLog
<1>2. UNCHANGED <<phase, ctxDone, owed, stopFailed, delivered>>
  BY DEF mainVars
<1>3. LogOrdered' /\ LogUsable' /\ TxnsComplete'
  BY <1>1, <1>2 DEF PipelineInv, LogOrdered, LogUsable, TxnsComplete, WholeTxns
<1>4. DeliveredWritten'
  <2>1. \A i \in 1..Len(delivered) : Log[i] \in Row
    BY LogHasShape DEF PipelineInv, LogShape
  <2>2. walEnd \in Nat
    BY TypeFacts, CommitLsnFacts DEF PipelineInv
  <2>. QED
    BY <1>1, <1>2, <2>1, <2>2, CommitLsnFacts DEF PipelineInv, DeliveredWritten
<1>5. OwedCommitted'
  BY <1>1, <1>2 DEF PipelineInv, OwedCommitted, SignalledRowsFlushed
<1>. QED
  BY <1>1, <1>3, <1>4, <1>5

(* The walsender and the reader's hand stay as they are. *)
LEMMA StreamStays ==
  ASSUME PipelineInv, Log' = Log, Marked' = Marked,
         Len(delivered') \in Nat, Len(delivered) <= Len(delivered'),
         InSession' = InSession,
         UNCHANGED <<base, startPos, sent, out, upto, hand, pending>>
  PROVE  HandFits' /\ SessionLog' /\ OpenLsn' = OpenLsn
<1>1. /\ Has("begin")' = Has("begin") /\ Has("change")' = Has("change")
      /\ Has("commit")' = Has("commit") /\ Has("keepalive")' = Has("keepalive")
      /\ OpenLsn' = OpenLsn
  BY DEF Has, OpenLsn
<1>2. HandFits'
  <2>1. BeginFits' /\ KeepaliveFits' /\ PendingFits' /\ CommitFits'
    BY <1>1 DEF PipelineInv, HandFits, BeginFits, KeepaliveFits, PendingFits, CommitFits
  <2>2. ChangeFits'
    BY <1>1 DEF PipelineInv, HandFits, ChangeFits, Before
  <2>. QED
    BY <2>1, <2>2 DEF HandFits
<1>3. ASSUME InSession
      PROVE  OldRows' /\ NewRows' /\ NothingMissing' /\ TailIsOpen'
  <2>1. /\ OldRows /\ NewRows /\ NothingMissing /\ TailIsOpen
        /\ base \in Nat /\ Len(delivered) \in Nat
        /\ \A i \in 1..Len(Log) : Log[i] \in Row
    BY <1>3, TypeFacts, LogHasShape DEF PipelineInv, SessionLog, LogShape
  <2>2. OldRows'
    BY <2>1 DEF OldRows
  <2>3. NewRows'
    BY <1>1, <2>1 DEF NewRows, SentInRun
  <2>4. NothingMissing'
    BY <1>1, <2>1, PipelineAssumption DEF NothingMissing, InSeq, Usable, SentInRun
  <2>5. TailIsOpen'
    BY <1>1, <2>1 DEF TailIsOpen
  <2>. QED
    BY <2>2, <2>3, <2>4, <2>5
<1>. QED
  BY <1>1, <1>2, <1>3 DEF SessionLog

------------------------------------------------------------------------------
(* PostgreSQL. *)

(* PostgreSQL writes ahead of everything that was sent. *)
LEMMA WriteWalInv ==
  ASSUME PipelineInv, BatcherInv', WriteWal
  PROVE  PipelineInv'
<1>. USE DEF PipelineInv
<1>1. /\ walEnd' = walEnd + 1 /\ walEnd < Len(Wal)
      /\ UNCHANGED processVars /\ UNCHANGED mainVars /\ UNCHANGED readerVars
      /\ UNCHANGED <<confirmed, streaming, startPos, sent, out, upto>>
  BY DEF WriteWal
<1>2. walEnd' \in 0..Len(Wal) /\ walEnd' \in Nat /\ walEnd <= walEnd' /\ walEnd \in Nat
  BY <1>1, TypeFacts, CommitLsnFacts
<1>3. /\ UNCHANGED <<buffer, delivered, lastCommitted, adds, pending, sending>>
      /\ UNCHANGED <<xLogPos, reader, hand>> /\ UNCHANGED <<phase, base>>
  BY <1>1 DEF processVars, batcherVars, readerVars, mainVars
<1>4. PipelineTypeOK'
  BY <1>1, <1>2, <1>3, TypesStay DEF PipelineTypeOK
<1>5. /\ Log' = Log /\ Marked' = Marked /\ FlushLen' = FlushLen
      /\ LogOrdered' /\ LogUsable' /\ TxnsComplete'
      /\ DeliveredWritten' /\ OwedCommitted'
  BY <1>1, <1>2, <1>3, LogStays
<1>6. TailCounted'
  BY <1>3, <1>5 DEF TailCounted
<1>7. InSession' = InSession /\ Len(delivered') \in Nat /\ Len(delivered) <= Len(delivered')
  BY <1>3, LogHasShape DEF InSession, LogShape
<1>8. HandFits' /\ SessionLog' /\ OpenLsn' = OpenLsn
  BY <1>1, <1>3, <1>5, <1>7, StreamStays
<1>9. Positions'
  BY <1>1, <1>2, <1>3, <1>7, <1>8, TypeFacts DEF Positions
<1>10. Quiet'
  BY <1>1, <1>3, <1>5, <1>7 DEF Quiet
<1>. QED
  BY <1>4, <1>5, <1>6, <1>8, <1>9, <1>10

(* A broken connection changes nothing that was sent or received. *)
LEMMA ConnectionInv ==
  ASSUME PipelineInv, BatcherInv',
         UNCHANGED <<processVars, mainVars, xLogPos, hand>>,
         UNCHANGED <<walEnd, confirmed, startPos, sent, out, upto>>,
         streaming' \in BOOLEAN, reader' \in BOOLEAN,
         streaming' => streaming, reader' => reader
  PROVE  PipelineInv'
<1>. USE DEF PipelineInv
<1>2. walEnd' \in Nat /\ walEnd <= walEnd'
  BY TypeFacts, CommitLsnFacts
<1>3. /\ UNCHANGED <<buffer, delivered, lastCommitted, adds, pending, sending>>
      /\ UNCHANGED <<xLogPos, hand>> /\ UNCHANGED <<phase, base>>
      /\ UNCHANGED mainVars
  BY DEF processVars, batcherVars, mainVars
<1>4. PipelineTypeOK'
  BY <1>3, TypesStay DEF PipelineTypeOK
<1>5. /\ Log' = Log /\ Marked' = Marked /\ FlushLen' = FlushLen
      /\ LogOrdered' /\ LogUsable' /\ TxnsComplete'
      /\ DeliveredWritten' /\ OwedCommitted'
  BY <1>2, <1>3, LogStays
<1>6. TailCounted'
  BY <1>3, <1>5 DEF TailCounted
<1>7. InSession' = InSession /\ Len(delivered') \in Nat /\ Len(delivered) <= Len(delivered')
  BY <1>3, LogHasShape DEF InSession, LogShape
<1>8. HandFits' /\ SessionLog' /\ OpenLsn' = OpenLsn
  BY <1>3, <1>5, <1>7, StreamStays
<1>9. Positions'
  BY <1>3, <1>7, <1>8 DEF Positions
<1>10. Quiet'
  BY <1>3, <1>5, <1>7 DEF Quiet
<1>. QED
  BY <1>4, <1>5, <1>6, <1>8, <1>9, <1>10

(* The connection breaks. *)
LEMMA DisconnectInv ==
  ASSUME PipelineInv, BatcherInv', Disconnect
  PROVE  PipelineInv'
<1>1. /\ UNCHANGED <<processVars, mainVars, xLogPos, hand>>
      /\ UNCHANGED <<walEnd, confirmed, startPos, sent, out, upto>>
      /\ streaming' = FALSE /\ reader' = reader
  BY DEF Disconnect, readerVars
<1>2. reader' \in BOOLEAN /\ streaming' \in BOOLEAN
  BY <1>1 DEF PipelineInv, PipelineTypeOK
<1>. QED
  BY <1>1, <1>2, ConnectionInv

(* The reader ends. *)
LEMMA ReaderStopsInv ==
  ASSUME PipelineInv, BatcherInv', ReaderStops
  PROVE  PipelineInv'
<1>1. /\ UNCHANGED <<processVars, mainVars, xLogPos, hand>>
      /\ UNCHANGED <<walEnd, confirmed, startPos, sent, out, upto>>
      /\ streaming' = streaming /\ reader' = FALSE
  BY DEF ReaderStops, serverVars
<1>2. reader' \in BOOLEAN /\ streaming' \in BOOLEAN
  BY <1>1 DEF PipelineInv, PipelineTypeOK
<1>. QED
  BY <1>1, <1>2, ConnectionInv

(* What a step of the walsender has to show: the rest follows from the     *)
(* frame.                                                                  *)
LEMMA StreamStep ==
  ASSUME PipelineInv, BatcherInv', InSession, PipelineTypeOK',
         UNCHANGED <<processVars, mainVars, xLogPos>>,
         UNCHANGED <<walEnd, confirmed, startPos>>,
         Positions', HandFits',
         NewRows' /\ NothingMissing' /\ TailIsOpen'
  PROVE  PipelineInv'
<1>. USE DEF PipelineInv
<1>1. walEnd' \in Nat /\ walEnd <= walEnd'
  BY TypeFacts, CommitLsnFacts
<1>2. /\ UNCHANGED <<buffer, delivered, lastCommitted, adds, sending>>
      /\ UNCHANGED <<phase, base>> /\ UNCHANGED mainVars
  BY DEF processVars, batcherVars, mainVars
<1>3. /\ Log' = Log /\ Marked' = Marked
      /\ LogOrdered' /\ LogUsable' /\ TxnsComplete'
      /\ DeliveredWritten' /\ OwedCommitted'
  BY <1>1, <1>2, LogStays
<1>4. TailCounted'
  BY <1>2, <1>3 DEF TailCounted
<1>5. InSession'
  BY <1>2 DEF InSession
<1>6. Quiet'
  BY <1>5 DEF Quiet
<1>7. OldRows'
  BY <1>2, <1>3 DEF SessionLog, OldRows
<1>. QED
  BY <1>3, <1>4, <1>6, <1>7 DEF SessionLog

(* The changes left to send of the next transaction. *)
LEMMA ToSendFacts ==
  /\ ToSend \subseteq Row
  /\ \A row \in Row : row \in ToSend <=> CommitLsn[row] = sent + 1 /\ row > upto
BY DEF ToSend

(* Decoding a record sends nothing, and a commit record that is passed by  *)
(* had nothing to send.                                                    *)
LEMMA DecodeInv ==
  ASSUME PipelineInv, BatcherInv', Decode
  PROVE  PipelineInv'
<1>. USE DEF PipelineInv
<1>1. /\ streaming /\ out = "nothing" /\ sent < walEnd
      /\ UNCHANGED <<processVars, mainVars, xLogPos>>
      /\ UNCHANGED <<walEnd, confirmed, startPos>>
      /\ UNCHANGED <<upto, hand, reader, streaming>>
      /\ \/ ToSend # {} /\ out' = "begin" /\ sent' = sent
         \/ ToSend = {} /\ sent' = sent + 1 /\ out' = out
  BY DEF Decode, readerVars
<1>2. InSession /\ InSession' /\ upto = 0
  <2>1. InSession
    BY <1>1, UnderWayInSession
  <2>2. InSession'
    BY <1>1, <2>1 DEF InSession, mainVars
  <2>. QED
    BY <1>1, <2>1, <2>2 DEF Positions
<1>3. /\ sent \in Nat /\ walEnd \in Nat /\ walEnd <= Len(Wal) /\ Len(Wal) \in Nat
      /\ sent' \in 0..Len(Wal) /\ startPos \in Nat /\ xLogPos \in Nat /\ confirmed \in Nat
      /\ sent <= sent' /\ sent' <= walEnd
  BY <1>1, TypeFacts, CommitLsnFacts
<1>4. PipelineTypeOK'
  <2>1. adds' = adds /\ UNCHANGED mainVars
    BY <1>1 DEF processVars
  <2>. QED
    BY <1>1, <1>3, <2>1, TypesStay DEF PipelineTypeOK
<1>5. \A row \in Row : SentInRun(row)' <=> SentInRun(row)
  BY <1>1, <1>2, <1>3, CommitLsnFacts, ToSendFacts DEF SentInRun
<1>6. Log' = Log /\ Marked' = Marked /\ LogShape
  BY <1>1, SameLog, LogHasShape DEF processVars, batcherVars
<1>7. /\ ~Has("begin") /\ ~Has("change")
      /\ Has("begin")' = Has("begin") /\ Has("change")' = Has("change")
      /\ Has("commit")' = Has("commit") /\ Has("keepalive")' = Has("keepalive")
  BY <1>1 DEF HandFits, BeginFits, ChangeFits, Has
<1>8. HandFits'
  <2>1. BeginFits' /\ ChangeFits'
    BY <1>7 DEF BeginFits, ChangeFits
  <2>2. CommitFits'
    <3>1. \A row \in Row : sent < CommitLsn[row] => sent' < CommitLsn[row]
      BY <1>1, <1>2, <1>3, CommitLsnFacts, ToSendFacts
    <3>2. ASSUME Has("commit")
          PROVE  hand[1].pos \in Nat
      BY <3>2, HandPos DEF Has
    <3>. QED
      BY <1>1, <1>3, <1>7, <3>1, <3>2 DEF HandFits, CommitFits
  <2>3. KeepaliveFits'
    <3>1. ASSUME Has("keepalive")
          PROVE  hand[1].pos \in Nat
      BY <3>1, HandPos DEF Has
    <3>. QED
      BY <1>1, <1>3, <1>7, <3>1 DEF HandFits, KeepaliveFits
  <2>4. PendingFits'
    BY <1>1, <1>7 DEF HandFits, PendingFits, processVars, batcherVars
  <2>. QED
    BY <2>1, <2>2, <2>3, <2>4 DEF HandFits
<1>9. /\ NewRows /\ NothingMissing /\ TailIsOpen
      /\ base \in Nat /\ base' = base
  BY <1>1, <1>2, TypeFacts DEF SessionLog, mainVars
<1>10. NewRows'
  <2>1. \A i \in base + 1 .. Len(Log) : Log[i] \in Row
    BY <1>6, <1>9 DEF LogShape
  <2>. QED
    BY <1>5, <1>6, <1>9, <2>1 DEF NewRows, SentInRun
<1>11. NothingMissing'
  BY <1>1, <1>5, <1>6, <1>7, <1>9, PipelineAssumption
     DEF NothingMissing, InSeq, Usable, SentInRun
<1>12. TailIsOpen' /\ Positions'
  <2>1. Marked = Len(Log) \/ Has("commit")
    BY <1>1, <1>6, <1>9 DEF TailIsOpen, LogShape
  <2>2. OpenLsn \in Nat /\ OpenLsn' \in Nat /\ OpenLsn <= OpenLsn'
    <3>1. CASE Has("commit")
      <4>1. OpenLsn = hand[1].pos /\ OpenLsn' = hand[1].pos
        BY <1>1, <1>7, <3>1 DEF OpenLsn
      <4>2. hand[1].pos \in Nat
        BY <3>1, HandPos DEF Has
      <4>. QED
        BY <4>1, <4>2
    <3>2. CASE ~Has("commit")
      <4>1. OpenLsn = sent + 1 /\ OpenLsn' = sent' + 1
        BY <1>7, <3>2 DEF OpenLsn
      <4>2. PICK s \in Nat : s = sent'
        BY <1>3
      <4>3. sent \in Nat /\ sent <= s
        BY <1>3, <4>2
      <4>4. sent + 1 \in Nat /\ s + 1 \in Nat /\ sent + 1 <= s + 1
        BY <4>3
      <4>. QED
        BY <4>1, <4>2, <4>4
    <3>. QED
      BY <3>1, <3>2
  <2>3. Has("commit") => OpenLsn' = OpenLsn
    BY <1>1, <1>7 DEF OpenLsn
  <2>4. TailIsOpen'
    <3>1. ASSUME NEW i \in 1..Marked
          PROVE  CommitLsn[Log[i]] < OpenLsn'
      BY <1>6, <1>9, <2>2, CommitLsnFacts DEF TailIsOpen, LogShape
    <3>2. ASSUME NEW i \in Marked + 1 .. Len(Log)
          PROVE  CommitLsn[Log[i]] = OpenLsn'
      BY <1>6, <1>9, <2>1, <2>3 DEF TailIsOpen, LogShape
    <3>. QED
      BY <1>6, <1>7, <2>1, <3>1, <3>2 DEF TailIsOpen
  <2>5. Positions'
    BY <1>1, <1>2, <1>3, <2>2 DEF Positions
  <2>. QED
    BY <2>4, <2>5
<1>. QED
  BY <1>1, <1>2, <1>4, <1>8, <1>10, <1>11, <1>12, StreamStep

------------------------------------------------------------------------------
(* The reader receives a message. *)

(* What a state with an empty hand looks like, and what receiving changes. *)
LEMMA ReceiveFacts ==
  ASSUME PipelineInv, NEW kind \in {"begin", "change", "commit"}, NEW pos,
         Receive(kind, pos)
  PROVE  /\ hand = <<>> /\ hand' = <<[kind |-> kind, pos |-> pos]>>
         /\ hand' # <<>> /\ hand'[1].kind = kind /\ hand'[1].pos = pos
         /\ UNCHANGED <<processVars, mainVars, xLogPos>>
         /\ UNCHANGED <<walEnd, confirmed, startPos>>
         /\ reader' = reader /\ streaming' = streaming
         /\ Log' = Log /\ Marked' = Marked /\ pending = <<>> /\ pending' = <<>>
         /\ OpenLsn = sent + 1
         /\ InSession /\ OldRows /\ NewRows /\ NothingMissing /\ TailIsOpen
         /\ base' = base
<1>1. /\ reader /\ hand = <<>> /\ hand' = <<[kind |-> kind, pos |-> pos]>>
      /\ UNCHANGED <<processVars, mainVars, xLogPos>>
      /\ UNCHANGED <<walEnd, confirmed, startPos>>
      /\ reader' = reader /\ streaming' = streaming
  BY DEF Receive
<1>2. Log' = Log /\ Marked' = Marked /\ pending' = pending /\ base' = base
  BY <1>1, SameLog DEF processVars, batcherVars, mainVars
<1>3. pending = <<>> /\ OpenLsn = sent + 1
  BY <1>1 DEF PipelineInv, HandFits, PendingFits, Has, OpenLsn
<1>4. InSession
  BY <1>1, UnderWayInSession DEF PipelineInv
<1>5. OldRows /\ NewRows /\ NothingMissing /\ TailIsOpen
  BY <1>4 DEF PipelineInv, SessionLog
<1>. QED
  BY <1>1, <1>2, <1>3, <1>4, <1>5

(* The types after a message was received. *)
LEMMA ReceiveTypes ==
  ASSUME PipelineInv, BatcherInv', NEW kind \in {"begin", "change", "commit"},
         NEW pos \in 0..Len(Wal), Receive(kind, pos),
         sent' \in 0..Len(Wal), upto' \in 0..Len(Wal),
         out' \in {"nothing", "begin", "changes"}
  PROVE  PipelineTypeOK'
<1>1. [kind |-> kind, pos |-> pos] \in Message
  BY DEF Message
<1>2. /\ adds' = adds /\ UNCHANGED mainVars
      /\ hand' \in {<<>>} \union {<<m>> : m \in Message}
      /\ UNCHANGED <<walEnd, confirmed, startPos, streaming, reader, xLogPos>>
  BY <1>1 DEF Receive, processVars
<1>. QED
  BY <1>2, TypesStay DEF PipelineInv, PipelineTypeOK

(* Begin comes between transactions: nothing in the batcher is open. *)
LEMMA ReceiveBeginInv ==
  ASSUME PipelineInv, BatcherInv', ReceiveBegin
  PROVE  PipelineInv'
<1>1. PICK row \in ToSend : IsFirst(row, ToSend) /\ Receive("begin", row - 1)
  BY DEF ReceiveBegin
<1>2. /\ out = "begin" /\ out' = "changes" /\ UNCHANGED <<sent, upto>>
      /\ UNCHANGED <<processVars, mainVars, xLogPos>>
      /\ UNCHANGED <<walEnd, confirmed, startPos>>
      /\ hand = <<>> /\ hand' # <<>> /\ hand'[1].kind = "begin" /\ hand'[1].pos = row - 1
      /\ Log' = Log /\ Marked' = Marked /\ pending' = <<>> /\ OpenLsn = sent + 1
      /\ InSession /\ NewRows /\ NothingMissing /\ TailIsOpen /\ base' = base
  BY <1>1, ReceiveFacts DEF ReceiveBegin
<1>3. /\ row \in Row /\ row \in 1..Len(Wal) /\ CommitLsn[row] = sent + 1
      /\ row < sent + 1 /\ Len(Wal) \in Nat /\ sent \in Nat
  BY ToSendFacts, CommitLsnFacts, TypeFacts DEF PipelineInv
<1>4. row - 1 \in 0..Len(Wal) /\ row - 1 <= sent
  BY <1>3
<1>5. PipelineTypeOK'
  <2>1. UNCHANGED <<sent, upto>> /\ out' = "changes"
    BY <1>2
  <2>2. sent' \in 0..Len(Wal) /\ upto' \in 0..Len(Wal)
    BY <2>1, TypeFacts DEF PipelineInv
  <2>. QED
    BY <1>1, <1>4, <2>1, <2>2, ReceiveTypes
<1>6. Has("begin")' /\ ~Has("change")' /\ ~Has("commit")' /\ ~Has("keepalive")'
      /\ ~Has("change") /\ ~Has("commit")
  BY <1>2 DEF Has
<1>7. OpenLsn' = OpenLsn
  BY <1>2, <1>6 DEF OpenLsn
<1>8. upto = 0 /\ Marked = Len(Log)
  <2>1. upto = 0
    BY <1>2 DEF PipelineInv, Positions
  <2>2. ~(Marked < Len(Log))
    BY <1>2, <1>6 DEF TailIsOpen
  <2>. QED
    BY <2>1, <2>2, LogHasShape DEF PipelineInv, LogShape
<1>9. HandFits'
  <2>1. BeginFits'
    BY <1>2, <1>4, <1>8 DEF BeginFits
  <2>. QED
    BY <1>2, <1>6, <2>1 DEF HandFits, ChangeFits, CommitFits, KeepaliveFits, PendingFits
<1>10. Positions'
  BY <1>2, <1>7, <1>8 DEF PipelineInv, Positions, InSession, mainVars
<1>11. NewRows'
  BY <1>2 DEF NewRows, SentInRun
<1>12. NothingMissing'
  BY <1>2, <1>6 DEF NothingMissing, InSeq, SentInRun
<1>13. TailIsOpen'
  BY <1>2, <1>7 DEF TailIsOpen
<1>. QED
  BY <1>2, <1>5, <1>9, <1>10, <1>11, <1>12, <1>13, StreamStep

(* A change comes behind everything that was sent before it. *)
LEMMA ReceiveChangeInv ==
  ASSUME PipelineInv, BatcherInv', ReceiveChange
  PROVE  PipelineInv'
<1>1. PICK row \in ToSend : /\ IsFirst(row, ToSend)
                            /\ Receive("change", row - 1)
                            /\ upto' = row
  BY DEF ReceiveChange
<1>2. /\ out = "changes" /\ UNCHANGED <<sent, out>> /\ upto' = row
      /\ UNCHANGED <<processVars, mainVars, xLogPos>>
      /\ UNCHANGED <<walEnd, confirmed, startPos>>
      /\ hand = <<>> /\ hand' # <<>> /\ hand'[1].kind = "change" /\ hand'[1].pos = row - 1
      /\ Log' = Log /\ Marked' = Marked /\ pending' = <<>> /\ OpenLsn = sent + 1
      /\ InSession /\ OldRows /\ NewRows /\ NothingMissing /\ TailIsOpen /\ base' = base
  BY <1>1, ReceiveFacts DEF ReceiveChange
<1>3. /\ row \in Row /\ row \in 1..Len(Wal) /\ CommitLsn[row] = sent + 1
      /\ row > upto /\ Len(Wal) \in Nat /\ sent \in Nat /\ upto \in Nat
      /\ startPos \in Nat /\ startPos <= sent /\ base \in Nat
  BY <1>2, ToSendFacts, CommitLsnFacts, TypeFacts DEF PipelineInv, Positions
<1>4. row - 1 \in 0..Len(Wal) /\ (row - 1) + 1 = row
  BY <1>3
<1>5. PipelineTypeOK'
  <2>1. sent' \in 0..Len(Wal) /\ upto' \in 0..Len(Wal)
    BY <1>2, <1>3, TypeFacts DEF PipelineInv
  <2>. QED
    BY <1>1, <1>2, <1>4, <2>1, ReceiveTypes
<1>6. Has("change")' /\ ~Has("begin")' /\ ~Has("commit")' /\ ~Has("keepalive")'
      /\ ~Has("change") /\ ~Has("commit")
  BY <1>2 DEF Has
<1>7. OpenLsn' = OpenLsn
  BY <1>2, <1>6 DEF OpenLsn
<1>8. LogShape
  BY LogHasShape DEF PipelineInv
<1>9. ASSUME NEW i \in 1..Len(Log)
      PROVE  Before(Log[i], row)
  <2>1. Log[i] \in Row /\ CommitLsn[Log[i]] \in Nat
    BY <1>8, CommitLsnFacts DEF LogShape
  <2>2. CASE i \in 1..base
    <3>1. CommitLsn[Log[i]] <= startPos
      BY <1>2, <2>2 DEF OldRows
    <3>. QED
      BY <1>3, <2>1, <3>1 DEF Before
  <2>3. CASE i \in base + 1 .. Len(Log)
    <3>1. \/ CommitLsn[Log[i]] <= sent
          \/ CommitLsn[Log[i]] = sent + 1 /\ Log[i] <= upto
      BY <1>2, <2>3 DEF NewRows, SentInRun
    <3>2. Log[i] \in Nat
      BY <2>1, CommitLsnFacts
    <3>. QED
      BY <1>3, <2>1, <3>1, <3>2 DEF Before
  <2>. QED
    BY <1>3, <1>8, <2>2, <2>3 DEF LogShape
<1>10. HandFits'
  <2>1. ChangeFits'
    <3>1. upto' = hand'[1].pos + 1
      BY <1>2, <1>4
    <3>2. \A i \in 1..Len(Log') : Before(Log'[i], upto')
      BY <1>2, <1>9
    <3>. QED
      BY <1>2, <1>3, <3>1, <3>2 DEF ChangeFits, Before
  <2>. QED
    BY <1>2, <1>6, <2>1 DEF HandFits, BeginFits, CommitFits, KeepaliveFits, PendingFits
<1>11. Positions'
  BY <1>2, <1>7 DEF PipelineInv, Positions, InSession, mainVars
<1>12. \A other \in Row : /\ SentInRun(other) => SentInRun(other)'
                          /\ SentInRun(other)' => SentInRun(other) \/ other = row
  <2>1. \A other \in Row : CommitLsn[other] = sent + 1 /\ other > upto => row <= other
    BY <1>1, ToSendFacts DEF IsFirst
  <2>2. \A other \in Row : other \in Nat
    BY CommitLsnFacts
  <2>. QED
    BY <1>2, <1>3, <2>1, <2>2 DEF SentInRun
<1>13. NewRows'
  <2>1. \A i \in base + 1 .. Len(Log) : Log[i] \in Row
    BY <1>3, <1>8 DEF LogShape
  <2>. QED
    BY <1>2, <1>12, <2>1 DEF NewRows, SentInRun
<1>14. NothingMissing'
  BY <1>2, <1>6, <1>12, PipelineAssumption DEF NothingMissing, InSeq, SentInRun, Usable
<1>15. TailIsOpen'
  BY <1>2, <1>7 DEF TailIsOpen
<1>. QED
  BY <1>2, <1>5, <1>10, <1>11, <1>13, <1>14, <1>15, StreamStep

(* The commit comes when every change of its transaction was received.     *)
LEMMA ReceiveCommitInv ==
  ASSUME PipelineInv, BatcherInv', ReceiveCommit
  PROVE  PipelineInv'
<1>1. /\ out = "changes" /\ ToSend = {} /\ Receive("commit", sent + 1)
      /\ sent' = sent + 1 /\ out' = "nothing" /\ upto' = 0
  BY DEF ReceiveCommit
<1>2. /\ UNCHANGED <<processVars, mainVars, xLogPos>>
      /\ UNCHANGED <<walEnd, confirmed, startPos>>
      /\ hand = <<>> /\ hand' # <<>> /\ hand'[1].kind = "commit" /\ hand'[1].pos = sent + 1
      /\ Log' = Log /\ Marked' = Marked /\ pending' = <<>> /\ OpenLsn = sent + 1
      /\ InSession /\ NewRows /\ NothingMissing /\ TailIsOpen /\ base' = base
  BY <1>1, ReceiveFacts
<1>3. /\ sent \in Nat /\ upto \in Nat /\ walEnd \in Nat /\ Len(Wal) \in Nat
      /\ walEnd <= Len(Wal) /\ sent < walEnd
      /\ startPos \in Nat /\ startPos <= sent /\ xLogPos < OpenLsn /\ base \in Nat
  BY <1>1, <1>2, CommitLsnFacts, TypeFacts DEF PipelineInv, Positions
<1>4. sent + 1 \in 0..Len(Wal) /\ sent + 1 <= walEnd /\ 0 \in 0..Len(Wal)
  BY <1>3
<1>5. PipelineTypeOK'
  BY <1>1, <1>4, ReceiveTypes
<1>6. Has("commit")' /\ ~Has("begin")' /\ ~Has("change")' /\ ~Has("keepalive")'
      /\ ~Has("change")
  BY <1>2 DEF Has
<1>7. OpenLsn' = OpenLsn
  BY <1>2, <1>6 DEF OpenLsn
<1>8. LogShape
  BY LogHasShape DEF PipelineInv
<1>9. \A row \in Row : CommitLsn[row] = sent + 1 => row <= upto
  <2>1. \A row \in Row : row \in Nat
    BY CommitLsnFacts
  <2>. QED
    BY <1>1, <1>3, <2>1, ToSendFacts
<1>10. HandFits'
  <2>1. CommitFits'
    <3>1. \A row \in Row : CommitLsn[row] <= sent + 1 \/ sent + 1 < CommitLsn[row]
      BY <1>3, CommitLsnFacts
    <3>2. startPos < sent + 1 /\ sent + 1 <= sent + 1
      BY <1>3
    <3>. QED
      BY <1>1, <1>2, <3>1, <3>2 DEF CommitFits
  <2>. QED
    BY <1>2, <1>6, <2>1 DEF HandFits, BeginFits, ChangeFits, KeepaliveFits, PendingFits
<1>11. Positions'
  <2>1. startPos <= sent + 1
    BY <1>3
  <2>. QED
    BY <1>1, <1>2, <1>3, <1>4, <1>7, <2>1
       DEF PipelineInv, Positions, InSession, mainVars
<1>12. \A row \in Row : SentInRun(row)' <=> SentInRun(row)
  <2>1. PICK s \in Nat : s = sent' /\ s = sent + 1
    BY <1>1, <1>3
  <2>2. \A row \in Row :
           CommitLsn[row] <= s \/ (CommitLsn[row] = s + 1 /\ row <= 0)
             <=> CommitLsn[row] <= sent \/ (CommitLsn[row] = sent + 1 /\ row <= upto)
    <3>1. \A row \in Row : /\ row \in Nat \ {0} /\ CommitLsn[row] \in Nat
      BY CommitLsnFacts
    <3>. QED
      BY <1>3, <1>9, <2>1, <3>1
  <2>. QED
    BY <1>1, <1>2, <2>1, <2>2 DEF SentInRun
<1>13. NewRows'
  <2>1. \A i \in base + 1 .. Len(Log) : Log[i] \in Row
    BY <1>3, <1>8 DEF LogShape
  <2>. QED
    BY <1>2, <1>12, <2>1 DEF NewRows, SentInRun
<1>14. NothingMissing'
  BY <1>2, <1>6, <1>12, PipelineAssumption DEF NothingMissing, InSeq, SentInRun, Usable
<1>15. TailIsOpen'
  BY <1>2, <1>6, <1>7 DEF TailIsOpen
<1>. QED
  BY <1>2, <1>5, <1>10, <1>11, <1>13, <1>14, <1>15, StreamStep

(* A keepalive comes at any time and moves nothing. *)
LEMMA ReceiveKeepaliveInv ==
  ASSUME PipelineInv, BatcherInv', NEW reply \in BOOLEAN, ReceiveKeepalive(reply)
  PROVE  PipelineInv'
<1> DEFINE m == [kind |-> "keepalive", pos |-> sent, reply |-> reply]
<1>1. /\ reader /\ hand = <<>> /\ hand' = <<m>>
      /\ UNCHANGED <<processVars, serverVars, mainVars, xLogPos>> /\ reader' = reader
  BY DEF ReceiveKeepalive
<1>2. /\ UNCHANGED <<walEnd, confirmed, streaming, startPos, sent, out, upto>>
      /\ UNCHANGED <<buffer, delivered, lastCommitted, pending, adds, base, phase>>
  BY <1>1 DEF serverVars, processVars, batcherVars, mainVars
<1>3. hand' # <<>> /\ hand'[1].kind = "keepalive" /\ hand'[1].pos = sent
  BY <1>1
<1>4. PipelineTypeOK'
  <2>1. m \in Message
    BY TypeFacts DEF PipelineInv, Message
  <2>2. hand' \in {<<>>} \union {<<n>> : n \in Message}
    BY <1>1, <2>1
  <2>. QED
    BY <1>1, <1>2, <2>2, TypesStay DEF PipelineInv, PipelineTypeOK
<1>5. /\ Has("keepalive")' /\ ~Has("begin")' /\ ~Has("change")' /\ ~Has("commit")'
      /\ ~Has("commit") /\ ~Has("change") /\ OpenLsn' = OpenLsn /\ pending' = <<>>
      /\ Log' = Log /\ Marked' = Marked
  <2>1. /\ Has("keepalive")' /\ ~Has("begin")' /\ ~Has("change")' /\ ~Has("commit")'
        /\ ~Has("commit") /\ ~Has("change")
    BY <1>1, <1>3 DEF Has
  <2>2. pending = <<>>
    BY <2>1 DEF PipelineInv, HandFits, PendingFits
  <2>. QED
    BY <1>2, <2>1, <2>2, SameLog DEF OpenLsn
<1>6. HandFits'
  <2>1. KeepaliveFits'
    <3>1. sent <= sent
      BY TypeFacts, CommitLsnFacts DEF PipelineInv
    <3>. QED
      BY <1>2, <1>3, <3>1 DEF KeepaliveFits
  <2>. QED
    BY <1>5, <2>1 DEF HandFits, BeginFits, ChangeFits, CommitFits, PendingFits
<1>7. InSession /\ NewRows /\ NothingMissing /\ TailIsOpen
  BY <1>1, UnderWayInSession DEF PipelineInv, SessionLog
<1>8. Positions'
  BY <1>1, <1>2, <1>5 DEF PipelineInv, Positions, InSession
<1>9. NewRows' /\ NothingMissing' /\ TailIsOpen'
  <2>1. NewRows'
    BY <1>2, <1>5, <1>7 DEF NewRows, SentInRun
  <2>2. NothingMissing'
    BY <1>2, <1>5, <1>7 DEF NothingMissing, InSeq, SentInRun
  <2>3. TailIsOpen'
    BY <1>2, <1>5, <1>7 DEF TailIsOpen
  <2>. QED
    BY <2>1, <2>2, <2>3
<1>. QED
  BY <1>1, <1>2, <1>4, <1>6, <1>7, <1>8, <1>9, StreamStep

------------------------------------------------------------------------------
(* The reader handles its message. *)

(* What holds when the reader is done with a message, whatever it was. *)
LEMMA Handled ==
  ASSUME PipelineInv, BatcherInv', hand # <<>>, hand' = <<>>,
         hand[1].pos <= sent, MoveTo(hand[1].pos),
         UNCHANGED mainVars,
         UNCHANGED <<walEnd, streaming, startPos, sent, out, upto>>,
         confirmed' \in 0..Len(Wal), confirmed' <= walEnd,
         reader' \in BOOLEAN, adds' \in Nat, pending' = <<>>
  PROVE  /\ PipelineTypeOK' /\ Positions' /\ HandFits' /\ Quiet'
         /\ InSession /\ InSession' /\ OldRows /\ NewRows /\ NothingMissing /\ TailIsOpen
         /\ OpenLsn' = sent + 1
         /\ ~Has("change")' /\ ~Has("commit")'
<1>. USE DEF PipelineInv
<1>1. InSession /\ OldRows /\ NewRows /\ NothingMissing /\ TailIsOpen
  BY UnderWayInSession DEF SessionLog
<1>2. InSession'
  BY <1>1 DEF InSession, mainVars
<1>3. ~Has("begin")' /\ ~Has("change")' /\ ~Has("commit")' /\ ~Has("keepalive")'
  BY DEF Has
<1>4. OpenLsn' = sent + 1
  BY <1>3 DEF OpenLsn
<1>5. hand[1].pos \in 0..Len(Wal) /\ hand[1].pos \in Nat
  BY HandPos
<1>6. /\ sent \in Nat /\ walEnd \in Nat /\ xLogPos \in Nat /\ Len(Wal) \in Nat
      /\ sent <= walEnd /\ xLogPos <= walEnd /\ walEnd <= Len(Wal)
      /\ walEnd \in 0..Len(Wal) /\ startPos \in 0..Len(Wal)
      /\ sent \in 0..Len(Wal) /\ upto \in 0..Len(Wal)
      /\ startPos <= sent
  BY <1>1, TypeFacts, CommitLsnFacts DEF Positions
<1>7. xLogPos < sent + 1
  <2>1. CASE Has("commit")
    BY <1>1, <1>5, <1>6, <2>1 DEF Positions, OpenLsn
  <2>2. CASE ~Has("commit")
    BY <1>1, <2>2 DEF Positions, OpenLsn
  <2>. QED
    BY <2>1, <2>2
<1>8. PICK x \in 0..Len(Wal) : x = xLogPos' /\ x <= walEnd /\ x < sent + 1
  BY <1>5, <1>6, <1>7 DEF MoveTo, Larger
<1>9. PipelineTypeOK'
  BY <1>6, <1>8, TypesStay DEF PipelineTypeOK
<1>10. Positions'
  BY <1>2, <1>4, <1>6, <1>8 DEF Positions
<1>11. HandFits'
  BY <1>3 DEF HandFits, BeginFits, ChangeFits, CommitFits, KeepaliveFits, PendingFits
<1>12. Quiet'
  BY <1>2 DEF Quiet
<1>. QED
  BY <1>1, <1>2, <1>3, <1>4, <1>9, <1>10, <1>11, <1>12

(* The position the slot confirms is one the server has written. *)
LEMMA ConfirmedStays ==
  ASSUME PipelineInv
  PROVE  confirmed \in 0..Len(Wal) /\ confirmed <= walEnd
BY TypeFacts DEF PipelineInv, Positions

(* A Begin message finds everything in the batcher committed. *)
LEMMA HandleBeginInv ==
  ASSUME PipelineInv, BatcherInv', HandleBegin
  PROVE  PipelineInv'
<1>1. /\ Has("begin") /\ hand # <<>> /\ hand' = <<>> /\ MoveTo(hand[1].pos)
      /\ adds' = 0 /\ UNCHANGED batcherVars
      /\ UNCHANGED serverVars /\ UNCHANGED mainVars /\ reader' = reader
  BY DEF HandleBegin, OnBegin, Has
<1>2. /\ out = "changes" /\ hand[1].pos <= sent /\ Marked = Len(Log)
  BY <1>1 DEF PipelineInv, HandFits, BeginFits
<1>3. /\ UNCHANGED <<walEnd, confirmed, streaming, startPos, sent, out, upto>>
      /\ UNCHANGED <<buffer, delivered, lastCommitted, pending, sending, phase, base>>
      /\ pending = <<>> /\ ~Has("change") /\ ~Has("commit")
  <2>1. ~Has("change") /\ ~Has("commit")
    BY <1>1 DEF Has
  <2>. QED
    BY <1>1, <2>1 DEF serverVars, batcherVars, mainVars, PipelineInv, HandFits, PendingFits
<1>4. /\ PipelineTypeOK' /\ Positions' /\ HandFits' /\ Quiet'
      /\ InSession /\ InSession' /\ OldRows /\ NewRows /\ NothingMissing /\ TailIsOpen
      /\ OpenLsn' = sent + 1 /\ ~Has("change")' /\ ~Has("commit")'
  <2>1. reader' \in BOOLEAN /\ pending' = <<>>
    BY <1>1, <1>3 DEF PipelineInv, PipelineTypeOK
  <2>2. confirmed' \in 0..Len(Wal) /\ confirmed' <= walEnd
    BY <1>3, ConfirmedStays
  <2>3. adds' \in Nat
    BY <1>1
  <2>. QED
    BY <1>1, <1>2, <1>3, <2>1, <2>2, <2>3, Handled
<1>5. /\ Log' = Log /\ Marked' = Marked
      /\ LogOrdered' /\ LogUsable' /\ TxnsComplete'
      /\ DeliveredWritten' /\ OwedCommitted'
  <2>1. walEnd' \in Nat /\ walEnd <= walEnd'
    BY <1>3, TypeFacts, CommitLsnFacts DEF PipelineInv
  <2>2. phase # "ready"
    BY <1>4 DEF InSession
  <2>. QED
    BY <1>1, <1>3, <2>1, <2>2, LogStays
<1>6. TailCounted'
  <2>1. Marked \in Nat
    BY LogHasShape DEF PipelineInv, LogShape
  <2>. QED
    BY <1>1, <1>2, <1>5, <2>1 DEF TailCounted
<1>7. OldRows' /\ NewRows'
  BY <1>3, <1>4, <1>5 DEF OldRows, NewRows, SentInRun
<1>8. NothingMissing'
  BY <1>3, <1>4, <1>5 DEF NothingMissing, InSeq, SentInRun
<1>9. TailIsOpen'
  <2>1. OpenLsn = sent + 1
    BY <1>3 DEF OpenLsn
  <2>. QED
    BY <1>2, <1>3, <1>4, <1>5, <2>1 DEF TailIsOpen
<1>. QED
  BY <1>4, <1>5, <1>6, <1>7, <1>8, <1>9 DEF PipelineInv, SessionLog

(* While Add waits for the mutex or for its flush, the change is pending.  *)
LEMMA HandleChangeInv ==
  ASSUME PipelineInv, BatcherInv', HandleChange
  PROVE  PipelineInv'
<1>. USE DEF PipelineInv
<1>1. /\ Has("change") /\ Add(hand[1].pos + 1) /\ adds' = adds
      /\ hand[1].pos + 1 \notin Unusable /\ pending = <<>>
      /\ UNCHANGED serverVars /\ UNCHANGED mainVars /\ UNCHANGED readerVars
  BY DEF HandleChange, OnChange, Has, ReaderReady
<1>2. /\ UNCHANGED <<walEnd, confirmed, streaming, startPos, sent, out, upto>>
      /\ UNCHANGED <<xLogPos, reader, hand>> /\ UNCHANGED <<phase, base>>
      /\ UNCHANGED <<buffer, delivered, lastCommitted>> /\ ~sending
      /\ pending' = <<hand[1].pos + 1>>
  BY <1>1 DEF serverVars, readerVars, mainVars, Add, Locked
<1>3. upto = hand[1].pos + 1 /\ upto \in Row /\ upto \in Usable
  BY <1>1 DEF HandFits, ChangeFits, Usable
<1>4. InSession /\ InSession' /\ SessionLog
  BY <1>1, <1>2, UnderWayInSession DEF Has, InSession
<1>5. PipelineTypeOK'
  <2>1. adds' \in Nat
    BY <1>1, TypeFacts
  <2>. QED
    BY <1>1, <1>2, <2>1, TypesStay DEF PipelineTypeOK
<1>6. /\ Log' = Log /\ Marked' = Marked
      /\ LogOrdered' /\ LogUsable' /\ TxnsComplete'
      /\ DeliveredWritten' /\ OwedCommitted'
  <2>1. walEnd' \in Nat /\ walEnd <= walEnd'
    BY <1>2, TypeFacts, CommitLsnFacts
  <2>. QED
    BY <1>1, <1>2, <2>1, LogStays
<1>7. /\ Has("begin")' = Has("begin") /\ Has("change")' = Has("change")
      /\ Has("commit")' = Has("commit") /\ Has("keepalive")' = Has("keepalive")
      /\ OpenLsn' = OpenLsn /\ ~Has("begin") /\ ~Has("commit") /\ ~Has("keepalive")
  BY <1>1, <1>2 DEF Has, OpenLsn
<1>8. HandFits'
  <2>1. ChangeFits'
    BY <1>2, <1>6, <1>7 DEF HandFits, ChangeFits, Before
  <2>2. PendingFits'
    BY <1>1, <1>2, <1>3, <1>7 DEF PendingFits
  <2>. QED
    BY <1>7, <2>1, <2>2 DEF HandFits, BeginFits, CommitFits, KeepaliveFits
<1>9. TailCounted' /\ Quiet' /\ Positions'
  <2>1. TailCounted'
    BY <1>1, <1>6 DEF TailCounted
  <2>2. Quiet'
    BY <1>4 DEF Quiet
  <2>3. Positions'
    BY <1>2, <1>4, <1>7 DEF Positions
  <2>. QED
    BY <2>1, <2>2, <2>3
<1>10. OldRows' /\ NewRows' /\ NothingMissing' /\ TailIsOpen'
  <2>1. OldRows' /\ NewRows'
    BY <1>2, <1>4, <1>6 DEF SessionLog, OldRows, NewRows, SentInRun
  <2>2. NothingMissing'
    BY <1>2, <1>4, <1>6, <1>7 DEF SessionLog, NothingMissing, InSeq, SentInRun
  <2>3. TailIsOpen'
    BY <1>2, <1>4, <1>6, <1>7 DEF SessionLog, TailIsOpen
  <2>. QED
    BY <2>1, <2>2, <2>3
<1>. QED
  BY <1>5, <1>6, <1>8, <1>9, <1>10 DEF SessionLog

(* What the end of a change needs and leaves. *)
LEMMA ChangeDoneFacts ==
  ASSUME PipelineInv, BatcherInv', HandleChangeDone, adds' \in Nat, pending' = <<>>
  PROVE  /\ Has("change") /\ out = "changes"
         /\ upto \in Row /\ CommitLsn[upto] = sent + 1 /\ upto = hand[1].pos + 1
         /\ \A i \in 1..Len(Log) : Before(Log[i], upto)
         /\ OpenLsn = sent + 1
         /\ UNCHANGED <<walEnd, startPos, sent, out, upto, base, phase>>
         /\ UNCHANGED mainVars
         /\ PipelineTypeOK' /\ Positions' /\ HandFits' /\ Quiet'
         /\ InSession /\ InSession' /\ OldRows /\ NewRows /\ NothingMissing /\ TailIsOpen
         /\ OpenLsn' = sent + 1
         /\ ~Has("change")' /\ ~Has("commit")'
<1>1. /\ Has("change") /\ hand # <<>> /\ hand' = <<>> /\ MoveTo(hand[1].pos)
      /\ UNCHANGED serverVars /\ UNCHANGED mainVars /\ reader' = reader
  BY DEF HandleChangeDone, Has
<1>2. /\ UNCHANGED <<walEnd, confirmed, streaming, startPos, sent, out, upto>>
      /\ UNCHANGED <<base, phase>>
  BY <1>1 DEF serverVars, mainVars
<1>3. /\ out = "changes" /\ upto \in Row /\ CommitLsn[upto] = sent + 1
      /\ upto = hand[1].pos + 1 /\ \A i \in 1..Len(Log) : Before(Log[i], upto)
  BY <1>1 DEF PipelineInv, HandFits, ChangeFits
<1>4. hand[1].pos <= sent
  <2>1. hand[1].pos \in Nat /\ sent \in Nat /\ upto < CommitLsn[upto]
    BY <1>1, <1>3, HandPos, TypeFacts, CommitLsnFacts DEF PipelineInv
  <2>. QED
    BY <1>3, <2>1
<1>5. OpenLsn = sent + 1
  BY <1>1 DEF OpenLsn, Has
<1>6. reader' \in BOOLEAN
  BY <1>1 DEF PipelineInv, PipelineTypeOK
<1>7. confirmed' \in 0..Len(Wal) /\ confirmed' <= walEnd
  BY <1>2, ConfirmedStays
<1>8. /\ PipelineTypeOK' /\ Positions' /\ HandFits' /\ Quiet'
      /\ InSession /\ InSession' /\ OldRows /\ NewRows /\ NothingMissing /\ TailIsOpen
      /\ OpenLsn' = sent + 1
      /\ ~Has("change")' /\ ~Has("commit")'
  BY <1>1, <1>2, <1>4, <1>6, <1>7, Handled
<1>. QED
  BY <1>1, <1>2, <1>3, <1>5, <1>8

(* A change that was dropped is not missed. *)
LEMMA HandleDroppedInv ==
  ASSUME PipelineInv, BatcherInv', HandleChangeDone,
         UNCHANGED processVars, hand[1].pos + 1 \in Unusable
  PROVE  PipelineInv'
<1>1. /\ UNCHANGED <<buffer, delivered, lastCommitted, sending, pending>> /\ adds' = adds
  BY DEF processVars, batcherVars
<1>2. pending' = <<>>
  <2>1. Has("change") /\ upto = hand[1].pos + 1
    BY DEF HandleChangeDone, Has, PipelineInv, HandFits, ChangeFits
  <2>2. upto \notin Usable
    BY <2>1 DEF Usable
  <2>. QED
    BY <1>1, <2>2 DEF PipelineInv, HandFits, PendingFits
<1>3. adds' \in Nat
  BY <1>1, TypeFacts DEF PipelineInv
<1>4. /\ Has("change") /\ out = "changes" /\ OpenLsn = sent + 1
      /\ upto = hand[1].pos + 1
      /\ UNCHANGED <<walEnd, startPos, sent, out, upto, base, phase>>
      /\ UNCHANGED mainVars
      /\ PipelineTypeOK' /\ Positions' /\ HandFits' /\ Quiet'
      /\ InSession /\ InSession' /\ OldRows /\ NewRows /\ NothingMissing /\ TailIsOpen
      /\ OpenLsn' = sent + 1 /\ ~Has("change")' /\ ~Has("commit")'
  BY <1>2, <1>3, ChangeDoneFacts
<1>5. /\ Log' = Log /\ Marked' = Marked
      /\ LogOrdered' /\ LogUsable' /\ TxnsComplete'
      /\ DeliveredWritten' /\ OwedCommitted'
  <2>1. walEnd' \in Nat /\ walEnd <= walEnd'
    BY <1>4, TypeFacts, CommitLsnFacts DEF PipelineInv
  <2>2. phase # "ready"
    BY <1>4 DEF InSession
  <2>. QED
    BY <1>1, <1>4, <2>1, <2>2, LogStays
<1>6. TailCounted'
  BY <1>1, <1>5 DEF PipelineInv, TailCounted
<1>7. OldRows' /\ NewRows'
  BY <1>1, <1>4, <1>5 DEF OldRows, NewRows, SentInRun
<1>8. NothingMissing'
  <2>1. upto \notin Usable
    BY <1>4 DEF Usable
  <2>. QED
    BY <1>4, <1>5, <2>1 DEF NothingMissing, InSeq, SentInRun
<1>9. TailIsOpen'
  BY <1>4, <1>5 DEF TailIsOpen
<1>. QED
  BY <1>4, <1>5, <1>6, <1>7, <1>8, <1>9 DEF PipelineInv, SessionLog

(* A change that was added extends the log at its end. *)
LEMMA HandleAddedInv ==
  ASSUME PipelineInv, BatcherInv', HandleChangeDone, OnChangeDone
  PROVE  PipelineInv'
<1>. USE DEF PipelineInv
<1>1. /\ FinishAdd /\ adds' = adds + 1 /\ pending # <<>> /\ pending' = <<>>
      /\ ~sending /\ sending' = sending
  BY DEF OnChangeDone, FinishAdd
<1>2. adds \in Nat /\ adds' \in Nat
  <2>1. adds \in Nat /\ adds + 1 \in Nat
    BY TypeFacts
  <2>. QED
    BY <1>1, <2>1
<1>3. /\ Has("change") /\ out = "changes" /\ OpenLsn = sent + 1
      /\ upto \in Row /\ CommitLsn[upto] = sent + 1
      /\ \A i \in 1..Len(Log) : Before(Log[i], upto)
      /\ UNCHANGED <<walEnd, startPos, sent, out, upto, base, phase>>
      /\ UNCHANGED mainVars
      /\ PipelineTypeOK' /\ Positions' /\ HandFits' /\ Quiet'
      /\ InSession /\ InSession' /\ OldRows /\ NewRows /\ NothingMissing /\ TailIsOpen
      /\ OpenLsn' = sent + 1 /\ ~Has("change")' /\ ~Has("commit")'
  BY <1>1, <1>2, ChangeDoneFacts
<1>4. pending = <<upto>> /\ upto \in Usable
  BY <1>1 DEF HandFits, PendingFits
<1>5. /\ Marked' = Marked /\ delivered' = delivered
      /\ Len(Log') = Len(Log) + 1
      /\ \A i \in 1..Len(Log) : Log'[i] = Log[i]
      /\ Log'[Len(Log) + 1] = upto
  BY <1>1, <1>3, <1>4, FinishAddLog
<1>6. /\ Len(Log) \in Nat /\ Marked \in Nat /\ Len(delivered) \in Nat
      /\ Len(delivered) <= Marked /\ Marked <= Len(Log)
      /\ \A i \in 1..Len(Log) : Log[i] \in Row
      /\ base \in Nat /\ sent \in Nat /\ startPos \in Nat /\ startPos <= sent /\ upto \in Nat
  BY <1>3, LogHasShape, TypeFacts, CommitLsnFacts DEF LogShape, Positions
<1>7. \A i \in 1..Len(Log') :
         \/ i \in 1..Len(Log) /\ Log'[i] = Log[i]
         \/ i = Len(Log) + 1 /\ Log'[i] = upto
  BY <1>5, <1>6
<1>8. LogOrdered'
  <2>1. ASSUME NEW i \in 1..Len(Log'), NEW j \in 1..Len(Log'), i < j
        PROVE  Before(Log'[i], Log'[j])
    <3>1. i \in 1..Len(Log) /\ Log'[i] = Log[i]
      BY <1>5, <1>6, <2>1
    <3>2. CASE j \in 1..Len(Log)
      BY <1>5, <2>1, <3>1, <3>2 DEF LogOrdered
    <3>3. CASE j = Len(Log) + 1
      BY <1>3, <1>5, <3>1, <3>3
    <3>. QED
      BY <1>7, <3>2, <3>3
  <2>. QED
    BY <2>1 DEF LogOrdered, Before
<1>9. LogUsable'
  BY <1>4, <1>7 DEF LogUsable
<1>10. TxnsComplete'
  <2>1. \A n \in {Len(delivered), Marked} : \A i \in 1..n : Log'[i] = Log[i]
    BY <1>5, <1>6
  <2>. QED
    BY <1>5, <2>1 DEF TxnsComplete, WholeTxns
<1>11. TailCounted'
  <2>1. adds + 1 = (Len(Log) + 1) - Marked
    BY <1>2, <1>6 DEF TailCounted
  <2>2. PICK n, m : n = Len(Log') /\ m = Marked' /\ n = Len(Log) + 1 /\ m = Marked
    BY <1>5
  <2>3. adds' = n - m
    BY <1>1, <2>1, <2>2
  <2>. QED
    BY <2>2, <2>3 DEF TailCounted
<1>12. DeliveredWritten'
  <2>1. phase' # "ready"
    BY <1>3 DEF InSession
  <2>2. \A i \in 1..Len(delivered) : Log'[i] = Log[i]
    BY <1>5, <1>6
  <2>. QED
    BY <1>3, <1>5, <2>1, <2>2 DEF DeliveredWritten
<1>13. OwedCommitted'
  BY <1>1, <1>3, <1>5 DEF OwedCommitted, SignalledRowsFlushed, mainVars
<1>14. \A row \in Row : SentInRun(row)' <=> SentInRun(row)
  BY <1>3 DEF SentInRun
<1>15. OldRows'
  <2>1. \A i \in 1..base : Log'[i] = Log[i]
    BY <1>3, <1>5, <1>6 DEF OldRows
  <2>. QED
    BY <1>3, <1>5, <2>1 DEF OldRows
<1>16. NewRows'
  <2>1. SentInRun(upto)
    BY <1>3, <1>6 DEF SentInRun
  <2>2. \A i \in base + 1 .. Len(Log') : SentInRun(Log'[i])
    BY <1>3, <1>6, <1>7, <2>1 DEF NewRows
  <2>. QED
    BY <1>3, <2>2 DEF NewRows, SentInRun
<1>17. NothingMissing'
  <2>1. ASSUME NEW row \in Usable, SentInRun(row)
        PROVE  \E i \in 1..Len(Log') : Log'[i] = row
    <3>1. CASE \E i \in 1..Len(Log) : Log[i] = row
      BY <1>5, <1>6, <3>1
    <3>2. CASE row = upto
      <4>1. Len(Log) + 1 \in 1..Len(Log')
        BY <1>5, <1>6
      <4>. QED
        BY <1>5, <3>2, <4>1
    <3>. QED
      BY <1>3, <2>1, <3>1, <3>2 DEF NothingMissing, InSeq
  <2>. QED
    BY <1>3, <2>1 DEF NothingMissing, InSeq, SentInRun
<1>18. TailIsOpen'
  <2>1. \A i \in 1..Marked : Log'[i] = Log[i]
    BY <1>5, <1>6
  <2>2. \A i \in Marked + 1 .. Len(Log') : CommitLsn[Log'[i]] = sent + 1
    BY <1>3, <1>6, <1>7 DEF TailIsOpen
  <2>. QED
    BY <1>3, <1>5, <2>1, <2>2 DEF TailIsOpen
<1>. QED
  BY <1>3, <1>8, <1>9, <1>10, <1>11, <1>12, <1>13, <1>15, <1>16, <1>17, <1>18
     DEF SessionLog

(* The change is done either way: added, or dropped. *)
LEMMA HandleChangeDoneInv ==
  ASSUME PipelineInv, BatcherInv', HandleChangeDone
  PROVE  PipelineInv'
<1>1. \/ OnChangeDone
      \/ hand[1].pos + 1 \in Unusable /\ UNCHANGED processVars
  BY DEF HandleChangeDone, OnChange
<1>. QED
  BY <1>1, HandleAddedInv, HandleDroppedInv

(* A Commit message commits the transaction, and nothing of it is missing. *)
LEMMA HandleCommitInv ==
  ASSUME PipelineInv, BatcherInv', HandleCommit
  PROVE  PipelineInv'
<1>. USE DEF PipelineInv
<1>1. /\ Has("commit") /\ hand # <<>> /\ hand' = <<>> /\ MoveTo(hand[1].pos)
      /\ OnCommit
      /\ UNCHANGED serverVars /\ UNCHANGED mainVars /\ reader' = reader
  BY DEF HandleCommit, Has
<1>2. /\ UNCHANGED <<walEnd, confirmed, streaming, startPos, sent, out, upto>>
      /\ UNCHANGED <<base, phase, ctxDone, owed, stopFailed>>
  BY <1>1 DEF serverVars, mainVars
<1>3. /\ out # "changes" /\ startPos < hand[1].pos /\ hand[1].pos <= sent
      /\ OpenLsn = hand[1].pos
  BY <1>1 DEF HandFits, CommitFits, OpenLsn
<1>4. /\ Log' = Log /\ Marked' = Len(Log) /\ delivered' = delivered
      /\ adds' = 0 /\ UNCHANGED <<pending, sending>>
  BY <1>1, TypeFacts, OnCommitLog
<1>5. pending = <<>> /\ ~Has("change")
  <2>1. ~Has("change")
    BY <1>1 DEF Has
  <2>. QED
    BY <2>1 DEF HandFits, PendingFits
<1>6. /\ PipelineTypeOK' /\ Positions' /\ HandFits' /\ Quiet'
      /\ InSession /\ InSession' /\ OldRows /\ NewRows /\ NothingMissing /\ TailIsOpen
      /\ OpenLsn' = sent + 1 /\ ~Has("change")' /\ ~Has("commit")'
  <2>1. reader' \in BOOLEAN
    BY <1>1 DEF PipelineTypeOK
  <2>2. pending' = <<>> /\ adds' \in Nat
    BY <1>4, <1>5
  <2>3. confirmed' \in 0..Len(Wal) /\ confirmed' <= walEnd
    BY <1>2, ConfirmedStays
  <2>. QED
    BY <1>1, <1>2, <1>3, <2>1, <2>2, <2>3, Handled
<1>7. /\ Len(Log) \in Nat /\ Marked \in Nat /\ Len(delivered) \in Nat
      /\ Len(delivered) <= Marked /\ Marked <= Len(Log)
      /\ \A i \in 1..Len(Log) : Log[i] \in Row
      /\ sent \in Nat /\ hand[1].pos \in Nat
  BY <1>1, LogHasShape, TypeFacts, CommitLsnFacts, HandPos DEF LogShape
<1>8. LogOrdered' /\ LogUsable'
  BY <1>4 DEF LogOrdered, LogUsable, Before
<1>9. TailCounted'
  <2>1. PICK n : n = Marked' /\ n = Len(Log)
    BY <1>4
  <2>2. adds' = Len(Log) - n
    BY <1>4, <1>7, <2>1
  <2>. QED
    BY <1>4, <2>1, <2>2 DEF TailCounted
<1>10. TxnsComplete'
  <2>1. WholeTxns(Len(Log))
    <3>1. ASSUME NEW i \in 1..Len(Log), NEW row \in Usable,
                 CommitLsn[row] = CommitLsn[Log[i]]
          PROVE  \E j \in 1..Len(Log) : Log[j] = row
      <4>1. CASE i \in 1..Marked
        <5>1. \E j \in 1..Marked : Log[j] = row
          BY <3>1, <4>1 DEF TxnsComplete, WholeTxns
        <5>. QED
          BY <1>7, <5>1
      <4>2. CASE i \in Marked + 1 .. Len(Log)
        <5>1. CommitLsn[row] = hand[1].pos
          BY <1>3, <1>6, <3>1, <4>2 DEF TailIsOpen
        <5>2. SentInRun(row)
          BY <1>3, <5>1 DEF SentInRun
        <5>. QED
          BY <1>5, <1>6, <5>2 DEF NothingMissing, InSeq
      <4>. QED
        BY <1>7, <4>1, <4>2
    <3>. QED
      BY <3>1 DEF WholeTxns
  <2>. QED
    BY <1>4, <2>1 DEF TxnsComplete, WholeTxns
<1>11. DeliveredWritten'
  <2>1. phase' # "ready"
    BY <1>6 DEF InSession
  <2>. QED
    BY <1>2, <1>4, <2>1 DEF DeliveredWritten
<1>12. OwedCommitted'
  <2>1. ctxDone => owed <= Len(Log)
    BY <1>7, TypeFacts DEF OwedCommitted
  <2>. QED
    BY <1>2, <1>4, <2>1 DEF OwedCommitted, SignalledRowsFlushed
<1>13. OldRows' /\ NewRows'
  BY <1>2, <1>4, <1>6 DEF OldRows, NewRows, SentInRun
<1>14. NothingMissing'
  BY <1>2, <1>4, <1>5, <1>6 DEF NothingMissing, InSeq, SentInRun
<1>15. TailIsOpen'
  <2>1. ASSUME NEW i \in 1..Len(Log)
        PROVE  CommitLsn[Log[i]] < sent + 1
    <3>1. CommitLsn[Log[i]] \in Nat
      BY <1>7, CommitLsnFacts
    <3>2. CASE i \in 1..Marked
      BY <1>3, <1>6, <1>7, <3>1, <3>2 DEF TailIsOpen
    <3>3. CASE i \in Marked + 1 .. Len(Log)
      BY <1>3, <1>6, <1>7, <3>1, <3>3 DEF TailIsOpen
    <3>. QED
      BY <1>7, <3>2, <3>3
  <2>2. Len(Log) + 1 > Len(Log) /\ ~(Len(Log) < Len(Log))
    BY <1>7
  <2>3. PICK n : n = Marked' /\ n = Len(Log)
    BY <1>4
  <2>4. \A i \in n + 1 .. Len(Log) : FALSE
    BY <1>7, <2>3
  <2>. QED
    BY <1>4, <1>6, <2>1, <2>2, <2>3, <2>4 DEF TailIsOpen
<1>. QED
  BY <1>6, <1>8, <1>9, <1>10, <1>11, <1>12, <1>13, <1>14, <1>15 DEF SessionLog

(* A keepalive's position, and the status update it asks for, are behind   *)
(* everything that is not in the batcher.                                  *)
LEMMA HandleKeepaliveInv ==
  ASSUME PipelineInv, BatcherInv', HandleKeepalive
  PROVE  PipelineInv'
<1>. USE DEF PipelineInv
<1>1. /\ Has("keepalive") /\ hand # <<>> /\ hand' = <<>> /\ MoveTo(hand[1].pos)
      /\ UNCHANGED processVars /\ UNCHANGED mainVars
      /\ UNCHANGED <<walEnd, streaming, startPos, sent, out, upto>>
      /\ confirmed' \in {confirmed, xLogPos'} /\ reader' \in {reader, streaming}
  <2>1. confirmed' \in {confirmed, xLogPos'} /\ reader' \in {reader, streaming}
    BY DEF HandleKeepalive, StandbyStatusUpdate, Larger
  <2>. QED
    BY <2>1 DEF HandleKeepalive, Has
<1>2. hand[1].pos <= sent
  BY <1>1 DEF HandFits, KeepaliveFits
<1>3. /\ UNCHANGED <<buffer, delivered, lastCommitted, sending, pending>>
      /\ adds' = adds /\ UNCHANGED <<base, phase>>
  BY <1>1 DEF processVars, batcherVars, mainVars
<1>4. pending = <<>> /\ ~Has("change") /\ ~Has("commit")
  <2>1. ~Has("change") /\ ~Has("commit")
    BY <1>1 DEF Has
  <2>. QED
    BY <2>1 DEF HandFits, PendingFits
<1>5. confirmed' \in 0..Len(Wal) /\ confirmed' <= walEnd
  <2>1. confirmed \in 0..Len(Wal) /\ confirmed <= walEnd
    BY ConfirmedStays
  <2>2. xLogPos' \in {xLogPos, hand[1].pos}
    BY <1>1 DEF MoveTo, Larger
  <2>3. xLogPos \in 0..Len(Wal) /\ xLogPos <= walEnd
    BY TypeFacts DEF Positions
  <2>4. hand[1].pos \in 0..Len(Wal) /\ hand[1].pos <= walEnd
    <3>1. hand[1].pos \in 0..Len(Wal) /\ hand[1].pos \in Nat
      BY <1>1, HandPos
    <3>2. sent \in Nat /\ walEnd \in Nat /\ sent <= walEnd
      BY TypeFacts, CommitLsnFacts DEF Positions
    <3>. QED
      BY <1>2, <3>1, <3>2
  <2>. QED
    BY <1>1, <2>1, <2>2, <2>3, <2>4
<1>6. /\ PipelineTypeOK' /\ Positions' /\ HandFits' /\ Quiet'
      /\ InSession /\ InSession' /\ OldRows /\ NewRows /\ NothingMissing /\ TailIsOpen
      /\ OpenLsn' = sent + 1 /\ ~Has("change")' /\ ~Has("commit")'
  <2>1. reader' \in BOOLEAN
    BY <1>1 DEF PipelineTypeOK
  <2>2. pending' = <<>> /\ adds' \in Nat
    BY <1>3, <1>4, TypeFacts
  <2>. QED
    BY <1>1, <1>2, <1>5, <2>1, <2>2, Handled
<1>7. /\ Log' = Log /\ Marked' = Marked
      /\ LogOrdered' /\ LogUsable' /\ TxnsComplete'
      /\ DeliveredWritten' /\ OwedCommitted'
  <2>1. walEnd' \in Nat /\ walEnd <= walEnd'
    BY <1>1, TypeFacts, CommitLsnFacts
  <2>2. phase # "ready"
    BY <1>6 DEF InSession
  <2>. QED
    BY <1>1, <1>3, <2>1, <2>2, LogStays
<1>8. TailCounted'
  BY <1>3, <1>7 DEF TailCounted
<1>9. OldRows' /\ NewRows'
  BY <1>1, <1>3, <1>6, <1>7 DEF OldRows, NewRows, SentInRun
<1>10. NothingMissing'
  BY <1>1, <1>4, <1>6, <1>7 DEF NothingMissing, InSeq, SentInRun
<1>11. TailIsOpen'
  <2>1. OpenLsn = sent + 1
    BY <1>4 DEF OpenLsn
  <2>. QED
    BY <1>1, <1>4, <1>6, <1>7, <2>1 DEF TailIsOpen
<1>. QED
  BY <1>6, <1>7, <1>8, <1>9, <1>10, <1>11 DEF SessionLog

------------------------------------------------------------------------------
(* The main goroutine, the flush loop and the answers of the search engine.*)

(* What is left to show of a step that leaves the stream alone. *)
LEMMA MainStep ==
  ASSUME PipelineInv, BatcherInv', PipelineTypeOK',
         UNCHANGED <<adds, serverVars, readerVars>>, pending' = pending, base' = base,
         Log' = Log, Marked' = Marked,
         Len(delivered) <= Len(delivered'), InSession' = InSession,
         TxnsComplete', DeliveredWritten', Quiet', OwedCommitted'
  PROVE  PipelineInv'
<1>. USE DEF PipelineInv
<1>1. /\ UNCHANGED <<walEnd, confirmed, streaming, startPos, sent, out, upto>>
      /\ UNCHANGED <<xLogPos, hand, adds>>
  BY DEF serverVars, readerVars
<1>2. Len(delivered') \in Nat
  BY LogHasShapeNext DEF LogShape
<1>3. LogOrdered' /\ LogUsable' /\ TailCounted'
  BY <1>1 DEF LogOrdered, LogUsable, TailCounted, Before
<1>4. HandFits' /\ SessionLog' /\ OpenLsn' = OpenLsn
  BY <1>1, <1>2, StreamStays
<1>5. Positions'
  BY <1>1, <1>4 DEF Positions
<1>. QED
  BY <1>3, <1>4, <1>5

(* A request that goes out, or fails, moves no row. *)
LEMMA SameRows ==
  ASSUME PipelineInv, UNCHANGED <<buffer, delivered, lastCommitted>>,
         UNCHANGED serverVars, xLogPos' = xLogPos,
         phase' = phase \/ phase' # "ready"
  PROVE  /\ Log' = Log /\ Marked' = Marked
         /\ Len(delivered) <= Len(delivered')
         /\ TxnsComplete' /\ DeliveredWritten'
<1>1. Log' = Log /\ Marked' = Marked
  BY SameLog
<1>2. Len(delivered) <= Len(delivered')
  BY LogHasShape DEF PipelineInv, LogShape
<1>3. TxnsComplete'
  BY <1>1 DEF PipelineInv, TxnsComplete, WholeTxns
<1>4. DeliveredWritten'
  BY <1>1 DEF PipelineInv, DeliveredWritten, serverVars
<1>. QED
  BY <1>1, <1>2, <1>3, <1>4

(* The signal notes how much is committed. *)
LEMMA SignalInv ==
  ASSUME PipelineInv, BatcherInv', Signal
  PROVE  PipelineInv'
<1>. USE DEF PipelineInv
<1>1. /\ ctxDone' = TRUE /\ owed' = Marked /\ phase \in {"ready", "running"}
      /\ UNCHANGED processVars /\ UNCHANGED serverVars /\ UNCHANGED readerVars
      /\ UNCHANGED <<phase, loop, starts, base, stopFailed>>
  BY DEF Signal, Marked
<1>2. /\ UNCHANGED <<buffer, delivered, lastCommitted, pending, sending>> /\ adds' = adds
      /\ xLogPos' = xLogPos
  BY <1>1 DEF processVars, batcherVars, readerVars
<1>3. Marked \in Nat /\ Marked <= Marked
  BY LogHasShape DEF LogShape
<1>4. PipelineTypeOK'
  BY <1>1, <1>2, <1>3, MainTypesStay DEF PipelineTypeOK
<1>5. /\ Log' = Log /\ Marked' = Marked
      /\ Len(delivered) <= Len(delivered')
      /\ TxnsComplete' /\ DeliveredWritten'
  BY <1>1, <1>2, SameRows
<1>6. Quiet'
  BY <1>1, <1>2 DEF Quiet, InSession, FlushLen, readerVars, serverVars
<1>7. OwedCommitted'
  BY <1>1, <1>3, <1>5 DEF OwedCommitted, SignalledRowsFlushed
<1>8. InSession' = InSession
  BY <1>1 DEF InSession
<1>. QED
  BY <1>1, <1>2, <1>4, <1>5, <1>6, <1>7, <1>8, MainStep

(* The final flush sends what is owed, or finds it delivered. *)
LEMMA ShutdownFlushInv ==
  ASSUME PipelineInv, BatcherInv', ShutdownFlush
  PROVE  PipelineInv'
<1>. USE DEF PipelineInv
<1>1. /\ phase = "running" /\ ctxDone
      /\ UNCHANGED <<buffer, delivered, lastCommitted, pending>> /\ adds' = adds
      /\ \/ FlushLen > 0 /\ sending' = TRUE /\ phase' = "flushing"
         \/ ~(FlushLen > 0) /\ phase' = "closing"
      /\ UNCHANGED serverVars /\ UNCHANGED readerVars
      /\ UNCHANGED <<ctxDone, loop, starts, base, owed, stopFailed>>
  BY DEF ShutdownFlush, Flush, batcherVars
<1>2. xLogPos' = xLogPos
  BY <1>1 DEF readerVars
<1>3. PipelineTypeOK'
  BY <1>1, MainTypesStay DEF PipelineTypeOK
<1>4. /\ Log' = Log /\ Marked' = Marked
      /\ Len(delivered) <= Len(delivered')
      /\ TxnsComplete' /\ DeliveredWritten'
  BY <1>1, <1>2, SameRows
<1>5. InSession' /\ InSession
  BY <1>1 DEF InSession
<1>6. Quiet'
  BY <1>5 DEF Quiet
<1>7. OwedCommitted'
  <2>1. owed <= Marked
    BY <1>1 DEF OwedCommitted
  <2>2. CASE FlushLen > 0 /\ sending' = TRUE /\ phase' = "flushing"
    BY <1>1, <1>4, <2>1, <2>2 DEF OwedCommitted, SignalledRowsFlushed
  <2>3. CASE ~(FlushLen > 0) /\ phase' = "closing"
    <3>1. FlushLen \in Nat /\ Len(delivered) \in Nat /\ owed \in Nat
      BY LogSizes, TypeFacts
    <3>2. Len(delivered) >= owed
      BY <2>1, <2>3, <3>1 DEF Marked
    <3>. QED
      BY <1>1, <1>4, <2>1, <2>3, <3>2 DEF OwedCommitted, SignalledRowsFlushed
  <2>. QED
    BY <1>1, <2>2, <2>3
<1>. QED
  BY <1>1, <1>3, <1>4, <1>5, <1>6, <1>7, MainStep

(* A tick of the flush loop only starts a request. *)
LEMMA LoopFlushInv ==
  ASSUME PipelineInv, BatcherInv', LoopFlush
  PROVE  PipelineInv'
<1>. USE DEF PipelineInv
<1>1. /\ FlushLen > 0 /\ sending' = TRUE
      /\ UNCHANGED <<buffer, delivered, lastCommitted, pending>> /\ adds' = adds
      /\ UNCHANGED serverVars /\ UNCHANGED readerVars
      /\ UNCHANGED <<phase, ctxDone, starts, base, owed, stopFailed>> /\ loop' = ~ctxDone
  BY DEF LoopFlush, Flush
<1>2. xLogPos' = xLogPos
  BY <1>1 DEF readerVars
<1>3. PipelineTypeOK'
  BY <1>1, MainTypesStay DEF PipelineTypeOK
<1>4. /\ Log' = Log /\ Marked' = Marked
      /\ Len(delivered) <= Len(delivered')
      /\ TxnsComplete' /\ DeliveredWritten'
  BY <1>1, <1>2, SameRows
<1>5. InSession' /\ InSession
  BY <1>1, UnderWayInSession DEF InSession
<1>6. Quiet'
  BY <1>5 DEF Quiet
<1>7. OwedCommitted'
  BY <1>1, <1>4 DEF OwedCommitted, SignalledRowsFlushed
<1>. QED
  BY <1>1, <1>3, <1>4, <1>5, <1>6, <1>7, MainStep

(* An answer delivers what is committed, or nothing. *)
LEMMA AnswerInv ==
  ASSUME PipelineInv, BatcherInv', NEW ok \in BOOLEAN, Answer(ok)
  PROVE  PipelineInv'
<1>. USE DEF PipelineInv
<1>1. /\ IF ok THEN BulkOk ELSE BulkFail
      /\ phase' = IF phase = "flushing" THEN "closing" ELSE phase
      /\ stopFailed' = IF phase = "flushing" THEN ~ok ELSE stopFailed
      /\ UNCHANGED serverVars /\ UNCHANGED readerVars /\ adds' = adds
      /\ UNCHANGED <<ctxDone, loop, starts, base, owed>>
  BY DEF Answer
<1>2. sending /\ sending' = FALSE /\ pending' = pending /\ xLogPos' = xLogPos
  BY <1>1 DEF BulkOk, BulkFail, readerVars
<1>3. InSession' /\ InSession /\ phase' # "ready"
  BY <1>1, <1>2, UnderWayInSession DEF InSession
<1>4. PipelineTypeOK'
  <2>1. (~ok) \in BOOLEAN
    OBVIOUS
  <2>. QED
    BY <1>1, <2>1, MainTypesStay DEF PipelineTypeOK
<1>5. Quiet'
  BY <1>3 DEF Quiet
<1>6. /\ Len(Log) \in Nat /\ Marked \in Nat /\ Len(delivered) \in Nat
      /\ Len(delivered) <= Marked /\ Marked <= Len(Log) /\ owed \in Nat
      /\ \A i \in 1..Len(Log) : Log[i] \in Row
  BY LogHasShape, TypeFacts DEF LogShape
<1>7. CASE ok
  <2>1. Log' = Log /\ Marked' = Marked /\ Len(delivered') = Marked
    BY <1>1, <1>7, BulkOkLog
  <2>2. TxnsComplete'
    BY <2>1 DEF TxnsComplete, WholeTxns
  <2>3. DeliveredWritten'
    <3>1. ASSUME NEW i \in 1..Marked
          PROVE  CommitLsn[Log[i]] <= walEnd
      <4>1. CommitLsn[Log[i]] \in Nat
        BY <1>6, CommitLsnFacts
      <4>2. CommitLsn[Log[i]] < OpenLsn
        BY <1>3 DEF SessionLog, TailIsOpen
      <4>3. sent \in Nat /\ walEnd \in Nat /\ sent <= walEnd
        BY TypeFacts, CommitLsnFacts DEF Positions
      <4>4. CASE Has("commit")
        <5>1. OpenLsn = hand[1].pos /\ hand[1].pos <= sent /\ hand[1].pos \in Nat
          BY <4>4, HandPos DEF OpenLsn, HandFits, CommitFits, Has
        <5>. QED
          BY <4>1, <4>2, <4>3, <5>1
      <4>5. CASE ~Has("commit")
        BY <4>1, <4>2, <4>3, <4>5 DEF OpenLsn
      <4>. QED
        BY <4>4, <4>5
    <3>. QED
      BY <1>1, <1>3, <2>1, <3>1 DEF DeliveredWritten, serverVars
  <2>4. OwedCommitted'
    BY <1>1, <1>6, <2>1, <1>7 DEF OwedCommitted, SignalledRowsFlushed
  <2>. QED
    BY <1>1, <1>2, <1>3, <1>4, <1>5, <1>6, <2>1, <2>2, <2>3, <2>4, MainStep
<1>8. CASE ~ok
  <2>1. UNCHANGED <<buffer, delivered, lastCommitted>>
    BY <1>1, <1>8 DEF BulkFail
  <2>2. /\ Log' = Log /\ Marked' = Marked
        /\ Len(delivered) <= Len(delivered')
        /\ TxnsComplete' /\ DeliveredWritten'
    BY <1>1, <1>2, <1>3, <2>1, SameRows
  <2>3. OwedCommitted'
    BY <1>1, <1>2, <2>1, <2>2, <1>8 DEF OwedCommitted, SignalledRowsFlushed
  <2>. QED
    BY <1>1, <1>2, <1>3, <1>4, <1>5, <2>2, <2>3, MainStep
<1>. QED
  BY <1>7, <1>8

(* A run begins at a position the server has reached. *)
LEMMA NewInv ==
  ASSUME PipelineInv, BatcherInv', New
  PROVE  PipelineInv'
<1>. USE DEF PipelineInv
<1>1. /\ phase = "down" /\ phase' = "ready" /\ xLogPos' = walEnd
      /\ starts < MaxStarts /\ starts' = starts + 1 /\ loop' = TRUE
      /\ UNCHANGED processVars /\ UNCHANGED serverVars /\ UNCHANGED <<reader, hand>>
      /\ UNCHANGED <<ctxDone, base, owed, stopFailed>>
  BY DEF New, IdentifiedPos
<1>2. /\ UNCHANGED <<buffer, delivered, lastCommitted, pending, sending>> /\ adds' = adds
      /\ UNCHANGED <<walEnd, confirmed, streaming, startPos, sent, out, upto>>
  BY <1>1 DEF processVars, batcherVars, serverVars
<1>3. ~InSession /\ ~InSession'
  BY <1>1 DEF InSession
<1>4. starts' \in 0..MaxStarts
  BY <1>1, PipelineAssumption DEF PipelineTypeOK
<1>5. PipelineTypeOK'
  BY <1>1, <1>2, <1>4 DEF PipelineTypeOK, BatcherInv
<1>6. Log' = Log /\ Marked' = Marked /\ FlushLen' = FlushLen
  BY <1>2, SameLog
<1>7. LogOrdered' /\ LogUsable' /\ TailCounted' /\ TxnsComplete'
  BY <1>2, <1>6
     DEF LogOrdered, LogUsable, TailCounted, TxnsComplete, WholeTxns, Before
<1>8. DeliveredWritten'
  BY <1>1, <1>2, <1>6 DEF DeliveredWritten
<1>9. Positions'
  <2>1. walEnd <= walEnd
    BY TypeFacts, CommitLsnFacts
  <2>. QED
    BY <1>1, <1>2, <1>3, <2>1 DEF Positions
<1>10. Quiet'
  BY <1>1, <1>2, <1>3, <1>6 DEF Quiet
<1>11. HandFits'
  <2>1. hand' = <<>> /\ pending' = <<>>
    BY <1>1, <1>2, <1>3 DEF Quiet
  <2>. QED
    BY <2>1 DEF HandFits, BeginFits, ChangeFits, CommitFits, KeepaliveFits,
                PendingFits, Has
<1>12. OwedCommitted'
  BY <1>1, <1>2, <1>6 DEF OwedCommitted, SignalledRowsFlushed
<1>. QED
  BY <1>3, <1>5, <1>7, <1>8, <1>9, <1>10, <1>11, <1>12 DEF SessionLog

(* The stream starts behind everything that earlier runs delivered. *)
LEMMA StartReplicationInv ==
  ASSUME PipelineInv, BatcherInv', StartReplication
  PROVE  PipelineInv'
<1>. USE DEF PipelineInv
<1>1. /\ phase = "ready" /\ phase' = "running" /\ reader' = TRUE /\ streaming' = TRUE
      /\ startPos' = Larger(confirmed, xLogPos) /\ sent' = startPos'
      /\ base' = Len(delivered)
      /\ UNCHANGED <<walEnd, confirmed, out, upto, xLogPos, hand>>
      /\ UNCHANGED processVars /\ UNCHANGED <<ctxDone, loop, starts, owed, stopFailed>>
  BY DEF StartReplication
<1>2. /\ UNCHANGED <<buffer, delivered, lastCommitted, pending, sending>> /\ adds' = adds
  BY <1>1 DEF processVars, batcherVars
<1>3. /\ ~InSession /\ InSession'
      /\ buffer = <<>> /\ pending = <<>> /\ FlushLen = 0 /\ hand = <<>> /\ out = "nothing"
      /\ upto = 0
  BY <1>1 DEF InSession, Quiet, Positions
<1>4. Log' = Log /\ Marked' = Marked
  BY <1>2, SameLog
<1>5. /\ Len(Log) = Len(delivered) /\ Marked = Len(delivered) /\ Len(delivered) \in Nat
      /\ \A i \in 1..Len(Log) : Log[i] \in Row
  <2>1. Marked = Len(delivered) /\ Len(delivered) \in Nat
    BY <1>3, LogHasShape DEF Marked, LogShape
  <2>2. Len(Log) = Len(delivered) + Len(buffer) /\ Len(buffer) = 0
    BY <1>3, LogSizes, EmptySeq DEF Log
  <2>. QED
    BY <2>1, <2>2, LogHasShape DEF LogShape
<1>6. /\ confirmed \in 0..Len(Wal) /\ xLogPos \in 0..Len(Wal) /\ walEnd \in Nat
      /\ confirmed <= walEnd /\ xLogPos <= walEnd /\ Len(Wal) \in Nat
  BY TypeFacts, CommitLsnFacts DEF Positions
<1>7. PICK s \in 0..Len(Wal) : /\ s = startPos' /\ s = sent'
                              /\ s \in Nat /\ s <= walEnd /\ xLogPos <= s
  BY <1>1, <1>6 DEF Larger
<1>8. xLogPos < s + 1 /\ s <= s
  <2>1. xLogPos \in Nat /\ s \in Nat /\ xLogPos <= s
    BY <1>6, <1>7
  <2>. QED
    BY <2>1
<1>9. PipelineTypeOK'
  BY <1>1, <1>2, <1>5, <1>7 DEF PipelineTypeOK, BatcherInv
<1>10. LogOrdered' /\ LogUsable' /\ TailCounted' /\ TxnsComplete'
  BY <1>2, <1>4
     DEF LogOrdered, LogUsable, TailCounted, TxnsComplete, WholeTxns, Before
<1>11. DeliveredWritten'
  BY <1>1, <1>2, <1>4 DEF DeliveredWritten
<1>12. hand' = <<>> /\ pending' = <<>> /\ ~Has("commit")' /\ ~Has("change")'
  BY <1>1, <1>2, <1>3 DEF Has
<1>13. OpenLsn' = s + 1
  BY <1>7, <1>12 DEF OpenLsn
<1>14. Positions'
  BY <1>1, <1>3, <1>6, <1>7, <1>8, <1>13 DEF Positions
<1>15. Quiet'
  BY <1>3 DEF Quiet
<1>16. HandFits'
  BY <1>12 DEF HandFits, BeginFits, ChangeFits, CommitFits, KeepaliveFits,
               PendingFits, Has
<1>17. OwedCommitted'
  BY <1>1, <1>2, <1>4 DEF OwedCommitted, SignalledRowsFlushed
<1>18. \A i \in 1..Len(delivered) : CommitLsn[Log[i]] \in Nat /\ CommitLsn[Log[i]] <= s
  <2>1. ASSUME NEW i \in 1..Len(delivered)
        PROVE  CommitLsn[Log[i]] \in Nat /\ CommitLsn[Log[i]] <= s
    <3>1. CommitLsn[Log[i]] <= xLogPos
      BY <1>1 DEF DeliveredWritten
    <3>2. CommitLsn[Log[i]] \in Nat
      BY <1>5, CommitLsnFacts
    <3>. QED
      BY <1>6, <1>7, <3>1, <3>2
  <2>. QED
    BY <2>1
<1>19. OldRows'
  <2>1. Len(delivered) <= Len(delivered)
    BY <1>5
  <2>. QED
    BY <1>1, <1>2, <1>4, <1>7, <1>18, <2>1 DEF OldRows
<1>20. NewRows'
  <2>1. \A i \in Len(delivered) + 1 .. Len(Log) : FALSE
    BY <1>5
  <2>. QED
    BY <1>1, <1>4, <2>1 DEF NewRows
<1>21. NothingMissing'
  <2>1. \A row \in Row : ~(/\ s < CommitLsn[row]
                           /\ CommitLsn[row] <= s \/ (CommitLsn[row] = s + 1 /\ row <= 0))
    <3>1. \A row \in Row : row \in Nat \ {0} /\ CommitLsn[row] \in Nat
      BY CommitLsnFacts
    <3>. QED
      BY <1>7, <3>1
  <2>2. \A row \in Row : ~SentInRun(row)'
    BY <1>1, <1>3, <1>7, <2>1 DEF SentInRun
  <2>. QED
    BY <2>2, PipelineAssumption DEF NothingMissing, Usable, SentInRun
<1>22. TailIsOpen'
  <2>1. /\ \A i \in 1..Marked : CommitLsn[Log[i]] < s + 1
        /\ \A i \in Marked + 1 .. Len(Log) : CommitLsn[Log[i]] = s + 1
        /\ ~(Marked < Len(Log))
    BY <1>5, <1>7, <1>18
  <2>. QED
    BY <1>4, <1>13, <2>1 DEF TailIsOpen
<1>. QED
  BY <1>9, <1>10, <1>11, <1>14, <1>15, <1>16, <1>17, <1>19, <1>20, <1>21, <1>22
     DEF SessionLog

(* What a process that is gone leaves: the delivered rows, which are whole *)
(* transactions.                                                           *)
LEMMA GoneInv ==
  ASSUME PipelineInv, BatcherInv', Gone
  PROVE  PipelineInv'
<1>. USE DEF PipelineInv
<1>1. /\ phase' = "down" /\ buffer' = <<>> /\ pending' = <<>>
      /\ hand' = <<>> /\ out' = "nothing"
      /\ UNCHANGED <<delivered, walEnd, confirmed, startPos, starts>>
  BY DEF Gone
<1>2. lastCommitted' = -1 /\ gauge' = 0 /\ adds' = 0 /\ xLogPos' = 0
      /\ base' = 0 /\ owed' = 0 /\ sent' = 0 /\ upto' = 0
  BY DEF Gone
<1>3. /\ sending' = FALSE /\ reader' = FALSE /\ ctxDone' = FALSE /\ loop' = FALSE
      /\ stopFailed' = FALSE /\ streaming' = FALSE
  BY DEF Gone
<1>4. FlushLen' = 0
  BY <1>2 DEF FlushLen
<1>5. /\ Len(delivered) \in Nat /\ Len(delivered) <= Marked /\ Marked <= Len(Log)
      /\ Marked \in Nat /\ Len(Log) \in Nat
      /\ \A i \in 1..Len(delivered) : Log[i] = delivered[i]
  BY LogHasShape DEF LogShape
<1>6. /\ Log' = delivered /\ Marked' = Len(delivered)
  <2>1. delivered \o <<>> = delivered
    BY LogSizes, ConcatEmptySeq
  <2>2. Len(delivered) + 0 = Len(delivered)
    BY <1>5
  <2>. QED
    BY <1>1, <1>4, <2>1, <2>2 DEF Log, Marked
<1>7. \A i \in 1..Len(delivered) : i \in 1..Len(Log)
  BY <1>5
<1>8. PipelineTypeOK'
  <2>1. /\ {walEnd', confirmed', startPos', sent', upto', xLogPos'} \subseteq 0..Len(Wal)
        /\ {base', owed'} \subseteq Nat /\ adds' \in Nat
    BY <1>1, <1>2, TypeFacts, CommitLsnFacts
  <2>2. BatcherTypeOK' /\ starts' \in 0..MaxStarts
    BY <1>1 DEF BatcherInv, PipelineTypeOK
  <2>3. {streaming', ctxDone', reader', loop', stopFailed'} \subseteq BOOLEAN
    BY <1>3
  <2>. QED
    BY <1>1, <2>1, <2>2, <2>3 DEF PipelineTypeOK
<1>9. LogOrdered'
  BY <1>5, <1>6, <1>7 DEF LogOrdered, Before
<1>10. LogUsable'
  BY <1>5, <1>6, <1>7 DEF LogUsable
<1>11. TailCounted'
  <2>1. 0 = Len(delivered) - Len(delivered)
    BY <1>5
  <2>. QED
    BY <1>2, <1>6, <2>1 DEF TailCounted
<1>12. TxnsComplete'
  <2>1. WholeTxns(Len(delivered))
    BY DEF TxnsComplete
  <2>. QED
    BY <1>1, <1>5, <1>6, <2>1 DEF TxnsComplete, WholeTxns
<1>13. DeliveredWritten'
  BY <1>1, <1>5, <1>6 DEF DeliveredWritten
<1>14. ~InSession'
  BY <1>1 DEF InSession
<1>15. Positions'
  <2>1. confirmed <= walEnd /\ 0 <= walEnd
    BY ConfirmedStays, TypeFacts, CommitLsnFacts
  <2>. QED
    BY <1>1, <1>2, <1>14, <2>1 DEF Positions
<1>16. Quiet'
  BY <1>1, <1>3, <1>4 DEF Quiet
<1>17. HandFits'
  BY <1>1 DEF HandFits, BeginFits, ChangeFits, CommitFits, KeepaliveFits,
              PendingFits, Has
<1>18. OwedCommitted'
  BY <1>1, <1>3 DEF OwedCommitted, SignalledRowsFlushed
<1>. QED
  BY <1>8, <1>9, <1>10, <1>11, <1>12, <1>13, <1>14, <1>15, <1>16, <1>17, <1>18
     DEF SessionLog

(* Nothing moves. *)
LEMMA PipelineStutterInv ==
  ASSUME PipelineInv, BatcherInv', UNCHANGED pipelineVars
  PROVE  PipelineInv'
<1>1. /\ UNCHANGED processVars /\ UNCHANGED mainVars
      /\ UNCHANGED <<xLogPos, hand, reader, streaming>>
      /\ UNCHANGED <<walEnd, confirmed, startPos, sent, out, upto>>
  BY DEF pipelineVars, serverVars, readerVars
<1>2. streaming' \in BOOLEAN /\ reader' \in BOOLEAN
  BY <1>1 DEF PipelineInv, PipelineTypeOK
<1>3. (streaming' => streaming) /\ (reader' => reader)
  BY <1>1
<1>. QED
  BY <1>1, <1>2, <1>3, ConnectionInv

------------------------------------------------------------------------------
(* The invariant. *)

(* Before the first run nothing was written, delivered or confirmed. *)
LEMMA PipelineInitInv == PipelineInit => PipelineInv
<1>. SUFFICES ASSUME PipelineInit
              PROVE  PipelineInv
  OBVIOUS
<1>1. BatcherInv
  BY BatcherInitInv DEF PipelineInit, ProcessInit
<1>2. buffer = <<>> /\ delivered = <<>> /\ pending = <<>> /\ hand = <<>>
      /\ phase = "down" /\ out = "nothing"
  BY DEF PipelineInit, ProcessInit, BatcherInit
<1>3. /\ adds = 0 /\ walEnd = 0 /\ confirmed = 0 /\ startPos = 0 /\ sent = 0 /\ upto = 0
      /\ xLogPos = 0 /\ starts = 0 /\ base = 0 /\ owed = 0 /\ FlushLen = 0
  <2>1. lastCommitted = -1
    BY DEF PipelineInit, ProcessInit, BatcherInit
  <2>. QED
    BY <2>1 DEF PipelineInit, ProcessInit, FlushLen
<1>4. /\ streaming = FALSE /\ ctxDone = FALSE /\ loop = FALSE /\ reader = FALSE
      /\ stopFailed = FALSE /\ sending = FALSE
  BY DEF PipelineInit, ProcessInit, BatcherInit
<1>5. Len(delivered) = 0 /\ Marked = 0 /\ Len(Log) = 0
  <2>1. Len(delivered) = 0 /\ Len(buffer) = 0
    BY <1>2, EmptySeq
  <2>. QED
    BY <1>1, <1>3, <2>1, LogSizes DEF Marked, Log
<1>6. PipelineTypeOK
  <2>1. 0 \in 0..Len(Wal) /\ 0 \in 0..MaxStarts /\ 0 \in Nat
    BY CommitLsnFacts, PipelineAssumption
  <2>. QED
    BY <1>1, <1>2, <1>3, <1>4, <2>1 DEF PipelineTypeOK, BatcherInv
<1>7. ~InSession
  BY <1>2 DEF InSession
<1>8. LogOrdered /\ LogUsable /\ TailCounted /\ TxnsComplete /\ DeliveredWritten
  BY <1>3, <1>5
     DEF LogOrdered, LogUsable, TailCounted, TxnsComplete, WholeTxns, DeliveredWritten
<1>9. Positions
  BY <1>2, <1>3, <1>7 DEF Positions
<1>10. Quiet
  BY <1>2, <1>3, <1>4 DEF Quiet
<1>11. HandFits
  BY <1>2 DEF HandFits, BeginFits, ChangeFits, CommitFits, KeepaliveFits,
              PendingFits, Has
<1>12. OwedCommitted
  BY <1>2, <1>4 DEF OwedCommitted, SignalledRowsFlushed
<1>. QED
  BY <1>1, <1>6, <1>7, <1>8, <1>9, <1>10, <1>11, <1>12 DEF PipelineInv, SessionLog

(* Every step of the process preserves the invariant. *)
LEMMA PipelineNextInv == PipelineInv /\ [PipelineNext]_pipelineVars => PipelineInv'
<1>. SUFFICES ASSUME PipelineInv, [PipelineNext]_pipelineVars
              PROVE  PipelineInv'
  OBVIOUS
<1>1. BatcherInv'
  BY BatcherPartInv
<1>2. CASE WriteWal \/ Decode \/ Disconnect
  BY <1>1, <1>2, WriteWalInv, DecodeInv, DisconnectInv
<1>3. CASE ReceiveData \/ \E reply \in BOOLEAN : ReceiveKeepalive(reply)
  BY <1>1, <1>3, ReceiveBeginInv, ReceiveChangeInv, ReceiveCommitInv, ReceiveKeepaliveInv
     DEF ReceiveData
<1>4. CASE Handle
  BY <1>1, <1>4, HandleBeginInv, HandleChangeInv, HandleChangeDoneInv,
     HandleCommitInv, HandleKeepaliveInv DEF Handle
<1>5. CASE ReaderStops
  BY <1>1, <1>5, ReaderStopsInv
<1>6. CASE New \/ StartReplication \/ Signal \/ ShutdownFlush
  BY <1>1, <1>6, NewInv, StartReplicationInv, SignalInv, ShutdownFlushInv
<1>7. CASE Exit \/ Crash
  BY <1>1, <1>7, GoneInv DEF Exit, Crash
<1>8. CASE LoopFlush \/ \E ok \in BOOLEAN : Answer(ok)
  BY <1>1, <1>8, LoopFlushInv, AnswerInv
<1>9. CASE UNCHANGED pipelineVars
  BY <1>1, <1>9, PipelineStutterInv
<1>. QED
  BY <1>2, <1>3, <1>4, <1>5, <1>6, <1>7, <1>8, <1>9 DEF PipelineNext, Reading

(* The invariant that carries the theorems below. *)
THEOREM PipelineInvariant == PipelineSpec => []PipelineInv
<1>. QED
  BY PipelineInitInv, PipelineNextInv, PTL DEF PipelineSpec

(* The variables keep their types across runs, faults and restarts. *)
THEOREM PipelineTypeCorrect == PipelineSpec => []PipelineTypeOK
<1>1. PipelineInv => PipelineTypeOK
  BY DEF PipelineInv
<1>. QED
  BY <1>1, PipelineInvariant, PTL

(* The search engine confirms changes in commit order and none of them     *)
(* twice, across flushes, failures, crashes and restarts.                  *)
THEOREM DeliveryOrdered == PipelineSpec => []DeliveredOnceInOrder
<1>1. ASSUME PipelineInv
      PROVE  DeliveredOnceInOrder
  <2>1. /\ Len(History) = Marked
        /\ \A i \in 1..Marked : History[i] = Log[i]
    BY <1>1, HistoryIsLog DEF PipelineInv
  <2>2. \A i \in 1..Marked : i \in 1..Len(Log)
    BY <1>1, LogHasShape DEF PipelineInv, LogShape
  <2>. QED
    BY <1>1, <2>1, <2>2 DEF PipelineInv, LogOrdered, DeliveredOnceInOrder
<1>. QED
  BY <1>1, PipelineInvariant, PTL

(* A transaction is delivered completely or not at all, whenever the       *)
(* process dies.                                                           *)
THEOREM TransactionsAtomic == PipelineSpec => []TxnsAllOrNothing
<1>1. ASSUME PipelineInv
      PROVE  TxnsAllOrNothing
  <2>1. ASSUME NEW row1 \in Usable, NEW row2 \in Usable,
               Wal[row1].xid = Wal[row2].xid, InSeq(row1, delivered)
        PROVE  InSeq(row2, delivered)
    <3>1. CommitLsn[row2] = CommitLsn[row1]
      BY <2>1, CommitLsnFacts DEF Usable
    <3>2. PICK i \in 1..Len(delivered) : delivered[i] = row1
      BY <2>1 DEF InSeq
    <3>3. \A n \in 1..Len(delivered) : Log[n] = delivered[n]
      BY <1>1, LogHasShape DEF PipelineInv, LogShape
    <3>4. \E j \in 1..Len(delivered) : Log[j] = row2
      BY <1>1, <3>1, <3>2, <3>3 DEF PipelineInv, TxnsComplete, WholeTxns
    <3>. QED
      BY <3>3, <3>4 DEF InSeq
  <2>. QED
    BY <2>1 DEF TxnsAllOrNothing
<1>. QED
  BY <1>1, PipelineInvariant, PTL

(* The position that status updates report never passes a commit of the    *)
(* run whose changes are not committed in the batcher or delivered.        *)
THEOREM ReportedPositionSafe == PipelineSpec => []PositionCoversHandled
<1>1. ASSUME PipelineInv, InSession, NEW row \in Usable,
             startPos < CommitLsn[row], CommitLsn[row] <= xLogPos
      PROVE  InSeq(row, History)
  <2>1. row \in Row /\ CommitLsn[row] \in Nat
    BY CommitLsnFacts DEF Usable
  <2>2. NewRows /\ NothingMissing /\ TailIsOpen /\ xLogPos < OpenLsn
    BY <1>1 DEF PipelineInv, SessionLog, Positions
  <2>3. xLogPos \in Nat /\ sent \in Nat
    BY <1>1, TypeFacts, CommitLsnFacts DEF PipelineInv
  <2>4. OpenLsn \in Nat /\ OpenLsn <= sent + 1
    <3>1. CASE Has("commit")
      <4>1. OpenLsn = hand[1].pos /\ hand[1].pos <= sent
        BY <1>1, <3>1 DEF PipelineInv, HandFits, CommitFits, OpenLsn
      <4>2. hand[1].pos \in Nat
        BY <1>1, <3>1, HandPos DEF PipelineInv, Has
      <4>. QED
        BY <2>3, <4>1, <4>2
    <3>2. CASE ~Has("commit")
      BY <2>3, <3>2 DEF OpenLsn
    <3>. QED
      BY <3>1, <3>2
  <2>5. CommitLsn[row] <= sent /\ CommitLsn[row] < OpenLsn
    BY <1>1, <2>1, <2>2, <2>3, <2>4
  <2>6. ~(Has("change") /\ row = upto)
    BY <1>1, <2>3, <2>5 DEF PipelineInv, HandFits, ChangeFits
  <2>7. PICK i \in 1..Len(Log) : Log[i] = row
    BY <1>1, <2>2, <2>5, <2>6 DEF NothingMissing, SentInRun, InSeq
  <2>8. i \in 1..Marked
    <3>1. Marked \in Nat /\ Marked <= Len(Log) /\ Len(Log) \in Nat
      BY <1>1, LogHasShape DEF PipelineInv, LogShape
    <3>2. CASE i \in Marked + 1 .. Len(Log)
      BY <2>1, <2>2, <2>4, <2>5, <2>7, <3>2 DEF TailIsOpen
    <3>. QED
      BY <3>1, <3>2
  <2>9. Len(History) = Marked /\ History[i] = Log[i]
    BY <1>1, <2>8, HistoryIsLog DEF PipelineInv
  <2>. QED
    BY <2>7, <2>8, <2>9 DEF InSeq
<1>2. PipelineInv => PositionCoversHandled
  BY <1>1 DEF PositionCoversHandled
<1>. QED
  BY <1>2, PipelineInvariant, PTL

(* A clean shutdown delivers what was committed when the signal came. *)
THEOREM ShutdownDelivers == PipelineSpec => []SignalledRowsFlushed
<1>1. PipelineInv => SignalledRowsFlushed
  BY DEF PipelineInv, OwedCommitted
<1>. QED
  BY <1>1, PipelineInvariant, PTL

(* What a run delivered and holds is the log from `base' on, and behind it *)
(* the change that waits in Add.                                           *)
LEMMA StreamOfRun ==
  ASSUME PipelineInv, InSession
  PROVE  LET stream == SubSeq(delivered, base + 1, Len(delivered)) \o buffer \o pending
         IN  /\ Len(stream) = Len(Log) - base + Len(pending)
             /\ \A i \in 1..Len(Log) - base : stream[i] = Log[base + i]
             /\ pending # <<>> =>
                  /\ Len(pending) = 1
                  /\ stream[Len(Log) - base + 1] = upto
<1> DEFINE run == SubSeq(delivered, base + 1, Len(delivered))
           stream == run \o buffer \o pending
<1>1. /\ delivered \in Seq(Row) /\ Len(delivered) \in Nat
      /\ buffer \in Seq(Row) /\ Len(buffer) \in Nat
      /\ Len(Log) = Len(delivered) + Len(buffer)
  BY LogSizes DEF PipelineInv, Log
<1>2. base \in 0..Len(delivered)
  <2>1. base \in Nat
    BY TypeFacts DEF PipelineInv
  <2>2. OldRows
    BY DEF PipelineInv, SessionLog
  <2>3. base <= Len(delivered)
    BY <2>2 DEF OldRows
  <2>. QED
    BY <1>1, <2>1, <2>3
<1>3. pending \in Seq(Row) /\ Len(pending) \in Nat
  <2>1. pending = <<>> \/ \E row \in Row : pending = <<row>>
    BY DEF PipelineInv, BatcherInv, BatcherTypeOK
  <2>2. <<>> \in Seq(Row) /\ Len(<<>>) = 0
    OBVIOUS
  <2>3. ASSUME NEW row \in Row
        PROVE  <<row>> \in Seq(Row) /\ Len(<<row>>) = 1
    OBVIOUS
  <2>. QED
    BY <2>1, <2>2, <2>3
<1>4. /\ run \in Seq(Row)
      /\ Len(run) = Len(delivered) - base
      /\ \A i \in 1..Len(delivered) - base : run[i] = delivered[base + i]
  BY <1>1, <1>2, CutOfSeq
<1> DEFINE rows == run \o buffer
<1>5. /\ rows \in Seq(Row)
      /\ Len(rows) = Len(Log) - base
      /\ \A i \in 1..Len(rows) :
           rows[i] = IF i <= Len(run) THEN run[i] ELSE buffer[i - Len(run)]
  <2>. HIDE DEF run
  <2>1. /\ run \o buffer \in Seq(Row)
        /\ Len(run \o buffer) = Len(run) + Len(buffer)
        /\ \A i \in 1..Len(run) + Len(buffer) :
             (run \o buffer)[i] = IF i <= Len(run) THEN run[i] ELSE buffer[i - Len(run)]
    BY <1>1, <1>4, ConcatProperties
  <2>2. Len(run) + Len(buffer) = Len(Log) - base
    BY <1>1, <1>2, <1>4
  <2>. QED
    BY <2>1, <2>2
<1>6. \A i \in 1..Len(Log) :
        Log[i] = IF i <= Len(delivered) THEN delivered[i] ELSE buffer[i - Len(delivered)]
  BY <1>1, ConcatProperties DEF Log
<1>7. \A i \in 1..Len(Log) - base : rows[i] = Log[base + i]
  <2>. HIDE DEF run, rows
  <2>. QED
    BY <1>1, <1>2, <1>4, <1>5, <1>6
<1>8. /\ Len(rows \o pending) = Len(rows) + Len(pending)
      /\ \A i \in 1..Len(rows) + Len(pending) :
           (rows \o pending)[i] = IF i <= Len(rows) THEN rows[i] ELSE pending[i - Len(rows)]
  <2>. HIDE DEF rows
  <2>. QED
    BY <1>3, <1>5, ConcatProperties
<1>9. pending # <<>> => Len(pending) = 1 /\ pending[1] = upto
  BY DEF PipelineInv, HandFits, PendingFits
<1>10. Len(rows) \in Nat
  <2>. HIDE DEF rows
  <2>. QED
    BY <1>1, <1>2, <1>5
<1>11. \A i \in 1..Len(Log) - base : stream[i] = Log[base + i]
  <2>. HIDE DEF rows
  <2>. SUFFICES \A i \in 1..Len(Log) - base : (rows \o pending)[i] = Log[base + i]
    BY DEF rows
  <2>. QED
    BY <1>3, <1>5, <1>7, <1>8, <1>10
<1>12. pending # <<>> => (rows \o pending)[Len(rows) + 1] = upto
  <2>. HIDE DEF rows
  <2>. QED
    BY <1>8, <1>9, <1>10
<1>. QED
  BY <1>5, <1>8, <1>9, <1>11, <1>12

(* What a run delivered and holds is a prefix of what committed after its  *)
(* starting position: nothing is skipped, whatever is flushed, fails or    *)
(* interleaves.                                                            *)
THEOREM StreamComplete == PipelineSpec => []RunHasNoGaps
<1>1. ASSUME PipelineInv, InSession
      PROVE  LET stream == SubSeq(delivered, base + 1, Len(delivered)) \o buffer \o pending
             IN  \A i \in 1..Len(stream) :
                   /\ CommitLsn[stream[i]] > startPos
                   /\ \A row \in Usable :
                        CommitLsn[row] > startPos /\ Before(row, stream[i])
                          => InSeq(row, stream)
  <2> DEFINE stream == SubSeq(delivered, base + 1, Len(delivered)) \o buffer \o pending
             n == Len(Log) - base
  <2>1. /\ Len(stream) = n + Len(pending)
        /\ \A i \in 1..n : stream[i] = Log[base + i]
        /\ pending # <<>> => Len(pending) = 1 /\ stream[n + 1] = upto
    BY <1>1, StreamOfRun
  <2>2. base \in Nat /\ base <= Len(Log) /\ Len(Log) \in Nat /\ n \in Nat
    <3>1. /\ Len(delivered) \in Nat /\ Len(Log) \in Nat
          /\ Len(delivered) <= Marked /\ Marked <= Len(Log) /\ Marked \in Nat
      BY <1>1, LogHasShape DEF PipelineInv, LogShape
    <3>2. base \in Nat /\ base <= Len(delivered)
      BY <1>1 DEF PipelineInv, SessionLog, OldRows, PipelineTypeOK
    <3>. QED
      BY <3>1, <3>2
  <2>3. /\ sent \in Nat /\ startPos \in Nat /\ upto \in Nat /\ startPos <= sent
    BY <1>1, TypeFacts, CommitLsnFacts DEF PipelineInv, Positions
  <2>. HIDE DEF stream, n
  <2>4. ASSUME NEW i \in 1..Len(stream)
        PROVE  \/ i \in 1..n /\ stream[i] = Log[base + i]
               \/ pending = <<upto>> /\ stream[i] = upto
    <3>1. CASE pending = <<>>
      BY <2>1, <2>2, <3>1
    <3>2. CASE pending # <<>>
      <4>1. pending = <<upto>> /\ Len(stream) = n + 1
        BY <1>1, <2>1, <3>2 DEF PipelineInv, HandFits, PendingFits
      <4>. QED
        BY <2>1, <2>2, <3>2, <4>1
    <3>. QED
      BY <3>1, <3>2
  <2>5. ASSUME NEW i \in 1..n
        PROVE  base + i \in 1..Len(Log) /\ base + i \in base + 1 .. Len(Log)
    BY <2>2 DEF n
  <2>6. ASSUME NEW row \in Row, InSeq(row, Log), CommitLsn[row] > startPos
        PROVE  InSeq(row, stream)
    <3>1. PICK j \in 1..Len(Log) : Log[j] = row
      BY <2>6 DEF InSeq
    <3>2. \A k \in 1..base : CommitLsn[Log[k]] <= startPos
      BY <1>1 DEF PipelineInv, SessionLog, OldRows
    <3>3. ~(j \in 1..base)
      BY <2>3, <2>6, <3>1, <3>2, CommitLsnFacts
    <3>4. j - base \in 1..n /\ base + (j - base) = j
      BY <2>2, <3>3 DEF n
    <3>5. Len(stream) \in Nat /\ n <= Len(stream)
      <4>1. Len(pending) \in Nat
        BY <1>1, LenProperties DEF PipelineInv, BatcherInv, BatcherTypeOK
      <4>. QED
        BY <2>1, <2>2, <4>1
    <3>6. stream[j - base] = row
      BY <2>1, <3>1, <3>4
    <3>. QED
      BY <2>2, <3>4, <3>5, <3>6 DEF InSeq
  <2>7. pending = <<upto>> => /\ Has("change") /\ upto \in Row
                              /\ CommitLsn[upto] = sent + 1
    BY <1>1 DEF PipelineInv, HandFits, PendingFits, ChangeFits
  <2>8. ASSUME NEW i \in 1..Len(stream)
        PROVE  stream[i] \in Row /\ SentInRun(stream[i])
    <3>1. CASE i \in 1..n /\ stream[i] = Log[base + i]
      <4>1. Log[base + i] \in Row
        BY <1>1, <2>5, <3>1, LogHasShape DEF PipelineInv, LogShape
      <4>2. SentInRun(Log[base + i])
        BY <1>1, <2>5, <3>1 DEF PipelineInv, SessionLog, NewRows
      <4>. QED
        BY <3>1, <4>1, <4>2
    <3>2. CASE pending = <<upto>> /\ stream[i] = upto
      BY <2>3, <2>7, <3>2 DEF SentInRun
    <3>. QED
      BY <2>4, <3>1, <3>2
  <2>9. ASSUME NEW i \in 1..Len(stream), NEW row \in Usable,
               CommitLsn[row] > startPos, Before(row, stream[i])
        PROVE  InSeq(row, stream)
    <3>1. row \in Row /\ CommitLsn[row] \in Nat /\ row \in Nat
      BY CommitLsnFacts DEF Usable
    <3>2. /\ stream[i] \in Row /\ SentInRun(stream[i])
          /\ CommitLsn[stream[i]] \in Nat /\ stream[i] \in Nat
      BY <2>8, <2>9, CommitLsnFacts
    <3>3. SentInRun(row)
      BY <2>3, <2>9, <3>1, <3>2 DEF SentInRun, Before
    <3>4. ~(Has("change") /\ row = upto)
      <4>1. CASE i \in 1..n /\ stream[i] = Log[base + i]
        <5>1. Has("change") => Before(stream[i], upto) /\ upto \in Row
          BY <1>1, <2>5, <4>1 DEF PipelineInv, HandFits, ChangeFits
        <5>. QED
          BY <2>9, <3>2, <5>1, BeforeIsStrict
      <4>2. CASE pending = <<upto>> /\ stream[i] = upto
        BY <2>9, <3>1, <3>2, <4>2, BeforeIsStrict
      <4>. QED
        BY <2>4, <2>9, <4>1, <4>2
    <3>5. InSeq(row, Log)
      BY <1>1, <3>3, <3>4 DEF PipelineInv, SessionLog, NothingMissing
    <3>. QED
      BY <2>6, <2>9, <3>1, <3>5
  <2>10. \A i \in 1..Len(stream) : CommitLsn[stream[i]] > startPos
    BY <2>3, <2>8, CommitLsnFacts DEF SentInRun
  <2>. QED
    BY <2>9, <2>10 DEF stream
<1>2. PipelineInv => RunHasNoGaps
  BY <1>1 DEF RunHasNoGaps
<1>. QED
  BY <1>2, PipelineInvariant, PTL

------------------------------------------------------------------------------
(* The mirror. *)

(* What is delivered is sorted, made of whole transactions, and written.   *)
LEMMA DeliveredIsMirror ==
  PipelineInv =>
    Mirror!Sorted(delivered) /\ Mirror!Whole(delivered) /\ Mirror!Committed(delivered)
<1>. SUFFICES ASSUME PipelineInv
              PROVE  Mirror!Sorted(delivered) /\ Mirror!Whole(delivered)
                     /\ Mirror!Committed(delivered)
  OBVIOUS
<1>1. /\ Len(delivered) \in Nat /\ Len(Log) \in Nat /\ Len(delivered) <= Len(Log)
      /\ \A i \in 1..Len(delivered) : i \in 1..Len(Log) /\ Log[i] = delivered[i]
  <2>1. LogShape
    BY LogHasShape DEF PipelineInv
  <2>. QED
    BY <2>1 DEF LogShape
<1>2. Mirror!Sorted(delivered)
  BY <1>1 DEF PipelineInv, LogOrdered, Before, Mirror!Sorted
<1>3. Mirror!Whole(delivered)
  BY <1>1 DEF PipelineInv, TxnsComplete, WholeTxns, Mirror!Whole
<1>4. Mirror!Committed(delivered)
  BY <1>1 DEF PipelineInv, DeliveredWritten, Mirror!Committed
<1>. QED
  BY <1>2, <1>3, <1>4

(* And so it is after a step. *)
LEMMA DeliveredIsMirrorNext ==
  PipelineInv' =>
    (Mirror!Sorted(delivered) /\ Mirror!Whole(delivered) /\ Mirror!Committed(delivered))'
BY DeliveredIsMirror, PTL

(* A request that succeeds copies whole transactions; nothing else does.   *)
LEMMA MirrorStep ==
  ASSUME PipelineInv, PipelineInv', [PipelineNext]_pipelineVars
  PROVE  [Mirror!Next]_(Mirror!vars)
<1>1. CASE WriteWal
  BY <1>1 DEF WriteWal, processVars, batcherVars, Mirror!Next, Mirror!Write
<1>2. CASE BulkOk /\ UNCHANGED serverVars
  <2>1. /\ delivered \in Seq(Row) /\ Len(delivered) \in Nat
        /\ FlushLen \in 0..Len(buffer)
    BY LogSizes DEF PipelineInv
  <2>2. Committed \in Seq(Row) /\ Len(Committed) = FlushLen
    BY CutAtPointer DEF PipelineInv, BatcherInv
  <2>3. FlushLen > 0
    BY <1>2 DEF PipelineInv, BatcherInv, BulkOk
  <2>4. delivered' = delivered \o Committed /\ walEnd' = walEnd
    BY <1>2 DEF BulkOk, serverVars
  <2>5. /\ Len(delivered \o Committed) = Len(delivered) + Len(Committed)
        /\ SubSeq(delivered \o Committed, 1, Len(delivered)) = delivered
    <3>1. Len(delivered \o Committed) = Len(delivered) + Len(Committed)
      BY <2>1, <2>2, ConcatProperties
    <3>2. <<>> \in Seq(Row) /\ Len(<<>>) = 0 /\ delivered \o <<>> = delivered
      BY <2>1, ConcatEmptySeq
    <3>3. Len(<<>>) <= Len(Committed) /\ \A i \in 1..Len(<<>>) : Committed[i] = <<>>[i]
      BY <2>1, <2>2, <3>2
    <3>. QED
      BY <2>1, <2>2, <3>1, <3>2, <3>3, FrontOfConcat
  <2>6. Len(delivered) < Len(delivered \o Committed)
    BY <2>1, <2>2, <2>3, <2>5
  <2>7. Len(delivered) < Len(delivered') /\ SubSeq(delivered', 1, Len(delivered)) = delivered
    BY <2>4, <2>5, <2>6
  <2>8. Mirror!Sorted(delivered') /\ Mirror!Whole(delivered')
    BY DeliveredIsMirrorNext DEF Mirror!Sorted, Mirror!Whole
  <2>9. Mirror!Committed(delivered')
    BY <2>4, DeliveredIsMirrorNext DEF Mirror!Committed
  <2>. QED
    BY <2>4, <2>7, <2>8, <2>9 DEF Mirror!Next, Mirror!Copy
<1>3. CASE UNCHANGED <<walEnd, delivered>>
  BY <1>3 DEF Mirror!vars
<1>4. CASE Decode \/ Disconnect \/ ReceiveData \/ ReaderStops
           \/ \E reply \in BOOLEAN : ReceiveKeepalive(reply)
  <2>1. UNCHANGED <<walEnd, delivered>>
    BY <1>4 DEF Decode, Disconnect, ReceiveData, ReceiveBegin, ReceiveChange, ReceiveCommit,
                Receive, ReceiveKeepalive, ReaderStops, processVars, batcherVars, serverVars
  <2>. QED
    BY <1>3, <2>1
<1>5. CASE Handle
  <2>1. UNCHANGED <<walEnd, delivered>>
    BY <1>5 DEF Handle, HandleBegin, HandleChange, HandleChangeDone, HandleCommit,
                HandleKeepalive, OnBegin, OnChange, OnChangeDone, OnCommit, Add, FinishAdd,
                CommitN, processVars, batcherVars, serverVars
  <2>. QED
    BY <1>3, <2>1
<1>6. CASE New \/ StartReplication \/ Signal \/ ShutdownFlush \/ Exit \/ Crash \/ LoopFlush
  <2>1. UNCHANGED <<walEnd, delivered>>
    BY <1>6 DEF New, StartReplication, Signal, ShutdownFlush, Exit, Crash, Gone, LoopFlush,
                Flush, processVars, batcherVars, serverVars
  <2>. QED
    BY <1>3, <2>1
<1>7. CASE \E ok \in BOOLEAN : Answer(ok)
  <2>1. \/ BulkOk /\ UNCHANGED serverVars
        \/ UNCHANGED <<walEnd, delivered>>
    BY <1>7 DEF Answer, BulkFail, serverVars
  <2>. QED
    BY <1>2, <1>3, <2>1
<1>8. CASE UNCHANGED pipelineVars
  BY <1>3, <1>8 DEF pipelineVars, processVars, batcherVars, serverVars
<1>. QED
  BY <1>1, <1>4, <1>5, <1>6, <1>7, <1>8 DEF PipelineNext, Reading

(* All runs together implement the mirror by transactions: what the search *)
(* engine has confirmed only grows, by whole transactions that are         *)
(* committed in the database, in commit order, whatever fails or crashes.  *)
THEOREM PipelineIsMirror == PipelineSpec => ImplementsMirror
<1>1. PipelineInit => Mirror!Init
  BY DEF PipelineInit, ProcessInit, BatcherInit, Mirror!Init
<1>2. PipelineInv /\ PipelineInv' /\ [PipelineNext]_pipelineVars => [Mirror!Next]_(Mirror!vars)
  BY MirrorStep
<1>. QED
  BY <1>1, <1>2, PipelineInvariant, PTL DEF PipelineSpec, ImplementsMirror, Mirror!Spec
==============================================================================

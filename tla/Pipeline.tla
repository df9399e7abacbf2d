------------------------------ MODULE Pipeline ------------------------------
(***************************************************************************)
(* The whole synchronisation process between PostgreSQL and the search     *)
(* engine: internal/replication/replication.go (the reader goroutine and   *)
(* the positions it reports), the life of a run in                         *)
(* internal/processor/processor.go (New, Run, the signal, Shutdown), the   *)
(* batcher with its flush loop, and restarts.                              *)
(*                                                                         *)
(* PostgreSQL is external and modelled from how the code uses it: a WAL of *)
(* records of interleaved transactions, a slot with a confirmed position,  *)
(* and a walsender that decodes a transaction when it meets its commit     *)
(* record and sends Begin, changes, Commit; keepalives come in between.    *)
(* The wire is a FIFO and only the walsender's progress is visible on the  *)
(* other side, so a message in flight is one that is not sent yet.         *)
(*                                                                         *)
(* A position in the WAL (an LSN) is the number of records before it.      *)
(***************************************************************************)
EXTENDS Process

CONSTANTS Wal,        \* the records PostgreSQL will write, in order
          Unusable,   \* changes that process() drops
          Faults,     \* which of the faults below may happen
          MaxStarts   \* bound: how often syncgo is started

IsCommit(l) == Wal[l].op = "commit"

ASSUME PipelineAssumption ==
  /\ Wal \in Seq([xid : Nat, op : {"row", "commit"}])
  /\ Row = {l \in 1..Len(Wal) : ~IsCommit(l)}
  /\ \A l, m \in 1..Len(Wal) :
       l < m /\ IsCommit(l) => Wal[l].xid # Wal[m].xid
  /\ Unusable \subseteq Row
  /\ Faults \subseteq {"bulkError", "signal", "crash", "disconnect"}
  /\ MaxStarts \in Nat

VARIABLES
  walEnd,      \* PostgreSQL: records written
  confirmed,   \* PostgreSQL: confirmed position of the slot
  streaming,   \* PostgreSQL: the walsender of the current run is connected
  startPos,    \* walsender: transactions that commit up to here are skipped
  sent,        \* walsender: sentPtr, the records decoded and sent completely
  out,         \* walsender: what it sends next
  upto,        \* walsender: last change of it that was sent
  phase,       \* main goroutine
  ctxDone,     \* the context of Run was cancelled by a signal
  xLogPos,     \* LogicalReplicationConn.xLogPos
  reader,      \* the goroutine of readReplicationMessages runs
  hand,        \* the message it has received and not finished with
  loop,        \* the flush loop of the batcher runs
  starts,      \* number of runs so far
  base,        \* rows delivered before the current run
  owed,        \* rows committed when the signal came
  stopFailed   \* the final flush failed

serverVars == <<walEnd, confirmed, streaming, startPos, sent, out, upto>>
mainVars == <<phase, ctxDone, loop, starts, base, owed, stopFailed>>
readerVars == <<xLogPos, reader, hand>>
pipelineVars == <<processVars, serverVars, mainVars, readerVars>>

Larger(a, b) == IF a > b THEN a ELSE b

(* Where the transaction of a change commits; past the WAL if it does not. *)
CommitLsn ==
  [row \in Row |->
     IF \E l \in 1..Len(Wal) : IsCommit(l) /\ Wal[l].xid = Wal[row].xid
     THEN CHOOSE l \in 1..Len(Wal) : IsCommit(l) /\ Wal[l].xid = Wal[row].xid
     ELSE Len(Wal) + 1]

(* The changes of the next transaction that are left to send. *)
ToSend == {row \in Row : CommitLsn[row] = sent + 1 /\ row > upto}

IsFirst(row, rows) == row \in rows /\ \A other \in rows : row <= other

(* The position of a change is where its record starts, that of a Begin    *)
(* where the first change does, that of a Commit where its record ends.    *)
Message ==
  [kind : {"begin", "change", "commit"}, pos : 0..Len(Wal)]
    \union [kind : {"keepalive"}, pos : 0..Len(Wal), reply : BOOLEAN]

PipelineTypeOK ==
  /\ BatcherTypeOK
  /\ adds \in Nat
  /\ {walEnd, confirmed, startPos, sent, upto, xLogPos} \subseteq 0..Len(Wal)
  /\ out \in {"nothing", "begin", "changes"}
  /\ hand \in {<<>>} \union {<<m>> : m \in Message}
  /\ phase \in {"down", "ready", "running", "flushing", "closing"}
  /\ {streaming, ctxDone, reader, loop, stopFailed} \subseteq BOOLEAN
  /\ starts \in 0..MaxStarts
  /\ {base, owed} \subseteq Nat

(* The slot was created by the prepare command; syncgo does not run yet. *)
PipelineInit ==
  /\ ProcessInit
  /\ walEnd = 0 /\ confirmed = 0 /\ startPos = 0 /\ sent = 0
  /\ streaming = FALSE /\ out = "nothing" /\ upto = 0
  /\ phase = "down" /\ ctxDone = FALSE /\ loop = FALSE
  /\ xLogPos = 0 /\ reader = FALSE /\ hand = <<>>
  /\ starts = 0 /\ base = 0 /\ owed = 0 /\ stopFailed = FALSE

------------------------------------------------------------------------------
(* PostgreSQL. *)

WriteWal ==
  /\ walEnd < Len(Wal)
  /\ walEnd' = walEnd + 1
  /\ UNCHANGED <<processVars, mainVars, readerVars>>
  /\ UNCHANGED <<confirmed, streaming, startPos, sent, out, upto>>

(* The walsender reads the next record: for a commit record it sends Begin,*)
(* the changes of the transaction and Commit, and then counts the record   *)
(* as sent.                                                                *)
Decode ==
  /\ streaming
  /\ out = "nothing"
  /\ sent < walEnd
  /\ IF ToSend # {} THEN out' = "begin" /\ UNCHANGED sent
                    ELSE sent' = sent + 1 /\ UNCHANGED out
  /\ UNCHANGED <<processVars, mainVars, readerVars>>
  /\ UNCHANGED <<walEnd, confirmed, streaming, startPos, upto>>

(* The connection breaks: wal_sender_timeout, a restart, the network. *)
Disconnect ==
  /\ "disconnect" \in Faults
  /\ streaming
  /\ streaming' = FALSE
  /\ UNCHANGED <<processVars, mainVars, readerVars>>
  /\ UNCHANGED <<walEnd, confirmed, startPos, sent, out, upto>>

------------------------------------------------------------------------------
(* Mutated forms of the actions below. *)

(* The run starts from the position the slot confirmed. *)
SlotPos == confirmed

(* xLogPos takes the server's end of WAL, XLogData.ServerWALEnd. *)
MoveToServerEnd(pos) == xLogPos' = walEnd

(* xLogPos is set one past the message. *)
MovePast(pos) == xLogPos' = Larger(xLogPos, pos + 1)

(* Shutdown that does not wait for the mutex (TryLock). *)
ShutdownFlushIfFree ==
  /\ phase = "running"
  /\ ctxDone
  /\ \/ Flush /\ phase' = "flushing"
     \/ (Locked \/ FlushLen = 0) /\ UNCHANGED batcherVars /\ phase' = "closing"
  /\ UNCHANGED <<adds, serverVars, readerVars>>
  /\ UNCHANGED <<ctxDone, loop, starts, base, owed, stopFailed>>

(* A reader that does not look at the context. *)
ReaderStopsOnErrorOnly ==
  /\ reader
  /\ hand = <<>>
  /\ ~streaming
  /\ reader' = FALSE
  /\ UNCHANGED <<processVars, serverVars, mainVars, xLogPos, hand>>

------------------------------------------------------------------------------
(* The reader goroutine: readReplicationMessages. *)

(* ReceiveMessage returns the next message of the stream; once the context *)
(* is cancelled, or the connection is broken, it returns an error instead. *)
Receive(kind, pos) ==
  /\ reader
  /\ hand = <<>>
  /\ ~ctxDone
  /\ streaming
  /\ hand' = <<[kind |-> kind, pos |-> pos]>>
  /\ UNCHANGED <<processVars, mainVars, xLogPos, reader>>
  /\ UNCHANGED <<walEnd, confirmed, streaming, startPos>>

ReceiveBegin ==
  /\ out = "begin"
  /\ out' = "changes"
  /\ \E row \in ToSend : IsFirst(row, ToSend) /\ Receive("begin", row - 1)
  /\ UNCHANGED <<sent, upto>>

ReceiveChange ==
  /\ out = "changes"
  /\ \E row \in ToSend : /\ IsFirst(row, ToSend)
                        /\ Receive("change", row - 1)
                        /\ upto' = row
  /\ UNCHANGED <<sent, out>>

ReceiveCommit ==
  /\ out = "changes"
  /\ ToSend = {}
  /\ Receive("commit", sent + 1)
  /\ sent' = sent + 1
  /\ out' = "nothing"
  /\ upto' = 0

ReceiveData ==
  \/ ReceiveBegin
  \/ ReceiveChange
  \/ ReceiveCommit

ReceiveKeepalive(reply) ==
  /\ reader
  /\ hand = <<>>
  /\ ~ctxDone
  /\ streaming
  /\ hand' = <<[kind |-> "keepalive", pos |-> sent, reply |-> reply]>>
  /\ UNCHANGED <<processVars, serverVars, mainVars, xLogPos, reader>>

(* xLogPos moves up to a position, never down. *)
MoveTo(pos) == xLogPos' = Larger(xLogPos, pos)

(* XLogData: process() first, then xLogPos moves up to WALStart. *)
HandleBegin ==
  /\ hand # <<>> /\ hand[1].kind = "begin"
  /\ OnBegin
  /\ hand' = <<>>
  /\ MoveTo(hand[1].pos)
  /\ UNCHANGED <<serverVars, mainVars, reader>>

(* The change is in Add, which may have to wait for a flush. *)
HandleChange ==
  /\ hand # <<>> /\ hand[1].kind = "change"
  /\ ReaderReady
  /\ hand[1].pos + 1 \notin Unusable
  /\ OnChange(hand[1].pos + 1, TRUE)
  /\ UNCHANGED <<serverVars, mainVars, readerVars>>

(* Add returned, or the change was dropped. *)
HandleChangeDone ==
  /\ hand # <<>> /\ hand[1].kind = "change"
  /\ \/ OnChangeDone
     \/ hand[1].pos + 1 \in Unusable /\ OnChange(hand[1].pos + 1, FALSE)
  /\ hand' = <<>>
  /\ MoveTo(hand[1].pos)
  /\ UNCHANGED <<serverVars, mainVars, reader>>

HandleCommit ==
  /\ hand # <<>> /\ hand[1].kind = "commit"
  /\ OnCommit
  /\ hand' = <<>>
  /\ MoveTo(hand[1].pos)
  /\ UNCHANGED <<serverVars, mainVars, reader>>

(* sendStandbyStatusUpdate reports xLogPos as written, which the library   *)
(* also reports as flushed, and the slot confirms it.  Sending on a broken *)
(* connection is an error that ends the reader.                            *)
StandbyStatusUpdate(pos) ==
  /\ confirmed' = IF streaming THEN Larger(confirmed, pos) ELSE confirmed
  /\ reader' = streaming

(* A keepalive moves xLogPos up to its ServerWALEnd, and is answered when  *)
(* it asks for a reply.                                                    *)
HandleKeepalive ==
  /\ hand # <<>> /\ hand[1].kind = "keepalive"
  /\ hand' = <<>>
  /\ MoveTo(hand[1].pos)
  /\ IF hand[1].reply
     THEN StandbyStatusUpdate(xLogPos')
     ELSE UNCHANGED <<confirmed, reader>>
  /\ UNCHANGED <<processVars, mainVars>>
  /\ UNCHANGED <<walEnd, streaming, startPos, sent, out, upto>>

(* The loop ends when the context is done or ReceiveMessage fails: the     *)
(* error is logged and nobody is told.                                     *)
ReaderStops ==
  /\ reader
  /\ hand = <<>>
  /\ ctxDone \/ ~streaming
  /\ reader' = FALSE
  /\ UNCHANGED <<processVars, serverVars, mainVars, xLogPos, hand>>

------------------------------------------------------------------------------
(* The main goroutine: processor.New, Run and Shutdown. *)

(* IdentifySystem: the server's current WAL position. *)
IdentifiedPos == walEnd

(* New: the batcher and its flush loop start, and xLogPos is set. *)
New ==
  /\ phase = "down"
  /\ starts < MaxStarts
  /\ starts' = starts + 1
  /\ phase' = "ready"
  /\ loop' = TRUE
  /\ xLogPos' = IdentifiedPos
  /\ UNCHANGED <<processVars, serverVars, reader, hand>>
  /\ UNCHANGED <<ctxDone, base, owed, stopFailed>>

(* Run: START_REPLICATION from xLogPos.  The server never starts before    *)
(* the position the slot confirmed, and skips what committed before it.    *)
StartReplication ==
  /\ phase = "ready"
  /\ ~ctxDone
  /\ phase' = "running"
  /\ reader' = TRUE
  /\ streaming' = TRUE
  /\ startPos' = Larger(confirmed, xLogPos)
  /\ sent' = startPos'
  /\ base' = Len(delivered)
  /\ UNCHANGED <<processVars, walEnd, confirmed, out, upto, xLogPos, hand>>
  /\ UNCHANGED <<ctxDone, loop, starts, owed, stopFailed>>

(* SIGINT or SIGTERM cancels the context. *)
Signal ==
  /\ "signal" \in Faults
  /\ phase \in {"ready", "running"}
  /\ ~ctxDone
  /\ ctxDone' = TRUE
  /\ owed' = Len(delivered) + FlushLen
  /\ UNCHANGED <<processVars, serverVars, readerVars>>
  /\ UNCHANGED <<phase, loop, starts, base, stopFailed>>

(* shutdown() begins with batcher.Flush(), which waits for the mutex and   *)
(* returns at once when nothing is committed.                              *)
ShutdownFlush ==
  /\ phase = "running"
  /\ ctxDone
  /\ ~Locked
  /\ IF FlushLen > 0 THEN Flush /\ phase' = "flushing"
                     ELSE UNCHANGED batcherVars /\ phase' = "closing"
  /\ UNCHANGED <<adds, serverVars, readerVars>>
  /\ UNCHANGED <<ctxDone, loop, starts, base, owed, stopFailed>>

(* The process is gone, and with it all its memory. *)
Gone ==
  /\ phase' = "down"
  /\ buffer' = <<>> /\ lastCommitted' = -1 /\ gauge' = 0
  /\ sending' = FALSE /\ pending' = <<>> /\ adds' = 0
  /\ xLogPos' = 0 /\ reader' = FALSE /\ hand' = <<>>
  /\ ctxDone' = FALSE /\ loop' = FALSE /\ stopFailed' = FALSE
  /\ base' = 0 /\ owed' = 0
  /\ streaming' = FALSE /\ out' = "nothing" /\ sent' = 0 /\ upto' = 0
  /\ UNCHANGED <<delivered, walEnd, confirmed, startPos, starts>>

(* Close waits for the reader, then the process exits; a signal before     *)
(* replication started makes StartReplication, and so Run, fail.           *)
Exit ==
  /\ \/ phase = "closing" /\ ~reader
     \/ phase = "ready" /\ ctxDone
  /\ Gone

Crash ==
  /\ "crash" \in Faults
  /\ phase # "down"
  /\ Gone

------------------------------------------------------------------------------
(* The flush loop and the answers of the search engine. *)

(* A tick of the flush loop.  After the context is done the select may     *)
(* still choose a tick that is ready, once.                                *)
LoopFlush ==
  /\ loop
  /\ Flush
  /\ loop' = ~ctxDone
  /\ UNCHANGED <<adds, serverVars, readerVars>>
  /\ UNCHANGED <<phase, ctxDone, starts, base, owed, stopFailed>>

(* Bulk returns.  While main is in its final Flush it holds the mutex, so  *)
(* the answer is its own.                                                  *)
Answer(ok) ==
  /\ IF ok THEN BulkOk ELSE "bulkError" \in Faults /\ BulkFail
  /\ phase' = IF phase = "flushing" THEN "closing" ELSE phase
  /\ stopFailed' = IF phase = "flushing" THEN ~ok ELSE stopFailed
  /\ UNCHANGED <<adds, serverVars, readerVars>>
  /\ UNCHANGED <<ctxDone, loop, starts, base, owed>>

(* The reader works on the message it has. *)
Handle ==
  \/ HandleBegin
  \/ HandleChange
  \/ HandleChangeDone
  \/ HandleCommit
  \/ HandleKeepalive

Reading ==
  \/ ReceiveData
  \/ \E reply \in BOOLEAN : ReceiveKeepalive(reply)
  \/ Handle
  \/ ReaderStops

PipelineNext ==
  \/ WriteWal
  \/ Decode
  \/ Disconnect
  \/ Reading
  \/ New
  \/ StartReplication
  \/ Signal
  \/ ShutdownFlush
  \/ Exit
  \/ Crash
  \/ LoopFlush
  \/ \E ok \in BOOLEAN : Answer(ok)

PipelineSpec == PipelineInit /\ [][PipelineNext]_pipelineVars

(* Every goroutine that can run does, and a request returns.  Once the     *)
(* context is done nobody takes the mutex again and again, so weak         *)
(* fairness is enough for a shutdown.                                      *)
StopFairness ==
  /\ WF_pipelineVars(Handle)
  /\ WF_pipelineVars(ReaderStops)
  /\ WF_pipelineVars(ShutdownFlush)
  /\ WF_pipelineVars(Exit)
  /\ WF_pipelineVars(\E ok \in BOOLEAN : Answer(ok))

(* The server decodes and sends what it has, not keepalives only; a        *)
(* goroutine that waits for the mutex gets it in the end, however often    *)
(* others take it (sync.Mutex hands over to a waiter that starves), hence  *)
(* SF for the reader and the flush loop; infinitely many requests do not   *)
(* all fail.  Nothing is assumed about faults, signals or new records.     *)
PipelineFairness ==
  /\ StopFairness
  /\ WF_pipelineVars(Decode)
  /\ SF_pipelineVars(ReceiveData)
  /\ SF_pipelineVars(Handle)
  /\ SF_pipelineVars(~ctxDone /\ LoopFlush)
  /\ SF_pipelineVars(Answer(TRUE))

PipelineFairSpec == PipelineSpec /\ PipelineFairness

------------------------------------------------------------------------------
(* The order in which changes must reach the search engine: by the commit  *)
(* of their transaction, then by their place in it.                        *)
Before(row1, row2) ==
  \/ CommitLsn[row1] < CommitLsn[row2]
  \/ CommitLsn[row1] = CommitLsn[row2] /\ row1 < row2

Usable == Row \ Unusable

(* Replication was started and the process is alive. *)
InSession == phase \notin {"down", "ready"}

InSeq(row, seq) == \E i \in 1..Len(seq) : seq[i] = row

(* xLogPos never runs ahead of the batcher: when it has passed the commit  *)
(* of a transaction of this run, all its changes are in the batcher, and   *)
(* committed there, or delivered.  Keepalives, interleaved transactions    *)
(* and dropped changes do not let the reported position skip a change.     *)
PositionCoversHandled ==
  InSession =>
    \A row \in Usable :
      startPos < CommitLsn[row] /\ CommitLsn[row] <= xLogPos =>
        InSeq(row, History)

(* Across flushes, failures, crashes and restarts the search engine        *)
(* confirms changes in commit order and none of them twice, so a document  *)
(* never ends with an older version written over a newer one.              *)
DeliveredOnceInOrder ==
  \A i, j \in 1..Len(History) : i < j => Before(History[i], History[j])

(* A transaction is delivered completely or not at all, also when the      *)
(* process dies between two steps.                                         *)
TxnsAllOrNothing ==
  \A row1, row2 \in Usable :
    /\ Wal[row1].xid = Wal[row2].xid
    /\ InSeq(row1, delivered)
    => InSeq(row2, delivered)

(* A run has no gaps: what it delivered and holds is a prefix of the       *)
(* changes that committed after its starting position.                     *)
RunHasNoGaps ==
  InSession =>
    LET stream == SubSeq(delivered, base + 1, Len(delivered)) \o buffer \o pending
    IN  \A i \in 1..Len(stream) :
          /\ CommitLsn[stream[i]] > startPos
          /\ \A row \in Usable :
               CommitLsn[row] > startPos /\ Before(row, stream[i]) => InSeq(row, stream)

(* A clean shutdown delivers every row that was committed when the signal  *)
(* came, even with flushes of the loop and of Add in flight, unless the    *)
(* search engine refuses the final request.                                *)
SignalledRowsFlushed ==
  phase = "closing" /\ ~stopFailed => Len(delivered) >= owed

(* All runs together are a mirror by transactions: whatever is flushed,    *)
(* fails or crashes, each request the search engine confirms adds whole,   *)
(* written transactions behind all those it confirmed before.              *)
Mirror == INSTANCE TxnMirror WITH
            Change  <- Usable,
            written <- walEnd,
            copied  <- delivered

ImplementsMirror == Mirror!Spec

(* Every change that commits while a run reads the stream is delivered,    *)
(* unless the process goes down first.                                     *)
StreamDelivered ==
  \A row \in Usable :
    (phase = "running" /\ startPos < CommitLsn[row] /\ CommitLsn[row] <= walEnd)
      ~> (InSeq(row, delivered) \/ phase = "down")

(* A signal ends the process: the final flush, the reader blocked in Add   *)
(* or on the network and the flush loop do not wait on each other.         *)
ShutdownCompletes == ctxDone ~> phase = "down"

(* README.md:5: syncgo uses logical replication "to consume database       *)
(* changes and writes them to the configured search engine": a change that *)
(* was consumed, so that the server will not send it again, is written.    *)
ConsumedIsWritten ==
  phase = "down" =>
    \A row \in Usable :
      startPos < CommitLsn[row] /\ CommitLsn[row] <= confirmed =>
        InSeq(row, delivered)

(* README.md:3 and 94: prepare creates the slot and run "continuously"     *)
(* synchronizes changes: a run leaves out no change that committed since   *)
(* the slot exists.                                                        *)
RunStartsAtSlot ==
  phase = "running" =>
    \A row \in Usable : CommitLsn[row] <= startPos => InSeq(row, delivered)

(* README.md:94: "On SIGINT/SIGTERM the current batch is flushed and the   *)
(* replication connection is closed."                                      *)
ShutdownFlushesBatch ==
  phase = "closing" /\ ~reader /\ ~stopFailed => FlushLen = 0
==============================================================================

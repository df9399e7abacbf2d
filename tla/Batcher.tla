------------------------------- MODULE Batcher -------------------------------
(***************************************************************************)
(* internal/batcher/batcher.go: the buffer between the replication reader  *)
(* and the search engine.                                                  *)
(*                                                                         *)
(* All operations run under one mutex.  The only operation that lets other *)
(* goroutines be observed while it holds the mutex is sender.Bulk, a       *)
(* network call, so a flush is two steps: the request goes out (`sending'  *)
(* becomes TRUE and the mutex stays held) and the answer comes back.  An   *)
(* Add that finds the buffer full flushes first and appends afterwards,    *)
(* still under the mutex; the row it holds meanwhile is `pending'.         *)
(*                                                                         *)
(* `delivered' is not a field of the program: it is the sequence of rows   *)
(* for which Bulk has returned nil, i.e. what the sender was trusted with. *)
(*                                                                         *)
(* The idle timer of the flush loop is abstracted: a tick may flush at any *)
(* time the mutex is free.  Module FlushLoop has the timer, and fairness.  *)
(***************************************************************************)
EXTENDS Integers, Sequences

CONSTANTS Row,          \* bulk_transformer.Data, one element per change
          BufferSize,   \* bufferSize of NewBatcher (config.Validate: > 0)
          MaxRows       \* bound: rows delivered or buffered at any time

ASSUME BatcherAssumption ==
  /\ BufferSize \in Nat \ {0}
  /\ MaxRows \in Nat

VARIABLES buffer,         \* b.buffer
          lastCommitted,  \* b.lastCommitted: 0-based, -1 when none
          gauge,          \* syncgo_batcher_buffer_size
          sending,        \* a goroutine is inside sender.Bulk
          pending,        \* the row of an Add that has not appended it yet
          delivered       \* rows of the requests that Bulk answered with nil

batcherVars == <<buffer, lastCommitted, gauge, sending, pending, delivered>>

Locked == sending \/ pending # <<>>

FlushLen == lastCommitted + 1

Committed == SubSeq(buffer, 1, FlushLen)

Uncommitted == SubSeq(buffer, FlushLen + 1, Len(buffer))

(* Every row whose commit was recorded, delivered or not. *)
History == delivered \o Committed

BatcherTypeOK ==
  /\ buffer \in Seq(Row)
  /\ lastCommitted \in Int
  /\ gauge \in Nat
  /\ sending \in BOOLEAN
  /\ pending \in {<<>>} \union {<<row>> : row \in Row}
  /\ delivered \in Seq(Row)

(* NewBatcher *)
BatcherInit ==
  /\ buffer = <<>>
  /\ lastCommitted = -1
  /\ gauge = 0
  /\ sending = FALSE
  /\ pending = <<>>
  /\ delivered = <<>>

------------------------------------------------------------------------------
(* Mutated forms of the operations below: each is a mistake the code could *)
(* contain, and breaks a property that the code as written satisfies.      *)

(* flush() that forgets to reset the commit pointer. *)
BulkOkKeepsPointer ==
  /\ sending
  /\ delivered' = delivered \o Committed
  /\ buffer' = Uncommitted
  /\ gauge' = Len(Uncommitted)
  /\ sending' = FALSE
  /\ UNCHANGED <<lastCommitted, pending>>

(* flush() that drops the whole buffer instead of the committed prefix. *)
BulkOkDropsTail ==
  /\ sending
  /\ delivered' = delivered \o Committed
  /\ buffer' = <<>>
  /\ gauge' = 0
  /\ lastCommitted' = -1
  /\ sending' = FALSE
  /\ UNCHANGED pending

(* flush() that drops the committed prefix before it looks at the error. *)
BulkFailDropsPrefix ==
  /\ sending
  /\ buffer' = Uncommitted
  /\ gauge' = Len(Uncommitted)
  /\ lastCommitted' = -1
  /\ sending' = FALSE
  /\ UNCHANGED <<pending, delivered>>

(* rollback() that drops committed rows too, and takes the commit pointer  *)
(* back with them.                                                         *)
RollbackNIgnoresCommitted(n) ==
  /\ ~Locked
  /\ buffer # <<>>
  /\ LET left == IF Len(buffer) - n > 0 THEN Len(buffer) - n ELSE 0
     IN  /\ buffer' = SubSeq(buffer, 1, left)
         /\ gauge' = left
         /\ lastCommitted' = IF FlushLen > left THEN left - 1 ELSE lastCommitted
  /\ UNCHANGED <<sending, pending, delivered>>

(* flush() that forgets to report the new buffer size. *)
BulkOkNoReport ==
  /\ sending
  /\ delivered' = delivered \o Committed
  /\ buffer' = Uncommitted
  /\ lastCommitted' = -1
  /\ sending' = FALSE
  /\ UNCHANGED <<gauge, pending>>

(* Add() that does not look at the size of the buffer. *)
AddNeverFlushes(row) ==
  /\ ~Locked
  /\ pending' = <<row>>
  /\ UNCHANGED <<buffer, lastCommitted, gauge, sending, delivered>>

(* RollbackN() that works out the new size from n, also where rollback()   *)
(* stops at the commit pointer before it has dropped n rows.               *)
RollbackNReports(n) ==
  /\ ~Locked
  /\ FlushLen < Len(buffer)
  /\ LET left == IF Len(buffer) - n > FlushLen THEN Len(buffer) - n ELSE FlushLen
     IN  buffer' = SubSeq(buffer, 1, left)
  /\ gauge' = Len(buffer) - n
  /\ UNCHANGED <<lastCommitted, sending, pending, delivered>>

------------------------------------------------------------------------------
(* Add takes the mutex; when the buffer is full it calls flush(), which    *)
(* sends the committed rows if there are any.                              *)
Add(row) ==
  /\ ~Locked
  /\ pending' = <<row>>
  /\ sending' = (Len(buffer) >= BufferSize /\ FlushLen > 0)
  /\ UNCHANGED <<buffer, lastCommitted, gauge, delivered>>

(* The rest of Add: append whatever the flush answered, unlock. *)
FinishAdd ==
  /\ ~sending
  /\ pending # <<>>
  /\ buffer' = buffer \o pending
  /\ gauge' = Len(buffer) + 1
  /\ pending' = <<>>
  /\ UNCHANGED <<lastCommitted, sending, delivered>>

(* CommitN: n times "mark the next item", each a no-op past the end. *)
CommitN(n) ==
  /\ ~Locked
  /\ lastCommitted' = IF lastCommitted + n < Len(buffer)
                      THEN lastCommitted + n
                      ELSE Len(buffer) - 1
  /\ UNCHANGED <<buffer, gauge, sending, pending, delivered>>

(* RollbackN: n times "drop the newest item unless it is committed". *)
RollbackN(n) ==
  /\ ~Locked
  /\ FlushLen < Len(buffer)
  /\ LET left == IF Len(buffer) - n > FlushLen THEN Len(buffer) - n ELSE FlushLen
     IN  /\ buffer' = SubSeq(buffer, 1, left)
         /\ gauge' = left
  /\ UNCHANGED <<lastCommitted, sending, pending, delivered>>

(* Flush(), or a tick of the flush loop that finds the idle time elapsed.  *)
(* With nothing committed it returns at once and changes nothing.          *)
Flush ==
  /\ ~Locked
  /\ FlushLen > 0
  /\ sending' = TRUE
  /\ UNCHANGED <<buffer, lastCommitted, gauge, pending, delivered>>

(* sender.Bulk returned nil: keep the uncommitted tail, reset the pointer. *)
BulkOk ==
  /\ sending
  /\ delivered' = delivered \o Committed
  /\ buffer' = Uncommitted
  /\ gauge' = Len(Uncommitted)
  /\ lastCommitted' = -1
  /\ sending' = FALSE
  /\ UNCHANGED pending

(* sender.Bulk returned an error: it is logged, nothing changes. *)
BulkFail ==
  /\ sending
  /\ sending' = FALSE
  /\ UNCHANGED <<buffer, lastCommitted, gauge, pending, delivered>>

------------------------------------------------------------------------------
(* The batcher under callers that use its API in any order. *)

BatcherNext ==
  \/ \E row \in Row : /\ Len(delivered) + Len(buffer) < MaxRows
                      /\ Add(row)
  \/ FinishAdd
  \/ \E n \in 1..MaxRows : CommitN(n)
  \/ \E n \in 1..MaxRows : RollbackN(n)
  \/ Flush
  \/ BulkOk
  \/ BulkFail

BatcherSpec == BatcherInit /\ [][BatcherNext]_batcherVars

------------------------------------------------------------------------------
(* flush() slices buffer[:lastCommitted+1] and buffer[lastCommitted+1:]:   *)
(* whatever mix of Add, CommitN, RollbackN and flushes ran before, the     *)
(* commit pointer stays inside the buffer, so the slices never panic, and  *)
(* it is meaningful for the rows that are there.                           *)
PointerInBuffer ==
  /\ lastCommitted >= -1
  /\ lastCommitted < Len(buffer)

(* The gauge the metrics endpoint serves is the length of the buffer in    *)
(* every state another goroutine can see, on every path that changes it.   *)
GaugeIsBufferLength == gauge = Len(buffer)

(* A row whose commit was recorded is never dropped, reordered or rolled   *)
(* back: the committed history only ever grows at its end, whichever of    *)
(* a failed flush, a successful flush and a rollback comes next.           *)
CommittedRowsStay ==
  [][/\ Len(History) <= Len(History')
     /\ SubSeq(History', 1, Len(History)) = History]_batcherVars

(* The batcher implements the commit log: requests confirm exactly the     *)
(* oldest unconfirmed committed rows, in the order they were added, each   *)
(* once; uncommitted rows are never confirmed and rows are never lost.     *)
CL == INSTANCE CommitLog WITH
        log       <- delivered \o buffer,
        commits   <- Len(delivered) + FlushLen,
        confirmed <- Len(delivered)

ImplementsCommitLog == CL!Spec

(* Every committed row is eventually confirmed by the search engine, as    *)
(* long as it does not refuse every request from some point on.            *)
CommittedIsDelivered ==
  \A n \in 1..MaxRows :
    (Len(delivered) + FlushLen >= n) ~> (Len(delivered) >= n)
==============================================================================

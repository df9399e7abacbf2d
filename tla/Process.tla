------------------------------- MODULE Process -------------------------------
(***************************************************************************)
(* internal/replication/process.go, rows.go and txn_batcher.go: what the   *)
(* reader goroutine does with one decoded message of the replication       *)
(* stream.  A txnTracker counts the rows of the current transaction that   *)
(* reached the batcher, and the Commit message commits that many.          *)
(*                                                                         *)
(* The operators are the handlers of process(), to be conjoined with the   *)
(* source of the messages: TxnFeed and Pipeline are two such sources.  The *)
(* reader handles one message at a time; while it is blocked inside Add it *)
(* handles none, but the flush loop keeps running.                         *)
(***************************************************************************)
EXTENDS Batcher

VARIABLE adds   \* txnTracker.adds

processVars == <<batcherVars, adds>>

(* The reader goroutine is not blocked inside batcher.Add. *)
ReaderReady == pending = <<>>

ProcessInit ==
  /\ BatcherInit
  /\ adds = 0

------------------------------------------------------------------------------
(* Mutated forms of the handlers below: mistakes the code could contain.   *)

(* recordAdd() before the checks that drop a change. *)
OnChangeCountsDropped(row, usable) ==
  \/ usable /\ Add(row) /\ UNCHANGED adds
  \/ ~usable /\ adds' = adds + 1 /\ UNCHANGED batcherVars

(* Every change is committed as soon as it was added. *)
OnChangeDoneCommits ==
  /\ ~sending
  /\ pending # <<>>
  /\ buffer' = buffer \o pending
  /\ gauge' = Len(buffer) + 1
  /\ lastCommitted' = Len(buffer)
  /\ pending' = <<>>
  /\ UNCHANGED <<sending, delivered, adds>>

(* commit() that leaves the last row of the transaction out. *)
OnCommitOneShort ==
  \/ adds = 0 /\ UNCHANGED processVars
  \/ adds > 0 /\ CommitN(adds - 1) /\ adds' = 0

(* commit() that counts the rows down, and once too often. *)
OnCommitPastZero ==
  \/ adds = 0 /\ UNCHANGED processVars
  \/ adds > 0 /\ CommitN(adds) /\ adds' = -1

------------------------------------------------------------------------------
(* process(): BeginMessage *)
OnBegin ==
  /\ adds' = 0
  /\ UNCHANGED batcherVars

(* process(): Insert, Update or Delete.  The change is dropped, with a log *)
(* line only, when its relation or its document id is unknown or its       *)
(* values cannot be marshalled; otherwise enqueueRow adds it.              *)
OnChange(row, usable) ==
  \/ usable /\ Add(row) /\ UNCHANGED adds
  \/ ~usable /\ UNCHANGED processVars

(* enqueueRow continues when Add returns: recordAdd(). *)
OnChangeDone ==
  /\ FinishAdd
  /\ adds' = adds + 1

(* process(): CommitMessage, txnTracker.commit *)
OnCommit ==
  \/ adds = 0 /\ UNCHANGED processVars
  \/ adds > 0 /\ CommitN(adds) /\ adds' = 0
==============================================================================

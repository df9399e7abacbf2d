------------------------------ MODULE CommitLog ------------------------------
(***************************************************************************)
(* What the batcher promises its callers, without buffers, locks or        *)
(* requests: one append-only log of rows with two cursors.  The first      *)
(* `commits' rows are committed and can no longer be taken back; the       *)
(* search engine has confirmed the first `confirmed' of them.              *)
(***************************************************************************)
EXTENDS Integers, Sequences

CONSTANT Row

VARIABLES log, commits, confirmed

vars == <<log, commits, confirmed>>

TypeOK ==
  /\ log \in Seq(Row)
  /\ commits \in 0..Len(log)
  /\ confirmed \in 0..commits

Init ==
  /\ log = <<>>
  /\ commits = 0
  /\ confirmed = 0

(* A caller adds one row behind everything already in the log. *)
AddRow(row) ==
  /\ log' = Append(log, row)
  /\ UNCHANGED <<commits, confirmed>>

(* The oldest uncommitted rows become committed. *)
CommitRows(n) ==
  /\ commits' = n
  /\ UNCHANGED <<log, confirmed>>

(* The newest uncommitted rows are withdrawn, down to length n. *)
WithdrawRows(n) ==
  /\ log' = SubSeq(log, 1, n)
  /\ UNCHANGED <<commits, confirmed>>

(* One request confirms every committed row that was not yet confirmed. *)
Confirm ==
  /\ confirmed < commits
  /\ confirmed' = commits
  /\ UNCHANGED <<log, commits>>

Next ==
  \/ \E row \in Row : AddRow(row)
  \/ \E n \in commits+1 .. Len(log) : CommitRows(n)
  \/ \E n \in commits .. Len(log)-1 : WithdrawRows(n)
  \/ Confirm

Spec == Init /\ [][Next]_vars
==============================================================================

------------------------------ MODULE TxnMirror ------------------------------
(***************************************************************************)
(* What the process as a whole promises the search engine, without slots,  *)
(* connections, buffers, runs or crashes: a log of changes that grows by   *)
(* whole transactions, each after its commit in the database, in commit    *)
(* order.  It may leave transactions out, and nothing in it is taken back, *)
(* repeated or reordered.                                                  *)
(***************************************************************************)
EXTENDS Integers, Sequences

CONSTANTS Change,    \* the changes, numbered by their place in the WAL
          CommitLsn  \* where the transaction of each of them commits

VARIABLES written,   \* how far the WAL is written
          copied     \* the changes the search engine has confirmed

vars == <<written, copied>>

(* By the commits of the transactions, then by the places in them. *)
Sorted(log) ==
  \A i, j \in 1..Len(log) :
    i < j => \/ CommitLsn[log[i]] < CommitLsn[log[j]]
             \/ CommitLsn[log[i]] = CommitLsn[log[j]] /\ log[i] < log[j]

Whole(log) ==
  \A i \in 1..Len(log), change \in Change :
    CommitLsn[change] = CommitLsn[log[i]] => \E j \in 1..Len(log) : log[j] = change

Committed(log) == \A i \in 1..Len(log) : CommitLsn[log[i]] <= written

Init ==
  /\ written = 0
  /\ copied = <<>>

Write ==
  /\ written' = written + 1
  /\ UNCHANGED copied

Copy ==
  /\ Len(copied) < Len(copied')
  /\ SubSeq(copied', 1, Len(copied)) = copied
  /\ Sorted(copied') /\ Whole(copied') /\ Committed(copied')
  /\ UNCHANGED written

Next == Write \/ Copy

Spec == Init /\ [][Next]_vars
==============================================================================

------------------------------- MODULE TxnFeed -------------------------------
(***************************************************************************)
(* The replication reader and the batcher under an unbroken stream of      *)
(* transactions.  The stream is pgoutput's (proto_version 1): Begin, the   *)
(* changes of one committed transaction, Commit, then the next one.  The   *)
(* flush loop and the search engine act in between at any time.            *)
(***************************************************************************)
EXTENDS Process

CONSTANTS MaxTxns,      \* bound: transactions the stream carries
          MaxTxnRows    \* bound: changes of one transaction

(* A change is named by its transaction and its position in it. *)
ASSUME FeedAssumption ==
  /\ MaxTxns \in Nat
  /\ MaxTxnRows \in Nat
  /\ Row = [txn : 1..MaxTxns, seq : 1..MaxTxnRows]

VARIABLES txn,    \* number of the latest transaction begun
          seq,    \* changes of that transaction received so far
          open,   \* between Begin and Commit
          failed  \* history: a request has failed

streamVars == <<txn, seq, open>>

feedVars == <<processVars, streamVars, failed>>

FeedTypeOK ==
  /\ BatcherTypeOK
  /\ adds \in Nat
  /\ txn \in 0..MaxTxns
  /\ seq \in 0..MaxTxnRows
  /\ open \in BOOLEAN
  /\ failed \in BOOLEAN

FeedInit ==
  /\ ProcessInit
  /\ txn = 0
  /\ seq = 0
  /\ open = FALSE
  /\ failed = FALSE

------------------------------------------------------------------------------
(* The stream, one message at a time. *)
Begin ==
  /\ ReaderReady
  /\ ~open
  /\ txn < MaxTxns
  /\ txn' = txn + 1
  /\ seq' = 0
  /\ open' = TRUE
  /\ UNCHANGED failed
  /\ OnBegin

Change(usable) ==
  /\ ReaderReady
  /\ open
  /\ seq < MaxTxnRows
  /\ seq' = seq + 1
  /\ UNCHANGED <<txn, open, failed>>
  /\ OnChange([txn |-> txn, seq |-> seq + 1], usable)

ChangeDone ==
  /\ OnChangeDone
  /\ UNCHANGED <<streamVars, failed>>

Commit ==
  /\ ReaderReady
  /\ open
  /\ open' = FALSE
  /\ UNCHANGED <<txn, seq, failed>>
  /\ OnCommit

(* The flush loop and the answers of the search engine. *)
Background ==
  /\ \/ Flush /\ UNCHANGED failed
     \/ BulkOk /\ UNCHANGED failed
     \/ BulkFail /\ failed' = TRUE
  /\ UNCHANGED <<adds, streamVars>>

FeedNext ==
  \/ Begin
  \/ \E usable \in BOOLEAN : Change(usable)
  \/ ChangeDone
  \/ Commit
  \/ Background

FeedSpec == FeedInit /\ [][FeedNext]_feedVars

------------------------------------------------------------------------------
(* The rows behind the commit pointer are exactly the rows the tracker has *)
(* counted for the open transaction, whatever the flush loop removed from  *)
(* the front meanwhile: so CommitN(adds) commits the transaction, all of   *)
(* it and nothing else, although the batcher knows no transactions.        *)
TailIsOpenTxn ==
  /\ Len(buffer) - FlushLen = adds
  /\ \A i \in FlushLen + 1 .. Len(buffer) : buffer[i].txn = txn
  /\ adds > 0 => open

(* A change reaches the search engine only after its transaction's Commit  *)
(* message: no payload holds a change of the transaction still open.       *)
OnlyCommittedTxnsDelivered ==
  \A i \in 1..Len(delivered) : open => delivered[i].txn < txn

(* Size and timer flushes cut the stream anywhere, yet never inside a      *)
(* transaction: once one of its changes was confirmed, none is left in the *)
(* buffer for a later request.                                             *)
TxnsNotSplit ==
  \A i \in 1..Len(delivered), j \in 1..Len(buffer) :
    delivered[i].txn < buffer[j].txn

(* The buffer outgrows its configured size only for one transaction: as    *)
(* long as no request has failed, more than BufferSize buffered rows all   *)
(* belong to the same transaction.                                         *)
OverflowIsOneTxn ==
  ~failed /\ Len(buffer) > BufferSize =>
    \A i, j \in 1..Len(buffer) : buffer[i].txn = buffer[j].txn
==============================================================================

------------------------------ MODULE MCTxnFeed ------------------------------
(* Instances of TxnFeed for TLC.                                           *)
EXTENDS TxnFeed

MCRow == [txn : 1..MaxTxns, seq : 1..MaxTxnRows]
==============================================================================

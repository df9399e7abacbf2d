----------------------------- MODULE MCPipeline -----------------------------
(* Instances of Pipeline for TLC: two interleaved transactions, of which   *)
(* the second to begin commits first, then a third one.                    *)
EXTENDS Pipeline

Change(x) == [xid |-> x, op |-> "row"]
Commit(x) == [xid |-> x, op |-> "commit"]

MCWal == <<Change(1), Change(2), Commit(2), Change(1), Commit(1),
           Change(3), Change(3), Commit(3)>>

MCRow == {1, 2, 4, 6, 7}

(* The first change of transaction 3 has no document id. *)
MCUnusable == {6}

(* Two transactions, for the temporal properties. *)
MCWalShort == SubSeq(MCWal, 1, 5)
MCRowShort == {1, 2, 4}
==============================================================================

----------------------------- MODULE MCStartup -----------------------------
(* Instances of Startup for TLC: two processes that run both commands, and *)
(* the files that the configurations name.  The engine has a certificate   *)
(* of a private authority.                                                 *)
EXTENDS Startup

Plain ==
  [name |-> "opensearch", address |-> TRUE, index |-> TRUE, apiKey |-> FALSE, basic |-> TRUE,
   ca |-> "path", skipVerify |-> FALSE, grpc |-> TRUE,
   slot |-> TRUE, publication |-> TRUE, tables |-> TRUE, size |-> 0, interval |-> 0]

(* No tables, no index, and a certificate file that is not looked at. *)
Bare == [Plain EXCEPT !.index = FALSE, !.tables = FALSE, !.ca = "empty", !.skipVerify = TRUE]

(* Two that work nowhere: rejected by Validate, and with a damaged file.   *)
Invalid == [Plain EXCEPT !.name = "elasticsearch"]
Damaged == [Plain EXCEPT !.ca = "damaged"]

WithKey == [Plain EXCEPT !.apiKey = TRUE, !.basic = FALSE]

MCFiles == {Plain, Bare, Invalid, Damaged}
KeyFiles == {WithKey}
==============================================================================

------------------------------ MODULE Settings ------------------------------
(***************************************************************************)
(* From the configuration file to what the program does with it:           *)
(* pkg/config/config.go, the hand-over of the settings in prepare.go and   *)
(* processor.go, the authentication of the search engine client, and what  *)
(* http_client and tls make of the certificates.                           *)
(*                                                                         *)
(* A file is a record of the settings that decide something; a string that *)
(* may be empty is a Boolean, TRUE when it is not.                         *)
(***************************************************************************)
EXTENDS Integers

CONSTANTS DefaultSize,     \* defaultBatcherSize
          DefaultInterval  \* defaultBatcherFlushInterval

ASSUME SettingsAssumption ==
  /\ DefaultSize \in Nat \ {0}
  /\ DefaultInterval \in Nat \ {0}

(* `ca' is the tls section: absent, without ca_cert, certificates in place *)
(* or in a file, a file that cannot be read, one with a damaged            *)
(* certificate and one with no certificate at all.                         *)
FileType ==
  [name : {"elasticsearch", "opensearch", "other"},
   address : BOOLEAN, index : BOOLEAN, apiKey : BOOLEAN, basic : BOOLEAN,
   ca : {"absent", "unset", "pem", "path", "missing", "damaged", "empty"},
   skipVerify : BOOLEAN, grpc : BOOLEAN,
   slot : BOOLEAN, publication : BOOLEAN, tables : BOOLEAN,
   size : Int, interval : Int]

------------------------------------------------------------------------------
(* Config.Validate *)

ValidSize(size) == IF size > 0 THEN size ELSE DefaultSize

ValidInterval(interval) == IF interval > 0 THEN interval ELSE DefaultInterval

(* No error. *)
Validate(file) ==
  /\ file.name \in {"elasticsearch", "opensearch"}
  /\ file.address
  /\ file.grpc => file.name = "opensearch"
  /\ file.slot
  /\ file.publication

------------------------------------------------------------------------------
(* The search engine client. *)

(* initClient and prepareIndex: the API key is not copied, nor the gRPC    *)
(* section, which nothing else reads once it is validated.                 *)
ClientConfig(file) ==
  [index |-> file.index, basic |-> file.basic, apiKey |-> FALSE,
   ca |-> file.ca, skipVerify |-> file.skipVerify]

(* The Authorization header. *)
AuthHeader(config) ==
  CASE config.apiKey -> "ApiKey"
    [] ~config.apiKey /\ config.basic -> "Basic"
    [] ~config.apiKey /\ ~config.basic -> "none"

(* AppendCARoot returns an error, and with it NewClient and New. *)
CAFails(ca) == ca \in {"missing", "damaged"}

(* Whose certificates the client accepts.  With an empty pool: nobody's. *)
Roots(ca) ==
  CASE ca \in {"absent", "unset"} -> "system"
    [] ca \in {"pem", "path"}     -> "given"
    [] OTHER                      -> "nobody"
==============================================================================

-------------------------------- MODULE Rows --------------------------------
(***************************************************************************)
(* From a decoded Insert, Update or Delete message to an operation of a    *)
(* bulk request: internal/replication/process.go and rows.go, and          *)
(* internal/bulk_transformer/action.go.                                    *)
(*                                                                         *)
(* A tuple gives each column its value; a value is a number, so that the   *)
(* absence of one can be told apart: Null is SQL's NULL, Unsent is a       *)
(* column that pgoutput left out as an unchanged TOAST value, Undecodable  *)
(* one whose data pgtype cannot decode, and Unencodable one that it can    *)
(* but json.Marshal refuses (a float8 NaN).  A message without an old      *)
(* tuple has one with every column Unsent.                                 *)
(***************************************************************************)
EXTENDS Integers

CONSTANTS Columns,    \* the columns of the table
          IdColumn    \* postgresql.id_column of the configuration

ASSUME RowsAssumption == IdColumn \in Columns

Null == -1
Unsent == -2
Undecodable == -3
Unencodable == -4

(* The values of no column: a nil or empty map. *)
NoValues == [c \in {} |-> Null]

(* `new' wins over `old' column by column. *)
Merged(old, new) ==
  [c \in DOMAIN old \union DOMAIN new |-> IF c \in DOMAIN new THEN new[c] ELSE old[c]]

------------------------------------------------------------------------------
(* Mutated forms of the definitions below. *)

(* Unchanged TOAST columns are taken for NULL. *)
TupleToValuesNullsUnsent(tuple) ==
  [c \in {c \in Columns : tuple[c] # Undecodable} |->
     IF tuple[c] = Unsent THEN Null ELSE tuple[c]]

(* Unchanged TOAST columns are copied like any other. *)
TupleToValuesKeepsUnsent(tuple) ==
  [c \in {c \in Columns : tuple[c] # Undecodable} |-> tuple[c]]

------------------------------------------------------------------------------
(* tupleToValues: unchanged TOAST columns are not in the result, nor are   *)
(* columns that cannot be decoded, with a log line.                        *)
TupleToValues(tuple) ==
  [c \in {c \in Columns : tuple[c] \notin {Unsent, Undecodable}} |-> tuple[c]]

(* documentID finds an id: the column is there and not NULL. *)
HasDocumentID(values) ==
  IdColumn \in DOMAIN values /\ values[IdColumn] # Null

DocumentID(values) == values[IdColumn]

(* valuesToData returns true: every value can be marshalled. *)
Marshals(values) == \A c \in DOMAIN values : values[c] # Unencodable

(* What it returns then. *)
ValuesToData(id, action, values) == [id |-> id, action |-> action, body |-> values]

(* deleteData *)
DeleteData(id) == [id |-> id, action |-> "delete", body |-> NoValues]

(* The values of an Update message that name the document: those of the    *)
(* old tuple, if it has any.                                               *)
UpdateKeyValues(msg) ==
  LET old == TupleToValues(msg.old)
  IN  IF old = NoValues THEN TupleToValues(msg.new) ELSE old

(* The values process() takes the document id from. *)
KeyValues(msg) ==
  CASE msg.kind = "insert" -> TupleToValues(msg.new)
    [] msg.kind = "update" -> UpdateKeyValues(msg)
    [] msg.kind = "delete" -> TupleToValues(msg.old)

(* process() hands a change on; otherwise it is dropped with a log line. *)
IsUsable(msg) ==
  /\ HasDocumentID(KeyValues(msg))
  /\ msg.kind # "delete" => Marshals(TupleToValues(msg.new))

(* What a usable message becomes. *)
ChangeData(msg) ==
  LET id == DocumentID(KeyValues(msg))
  IN  CASE msg.kind = "insert" -> ValuesToData(id, "index", TupleToValues(msg.new))
        [] msg.kind = "update" -> ValuesToData(id, "update", TupleToValues(msg.new))
        [] msg.kind = "delete" -> DeleteData(id)

------------------------------------------------------------------------------
(* The operation in a request.  An index operation carries the document,   *)
(* an update a partial document {"doc": ...}, a delete nothing.            *)

(* Data.Bytes, the NDJSON form. *)
Bytes(data) ==
  CASE data.action = "index"  -> [op |-> "index", id |-> data.id, doc |-> data.body]
    [] data.action = "update" -> [op |-> "update", id |-> data.id, doc |-> data.body]
    [] data.action = "delete" -> [op |-> "delete", id |-> data.id, doc |-> NoValues]

(* DataPayload.ToBulkRequest, the gRPC form. *)
ToBulkRequest(data) ==
  CASE data.action = "index"  -> [op |-> "index", id |-> data.id, doc |-> data.body]
    [] data.action = "update" -> [op |-> "update", id |-> data.id, doc |-> data.body]
    [] data.action = "delete" -> [op |-> "delete", id |-> data.id, doc |-> NoValues]
==============================================================================

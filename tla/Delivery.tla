------------------------------ MODULE Delivery ------------------------------
(***************************************************************************)
(* From the table to the index: what the messages of the changes of a row  *)
(* become (module Rows), what Client.Bulk in pkg/search_engine_client      *)
(* makes of the answers of the search engine, and what becomes of the      *)
(* index when the batcher (module Batcher) sends a batch again.  Every     *)
(* change is a transaction of its own here.                                *)
(*                                                                         *)
(* The database and the search engine are external.  A row's and a         *)
(* document's columns hold the number of the change that wrote them last,  *)
(* or a value that cannot be decoded or marshalled.                        *)
(* A bulk request is a list of operations, each of which succeeds or fails *)
(* alone; the answer has one result per operation.                         *)
(***************************************************************************)
EXTENDS Batcher, Rows, FiniteSets

CONSTANTS Ids,         \* values of the id column
          Toasted,     \* columns whose values are stored out of line
          Odd,         \* columns with values that may not be decoded or
                       \* marshalled
          Identities,  \* replica identities of the table, see OldTuple
          MaxItems,    \* bound: number of changes
          Transports,  \* how the client may be configured
          Existing,    \* rows in the table, and in the index, from the start
          Unindexed,   \* rows in the table from the start, not in the index
          Refusing,    \* transports over which the engine may turn a request down
          Faults       \* what else may go wrong, see the actions

DataColumns == Columns \ {IdColumn}

ASSUME DeliveryAssumption ==
  /\ MaxItems \in Nat
  /\ DataColumns # {}
  /\ Ids \subseteq Nat
  /\ Toasted \subseteq DataColumns
  /\ Odd \subseteq DataColumns
  /\ Identities \subseteq {"key", "other", "full"}
  /\ Transports \subseteq {"http", "grpc"}
  /\ Existing \subseteq Ids
  /\ Unindexed \subseteq Ids \ Existing
  /\ Refusing \subseteq Transports
  /\ Faults \subseteq {"itemBusy", "noAnswer"}

VARIABLES transport, \* Client.docClient is set or not
          changes,   \* PostgreSQL: number of changes so far
          table,     \* PostgreSQL: the rows
          docs,      \* search engine: the index
          applied,   \* changes the engine has carried out at least once
          dropped    \* rows with a change that process() dropped

deliveryVars == <<batcherVars, transport, changes, table, docs, applied, dropped>>
outsideVars == <<transport, changes, table, docs, applied, dropped>>

(* No row, or no document. *)
Absent == NoValues

(* A row or a document with the number n in every column but its id. *)
Written(id, n) == [c \in Columns |-> IF c = IdColumn THEN id ELSE n]

(* The columns S of a document or of a partial one: its id, and numbers of *)
(* changes.                                                                *)
Fields(id, S) ==
  {f \in [S -> {id} \union 0..MaxItems] :
     /\ f[IdColumn] = id
     /\ \A c \in S \ {IdColumn} : f[c] \in 0..MaxItems}

(* The documents, all or without some of the columns T. *)
Without(id, T) == UNION {Fields(id, Columns \ S) : S \in SUBSET T}

OddValues == {Undecodable, Unencodable}

(* The rows: Odd columns may also have values that are not numbers. *)
TableRows(id) ==
  {r \in [Columns -> {id} \union 0..MaxItems \union OddValues] :
     /\ r[IdColumn] = id
     /\ \A c \in DataColumns : r[c] \in 0..MaxItems \union OddValues
     /\ \A c \in DataColumns \ Odd : r[c] \in 0..MaxItems}

(* What change n may write to the columns S. *)
Values(S, n) ==
  {v \in [S -> {n} \union OddValues] : \A c \in S \ Odd : v[c] = n}

(* A row of the batcher also carries the number of its change. *)
Numbered(n, data) ==
  [seq |-> n, id |-> data.id, action |-> data.action, body |-> data.body]

(* What change n of the row `id' may hand to the batcher. *)
RowsOf(n, id) ==
  {[seq |-> n, id |-> id, action |-> "index", body |-> sent] : sent \in Without(id, Odd)}
    \union {[seq |-> n, id |-> id, action |-> "update", body |-> sent]
               : sent \in Without(id, Toasted \union Odd)}
    \union {[seq |-> n, id |-> id, action |-> "delete", body |-> NoValues]}

ASSUME RowAssumption == \A n \in 1..MaxItems, id \in Ids : RowsOf(n, id) \subseteq Row

DeliveryTypeOK ==
  /\ BatcherTypeOK
  /\ transport \in Transports
  /\ changes \in 0..MaxItems
  /\ DOMAIN table = Ids /\ DOMAIN docs = Ids
  /\ \A id \in Ids : /\ table[id] \in {Absent} \union TableRows(id)
                     /\ docs[id] \in {Absent} \union Without(id, Odd)
  /\ applied \subseteq Row
  /\ dropped \subseteq Ids

DeliveryInit ==
  /\ BatcherInit
  /\ transport \in Transports
  /\ changes = 0
  /\ table = [id \in Ids |-> IF id \in Existing \union Unindexed
                             THEN Written(id, 0) ELSE Absent]
  /\ docs = [id \in Ids |-> IF id \in Existing THEN Written(id, 0) ELSE Absent]
  /\ applied = {}
  /\ dropped = {}

------------------------------------------------------------------------------
(* The database. *)

NoTuple == [c \in Columns |-> Unsent]

(* The old tuple of an update to `new' or of a delete, as the replica      *)
(* identity has it: the key columns when the row goes away or one of them  *)
(* changes, or always the whole row.  "other" is an index on columns that  *)
(* do not include the id column.                                           *)
OldTuple(identity, old, new) ==
  LET key == CASE identity = "key"   -> {IdColumn}
               [] identity = "other" -> DataColumns \ Toasted
               [] identity = "full"  -> Columns
  IN  IF identity # "full" /\ new # Absent /\ \A c \in key : new[c] = old[c]
      THEN NoTuple
      ELSE [c \in Columns |-> IF c \in key THEN old[c] ELSE Null]

(* The messages of change n of the row `id', with the row it results in.   *)
(* Unchanged out-of-line values may be left out of the new tuple.          *)
Inserts(id, n) ==
  {[row |-> row, msg |-> [kind |-> "insert", old |-> NoTuple, new |-> row]]
     : row \in {Merged(Written(id, n), values) : values \in Values(DataColumns, n)}}

Deletes(id) ==
  {[row |-> Absent,
    msg |-> [kind |-> "delete", old |-> OldTuple(i, table[id], Absent), new |-> NoTuple]]
     : i \in Identities}

Updates(id, set, n) ==
  {[row |-> row,
    msg |-> [kind |-> "update", old |-> OldTuple(i, table[id], row),
             new |-> [c \in Columns |->
                        IF c \in Toasted \ set /\ omit THEN Unsent ELSE row[c]]]]
     : row \in {Merged(table[id], values) : values \in Values(set, n)},
       i \in Identities, omit \in BOOLEAN}

ChangesOf(id, n) ==
  IF table[id] = Absent
  THEN Inserts(id, n)
  ELSE Deletes(id)
       \union UNION {Updates(id, set, n) : set \in (SUBSET DataColumns) \ {{}}}

------------------------------------------------------------------------------
(* The engine works through the operations of a request in order; `busy'   *)
(* are those it rejects for lack of resources.  An update of a missing     *)
(* document is an error, a delete of one is a plain 404.                   *)
Effect(op, doc) ==
  CASE op.op = "index"  -> op.doc
    [] op.op = "update" -> Merged(doc, op.doc)
    [] op.op = "delete" -> Absent

(* It takes up operation i: `done' is what it has done before. *)
Do(done, op, i, busy) ==
  LET doc == done.index[op.id]
  IN  CASE i \in busy \/ (op.op = "update" /\ doc = Absent) ->
             [done EXCEPT !.failed = @ \union {i}]
        [] i \notin busy /\ op.op = "delete" /\ doc = Absent ->
             [done EXCEPT !.notFound = @ \union {i}]
        [] OTHER -> [done EXCEPT !.index[op.id] = Effect(op, doc)]

(* What it has done after each number of operations. *)
Progress(ops, busy) ==
  LET done[i \in 0..Len(ops)] ==
        IF i = 0 THEN [index |-> docs, failed |-> {}, notFound |-> {}]
                 ELSE Do(done[i - 1], ops[i], i, busy)
  IN  done

Work(ops, busy) == Progress(ops, busy)[Len(ops)]

(* The answer: a status, the `errors' flag and the results per operation.  *)
Answered(work, ops) ==
  [code |-> 200, errors |-> work.failed # {},
   items |-> [i \in 1..Len(ops) |->
                [error |-> i \in work.failed,
                 status |-> IF i \in work.failed THEN 400
                            ELSE IF i \in work.notFound THEN 404 ELSE 200]]]

(* The engine turns the whole request down (429, 503, 401 ...). *)
Refused == [code |-> 429, errors |-> FALSE, items |-> <<>>]

------------------------------------------------------------------------------
(* Mutated forms of the definitions below. *)

(* Any answer to the request counts as success. *)
ReportErrorsNever(answer) == 0

(* Only the first item of the answer is looked at. *)
ReportErrorsFirstOnly(answer) ==
  IF answer.errors /\ answer.items[1].error THEN 1 ELSE 0

(* An item without error but with a status of 400 and above is counted     *)
(* whether the answer says `errors' or not.                                *)
ReportGRPCBulkErrorsByStatus(answer) ==
  Cardinality({i \in 1..Len(answer.items) :
                 answer.items[i].error \/ answer.items[i].status >= 400})

------------------------------------------------------------------------------
(* reportErrors: operations with an `error' object, if the answer has the  *)
(* `errors' flag.  An answer that is not a bulk answer counts as no error. *)
ReportErrors(answer) ==
  IF ~answer.errors THEN 0
  ELSE Cardinality({i \in 1..Len(answer.items) : answer.items[i].error})

(* reportGRPCBulkErrors: also operations with a status of 400 and above. *)
ReportGRPCBulkErrors(answer) ==
  IF ~answer.errors THEN 0
  ELSE Cardinality({i \in 1..Len(answer.items) :
                      answer.items[i].error \/ answer.items[i].status >= 400})

(* bulkHTTP returns nil: the status code is looked at only to word the     *)
(* error of a request that failed for another reason.                      *)
BulkHTTPSucceeds(answer) == ReportErrors(answer) = 0

(* bulkGRPC returns nil: a refusal is an error of the call. *)
BulkGRPCSucceeds(answer) ==
  /\ answer.code = 200
  /\ ReportGRPCBulkErrors(answer) = 0

(* Client.Bulk *)
BulkSucceeds(answer) ==
  IF transport = "grpc" THEN BulkGRPCSucceeds(answer) ELSE BulkHTTPSucceeds(answer)

(* The request for the committed rows. *)
Request ==
  [i \in 1..FlushLen |-> IF transport = "grpc" THEN ToBulkRequest(buffer[i])
                                              ELSE Bytes(buffer[i])]

------------------------------------------------------------------------------
(* A change happens, and its message reaches process(), which needs the    *)
(* mutex only for a change that it hands on.                               *)
ChangeRow ==
  /\ changes < MaxItems
  /\ FlushLen = Len(buffer)
  /\ pending = <<>>
  /\ \E id \in Ids : \E change \in ChangesOf(id, changes + 1) :
       /\ table' = [table EXCEPT ![id] = change.row]
       /\ IF IsUsable(change.msg)
          THEN /\ Add(Numbered(changes + 1, ChangeData(change.msg)))
               /\ UNCHANGED dropped
          ELSE /\ dropped' = dropped \union {id}
               /\ UNCHANGED batcherVars
  /\ changes' = changes + 1
  /\ UNCHANGED <<transport, docs, applied>>

(* TRUNCATE: process() only logs it, so each row loses a change. *)
TruncateTable ==
  /\ changes < MaxItems
  /\ FlushLen = Len(buffer)
  /\ pending = <<>>
  /\ table' = [id \in Ids |-> Absent]
  /\ dropped' = dropped \union {id \in Ids : table[id] # Absent}
  /\ changes' = changes + 1
  /\ UNCHANGED <<batcherVars, transport, docs, applied>>

ChangeAdded == FinishAdd /\ UNCHANGED outsideVars

CommitChange ==
  /\ FlushLen < Len(buffer)
  /\ CommitN(1)
  /\ UNCHANGED outsideVars

SendBatch == Flush /\ UNCHANGED outsideVars

(* What a request does to the index. *)
Perform(work) ==
  /\ docs' = work.index
  /\ applied' = applied \union {buffer[i] : i \in 1..FlushLen \ work.failed}
  /\ UNCHANGED <<transport, changes, table, dropped>>

(* The engine carries out the request, and its answer reaches the client. *)
EngineWorks(busy) ==
  \E work \in {Work(Request, busy)} :
    /\ Perform(work)
    /\ IF BulkSucceeds(Answered(work, Request)) THEN BulkOk ELSE BulkFail

EngineReady == sending /\ EngineWorks({})

EngineBusy ==
  /\ sending
  /\ "itemBusy" \in Faults
  /\ \E busy \in SUBSET (1..FlushLen) : EngineWorks(busy)

EngineRefuses ==
  /\ transport \in Refusing
  /\ IF BulkSucceeds(Refused) THEN BulkOk ELSE BulkFail
  /\ UNCHANGED outsideVars

(* No answer: a timeout or a broken connection, before or after the engine *)
(* carried out the request.                                                *)
NoAnswer ==
  /\ "noAnswer" \in Faults
  /\ BulkFail
  /\ \/ UNCHANGED outsideVars
     \/ \E work \in {Work(Request, {})} : Perform(work)

DeliveryNext ==
  \/ ChangeRow
  \/ TruncateTable
  \/ ChangeAdded
  \/ CommitChange
  \/ SendBatch
  \/ EngineReady
  \/ EngineBusy
  \/ EngineRefuses
  \/ NoAnswer

DeliverySpec == DeliveryInit /\ [][DeliveryNext]_deliveryVars

(* The reader and the flush loop run on; a goroutine that waits for the    *)
(* mutex gets it in the end (SF); a request does not wait forever, and the *)
(* engine works without trouble on some of infinitely many (SF).  The      *)
(* database need not change any further.                                   *)
DeliveryFairSpec ==
  /\ DeliverySpec
  /\ WF_deliveryVars(ChangeAdded)
  /\ SF_deliveryVars(CommitChange)
  /\ SF_deliveryVars(SendBatch)
  /\ SF_deliveryVars(EngineReady)

------------------------------------------------------------------------------
(* Bulk returns nil only for a batch the engine has carried out completely:*)
(* the batcher drops no row the index did not get, whatever mix of failed  *)
(* operations, refusals and lost answers came before.                      *)
DroppedIsApplied ==
  \A i \in 1..Len(delivered) : delivered[i] \in applied

(* Every change handed to the batcher, in order. *)
Handed == delivered \o buffer \o pending

(* The oldest change that a column of the document may come from when the  *)
(* engine has been sent `row'.                                             *)
Oldest(row, c) ==
  IF row.action = "delete" THEN row.seq + 1
  ELSE IF c \in DOMAIN row.body THEN row.body[c] ELSE 0

(* Sending a batch again after a failure, of which a part or all may have  *)
(* been carried out before, never takes a document back behind the changes *)
(* that were delivered: each column shows what the last delivered change   *)
(* sent of it or something later, and a column that was sent is missing    *)
(* only because of a later delete or insert.                               *)
NoStaleDocument ==
  \A i \in 1..Len(delivered) :
    LET row == delivered[i]
        doc == docs[row.id]
    IN  /\ \A c \in DOMAIN doc \ {IdColumn} : doc[c] >= Oldest(row, c)
        /\ \/ row.action = "delete"
           \/ DOMAIN row.body \subseteq DOMAIN doc
           \/ \E j \in i + 1..Len(Handed) :
                 Handed[j].id = row.id /\ Handed[j].action # "update"

(* Once the changes of a row are delivered, its document equals the row,   *)
(* column by column, although updates are sent as partial documents        *)
(* without unchanged TOAST values, and requests may have been repeated.    *)
(* A column whose value does not decode is excepted: the document lacks it *)
(* or shows an older value.  So are rows with a dropped change.            *)
DocumentMirrorsRow ==
  \A id \in Ids \ dropped :
    LET Concerns(seq) == \E i \in 1..Len(seq) : seq[i].id = id
    IN  Concerns(delivered) /\ ~Concerns(buffer \o pending) =>
          /\ docs[id] = Absent <=> table[id] = Absent
          /\ \A c \in DOMAIN table[id] :
               table[id][c] # Undecodable =>
                 c \in DOMAIN docs[id] /\ docs[id][c] = table[id][c]

(* Carrying out an index or a delete again is no error, and what is        *)
(* delivered is in the index.  So when a request meets no trouble in the   *)
(* engine and Bulk fails, it is for an update whose document is not there: *)
(* it was never sent, a change of the row was dropped, or a delete behind  *)
(* the update in the same batch was carried out before.  With refusals     *)
(* over HTTP there are other reasons, see DroppedIsApplied.                *)
FailsOnlyOnMissing ==
  FlushLen > 0 /\ ~BulkSucceeds(Answered(Work(Request, {}), Request)) =>
    \E i \in 1..FlushLen :
      /\ buffer[i].action = "update"
      /\ \/ buffer[i].id \in dropped \union Unindexed
         \/ \E j \in i + 1..FlushLen : /\ buffer[j].id = buffer[i].id
                                      /\ buffer[j].action = "delete"
                                      /\ buffer[j] \in applied

(* A batch without updates cannot get stuck: operations that failed,       *)
(* refusals and lost answers only delay it, since carrying out an index or *)
(* a delete a second time is no error.                                     *)
RetriesSucceed ==
  []<>(FlushLen = 0 \/ \E i \in 1..FlushLen : buffer[i].action = "update")

(* README.md:5: syncgo consumes "database changes and writes them to the   *)
(* configured search engine": no committed row stays in the buffer forever.*)
EverythingDelivered == []<>(FlushLen = 0)
==============================================================================

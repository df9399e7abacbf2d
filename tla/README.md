# SyncGo in TLA+

SyncGo reads the changes of PostgreSQL tables from a logical replication slot
and writes them to Elasticsearch or OpenSearch. This directory holds TLA+
modules that model it, TLC configurations that check them on small instances,
and TLAPS proofs of what the modules promise for every instance.
`PROJECT.json` lists the parts, runs, mutated definitions, source lines,
findings, hazards and theorems; paths in it begin at the root of the repository
copy (`src/`), paths below at the root of the repository.

Run a configuration with `tlc -config X.cfg M` and a proof with `tlapm M.tla`.

## 1. The system

| Part | State | Operations | Talks to |
| --- | --- | --- | --- |
| **Batcher** `internal/batcher` | `buffer`, `lastCommitted` (index of the last committed row, -1 for none), `lastFlushTime`, the ticker, the gauge; one mutex | `Add`, `CommitN`, `RollbackN`, `Flush`, the flush loop | called by the reader and by shutdown; calls `Bulk` with the mutex held |
| **Replication reader** `internal/replication/replication.go` | `xLogPos`, the connection, the reader goroutine | `New` (IdentifySystem), `StartReplication`, `readReplicationMessages`, `sendStandbyStatusUpdate`, `Close` | PostgreSQL; the message handlers |
| **Message processing** `process.go`, `rows.go`, `txn_batcher.go` | the `txnTracker` (`adds`), the relation cache | Begin, Commit, Insert, Update, Delete, Relation | `Add` and `CommitN` of the batcher |
| **Processor** `internal/processor/processor.go` | the parts of a run, `shutdownOnce` | `New`, `Run`, `Shutdown` | everything; cancelled by signals |
| **Search engine client** `pkg/search_engine_client` | transport (HTTP or gRPC), authentication, health task | `New`, `Bulk`, `IndexExists`, `CreateIndex`, `Close` | the search engine |
| **Bulk transformer** `internal/bulk_transformer` | none | `Bytes` (NDJSON), `ToBulkRequest` (gRPC) | - |
| **Prepare** `prepare.go`, `pkg/postgresql/admin.go` | none of its own: publication, slot, index | check, then create, each of the three | PostgreSQL, the search engine |
| **Background task** `pkg/async_task` | `cancel`, `done`, the goroutine | `Start`, `Stop`, the ticker loop | health and standby jobs |
| **Configuration** `pkg/config` | the file | `Validate` with defaults | every command starts with it |
| **Command line** `pkg/cli` | the exit status, the signal context | `prepare`, `run` | the processor |
| **HTTP client** `pkg/http_client`, `pkg/tls`, `pkg/gzip` | certificates, timeouts | `NewClient`, `DoTimeout` | the search engine |
| Logging, metrics, PostgreSQL connection | - | I/O | - |

What is hard about it, and what makes each part correct:

* *Batcher.* Three goroutines use it: the reader adds and commits, the flush
  loop and shutdown flush. A request is sent with the mutex held, can fail, and
  is sent again later, with newer rows behind. The commit pointer is an index
  into a slice that flushes shorten; the ticker drops ticks while the loop waits
  for the mutex. Correct means: it is a commit log (`CommitLog`): committed rows
  leave in order, once, none is lost or rolled back, uncommitted rows never
  leave, and nothing committed waits for long.
* *Message processing.* The batcher knows no transactions; the tracker counts
  rows, and a change can be dropped between "received" and "added". Correct
  means: the count is exactly the uncommitted tail, so a request never holds
  part of a transaction.
* *Reader and processor.* Transactions interleave in the WAL, keepalives
  overtake them, the position is reported without looking at the batcher, runs
  crash, connections break, signals come at any step, and shutdown waits for
  goroutines that wait for each other. Correct means: what the search engine has
  is a mirror by whole transactions (`TxnMirror`), without gaps within a run,
  and a shutdown completes and flushes.
* *Client and transformer.* A bulk request succeeds per operation, its answer
  may be lost, it may be refused as a whole; updates are partial documents
  without unchanged TOAST values. Correct means: rows are dropped only when
  applied, and documents end equal to their rows.
* *Commands and tasks.* Check-then-create against concurrent calls, partial
  failure, lost answers and timeouts; settings that get lost on their way from
  the file to the client; stopping a goroutine that may be in its job. Correct
  means: success is complete, a rerun succeeds, a run gets to stream, and
  nothing outlives the client.

## 2. The modules

| Module | Models | Notes |
| --- | --- | --- |
| `CommitLog` | the abstract promise of the batcher | a log with a commit and a confirmation cursor |
| `Batcher` | `batcher.go`, flushes at any time | EXTENDed by everything that uses the batcher; implements `CommitLog` |
| `Settings` | `config.go`, the hand-over to the client, `tls.go`, pure | used by the next and by `Startup` |
| `FlushLoop` | `startFlushLoop` with time: ticker, channel, idle rule, slow requests | EXTENDS `Batcher`, `Settings`; each of its actions is one of `Batcher` or none |
| `Process` | `process.go`, `rows.go`, `txn_batcher.go`, control only | handlers, to be conjoined with a source of messages |
| `TxnFeed` | `Process` + `Batcher` under an unbroken stream | the transaction tracker by itself |
| `TxnMirror` | the abstract promise of the process | a log that grows by whole transactions |
| `Pipeline` | PostgreSQL's WAL and walsender, reader, `processor.go`, batcher, restarts | the whole process; EXTENDS `Process`; implements `TxnMirror` |
| `Rows` | tuples to documents to bulk operations, pure | `rows.go`, `process.go`, `action.go` |
| `Delivery` | table, messages, batcher, `Bulk` over both transports, the index | EXTENDS `Batcher`, `Rows` |
| `AsyncTask` | `async_task.go` | goroutine, context, Stop |
| `Startup` | the commands `prepare` and `run` from the file to their end | EXTENDS `AsyncTask`, `Settings` |
| `BatcherProofs`, `FlushLoopProofs`, `TxnFeedProofs`, `PipelineProofs`, `DeliveryProofs`, `IndexProofs`, `RetryProofs`, `StartupProofs` | proofs | section 5 |
| `MC*` | instances for TLC | section 3 |

How state and actions correspond to the code:

* **Steps.** Everything that runs under the batcher's mutex is atomic, except
  the network call inside it. `Flush` starts a request (`sending`), `BulkOk` or
  `BulkFail` ends it, and no other operation is enabled in between (`Locked`).
  `Add` keeps its row in `pending` while it waits for the flush it started.
  `delivered` is a history of what `Bulk` accepted, not a field of the program.
* **Time.** In `FlushLoop` time passes in units: `idle` is the age of
  `lastFlushTime`, `tickIn` and `ticked` are the ticker and its channel,
  `asking` the age of a request. The loop takes a tick from the channel
  (`TakeTick`) before it has the mutex and looks at the clock with it
  (`HandleTick`); `loop` says where it is, and a second tick can be buffered
  while it waits for the mutex with the first. A tick that finds the channel
  full is dropped. A goroutine that can run does so before the next unit has
  passed. Everywhere else a tick may come at any moment, which is sound since
  the loop does nothing to the batcher but `Flush` (`FlushLoopIsBatcher`).
* **Transactions.** `OnChange(row, usable)` is a handler with both outcomes: a
  change that cannot be used is dropped with a log line and not counted.
* **Positions.** In `Pipeline` an LSN is the number of WAL records before it. The
  walsender decodes a transaction when it reads its commit record: `sent` is its
  `sentPtr`, which keepalives carry, `out` what it sends next, `upto` the last
  change it sent of that transaction. The wire is a FIFO, so messages in flight
  are merged with those not sent yet. `confirmed` belongs to the slot. The
  reader's message in hand (`hand`) is handled while other goroutines move.
  `xLogPos` is read and written by the reader alone in a running process, since
  the standby task is over by then (section 6), so its mutex is left out.
* **Life of a run.** `phase` goes down, ready (`New`), running
  (`StartReplication`), flushing, closing (`Shutdown`) and down again; `Crash`
  ends it anywhere. `Gone` forgets the memory, not the WAL, slot and index.
* **Rows.** A column holds the number of the change that wrote it last, `Null`,
  `Unsent`, or one of two odd values: `Undecodable`, which `tupleToValues` logs and
  leaves out (`rows.go:28-31, 35-38`), and `Unencodable`, which decodes but which
  `json.Marshal` refuses, a float8 NaN for example, so that `process()` drops the
  change (`rows.go:58-62`, `process.go:48-51, 80-83`). A tuple, document or table row
  is a function from columns; a document may lack columns. `dropped` remembers
  the rows that lost a change, by a drop or by a Truncate, which `process()` only
  logs (`TruncateTable`). Both forms of a bulk operation are records with what the
  engine acts on. The engine merges updates, fails updates of missing documents,
  answers 404 for deletes of missing ones.
* **Settings.** A file is a record of the settings that decide something; a string
  that may be empty is a Boolean. `Validate` is its verdict, `ValidSize` and
  `ValidInterval` are the defaults it fills in. `ClientConfig` is what
  `initClient` and `prepareIndex` copy, and so what `AuthHeader` sees.
* **Commands.** Each process is somewhere between `check`, `create`, `ping`,
  `connect`, `stream`, `running`, `stop`, `wait` and a result; `object` says which
  of the three objects prepare is at, or `"stream"` for a run. `ctx` is one
  context per call: for prepare the one with the timeout and the task's child of
  it, the former of which is not used any more once the latter is cancelled;
  for run the `initCtx` that `New` cancels when it returns. A run that fails
  before it streams exits the process, without `Close`. One run at a time reads
  from the slot, PostgreSQL refuses the others (`SlotFree`); a run whose connection
  breaks (`Disconnect`) goes on without its reader (`"cut"`) until a signal ends it,
  and no longer keeps the slot.

Mutated forms of definitions stand in front of the definitions: they are mistakes
the code could contain, each breaks the property `PROJECT.json` names with it.

## 3. What TLC checks

| Run | States | Question and answer |
| --- | ---: | --- |
| `MCFlushLoop` | 57,519 | The batcher with its timed loop, any order of API calls, slow and failing requests. `PointerInBuffer`: the slices never panic. `GaugeIsBufferLength`. `WaitBounded`: committed rows wait less than two intervals while no request is under way. `CommittedRowsStay`. `ImplementsCommitLog`: refinement. `CommittedIsDelivered`: liveness. |
| `MCTxnFeed` | 19,564 | All streams of up to 3 transactions of up to 3 changes, any of them dropped. `TailIsOpenTxn`, `OnlyCommittedTxnsDelivered`, `TxnsNotSplit`, `OverflowIsOneTxn` (the buffer outgrows its size only for one long transaction, until a request fails). |
| `MCPipeline` | 933,596 | Two runs over interleaved transactions with failing requests, broken connections, crashes and signals. `PositionCoversHandled`, `DeliveredOnceInOrder`, `TxnsAllOrNothing`, `RunHasNoGaps`, `SignalledRowsFlushed`, and `ImplementsMirror`: refinement of `TxnMirror`. |
| `MCPipelineLive` | 24,037 | `StreamDelivered`: what commits while a run reads is delivered; `ShutdownCompletes`: a signal ends the process. |
| `MCDelivery` | 338,718 | Three changes of two rows, Truncate included, three replica identities, both transports; values that do not decode or marshal, failed operations, refusals over gRPC, lost answers. `DroppedIsApplied`: rows leave the buffer only when applied. `NoStaleDocument`: a repetition takes no document back. `DocumentMirrorsRow`: a row without a dropped change ends in its document, but for columns that do not decode. `FailsOnlyOnMissing`: a request without trouble in the engine fails only for an update of a row that was never indexed, lost a change, or was deleted by an earlier attempt behind the update. `RetriesSucceed`: a batch without updates does not get stuck. |
| `MCStartup` | 74,470 | Two processes that run both commands again and again, from any existing objects, with four files; broken connections, two failures or timeouts. `PreparedIsComplete`, `NoJobBehindCommand`, `CommandReturns`, `HealthEndsWithNew`, `RerunSucceeds`. `RunStreams`: some run gets to stream again and again, or all have lost their connections and wait for a signal; nothing but a reader keeps a run from the slot. |
| `MCPipelineAck`, `MCPipelineSkip`, `MCPipelineFlush`, `MCDeliveryRefused`, `MCDeliveryRetry`, `MCStartupKey` | - | Each refutes one statement of the documentation, section 4. |

Deadlock checking is off where the instance really stops: the WAL and the
number of rows or starts are bounded. `MCFlushLoop` and `MCStartup` check it.

Bounds, and why they are enough for the cases that matter:

* `BufferSize` 2 (1 in the runs of `Pipeline`) and `MaxRows` 3 to 9: a full buffer
  with and without committed rows, a pointer at both ends and in the middle, an
  `Add` behind a failed flush.
* `DefaultInterval` 3 and `MaxRequest` 2 in `FlushLoop`: a tick can come before,
  at and after the idle time, and a request can outlast a tick. The file says 0
  for both settings, so that `Validate` chooses.
* `MaxTxns` 3, `MaxTxnRows` 3: a transaction longer than the buffer, an empty
  one, one committed behind the open one while an older one is delivered.
* `Wal`: two transactions that interleave, the second to begin commits first, so
  that positions go backwards, and a third one with a dropped change; the
  walsender may send a keepalive between any two messages. `MaxStarts` 2: one
  restart, which is all that a second position can be compared with.
* `MaxItems` 3 with rows that exist in both, in the table only or in neither:
  insert, update and delete of a row in one batch, repeated after any answer.
* `Columns`: the id, a short and a long (TOAST) column, as replica identities
  and partial documents tell apart no more. `Odd` is the short one: one column
  that may not decode or marshal is enough to leave a document incomplete, or a
  row without a document.
* `MCFiles`: a file with everything, one without tables and index whose
  certificate file is not looked at, one that `Validate` rejects and one whose
  certificate cannot be read. `MaxFaults` 2: an object can be left behind by a
  lost answer, or by a timeout, while another process races for it, and another
  call can fail later.

Fairness, and what justifies it: goroutines that can run do (WF). A goroutine
waiting for the batcher's mutex gets it although others take it again and again
(SF on `Handle`, `LoopFlush`, `HandleTick` once the loop has taken a tick, `CommitChange`, `SendBatch`): Go's
`sync.Mutex` hands over to a waiter that has starved for a millisecond. For the
same reason the callers cannot keep time from passing (SF on `TimePasses`). A
request returns (WF): over HTTP, which is what the commands use, every request
has a timeout; the gRPC call has none, see the hazards. Not all of infinitely
many requests fail (SF), an assumption about the engine. A walsender sends the
data it has and not only keepalives (SF on `ReceiveData`). `RerunSucceeds` and
`RunStreams` assume that each process runs either command again whenever the last
one has ended (SF on `BeginPrepare` and `BeginRun`). Nothing is assumed about
faults, signals, timeouts, ticks of the health task, or new changes; only their
number is bounded where they are counted.

## 4. Where the code and its documents disagree

1. `ConsumedIsWritten` (`MCPipelineAck`): the position is acknowledged before the
   search engine has the rows; a crash then loses them (README.md:5).
2. `RunStartsAtSlot` (`MCPipelineSkip`): replication starts at the server's
   current position, so what committed since prepare or since the last run is
   skipped (README.md:3 and 94).
3. `ShutdownFlushesBatch` (`MCPipelineFlush`): the final flush runs before the
   reader has stopped, and rows committed in between are discarded (README.md:94).
4. `DroppedIsApplied` (`MCDeliveryRefused`, refusals over HTTP): `bulkHTTP` takes a
   refusal such as 429 for a success and the rows are dropped
   (`pkg/http_client/client.go:82`).
5. `EverythingDelivered` (`MCDeliveryRetry`): a batch that updates and then deletes
   a row cannot be repeated once carried out, and blocks everything behind it
   (README.md:5).
6. `RerunSucceeds` (`MCStartupKey`, a file with `api_key`): the key is read
   from the file but never given to the client, so no command gets past its ping
   (README.md:283 and 293).

Met while modelling, and without a run of their own:

* When the reader fails it ends silently (`replication.go:113`), and the process
  stays up and delivers nothing more (README.md:3 and 94). `StreamDelivered` fails in
  `MCPipelineLive` as soon as `"disconnect"` is added to its `Faults`.
* An insert with a value that does not marshal is dropped (`process.go:48-51`). The
  update that puts the value right has no document to go to, fails, is repeated for
  ever and blocks everything behind it, although no request meets any trouble in
  the engine: `EverythingDelivered` fails in `MCDeliveryRetry` without `"noAnswer"`
  and with `Existing` empty and `Odd` `{"text"}`.
* `flush_interval: 0` becomes 50 ms (`config.go:116`), although the comment at
  `config.go:49` and README.md:467-470 say that it disables the timer.
* README.md:419 calls `flush_interval` the maximum idle period; a tick that comes
  a little too early waits for the next one, so that rows may wait for almost
  twice as long. `WaitBounded` states the bound that does hold.
* The `grpc` section is validated but never used (README.md:400): the commands
  always talk HTTP.
* The health task and the standby task of a run end before the run streams
  (`HealthEndsWithNew`), since `New` cancels their context.

The passing runs and the proofs show what holds around them: within one run there
are no gaps and no reordering, `xLogPos` never overtakes the batcher, a batch
without updates can be repeated at will. `MCDelivery` excludes refusals over HTTP,
which finding 4 covers, `MCPipelineLive` broken connections, and the files of
`MCStartup` have no API key, which finding 6 covers. Of rows that lost a change,
because a value did not marshal or by a Truncate, `DocumentMirrorsRow` and `FailsOnlyOnMissing` say
nothing; `NoStaleDocument` and `DroppedIsApplied` do.

## 5. What is proved

All theorems hold for every value of the constants: any set of rows, buffer size,
WAL, set of faults, number of runs, transactions, processes, failures, files and
intervals. They rest on the named assumptions of the modules: the sizes and
intervals are what `Validate` makes of the file (`BatcherAssumption`,
`FlushLoopAssumption`, `SettingsAssumption`), rows are named by transactions
(`FeedAssumption`), the WAL is a sequence of records in which a commit is the last
record of its transaction (`PipelineAssumption`), the batcher can hold the rows that
changes make (`RowAssumption`), a table has a column besides its id
(`DeliveryAssumption`), bounds are numbers.

**Batcher.** `PointerSafe` and `GaugeExact` from `BatcherInv`: the types, the pointer
within the buffer, the gauge, and that a request is under way only with rows to
send (`sending => FlushLen > 0`). None of them is inductive alone: `BulkOk`
computes the new gauge from slices whose lengths are known only with the pointer
in range. `CommittedRowsSafe`, an action property: an operation either leaves
`delivered` alone and keeps the committed prefix of the buffer (`HistoryExtends`)
or moves exactly that prefix to `delivered` (`BulkOkKeepsHistory`).
`BatcherRefinesCommitLog`: `FinishAdd` maps to an append, `CommitN` and `RollbackN`
to cursor and tail moves or stutters, `BulkOk` to one confirmation of everything
committed; the rest stutters.

**Flush loop.** The lemma `FlushLoopIsBatcher` carries everything above over to the
loop with time; it holds by the way `FlushLoop` is put together and says nothing
about the code by itself. `WaitIsBounded` needs how the clocks relate (`WaitInv`): rows have
waited no longer than since the last flush unless the idle time is over, so that a
tick that flushes nothing leaves only rows that have waited for less than one
interval, and the next tick comes within another.

**Transactions.** `TrackerMatchesTail`, `DeliveredAfterCommit`, `TransactionsWhole`.
`FeedInv` adds to them `BatcherInv` and what ties the parts together: a pending row
belongs to the open transaction, committed and delivered rows to transactions that
are over. `OverflowBounded` from `OverflowInv`, which adds `FullMeansFlushed`: an
`Add` that holds a row over a full buffer has sent the committed rows first.

**The whole process** (`PipelineProofs`). `PipelineInv` speaks of three things: `Log`,
everything that was handed to the batcher and is still known (`delivered` and
`buffer`), `Marked`, how much of it is committed there, and `SentInRun`, the changes
the walsender has sent in this run. Its conjuncts say

* that the log is sorted by commits (`LogOrdered`), and that both what is delivered
  and what is marked are whole transactions (`TxnsComplete`);
* what a message in the reader's hand means for the walsender and for the log
  (`HandFits`, one part per kind of message), and that nothing is under way outside
  of a session (`Quiet`);
* that in a session the log is, behind the first `base` rows, exactly what was sent
  (`SessionLog`), and that what is not marked belongs to the transaction that is
  open, whose commit (`OpenLsn`) `xLogPos` has not reached (`TailIsOpen`,
  `Positions`);
* that what is delivered is written in the WAL (`DeliveredWritten`), and what was
  owed at the signal is marked (`OwedCommitted`).

There is one lemma per action. From the invariant follow `DeliveryOrdered`,
`TransactionsAtomic`, `ReportedPositionSafe`, `StreamComplete` (no gaps in a run),
`ShutdownDelivers`, and `PipelineIsMirror`: `WriteWal` maps to `Write`, a successful
answer to `Copy`, and every other step, crashes and restarts included, stutters.

**Client.** `DroppedRowsApplied`: for every answer to every request, rows leave the
buffer only when the engine has applied them, under the hypothesis that whole
requests are refused over gRPC only, which finding 4 shows to be needed. The key
lemma, `SuccessIsComplete`, is that neither of the two ways to count errors can
give zero for an answer with a failed operation.

**The index** (`IndexProofs`). Three theorems about what the requests do to the
documents, for tables with any columns, any part of them stored out of line, any
part with values that may not decode or marshal:

* `DeliveryTypeCorrect`, whatever is refused: a document has the columns of the
  table, and lacks none but those whose values may not decode. Its invariant,
  `RowsInv`, adds to the types that the rows handed over are such as changes make
  (`WellFormed`) and numbered in the order of their changes (`InOrder`). Without the
  first, merging an update into a document need not give a document. `ChangeForm`
  shows it of every message that `process()` hands on, through `tupleToValues`, the
  choice of the key and the old tuple of each replica identity.
* `DocumentsMirrorRows`, where requests are refused over gRPC only. The property
  speaks of rows whose changes are all delivered and none of which was dropped, and
  says nothing while some wait. The invariant does, column by column (`Mirrors`): the
  last row of the backlog that settles a column shows what the table has there, or
  no row of the backlog settles it and the document shows that already, unless the
  value does not decode; or the row has never had a document and only updates wait
  for it (`NotIndexed`). A request is followed operation by operation. Where the
  batch will be repeated, whatever part of it was carried out, an operation that ran
  early writes only columns that some row of the backlog settles again
  (`MirrorsAgain`, `WorkKeepsMirrors`). Where it succeeds, each operation does what
  its row was waiting for (`MirrorsForth`, `WorkMirrors`), and the rest of the backlog
  remains.
* `DocumentsNotStale`, under the same hypothesis: every delivered row is still to
  be seen, in the columns that were sent (`AllFresh`). A repeated operation writes
  the number of a change not older than any delivered one of its row
  (`FreshWritten`). This holds of rows with dropped changes too.

What the engine does with a request of any length is a recursive function,
`Progress`. `ProgressSteps` shows that its definition has a solution, which takes up
one operation after the other. This, and the facts about all values of `Progress`,
are proved with `SetInduction`: the set of the numbers for which a fact holds
contains 0 and with each number the next one, so that no least number is left
outside of it. `IndexInvariant` combines the lemmas, one per kind of step.

**Repeated requests** (`RetryProofs`). `RetriesFailOnMissing`, where requests are
refused over gRPC only: however often and however far a batch was carried out
before, when its next request meets no trouble in the engine and fails, then for an
update of a row that was never indexed, that lost a change, or that a delete behind
the update took away in an earlier attempt. In particular no index and no delete
fails of having been carried out already, and a row that was indexed from the start
and lost no change blocks the batcher in the way of finding 5 only. `NothingFails`
shows that a request succeeds if all its updates find a document. The invariant,
`RetryInv`, has two parts besides `IndexInv`, each for rows without a dropped
change. `OrderInv` says of all rows handed over that a row deleted and updated
later, or deleted and in the table, was inserted again in between
(`InsertedBetween`, `InsertedAgain`): the table has no row to update otherwise.
`Present` says that the document of a waiting update is there, or comes with a row
before it in the backlog, or was deleted by a committed row that waits for its
repetition (`Removed`). An insert that is dropped breaks both, as section 4 tells;
such rows are in `dropped` and excepted.

**Commands.** `StartupTypeCorrect`, `PreparedComplete`, `NoJobOutlives`. The
inductive invariant, `CommandFits` for each process, says what the place of a
command implies for its object, its result and its task (`PlaceFits`, `TaskFits`) and which objects
exist by then (`PassedExist`). `StepOfOne` is the frame: a step of one process
disturbs no fact about another, since all they share is the set of objects, which
only grows.

Only model-checked: the liveness properties (`CommittedIsDelivered`,
`StreamDelivered`, `ShutdownCompletes`, `RetriesSucceed` and the four of `Startup`),
since fairness is out of the prover's reach. Every invariant, action property and
refinement of a passing run is proved.

## 6. Not modelled

* *The periodic standby update and health ping of `run`.* Both tasks are started
  with the context of `processor.New`, which is cancelled when `New` returns
  (`processor.go:41`), before the first tick: in effect they never run.
  `Startup` has the health task and its end; `Pipeline` sends status updates in
  answer to keepalives only.
* *A request carried out after its timeout*, behind later batches: the engine of
  `Delivery` carries a request out at once or never.
* *Updates of the id column*: the code sends them to the document of the old id,
  so that the new one never gets a document. The rows of `Delivery` keep their ids.
* *A gRPC request that never returns*: it has no deadline, but the commands never
  use gRPC.
* *The relation cache*, how each type decodes, and the bytes of requests: data
  that no property tells apart. That a value may not decode or marshal is modelled.
* `DocumentExists`, `CustomHeaders`, client certificates, a restart of a stopped
  task and the second call of `Shutdown`: the program does not use them.
* URIs, compression, the PostgreSQL connection, logging, metrics, flags: I/O,
  formatting and wiring. Mocks and end-to-end tests are test code.

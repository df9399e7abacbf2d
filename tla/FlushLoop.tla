----------------------------- MODULE FlushLoop -----------------------------
(***************************************************************************)
(* startFlushLoop in internal/batcher/batcher.go, with time: the ticker,   *)
(* its channel, the idle rule that looks at lastFlushTime, and callers     *)
(* that use the batcher meanwhile.  The sizes come from the configuration  *)
(* through Config.Validate.                                                *)
(*                                                                         *)
(* Time passes in units.  A goroutine that can run does so before the next *)
(* unit has passed, and a request takes at most MaxRequest units.  Clocks  *)
(* are kept as ages, none of them further than a comparison looks.  The    *)
(* end of b.ctx ends the loop; module Pipeline has that.                   *)
(***************************************************************************)
EXTENDS Batcher, Settings

CONSTANTS ConfiguredSize,      \* batcher.size of the configuration
          ConfiguredInterval,  \* batcher.flush_interval of the configuration
          MaxRequest           \* bound: longest request, connection_timeout

FlushTimeout == ValidInterval(ConfiguredInterval)

ASSUME FlushLoopAssumption ==
  /\ ConfiguredSize \in Int
  /\ ConfiguredInterval \in Int
  /\ MaxRequest \in Nat \ {0}
  /\ BufferSize = ValidSize(ConfiguredSize)

VARIABLES idle,     \* time.Since(b.lastFlushTime)
          tickIn,   \* time to the next tick of the ticker, 0 without a loop
          ticked,   \* a tick is in the channel ticker.C
          loop,     \* the loop waits for a tick, is due to look at the
                    \* clock once it has the mutex, or flushes
          asking,   \* age of the request that is under way
          waiting   \* how long committed rows have waited for a request

loopVars == <<idle, tickIn, ticked, loop, asking, waiting>>
flushLoopVars == <<batcherVars, loopVars>>

(* NewBatcher that never starts the goroutine (mutated form). *)
LoopRunsNever == FALSE

(* NewBatcher starts the goroutine only with a timeout. *)
LoopRuns == FlushTimeout > 0

FlushLoopTypeOK ==
  /\ BatcherTypeOK
  /\ idle \in 0..FlushTimeout + 1
  /\ tickIn \in 0..FlushTimeout
  /\ ticked \in BOOLEAN
  /\ loop \in {"waits", "due", "flushes"}
  /\ asking \in 0..MaxRequest
  /\ waiting \in 0..2 * FlushTimeout

FlushLoopInit ==
  /\ BatcherInit
  /\ idle = 0
  /\ tickIn = FlushTimeout
  /\ ticked = FALSE
  /\ loop = "waits"
  /\ asking = 0
  /\ waiting = 0

AtMost(n, bound) == IF n < bound THEN n ELSE bound

------------------------------------------------------------------------------
(* Mutated forms of the operations below. *)

(* The loop flushes only after more than the timeout. *)
HandleTickLater ==
  /\ loop = "due"
  /\ ~Locked
  /\ IF idle > FlushTimeout /\ FlushLen > 0
     THEN Flush /\ loop' = "flushes" /\ asking' = 0 /\ waiting' = 0
     ELSE loop' = "waits" /\ UNCHANGED <<batcherVars, asking, waiting>>
  /\ UNCHANGED <<idle, tickIn, ticked>>

------------------------------------------------------------------------------
(* Calls of the reader and of shutdown. *)

(* A step that takes the mutex and may start a request. *)
Call(operation) ==
  /\ operation
  /\ asking' = 0
  /\ waiting' = IF sending' THEN 0 ELSE waiting
  /\ UNCHANGED <<idle, tickIn, ticked, loop>>

AddCall == \E row \in Row : /\ Len(delivered) + Len(buffer) < MaxRows
                            /\ Call(Add(row))

FinishAddCall == Call(FinishAdd)

CommitCall == \E n \in 1..MaxRows : Call(CommitN(n))

RollbackCall == \E n \in 1..MaxRows : Call(RollbackN(n))

FlushCall == Call(Flush)

------------------------------------------------------------------------------
(* The loop takes the tick, and waits for the mutex. *)
TakeTick ==
  /\ ticked
  /\ loop = "waits"
  /\ ticked' = FALSE
  /\ loop' = "due"
  /\ UNCHANGED <<batcherVars, idle, tickIn, asking, waiting>>

(* With the mutex, the loop flushes if no flush has succeeded for the      *)
(* timeout, else it waits for the next tick.                               *)
HandleTick ==
  /\ loop = "due"
  /\ ~Locked
  /\ IF idle >= FlushTimeout /\ FlushLen > 0
     THEN Flush /\ loop' = "flushes" /\ asking' = 0 /\ waiting' = 0
     ELSE loop' = "waits" /\ UNCHANGED <<batcherVars, asking, waiting>>
  /\ UNCHANGED <<idle, tickIn, ticked>>

(* The end of a request: the loop waits for a tick again if it was the     *)
(* loop's.                                                                 *)
Answered ==
  /\ loop' = IF loop = "flushes" THEN "waits" ELSE loop
  /\ asking' = 0
  /\ UNCHANGED <<tickIn, ticked, waiting>>

(* Bulk returns nil, and flush() sets lastFlushTime. *)
RequestSucceeds == BulkOk /\ Answered /\ idle' = 0

(* Bulk returns an error: lastFlushTime stays. *)
RequestFails == BulkFail /\ Answered /\ UNCHANGED idle

(* A unit of time.  The ticker drops a tick when one is in the channel,    *)
(* which the loop leaves there while it flushes or waits for the mutex.    *)
TimePasses ==
  /\ pending # <<>> => sending
  /\ ticked => loop # "waits"
  /\ loop = "due" => Locked
  /\ sending => asking < MaxRequest
  /\ idle' = AtMost(idle + 1, FlushTimeout + 1)
  /\ IF LoopRuns /\ tickIn = 1
     THEN tickIn' = FlushTimeout /\ ticked' = TRUE
     ELSE tickIn' = (IF LoopRuns THEN tickIn - 1 ELSE tickIn) /\ UNCHANGED ticked
  /\ asking' = IF sending THEN asking + 1 ELSE 0
  /\ waiting' = IF FlushLen > 0 /\ ~sending
                THEN AtMost(waiting + 1, 2 * FlushTimeout) ELSE waiting
  /\ UNCHANGED <<batcherVars, loop>>

FlushLoopNext ==
  \/ AddCall
  \/ FinishAddCall
  \/ CommitCall
  \/ RollbackCall
  \/ FlushCall
  \/ TakeTick
  \/ HandleTick
  \/ RequestSucceeds
  \/ RequestFails
  \/ TimePasses

FlushLoopSpec == FlushLoopInit /\ [][FlushLoopNext]_flushLoopVars

(* Time goes on, however often callers keep the mutex busy (SF); the loop  *)
(* takes a tick (WF) and gets the mutex in the end (SF, sync.Mutex hands   *)
(* over to a waiter that starves); an Add under way ends, requests return, *)
(* and not all of infinitely many fail.  Nobody has to call Flush.         *)
FlushLoopFairSpec ==
  /\ FlushLoopSpec
  /\ SF_flushLoopVars(TimePasses)
  /\ WF_flushLoopVars(TakeTick)
  /\ SF_flushLoopVars(HandleTick)
  /\ WF_flushLoopVars(FinishAddCall)
  /\ WF_flushLoopVars(RequestSucceeds \/ RequestFails)
  /\ SF_flushLoopVars(RequestSucceeds)

------------------------------------------------------------------------------
(* Committed rows wait less than twice the flush interval for a request    *)
(* that carries them, whatever mix of size-triggered flushes, failures and *)
(* slow requests moved lastFlushTime and blocked ticks, and whatever       *)
(* interval, also 0 or a negative one, the configuration has.              *)
WaitBounded == FlushLen > 0 => waiting < 2 * FlushTimeout
==============================================================================

----------------------------- MODULE AsyncTask -----------------------------
(***************************************************************************)
(* pkg/async_task/async_task.go: a job that a goroutine runs on every tick *)
(* of a ticker until its context is done.  Start and Stop are called by    *)
(* the owner of the task, which starts it once; the context may also end   *)
(* because its parent does.  Time is abstracted: a tick may come whenever  *)
(* the goroutine waits for one.                                            *)
(***************************************************************************)
CONSTANT Tasks

VARIABLES loop,  \* runBackgroundLoop: where the goroutine of a task is
          ctx,   \* its context: "live" or "done"
          held   \* at.cancel is set

taskVars == <<loop, ctx, held>>

TaskTypeOK ==
  /\ loop \in [Tasks -> {"none", "select", "job", "ended"}]
  /\ ctx \in [Tasks -> {"live", "done"}]
  /\ held \in [Tasks -> BOOLEAN]

TaskInit ==
  /\ loop = [t \in Tasks |-> "none"]
  /\ ctx = [t \in Tasks |-> "live"]
  /\ held = [t \in Tasks |-> FALSE]

------------------------------------------------------------------------------
(* Mutated forms of the operations below. *)

(* Stop() that waits for the goroutine without a cancel before. *)
StopNeverCancels(t) == UNCHANGED taskVars

(* Stop() that does not wait for the goroutine. *)
StopReturnsAtOnce(t) ==
  /\ held' = [held EXCEPT ![t] = FALSE]
  /\ UNCHANGED <<loop, ctx>>

(* Stop() that resets at.done before the goroutine has closed it, which    *)
(* then closes a nil channel.                                              *)
StopForgetsDone(t) ==
  /\ held' = [held EXCEPT ![t] = FALSE]
  /\ loop' = [loop EXCEPT ![t] = IF @ = "ended" THEN @ ELSE "panic"]
  /\ UNCHANGED ctx

------------------------------------------------------------------------------
(* Start: a new goroutine; nothing when the task was started before. *)
StartTask(t) ==
  IF held[t] THEN UNCHANGED taskVars
  ELSE /\ loop' = [loop EXCEPT ![t] = "select"]
       /\ held' = [held EXCEPT ![t] = TRUE]
       /\ UNCHANGED ctx

(* The select takes a tick, also when the context is done by then. *)
Tick(t) ==
  /\ loop[t] = "select"
  /\ loop' = [loop EXCEPT ![t] = "job"]
  /\ UNCHANGED <<ctx, held>>

(* The job returns, and the loop looks at the context again. *)
JobReturns(t) ==
  /\ loop[t] = "job"
  /\ loop' = [loop EXCEPT ![t] = IF ctx[t] = "done" THEN "ended" ELSE "select"]
  /\ UNCHANGED <<ctx, held>>

(* The select takes ctx.Done(); the goroutine closes at.done and ends. *)
SeesDone(t) ==
  /\ loop[t] = "select"
  /\ ctx[t] = "done"
  /\ loop' = [loop EXCEPT ![t] = "ended"]
  /\ UNCHANGED <<ctx, held>>

(* Stop of a task that was started: at.cancel() ... *)
StopCancels(t) ==
  /\ held[t]
  /\ ctx' = [ctx EXCEPT ![t] = "done"]
  /\ UNCHANGED <<loop, held>>

(* ... and the wait for at.done. *)
StopReturns(t) ==
  /\ held[t]
  /\ loop[t] = "ended"
  /\ held' = [held EXCEPT ![t] = FALSE]
  /\ UNCHANGED <<loop, ctx>>

TaskStep(t) ==
  \/ Tick(t)
  \/ JobReturns(t)
  \/ SeesDone(t)
==============================================================================

------------------------------ MODULE Startup ------------------------------
(***************************************************************************)
(* The commands prepare and run, from the configuration file to their end: *)
(* pkg/cli/cli.go; Prepare in internal/processor/prepare.go with           *)
(* EnsurePublication and EnsureReplicationSlot in pkg/postgresql/admin.go; *)
(* New, Run and Shutdown in internal/processor/processor.go; New,          *)
(* IndexExists, CreateIndex and Close of the search engine client.  What a *)
(* run does between StartReplication and the flush is module Pipeline.     *)
(*                                                                         *)
(* Several processes may run the commands at the same time, and each again *)
(* and again, with the same file.  Every object is ensured in two steps, a *)
(* check and a creation, with other processes in between.  PostgreSQL and  *)
(* the search engine are external: an object exists or not, and creating   *)
(* an existing one is an error.  The client starts the health task of      *)
(* module AsyncTask.                                                       *)
(***************************************************************************)
EXTENDS AsyncTask, Settings

CONSTANTS Files,          \* configuration files to choose from
          EngineCert,     \* who signed the engine's certificate
          EngineAccepts,  \* Authorization headers that the engine accepts
          MaxFaults       \* bound: calls that fail, and timeouts

ASSUME StartupAssumption ==
  /\ Files \subseteq FileType
  /\ \A f \in Files : f.skipVerify => f.ca # "absent"
  /\ EngineCert \in {"none", "system", "given"}
  /\ EngineAccepts \subseteq {"none", "Basic", "ApiKey"}
  /\ MaxFaults \in Nat

Objects == {"publication", "slot", "index"}

VARIABLES file,    \* the configuration file
          made,    \* the objects that exist
          at,      \* where a process is
          object,  \* the object prepare ensures, "stream" for a run
          good,    \* the command will return nil
          faults   \* calls that have failed so far

(* The processes, each with the task of its client. *)
Processes == Tasks

commandVars == <<made, at, object, good, faults>>
startupVars == <<file, commandVars, taskVars>>

Returned == {"idle", "ok", "failed"}

Places == Returned \union {"check", "create", "ping", "connect", "stream", "running",
                           "cut", "stop", "wait"}

StartupTypeOK ==
  /\ TaskTypeOK
  /\ file \in Files
  /\ made \subseteq Objects
  /\ at \in [Processes -> Places]
  /\ object \in [Processes -> Objects \union {"stream"}]
  /\ good \in [Processes -> BOOLEAN]
  /\ faults \in 0..MaxFaults

(* Without a table list the publication is left to somebody else, without  *)
(* the name of an index there is none to create.                           *)
Required ==
  {o \in Objects : /\ o = "publication" => file.tables
                   /\ o = "index" => file.index}

First == IF file.tables THEN "publication" ELSE "slot"

(* Any object may be there already. *)
StartupInit ==
  /\ TaskInit
  /\ file \in Files
  /\ made \in SUBSET Objects
  /\ at = [p \in Processes |-> "idle"]
  /\ object = [p \in Processes |-> First]
  /\ good = [p \in Processes |-> FALSE]
  /\ faults = 0

(* The engine answers requests of a client with these settings. *)
Reached(config) ==
  /\ ~CAFails(config.ca)
  /\ EngineCert # "none" => Roots(config.ca) = EngineCert \/ config.skipVerify
  /\ AuthHeader(config) \in EngineAccepts

------------------------------------------------------------------------------
(* The object of p exists: the next one, or the client of the next one. *)
Ensured(p) ==
  /\ at' = [at EXCEPT ![p] = CASE object[p] = "publication" -> "check"
                               [] object[p] = "slot"        -> "ping"
                               [] object[p] = "index"       -> "stop"]
  /\ object' = [object EXCEPT ![p] = IF @ = "publication" THEN "slot" ELSE @]
  /\ good' = [good EXCEPT ![p] = object[p] = "index"]

(* A call of prepare fails and Prepare returns the error, after the        *)
(* deferred Close when there is a client.                                  *)
GivesUp(p) ==
  /\ at' = [at EXCEPT ![p] = IF object[p] = "index" THEN "stop" ELSE "failed"]
  /\ good' = [good EXCEPT ![p] = FALSE]
  /\ UNCHANGED <<object, taskVars>>

(* A call of run fails before it streams: the process exits with its task. *)
Exits(p) ==
  /\ at' = [at EXCEPT ![p] = "failed"]
  /\ loop' = [loop EXCEPT ![p] = IF @ = "none" THEN @ ELSE "ended"]
  /\ held' = [held EXCEPT ![p] = FALSE]
  /\ UNCHANGED <<object, good, ctx>>

Fails(p) == IF object[p] = "stream" THEN Exits(p) ELSE GivesUp(p)

(* PostgreSQL lets one connection read from the slot. *)
SlotFree(p) == \A q \in Processes \ {p} : at[q] # "running"

------------------------------------------------------------------------------
(* Mutated forms of the definitions below. *)

(* EnsurePublication and the others without the check for existence. *)
CheckSkipped(p) ==
  /\ at[p] = "check"
  /\ at' = [at EXCEPT ![p] = "create"]
  /\ UNCHANGED <<made, object, good, faults, taskVars>>

(* A failed call is logged, and Prepare goes on. *)
FaultIgnored(p) ==
  /\ at[p] \in {"check", "create"}
  /\ faults < MaxFaults
  /\ faults' = faults + 1
  /\ Ensured(p)
  /\ UNCHANGED <<made, taskVars>>

(* New hands the context of the process to the tasks. *)
ConnectKeepsContext(p) ==
  /\ at[p] = "connect"
  /\ ctx[p] = "live"
  /\ at' = [at EXCEPT ![p] = "stream"]
  /\ UNCHANGED <<made, object, good, faults, taskVars>>

(* A run that checks for the index before it streams. *)
StreamNeedsIndex(p) ==
  /\ at[p] = "stream"
  /\ IF {"slot", "index"} \subseteq made /\ SlotFree(p)
     THEN at' = [at EXCEPT ![p] = "running"] /\ UNCHANGED <<object, good, taskVars>>
     ELSE Exits(p)
  /\ UNCHANGED <<made, faults>>

------------------------------------------------------------------------------
(* A command begins, the first time or again, in a new process: it loads   *)
(* and validates the file.                                                 *)
Begin(p, place, what) ==
  /\ at[p] \in Returned
  /\ at' = [at EXCEPT ![p] = IF Validate(file) THEN place ELSE "failed"]
  /\ object' = [object EXCEPT ![p] = what]
  /\ good' = [good EXCEPT ![p] = FALSE]
  /\ loop' = [loop EXCEPT ![p] = "none"]
  /\ ctx' = [ctx EXCEPT ![p] = "live"]
  /\ UNCHANGED <<made, faults, held>>

BeginPrepare(p) == Begin(p, "check", First)

BeginRun(p) == Begin(p, "ping", "stream")

------------------------------------------------------------------------------
(* prepare *)

(* Statements need a live context.  Requests over HTTP do not: a deadline  *)
(* in the past gives them the default timeout (timeoutFromContext).        *)
CanCall(p) == ctx[p] = "live" \/ object[p] = "index"

(* PublicationExists, ReplicationSlotExists, IndexExists, which asks for   *)
(* "/" when no index is named.                                             *)
Exists(p) == object[p] \in made \/ (object[p] = "index" /\ ~file.index)

Check(p) ==
  /\ at[p] = "check"
  /\ CanCall(p)
  /\ IF Exists(p)
     THEN Ensured(p)
     ELSE at' = [at EXCEPT ![p] = "create"] /\ UNCHANGED <<object, good>>
  /\ UNCHANGED <<made, faults, taskVars>>

(* CREATE PUBLICATION, pg_create_logical_replication_slot, CreateIndex:    *)
(* an error if somebody else was faster.                                   *)
Create(p) ==
  /\ at[p] = "create"
  /\ CanCall(p)
  /\ made' = made \union {object[p]}
  /\ IF object[p] \in made THEN GivesUp(p) ELSE Ensured(p) /\ UNCHANGED taskVars
  /\ UNCHANGED faults

------------------------------------------------------------------------------
(* The client, of either command. *)

(* It is created: its ping succeeds and its health task starts. *)
Ping(p) ==
  /\ at[p] = "ping"
  /\ Reached(ClientConfig(file))
  /\ StartTask(p)
  /\ at' = [at EXCEPT ![p] = IF object[p] = "stream" THEN "connect" ELSE "check"]
  /\ object' = [object EXCEPT ![p] = IF @ = "stream" THEN @ ELSE "index"]
  /\ UNCHANGED <<made, good, faults>>

(* Unreadable certificates, another certificate, status 401. *)
PingFails(p) ==
  /\ at[p] = "ping"
  /\ ~Reached(ClientConfig(file))
  /\ Fails(p)
  /\ UNCHANGED <<made, faults>>

(* Its Close stops the health task: in the end of prepare, or of Shutdown. *)
Close(p) ==
  /\ at[p] = "stop"
  /\ StopCancels(p)
  /\ at' = [at EXCEPT ![p] = "wait"]
  /\ UNCHANGED <<made, object, good, faults>>

Return(p) ==
  /\ at[p] = "wait"
  /\ StopReturns(p)
  /\ at' = [at EXCEPT ![p] = IF good[p] THEN "ok" ELSE "failed"]
  /\ UNCHANGED <<made, object, good, faults>>

HealthTask(p) == TaskStep(p) /\ UNCHANGED commandVars

------------------------------------------------------------------------------
(* run *)

(* initReplication connects and asks for the position, and New returns:    *)
(* the context it gave to the tasks is cancelled.                          *)
Connect(p) ==
  /\ at[p] = "connect"
  /\ ctx[p] = "live"
  /\ at' = [at EXCEPT ![p] = "stream"]
  /\ ctx' = [ctx EXCEPT ![p] = "done"]
  /\ UNCHANGED <<made, object, good, faults, loop, held>>

(* StartReplication needs the slot, and that nobody else streams from it;  *)
(* an error ends the process at once.                                      *)
Stream(p) ==
  /\ at[p] = "stream"
  /\ IF "slot" \in made /\ SlotFree(p)
     THEN at' = [at EXCEPT ![p] = "running"] /\ UNCHANGED <<object, good, taskVars>>
     ELSE Exits(p)
  /\ UNCHANGED <<made, faults>>

(* The connection breaks, or the reader ends with another error and the    *)
(* server gives it up: the slot is free, but the process goes on.          *)
Disconnect(p) ==
  /\ at[p] = "running"
  /\ at' = [at EXCEPT ![p] = "cut"]
  /\ UNCHANGED <<made, object, good, faults, taskVars>>

(* A signal: the final flush, and Close of the replication connection,     *)
(* which may return an error.                                              *)
Signalled(p) ==
  /\ at[p] \in {"running", "cut"}
  /\ at' = [at EXCEPT ![p] = "stop"]
  /\ \E closed \in BOOLEAN : good' = [good EXCEPT ![p] = closed]
  /\ UNCHANGED <<made, object, faults, taskVars>>

------------------------------------------------------------------------------
(* A call fails, for a run also because of a signal; a creation may have   *)
(* been carried out nevertheless.                                          *)
Fault(p) ==
  /\ at[p] \in {"check", "create", "ping", "connect", "stream"}
  /\ faults < MaxFaults
  /\ faults' = faults + 1
  /\ Fails(p)
  /\ \/ UNCHANGED made
     \/ at[p] = "create" /\ made' = made \union {object[p]}

(* prepareTimeout or initTimeout passes, or a signal comes early. *)
Expire(p) ==
  /\ at[p] \notin Returned
  /\ ctx[p] = "live"
  /\ faults < MaxFaults
  /\ faults' = faults + 1
  /\ ctx' = [ctx EXCEPT ![p] = "done"]
  /\ UNCHANGED <<made, at, object, good, loop, held>>

ExpiredCallFails(p) ==
  /\ \/ at[p] \in {"check", "create"} /\ ~CanCall(p)
     \/ at[p] = "connect" /\ ctx[p] = "done"
  /\ Fails(p)
  /\ UNCHANGED <<made, faults>>

(* A step of the command itself. *)
CommandStep(p) ==
  \/ Check(p)
  \/ Create(p)
  \/ Ping(p)
  \/ PingFails(p)
  \/ ExpiredCallFails(p)
  \/ Connect(p)
  \/ Stream(p)
  \/ Close(p)
  \/ Return(p)

StartupNext ==
  /\ \E p \in Processes :
       \/ BeginPrepare(p)
       \/ BeginRun(p)
       \/ CommandStep(p)
       \/ Disconnect(p)
       \/ Signalled(p)
       \/ Fault(p)
       \/ Expire(p)
       \/ HealthTask(p)
  /\ UNCHANGED file

StartupSpec == StartupInit /\ [][StartupNext]_startupVars

(* Calls return, a job returns, a goroutine whose context is done sees it, *)
(* and each process runs prepare and run again and again, in any order.    *)
(* Nothing is assumed about ticks, faults, timeouts and signals.           *)
StartupFairSpec ==
  /\ StartupSpec
  /\ \A p \in Processes :
       /\ SF_startupVars(BeginPrepare(p) /\ UNCHANGED file)
       /\ SF_startupVars(BeginRun(p) /\ UNCHANGED file)
       /\ WF_startupVars(CommandStep(p) /\ UNCHANGED file)
       /\ WF_startupVars((JobReturns(p) \/ SeesDone(p)) /\ UNCHANGED <<file, commandVars>>)

------------------------------------------------------------------------------
(* A prepare that succeeds leaves every object behind that the file asks   *)
(* for, whatever failed, timed out or raced with it in this or earlier     *)
(* calls.                                                                  *)
PreparedIsComplete ==
  \A p \in Processes : at[p] = "ok" /\ object[p] = "index" => Required \subseteq made

(* The health task does not outlive the command that started it: when it   *)
(* has returned, no job uses the client that it closed, and none will.     *)
NoJobBehindCommand ==
  \A p \in Processes : at[p] \in Returned => loop[p] \in {"none", "ended"}

(* A command gets to its end, or to where it waits for a signal, and a run *)
(* that is told to stop does: closing the client does not wait for a task  *)
(* that goes on, or that ended long ago, whether a timeout has passed or   *)
(* not.                                                                    *)
CommandReturns ==
  \A p \in Processes :
    at[p] \notin Returned ~> at[p] \in Returned \union {"running", "cut"}

(* The task that pings the engine every minute ends when New returns,      *)
(* since New cancels its context: a run streams without it.                *)
HealthEndsWithNew ==
  \A p \in Processes : at[p] = "running" ~> loop[p] = "ended"

(* The file is valid, and a client with its settings reaches the engine. *)
FileWorks == Validate(file) /\ Reached(file)

(* The comment at prepare.go:19: every step is idempotent, so the command  *)
(* can be run multiple times safely.  Whatever earlier and concurrent      *)
(* commands left half done, calling it again succeeds in the end, with     *)
(* every file that the README allows and the engine accepts.               *)
RerunSucceeds ==
  FileWorks => \A p \in Processes :
                 \/ []<>(at[p] = "ok" /\ object[p] = "index")
                 \/ <>[](at[p] \in {"running", "cut"})

(* And of runs that are started again and again, some run gets to stream   *)
(* again and again, or every run has lost its connection and waits for a   *)
(* signal: whatever prepares, failures and early ends of other runs came   *)
(* before, none keeps the slot from the others for ever, but by reading.   *)
RunStreams ==
  FileWorks => \/ \E p \in Processes : []<>(at[p] = "running")
               \/ \A p \in Processes : <>[](at[p] = "cut")
==============================================================================

--------------------------- MODULE StartupProofs ---------------------------
(***************************************************************************)
(* Proofs about module Startup: what a prepare that succeeds leaves        *)
(* behind, and that no health job outlives its command, for any number of  *)
(* processes and faults and every configuration file.                      *)
(***************************************************************************)
EXTENDS Startup, TLAPS

(* Where a command may be with which object. *)
PlaceFits(p) ==
  /\ at[p] \in {"check", "create"} => object[p] # "stream"
  /\ at[p] = "ping" => object[p] \in {"slot", "stream"}
  /\ at[p] \in {"connect", "stream", "running", "cut"} => object[p] = "stream"
  /\ at[p] \in {"stop", "wait"} => object[p] \in {"index", "stream"}
  /\ at[p] = "ok" => good[p]
  /\ at[p] \in {"check", "create", "ping"} => ~good[p]

(* A process gets to an object, to the client or to its end with success   *)
(* only behind the objects that come before, and nobody drops an object.   *)
PassedExist(p) ==
  /\ object[p] \in {"slot", "index"} /\ file.tables => "publication" \in made
  /\ object[p] = "index" => "slot" \in made
  /\ object[p] = "slot" /\ at[p] = "ping" => "slot" \in made
  /\ object[p] = "index" /\ good[p] /\ file.index => "index" \in made

(* A task is there from the ping on only, and runs in no command that has  *)
(* returned.                                                               *)
TaskFits(p) ==
  /\ at[p] \in {"check", "create"} /\ object[p] # "index" => loop[p] = "none"
  /\ at[p] = "ping" => loop[p] = "none"
  /\ at[p] \in Returned => loop[p] \in {"none", "ended"}

CommandFits(p) == PlaceFits(p) /\ PassedExist(p) /\ TaskFits(p)

(* The inductive invariant. *)
StartupInv ==
  /\ StartupTypeOK
  /\ \A p \in Processes : CommandFits(p)

USE DEF Processes

(* What a step of one command leaves alone. *)
OnlyStepOf(p) ==
  /\ made \subseteq made'
  /\ \A q \in Processes \ {p} :
       at'[q] = at[q] /\ object'[q] = object[q] /\ good'[q] = good[q] /\ loop'[q] = loop[q]

(* A step of one command that keeps the types preserves the invariant when *)
(* it does for this command: the facts about the others are not disturbed. *)
LEMMA StepOfOne ==
  ASSUME StartupInv, NEW p \in Processes, UNCHANGED file, OnlyStepOf(p),
         StartupTypeOK', CommandFits(p)'
  PROVE  StartupInv'
<1>1. ASSUME NEW q \in Processes, q # p PROVE CommandFits(q)'
  <2>1. at'[q] = at[q] /\ object'[q] = object[q] /\ good'[q] = good[q] /\ loop'[q] = loop[q]
    BY <1>1 DEF OnlyStepOf
  <2>2. made \subseteq made' /\ file' = file
    BY DEF OnlyStepOf
  <2>3. CommandFits(q)
    BY DEF StartupInv
  <2>4. PlaceFits(q)'
    BY <2>1, <2>3 DEF CommandFits, PlaceFits
  <2>5. PassedExist(q)'
    BY <2>1, <2>2, <2>3 DEF CommandFits, PassedExist
  <2>6. TaskFits(q)'
    BY <2>1, <2>3 DEF CommandFits, TaskFits
  <2>. QED
    BY <2>4, <2>5, <2>6 DEF CommandFits
<1>. QED
  BY <1>1 DEF StartupInv

(* The parts of the type invariant, to be used and shown one by one. *)
LEMMA TypeParts ==
  StartupTypeOK <=>
    /\ loop \in [Processes -> {"none", "select", "job", "ended"}]
    /\ ctx \in [Processes -> {"live", "done"}]
    /\ held \in [Processes -> BOOLEAN]
    /\ file \in Files
    /\ made \subseteq Objects
    /\ at \in [Processes -> Places]
    /\ object \in [Processes -> Objects \union {"stream"}]
    /\ good \in [Processes -> BOOLEAN]
    /\ faults \in 0..MaxFaults
BY DEF StartupTypeOK, TaskTypeOK

(* Before the first command nothing is claimed of any process. *)
LEMMA StartupInitInv == ASSUME StartupInit PROVE StartupInv
<1>1. StartupTypeOK
  <2>1. at \in [Processes -> Places]
    BY DEF StartupInit, Places, Returned
  <2>2. object \in [Processes -> Objects \union {"stream"}]
    BY DEF StartupInit, First, Objects
  <2>3. faults \in 0..MaxFaults
    BY StartupAssumption DEF StartupInit
  <2>4. made \subseteq Objects /\ file \in Files /\ good \in [Processes -> BOOLEAN]
    BY DEF StartupInit
  <2>5. TaskTypeOK
    BY DEF StartupInit, TaskInit, TaskTypeOK
  <2>. QED
    BY <2>1, <2>2, <2>3, <2>4, <2>5 DEF StartupTypeOK
<1>2. ASSUME NEW p \in Processes PROVE CommandFits(p)
  <2>1. at[p] = "idle" /\ object[p] = First /\ good[p] = FALSE /\ loop[p] = "none"
    BY DEF StartupInit, TaskInit
  <2>. QED
    BY <2>1 DEF First, CommandFits, PlaceFits, PassedExist, TaskFits, Returned
<1>. QED
  BY <1>1, <1>2 DEF StartupInv

(* A command begins: it holds nothing yet. *)
LEMMA BeginInv ==
  ASSUME StartupInv, NEW p \in Processes, UNCHANGED file,
         NEW place \in {"check", "ping"}, NEW what,
         Begin(p, place, what), place = "check" => what = First, place = "ping" => what = "stream"
  PROVE  StartupInv'
<1>1. StartupTypeOK
  BY DEF StartupInv
<1>2. what \in Objects \union {"stream"}
  BY DEF First, Objects
<1>3. StartupTypeOK'
  <2>1. at' \in [Processes -> Places]
    BY <1>1, TypeParts DEF Begin, Places, Returned
  <2>2. object' \in [Processes -> Objects \union {"stream"}]
    BY <1>1, <1>2, TypeParts DEF Begin
  <2>3. good' \in [Processes -> BOOLEAN]
    BY <1>1, TypeParts DEF Begin
  <2>4. loop' \in [Processes -> {"none", "select", "job", "ended"}]
    BY <1>1, TypeParts DEF Begin
  <2>5. ctx' \in [Processes -> {"live", "done"}]
    BY <1>1, TypeParts DEF Begin
  <2>6. made' = made /\ faults' = faults /\ held' = held
    BY DEF Begin
  <2>. QED
    BY <1>1, <2>1, <2>2, <2>3, <2>4, <2>5, <2>6, TypeParts DEF StartupTypeOK, TaskTypeOK
<1>4. /\ at'[p] \in {place, "failed"} /\ object'[p] = what
      /\ good'[p] = FALSE /\ loop'[p] = "none"
  BY <1>1, TypeParts DEF Begin
<1>5. CommandFits(p)'
  BY <1>4 DEF First, CommandFits, PlaceFits, PassedExist, TaskFits, Returned
<1>6. OnlyStepOf(p)
  BY <1>1, TypeParts DEF Begin, OnlyStepOf
<1>. QED
  BY <1>3, <1>5, <1>6, StepOfOne

(* An object that exists, and what was ensured before it: the process goes *)
(* on to the next one, to the client or to Close.                          *)
LEMMA EnsuredInv ==
  ASSUME StartupInv, NEW p \in Processes, UNCHANGED <<file, taskVars>>,
         at[p] \in {"check", "create"}, Ensured(p),
         made \subseteq made', made' \subseteq Objects, faults' = faults,
         object[p] \in made' \/ (object[p] = "index" /\ ~file.index)
  PROVE  StartupInv'
<1>1. StartupTypeOK /\ CommandFits(p)
  BY DEF StartupInv
<1>2. object[p] \in Objects
  BY <1>1, TypeParts DEF CommandFits, PlaceFits
<1>3. StartupTypeOK'
  <2>1. at' \in [Processes -> Places]
    BY <1>1, <1>2, TypeParts DEF Ensured, Places, Returned, Objects
  <2>2. object' \in [Processes -> Objects \union {"stream"}]
    BY <1>1, TypeParts DEF Ensured, Objects
  <2>3. good' \in [Processes -> BOOLEAN]
    BY <1>1, TypeParts DEF Ensured
  <2>4. loop' = loop /\ ctx' = ctx /\ held' = held
    BY DEF taskVars
  <2>. QED
    BY <1>1, <2>1, <2>2, <2>3, <2>4, TypeParts DEF StartupTypeOK, TaskTypeOK
<1>4. loop'[p] = loop[p] /\ file' = file
  BY DEF taskVars
<1>5. CommandFits(p)'
  <2>1. CASE object[p] = "publication"
    <3>1. at'[p] = "check" /\ object'[p] = "slot" /\ good'[p] = FALSE
      BY <1>1, <2>1, TypeParts DEF Ensured
    <3>. QED
      BY <1>1, <1>4, <2>1, <3>1 DEF CommandFits, PlaceFits, PassedExist, TaskFits, Returned
  <2>2. CASE object[p] = "slot"
    <3>1. at'[p] = "ping" /\ object'[p] = "slot" /\ good'[p] = FALSE
      BY <1>1, <2>2, TypeParts DEF Ensured
    <3>. QED
      BY <1>1, <1>4, <2>2, <3>1 DEF CommandFits, PlaceFits, PassedExist, TaskFits, Returned
  <2>3. CASE object[p] = "index"
    <3>1. at'[p] = "stop" /\ object'[p] = "index" /\ good'[p] = TRUE
      BY <1>1, <2>3, TypeParts DEF Ensured
    <3>. QED
      BY <1>1, <1>4, <2>3, <3>1 DEF CommandFits, PlaceFits, PassedExist, TaskFits, Returned
  <2>. QED
    BY <1>2, <2>1, <2>2, <2>3 DEF Objects
<1>6. OnlyStepOf(p)
  BY <1>1, TypeParts DEF Ensured, OnlyStepOf, taskVars
<1>. QED
  BY <1>3, <1>5, <1>6, StepOfOne

(* A step to another place that touches nothing else: enough is that the   *)
(* place fits.                                                             *)
LEMMA MoveInv ==
  ASSUME StartupInv, NEW p \in Processes, UNCHANGED <<file, object, good, taskVars>>,
         NEW place \in Places, at' = [at EXCEPT ![p] = place],
         made \subseteq made', made' \subseteq Objects, faults' \in 0..MaxFaults,
         PlaceFits(p)', TaskFits(p)', place = "ping" => at[p] = "ping"
  PROVE  StartupInv'
<1>1. StartupTypeOK /\ CommandFits(p)
  BY DEF StartupInv
<1>2. at' \in [Processes -> Places]
  BY <1>1, TypeParts
<1>3. loop' = loop /\ ctx' = ctx /\ held' = held
  BY DEF taskVars
<1>4. StartupTypeOK'
  BY <1>1, <1>2, <1>3, TypeParts DEF StartupTypeOK, TaskTypeOK
<1>5. at'[p] = place
  BY <1>1, TypeParts
<1>6. PassedExist(p)'
  BY <1>1, <1>5 DEF CommandFits, PassedExist
<1>7. OnlyStepOf(p)
  BY <1>1, <1>3, TypeParts DEF OnlyStepOf
<1>. QED
  BY <1>4, <1>6, <1>7, StepOfOne DEF CommandFits

(* A check goes on to the next object, or to the creation of this one. *)
LEMMA CheckInv ==
  ASSUME StartupInv, NEW p \in Processes, UNCHANGED file, Check(p)
  PROVE  StartupInv'
<1>1. StartupTypeOK /\ CommandFits(p)
  BY DEF StartupInv
<1>2. UNCHANGED <<made, faults, taskVars>> /\ at[p] = "check"
  BY DEF Check
<1>3. made' \subseteq Objects /\ faults' \in 0..MaxFaults
  BY <1>1, <1>2, TypeParts
<1>4. CASE Exists(p)
  <2>1. Ensured(p) /\ (object[p] \in made' \/ (object[p] = "index" /\ ~file.index))
    BY <1>2, <1>4 DEF Check, Exists
  <2>. QED
    BY <1>2, <1>3, <2>1, EnsuredInv
<1>5. CASE ~Exists(p)
  <2>1. at' = [at EXCEPT ![p] = "create"] /\ UNCHANGED <<object, good>>
    BY <1>5 DEF Check
  <2>2. at'[p] = "create" /\ object'[p] = object[p] /\ loop'[p] = loop[p]
    BY <1>1, <1>2, <2>1, TypeParts DEF taskVars
  <2>3. PlaceFits(p)' /\ TaskFits(p)'
    BY <1>1, <1>2, <2>1, <2>2 DEF CommandFits, PlaceFits, TaskFits, Returned
  <2>. QED
    BY <1>2, <1>3, <2>1, <2>3, MoveInv DEF Places
<1>. QED
  BY <1>4, <1>5

(* The end of a prepare that gives up, with Close or at once. *)
LEMMA GivesUpInv ==
  ASSUME StartupInv, NEW p \in Processes, UNCHANGED file, GivesUp(p),
         at[p] \in {"check", "create", "ping"}, object[p] # "stream",
         made \subseteq made', made' \subseteq Objects, faults' \in 0..MaxFaults
  PROVE  StartupInv'
<1>1. StartupTypeOK /\ CommandFits(p)
  BY DEF StartupInv
<1>2. UNCHANGED <<object, loop, ctx, held>>
  BY DEF GivesUp, taskVars
<1>3. StartupTypeOK'
  <2>1. at' \in [Processes -> Places]
    BY <1>1, TypeParts DEF GivesUp, Places, Returned
  <2>2. good' \in [Processes -> BOOLEAN]
    BY <1>1, TypeParts DEF GivesUp
  <2>. QED
    BY <1>1, <1>2, <2>1, <2>2, TypeParts DEF StartupTypeOK, TaskTypeOK
<1>4. /\ at'[p] = IF object[p] = "index" THEN "stop" ELSE "failed"
      /\ good'[p] = FALSE
  BY <1>1, TypeParts DEF GivesUp
<1>5. PlaceFits(p)'
  BY <1>1, <1>2, <1>4 DEF CommandFits, PlaceFits
<1>6. PassedExist(p)'
  BY <1>1, <1>2, <1>4 DEF CommandFits, PassedExist
<1>7. TaskFits(p)'
  BY <1>1, <1>2, <1>4 DEF CommandFits, TaskFits, Returned
<1>8. OnlyStepOf(p)
  BY <1>1, <1>2, TypeParts DEF GivesUp, OnlyStepOf
<1>. QED
  BY <1>3, <1>5, <1>6, <1>7, <1>8, StepOfOne DEF CommandFits

(* The end of the process of a run: its task ends with it. *)
LEMMA ExitsInv ==
  ASSUME StartupInv, NEW p \in Processes, UNCHANGED file, Exits(p),
         made \subseteq made', made' \subseteq Objects, faults' \in 0..MaxFaults
  PROVE  StartupInv'
<1>1. StartupTypeOK /\ CommandFits(p)
  BY DEF StartupInv
<1>2. UNCHANGED <<object, good, ctx>>
  BY DEF Exits
<1>3. StartupTypeOK'
  <2>1. at' \in [Processes -> Places]
    BY <1>1, TypeParts DEF Exits, Places, Returned
  <2>2. loop' \in [Processes -> {"none", "select", "job", "ended"}]
    BY <1>1, TypeParts DEF Exits
  <2>3. held' \in [Processes -> BOOLEAN]
    BY <1>1, TypeParts DEF Exits
  <2>. QED
    BY <1>1, <1>2, <2>1, <2>2, <2>3, TypeParts DEF StartupTypeOK, TaskTypeOK
<1>4. at'[p] = "failed" /\ loop'[p] \in {"none", "ended"}
  BY <1>1, TypeParts DEF Exits
<1>5. PlaceFits(p)' /\ PassedExist(p)'
  BY <1>1, <1>2, <1>4 DEF CommandFits, PlaceFits, PassedExist
<1>6. TaskFits(p)'
  BY <1>4 DEF TaskFits, Returned
<1>7. OnlyStepOf(p)
  BY <1>1, <1>2, TypeParts DEF Exits, OnlyStepOf
<1>. QED
  BY <1>3, <1>5, <1>6, <1>7, StepOfOne DEF CommandFits

(* A creation makes the object exist, whoever was faster. *)
LEMMA CreateInv ==
  ASSUME StartupInv, NEW p \in Processes, UNCHANGED file, Create(p)
  PROVE  StartupInv'
<1>1. StartupTypeOK /\ CommandFits(p)
  BY DEF StartupInv
<1>2. at[p] = "create" /\ made' = made \union {object[p]} /\ faults' = faults
  BY DEF Create
<1>3. object[p] \in Objects
  BY <1>1, <1>2, TypeParts DEF CommandFits, PlaceFits
<1>4. /\ made \subseteq made'
      /\ made' \subseteq Objects
      /\ object[p] \in made'
      /\ faults' \in 0..MaxFaults
      /\ object[p] # "stream"
  BY <1>1, <1>2, <1>3, TypeParts DEF Objects
<1>5. CASE object[p] \in made
  BY <1>2, <1>4, <1>5, GivesUpInv DEF Create
<1>6. CASE object[p] \notin made
  BY <1>2, <1>4, <1>6, EnsuredInv DEF Create
<1>. QED
  BY <1>5, <1>6

(* The client is created behind the slot, with its task. *)
LEMMA PingInv ==
  ASSUME StartupInv, NEW p \in Processes, UNCHANGED file, Ping(p)
  PROVE  StartupInv'
<1>1. StartupTypeOK /\ CommandFits(p)
  BY DEF StartupInv
<1>2. at[p] = "ping" /\ UNCHANGED <<made, good, faults>> /\ StartTask(p)
  BY DEF Ping
<1>3. object[p] \in {"slot", "stream"}
  BY <1>1, <1>2 DEF CommandFits, PlaceFits
<1>4. StartupTypeOK'
  <2>1. at' \in [Processes -> Places]
    BY <1>1, TypeParts DEF Ping, Places
  <2>2. object' \in [Processes -> Objects \union {"stream"}]
    BY <1>1, TypeParts DEF Ping, Objects
  <2>3. loop' \in [Processes -> {"none", "select", "job", "ended"}]
    BY <1>1, <1>2, TypeParts DEF StartTask, taskVars
  <2>4. held' \in [Processes -> BOOLEAN]
    BY <1>1, <1>2, TypeParts DEF StartTask, taskVars
  <2>5. ctx' = ctx
    BY <1>2 DEF StartTask, taskVars
  <2>. QED
    BY <1>1, <1>2, <2>1, <2>2, <2>3, <2>4, <2>5, TypeParts DEF StartupTypeOK, TaskTypeOK
<1>5. /\ at'[p] = IF object[p] = "stream" THEN "connect" ELSE "check"
      /\ object'[p] = IF object[p] = "stream" THEN "stream" ELSE "index"
  BY <1>1, TypeParts DEF Ping
<1>6. PlaceFits(p)' /\ TaskFits(p)'
  BY <1>1, <1>2, <1>3, <1>5 DEF CommandFits, PlaceFits, TaskFits, Returned
<1>7. PassedExist(p)'
  BY <1>1, <1>2, <1>3, <1>5 DEF Ping, CommandFits, PlaceFits, PassedExist
<1>8. OnlyStepOf(p)
  BY <1>1, <1>2, TypeParts DEF Ping, StartTask, taskVars, OnlyStepOf
<1>. QED
  BY <1>4, <1>6, <1>7, <1>8, StepOfOne DEF CommandFits

(* A call that fails, whether the command is a prepare or a run. *)
LEMMA FailsInv ==
  ASSUME StartupInv, NEW p \in Processes, UNCHANGED file, Fails(p),
         at[p] \in {"check", "create", "ping", "connect", "stream"},
         made \subseteq made', made' \subseteq Objects, faults' \in 0..MaxFaults
  PROVE  StartupInv'
<1>1. StartupTypeOK /\ CommandFits(p)
  BY DEF StartupInv
<1>2. CASE object[p] = "stream"
  BY <1>2, ExitsInv DEF Fails
<1>3. CASE object[p] # "stream"
  <2>1. at[p] \in {"check", "create", "ping"}
    BY <1>1, <1>3 DEF CommandFits, PlaceFits
  <2>. QED
    BY <1>3, <2>1, GivesUpInv DEF Fails
<1>. QED
  BY <1>2, <1>3

(* Failures, timeouts and the refusals of the engine are such calls. *)
LEMMA FailuresInv ==
  ASSUME StartupInv, NEW p \in Processes, UNCHANGED file,
         Fault(p) \/ PingFails(p) \/ ExpiredCallFails(p)
  PROVE  StartupInv'
<1>1. StartupTypeOK /\ CommandFits(p)
  BY DEF StartupInv
<1>2. CASE Fault(p)
  <2>1. at[p] \in {"check", "create", "ping", "connect", "stream"} /\ Fails(p)
    BY <1>2 DEF Fault
  <2>2. faults' \in 0..MaxFaults
    BY <1>1, <1>2, StartupAssumption, TypeParts DEF Fault
  <2>3. CASE made' = made
    BY <1>1, <2>1, <2>2, <2>3, FailsInv, TypeParts
  <2>4. CASE at[p] = "create" /\ made' = made \union {object[p]}
    <3>1. object[p] \in Objects
      BY <1>1, <2>4, TypeParts DEF CommandFits, PlaceFits
    <3>2. made \subseteq made' /\ made' \subseteq Objects
      BY <1>1, <2>4, <3>1, TypeParts
    <3>. QED
      BY <2>1, <2>2, <3>2, FailsInv
  <2>. QED
    BY <1>2, <2>3, <2>4 DEF Fault
<1>3. CASE PingFails(p) \/ ExpiredCallFails(p)
  <2>1. /\ at[p] \in {"check", "create", "ping", "connect", "stream"} /\ Fails(p)
        /\ UNCHANGED <<made, faults>>
    BY <1>3 DEF PingFails, ExpiredCallFails
  <2>2. made' \subseteq Objects /\ faults' \in 0..MaxFaults /\ made \subseteq made'
    BY <1>1, <2>1, TypeParts
  <2>. QED
    BY <2>1, <2>2, FailsInv
<1>. QED
  BY <1>2, <1>3

(* The timeout touches the context only. *)
LEMMA ExpireInv ==
  ASSUME StartupInv, NEW p \in Processes, UNCHANGED file, Expire(p)
  PROVE  StartupInv'
<1>1. StartupTypeOK /\ CommandFits(p)
  BY DEF StartupInv
<1>2. UNCHANGED <<made, at, object, good, loop, held>>
  BY DEF Expire
<1>3. faults' \in 0..MaxFaults
  BY <1>1, StartupAssumption, TypeParts DEF Expire
<1>4. ctx' \in [Processes -> {"live", "done"}]
  BY <1>1, TypeParts DEF Expire
<1>5. StartupTypeOK'
  BY <1>1, <1>2, <1>3, <1>4, TypeParts DEF StartupTypeOK, TaskTypeOK
<1>6. CommandFits(p)'
  BY <1>1, <1>2 DEF CommandFits, PlaceFits, PassedExist, TaskFits
<1>7. OnlyStepOf(p)
  BY <1>2 DEF OnlyStepOf
<1>. QED
  BY <1>5, <1>6, <1>7, StepOfOne

(* New connects and returns, which cancels the context. *)
LEMMA ConnectInv ==
  ASSUME StartupInv, NEW p \in Processes, UNCHANGED file, Connect(p)
  PROVE  StartupInv'
<1>1. StartupTypeOK /\ CommandFits(p)
  BY DEF StartupInv
<1>2. UNCHANGED <<made, object, good, faults, loop, held>> /\ at[p] = "connect"
  BY DEF Connect
<1>3. at' \in [Processes -> Places]
  BY <1>1, TypeParts DEF Connect, Places
<1>4. ctx' \in [Processes -> {"live", "done"}]
  BY <1>1, TypeParts DEF Connect
<1>5. StartupTypeOK'
  BY <1>1, <1>2, <1>3, <1>4, TypeParts DEF StartupTypeOK, TaskTypeOK
<1>6. at'[p] = "stream"
  BY <1>1, TypeParts DEF Connect
<1>7. CommandFits(p)'
  BY <1>1, <1>2, <1>6 DEF CommandFits, PlaceFits, PassedExist, TaskFits, Returned
<1>8. OnlyStepOf(p)
  BY <1>1, <1>2, TypeParts DEF Connect, OnlyStepOf
<1>. QED
  BY <1>5, <1>7, <1>8, StepOfOne

(* The stream starts where the slot is free, else the process ends. *)
LEMMA StreamInv ==
  ASSUME StartupInv, NEW p \in Processes, UNCHANGED file, Stream(p)
  PROVE  StartupInv'
<1>1. StartupTypeOK /\ CommandFits(p)
  BY DEF StartupInv
<1>2. UNCHANGED <<made, faults>> /\ at[p] = "stream"
  BY DEF Stream
<1>3. made' \subseteq Objects /\ made \subseteq made' /\ faults' \in 0..MaxFaults
  BY <1>1, <1>2, TypeParts
<1>4. CASE "slot" \in made /\ SlotFree(p)
  <2>1. at' = [at EXCEPT ![p] = "running"] /\ UNCHANGED <<object, good, taskVars>>
    BY <1>4 DEF Stream
  <2>2. at'[p] = "running" /\ object'[p] = object[p] /\ loop'[p] = loop[p]
    BY <1>1, <2>1, TypeParts DEF taskVars
  <2>3. PlaceFits(p)' /\ TaskFits(p)'
    BY <1>1, <1>2, <2>1, <2>2 DEF CommandFits, PlaceFits, TaskFits, Returned
  <2>. QED
    BY <1>3, <2>1, <2>3, MoveInv DEF Places
<1>5. CASE ~("slot" \in made /\ SlotFree(p))
  BY <1>3, <1>5, ExitsInv DEF Stream
<1>. QED
  BY <1>4, <1>5

(* A run without its connection has its object, and no other place. *)
LEMMA DisconnectInv ==
  ASSUME StartupInv, NEW p \in Processes, UNCHANGED file, Disconnect(p)
  PROVE  StartupInv'
<1>1. StartupTypeOK /\ CommandFits(p)
  BY DEF StartupInv
<1>2. /\ at' = [at EXCEPT ![p] = "cut"] /\ at[p] = "running"
      /\ UNCHANGED <<made, object, good, faults, taskVars>>
  BY DEF Disconnect
<1>3. made' \subseteq Objects /\ made \subseteq made' /\ faults' \in 0..MaxFaults
  BY <1>1, <1>2, TypeParts
<1>4. at'[p] = "cut" /\ object'[p] = object[p] /\ loop'[p] = loop[p]
  BY <1>1, <1>2, TypeParts DEF taskVars
<1>5. PlaceFits(p)' /\ TaskFits(p)'
  BY <1>1, <1>2, <1>4 DEF CommandFits, PlaceFits, TaskFits, Returned
<1>. QED
  BY <1>2, <1>3, <1>5, MoveInv DEF Places

(* A signal: the client is going to be closed. *)
LEMMA SignalledInv ==
  ASSUME StartupInv, NEW p \in Processes, UNCHANGED file, Signalled(p)
  PROVE  StartupInv'
<1>1. StartupTypeOK /\ CommandFits(p)
  BY DEF StartupInv
<1>2. UNCHANGED <<made, object, faults, loop, ctx, held>> /\ at[p] \in {"running", "cut"}
  BY DEF Signalled, taskVars
<1>3. at' \in [Processes -> Places]
  BY <1>1, TypeParts DEF Signalled, Places
<1>4. good' \in [Processes -> BOOLEAN]
  BY <1>1, TypeParts DEF Signalled
<1>5. StartupTypeOK'
  BY <1>1, <1>2, <1>3, <1>4, TypeParts DEF StartupTypeOK, TaskTypeOK
<1>6. at'[p] = "stop" /\ object[p] = "stream"
  BY <1>1, <1>2, TypeParts DEF Signalled, CommandFits, PlaceFits
<1>7. CommandFits(p)'
  BY <1>2, <1>6 DEF CommandFits, PlaceFits, PassedExist, TaskFits, Returned
<1>8. OnlyStepOf(p)
  BY <1>1, <1>2, TypeParts DEF Signalled, OnlyStepOf
<1>. QED
  BY <1>5, <1>7, <1>8, StepOfOne

(* Close cancels the task and waits for it; then the command returns. *)
LEMMA CloseInv ==
  ASSUME StartupInv, NEW p \in Processes, UNCHANGED file, Close(p) \/ Return(p)
  PROVE  StartupInv'
<1>1. StartupTypeOK /\ CommandFits(p)
  BY DEF StartupInv
<1>2. UNCHANGED <<made, object, good, faults, loop>>
  BY DEF Close, Return, StopCancels, StopReturns
<1>3. at' \in [Processes -> Places]
  BY <1>1, TypeParts DEF Close, Return, Places, Returned
<1>4. ctx' \in [Processes -> {"live", "done"}]
  BY <1>1, TypeParts DEF Close, Return, StopCancels, StopReturns
<1>5. held' \in [Processes -> BOOLEAN]
  BY <1>1, TypeParts DEF Close, Return, StopCancels, StopReturns
<1>6. StartupTypeOK'
  BY <1>1, <1>2, <1>3, <1>4, <1>5, TypeParts DEF StartupTypeOK, TaskTypeOK
<1>7. CommandFits(p)'
  <2>1. CASE Close(p)
    <3>1. at[p] = "stop" /\ at'[p] = "wait"
      BY <1>1, <2>1, TypeParts DEF Close
    <3>. QED
      BY <1>1, <1>2, <3>1 DEF CommandFits, PlaceFits, PassedExist, TaskFits, Returned
  <2>2. CASE Return(p)
    <3>1. at[p] = "wait" /\ loop[p] = "ended" /\ at'[p] = IF good[p] THEN "ok" ELSE "failed"
      BY <1>1, <2>2, TypeParts DEF Return, StopReturns
    <3>. QED
      BY <1>1, <1>2, <3>1 DEF CommandFits, PlaceFits, PassedExist, TaskFits
  <2>. QED
    BY <2>1, <2>2
<1>8. OnlyStepOf(p)
  BY <1>1, <1>2, TypeParts DEF Close, Return, OnlyStepOf
<1>. QED
  BY <1>6, <1>7, <1>8, StepOfOne

(* The goroutine moves only while there is a client. *)
LEMMA HealthInv ==
  ASSUME StartupInv, NEW p \in Processes, UNCHANGED file, HealthTask(p)
  PROVE  StartupInv'
<1>1. StartupTypeOK /\ CommandFits(p)
  BY DEF StartupInv
<1>2. UNCHANGED <<made, at, object, good, faults, ctx, held>>
  BY DEF HealthTask, commandVars, TaskStep, Tick, JobReturns, SeesDone
<1>3. loop[p] \in {"select", "job"}
  BY DEF HealthTask, TaskStep, Tick, JobReturns, SeesDone
<1>4. loop' \in [Processes -> {"none", "select", "job", "ended"}]
  BY <1>1, TypeParts DEF HealthTask, TaskStep, Tick, JobReturns, SeesDone
<1>5. StartupTypeOK'
  BY <1>1, <1>2, <1>4, TypeParts DEF StartupTypeOK, TaskTypeOK
<1>6. CommandFits(p)'
  BY <1>1, <1>2, <1>3 DEF CommandFits, PlaceFits, PassedExist, TaskFits
<1>7. OnlyStepOf(p)
  BY <1>1, <1>2, TypeParts DEF HealthTask, TaskStep, Tick, JobReturns, SeesDone, OnlyStepOf
<1>. QED
  BY <1>5, <1>6, <1>7, StepOfOne

(* Every step preserves the invariant. *)
LEMMA StartupNextInv == StartupInv /\ [StartupNext]_startupVars => StartupInv'
<1>. SUFFICES ASSUME StartupInv, [StartupNext]_startupVars
              PROVE  StartupInv'
  OBVIOUS
<1>1. CASE UNCHANGED startupVars
  <2>1. UNCHANGED <<file, made, at, object, good, faults, loop, ctx, held>>
    BY <1>1 DEF startupVars, commandVars, taskVars
  <2>2. StartupTypeOK'
    BY <2>1, TypeParts DEF StartupInv, StartupTypeOK, TaskTypeOK
  <2>3. \A p \in Processes : CommandFits(p)'
    BY <2>1 DEF StartupInv, CommandFits, PlaceFits, PassedExist, TaskFits
  <2>. QED
    BY <2>2, <2>3 DEF StartupInv
<1>2. CASE StartupNext
  <2>. UNCHANGED file
    BY <1>2 DEF StartupNext
  <2>1. PICK p \in Processes :
          \/ BeginPrepare(p) \/ BeginRun(p) \/ Check(p) \/ Create(p) \/ Ping(p)
          \/ Connect(p) \/ Stream(p) \/ Disconnect(p) \/ Signalled(p)
          \/ (Close(p) \/ Return(p))
          \/ (Fault(p) \/ PingFails(p) \/ ExpiredCallFails(p))
          \/ Expire(p) \/ HealthTask(p)
    BY <1>2 DEF StartupNext, CommandStep
  <2>2. CASE BeginPrepare(p)
    BY <2>2, BeginInv DEF BeginPrepare
  <2>3. CASE BeginRun(p)
    BY <2>3, BeginInv DEF BeginRun
  <2>. QED
    BY <2>1, <2>2, <2>3, CheckInv, CreateInv, PingInv, ConnectInv, StreamInv, DisconnectInv,
       SignalledInv,
       CloseInv, FailuresInv, ExpireInv, HealthInv
<1>. QED
  BY <1>1, <1>2

(* The invariant holds in every reachable state. *)
THEOREM StartupInvariant == StartupSpec => []StartupInv
<1>1. StartupInit => StartupInv
  BY StartupInitInv
<1>. QED
  BY <1>1, StartupNextInv, PTL DEF StartupSpec

(* The variables of the commands and of their tasks keep their types. *)
THEOREM StartupTypeCorrect == StartupSpec => []StartupTypeOK
<1>1. StartupInv => StartupTypeOK
  BY DEF StartupInv
<1>. QED
  BY <1>1, StartupInvariant, PTL

(* A prepare that returns success has left every object behind, however    *)
(* many processes race, whatever fails and however often it is called.     *)
THEOREM PreparedComplete == StartupSpec => []PreparedIsComplete
<1>1. ASSUME StartupInv, NEW p \in Processes, at[p] = "ok", object[p] = "index"
      PROVE  Required \subseteq made
  <2>1. PlaceFits(p) /\ PassedExist(p)
    BY <1>1 DEF StartupInv, CommandFits
  <2>2. "slot" \in made
    BY <1>1, <2>1 DEF PassedExist
  <2>3. file.tables => "publication" \in made
    BY <1>1, <2>1 DEF PassedExist
  <2>4. file.index => "index" \in made
    BY <1>1, <2>1 DEF PlaceFits, PassedExist
  <2>. QED
    BY <2>2, <2>3, <2>4 DEF Required, Objects
<1>2. StartupInv => PreparedIsComplete
  BY <1>1 DEF PreparedIsComplete
<1>. QED
  BY <1>2, StartupInvariant, PTL

(* No health job runs or can start once the command that started its task  *)
(* has returned, with success or an error, of its own or by a signal.      *)
THEOREM NoJobOutlives == StartupSpec => []NoJobBehindCommand
<1>1. StartupInv => NoJobBehindCommand
  BY DEF StartupInv, CommandFits, TaskFits, NoJobBehindCommand
<1>. QED
  BY <1>1, StartupInvariant, PTL
==============================================================================

----------------------------- MODULE Lifecycle -----------------------------
(***************************************************************************)
(* The life of a model: Manager.Start, Stop and Restart, and the           *)
(* goroutines that run the start and stop scripts                          *)
(* (internal/models/manager.go, internal/models/model.go).                 *)
(*                                                                         *)
(* Manager holds no lock across these operations.  What is atomic is one   *)
(* getter or setter of Model (each takes model.mu) and one method of       *)
(* PortAllocator, so a step of this module is one of those, together with  *)
(* the local code up to the next.  A caller's label names the call it is   *)
(* about to make.  SetHealthy, which no code of the manager reads back,    *)
(* SetPort, and the go statement are taken together with their neighbour.  *)
(*                                                                         *)
(* Scripts is a pool of goroutines, a bound on how many exist at a time.   *)
(* A slot that has come to notifyReady or notifyError is the goroutine     *)
(* `go cb(modelName)' of notifyModelReady or notifyModelError.             *)
(***************************************************************************)
EXTENDS PortAllocator

CONSTANTS
  Operators,       \* clients of POST /api/models/:name/{start,stop,restart}
  Internal,        \* the program's other goroutines that call the manager
  Scripts,         \* slots for the goroutines that run scripts
  External,        \* IsExternal: an endpoint and no start script
  WithEndpoint,    \* models whose configuration sets an endpoint
  WithPort,        \* models whose start script contains ${PORT}
  WithStopScript,  \* HasStopScript
  HealthChecked,   \* HealthCheck.Enabled
  Serialized       \* TRUE: a call waits until the model is quiet (no code does)

ASSUME ConfigAssumption ==
  /\ External \subseteq WithEndpoint
  /\ WithEndpoint \cup WithPort \cup WithStopScript \cup HealthChecked \subseteq Models
  /\ WithPort \cap External = {}
  /\ Serialized \in BOOLEAN
ASSUME CallersAssumption == Operators \cap Internal = {}

VARIABLES
  status,    \* Model.status
  port,      \* Model.port: never reset when the lease is returned
  healthy,   \* Model.healthy
  idle,      \* more than the model's TTL has passed since lastActivity
  settled,   \* more than StartDelay has passed since startedAt
  call,      \* per caller: the call of the manager it is making
  script     \* per slot: the script goroutine in it

modelVars == <<status, port, healthy, idle, settled>>
vars == <<allocated, modelVars, call, script>>

Managed == Models \ External
Callers == Operators \cup Internal
Statuses == {"stopped", "starting", "running", "stopping", "error"}

NoCall   == [at |-> "idle", model |-> NoModel, port |-> NoPort]
NoScript == [at |-> "free", model |-> NoModel, port |-> NoPort]

CallLabels ==
  {"idle", "ok", "err",
   "ifRunning", "ifStarting", "setStarting", "setStartedAt", "allocate", "allocFailed", "spawn",
   "ifStopped", "ifStopping", "setStopping", "release",
   "ifError", "resetError", "releaseError", "isRunning", "isStopping", "readStopPort",
   "restartScript", "setStopped", "releaseRestart"}
ScriptLabels ==
  {"free", "startLaunch", "startRunning", "failRelease", "touch", "notifyReady", "notifyError",
   "stopLaunch", "stopRunning", "stopRelease"}

(* NewModel: an external model is born running, one with an endpoint       *)
(* healthy; lastActivity is now and startedAt is the zero time.            *)
Init ==
  /\ allocated = NoLeases
  /\ status = [m \in Models |-> IF m \in External THEN "running" ELSE "stopped"]
  /\ port = [m \in Models |-> NoPort]
  /\ healthy = [m \in Models |-> m \in WithEndpoint]
  /\ idle = [m \in Models |-> FALSE]
  /\ settled = [m \in Models |-> TRUE]
  /\ call = [c \in Callers |-> NoCall]
  /\ script = [s \in Scripts |-> NoScript]

-----------------------------------------------------------------------------
(* Model.SetStatus, and Model.SetError as SetStatus(m, "error").           *)
SetStatus(m, new) == status' = [status EXCEPT ![m] = new]

SetHealthy(m, new) == healthy' = [healthy EXCEPT ![m] = new]

(* Model.UpdateActivity. *)
Touch(m) == idle' = [idle EXCEPT ![m] = FALSE]

Resting(c) == call[c].at \in {"idle", "ok", "err"}

Goto(c, label) == call' = [call EXCEPT ![c].at = label]

(* A call returns.  The API handlers only render the outcome, so it is not *)
(* remembered for an operator.                                             *)
Finish(c, outcome) ==
  call' = [call EXCEPT ![c] = IF c \in Operators THEN NoCall
                              ELSE [NoCall EXCEPT !.at = outcome]]

Spawn(label, m, p) ==
  \E s \in Scripts :
    /\ script[s] = NoScript
    /\ script' = [script EXCEPT ![s] = [at |-> label, model |-> m, port |-> p]]

(* No call on the model and no goroutine of it exists.                     *)
Quiet(m) ==
  /\ \A c \in Callers : call[c].model # m
  /\ \A s \in Scripts : script[s].model # m

Entry == [start |-> "ifRunning", stop |-> "ifStopped", restart |-> "ifError"]

(* A call of Start, Stop or Restart up to its first read of the status:    *)
(* unknown and external models were refused.                               *)
Begin(c, m, op) ==
  /\ Resting(c)
  /\ m \in Managed
  /\ Serialized => Quiet(m)
  /\ call' = [call EXCEPT ![c] = [NoCall EXCEPT !.at = Entry[op], !.model = m]]
  /\ UNCHANGED <<allocated, modelVars, script>>

-----------------------------------------------------------------------------
(* Reads of the status, and where the caller goes on.                      *)
Branch(c, at, value, yes, no) ==
  /\ call[c].at = at
  /\ IF status[call[c].model] = value THEN yes ELSE no
  /\ UNCHANGED <<allocated, modelVars, script>>

StartIfRunning(c)  == Branch(c, "ifRunning", "running", Finish(c, "ok"), Goto(c, "ifStarting"))
StartIfStarting(c) == Branch(c, "ifStarting", "starting", Finish(c, "err"), Goto(c, "setStarting"))
StopIfStopped(c)   == Branch(c, "ifStopped", "stopped", Finish(c, "ok"), Goto(c, "ifStopping"))
StopIfStopping(c)  == Branch(c, "ifStopping", "stopping", Finish(c, "err"), Goto(c, "setStopping"))
RestartIfError(c)  == Branch(c, "ifError", "error", Goto(c, "resetError"), Goto(c, "isRunning"))

AfterDecision(c) ==
  Goto(c, IF call[c].model \in WithStopScript THEN "readStopPort" ELSE "setStopped")
RestartIsRunning(c)  == Branch(c, "isRunning", "running", AfterDecision(c), Goto(c, "isStopping"))
RestartIsStopping(c) == Branch(c, "isStopping", "stopping", AfterDecision(c), Goto(c, "ifRunning"))

-----------------------------------------------------------------------------
(* Start, from the decision to start.                                      *)
StartSetStarting(c) ==
  /\ call[c].at = "setStarting"
  /\ SetStatus(call[c].model, "starting")
  /\ Goto(c, "setStartedAt")
  /\ UNCHANGED <<allocated, port, healthy, idle, settled, script>>

(* StartDelay is read by health checks only.                               *)
StartSetStartedAt(c) ==
  LET m == call[c].model IN
  /\ call[c].at = "setStartedAt"
  /\ settled' = [settled EXCEPT ![m] = m \notin HealthChecked]
  /\ Goto(c, IF m \in WithPort THEN "allocate" ELSE "spawn")
  /\ UNCHANGED <<allocated, status, port, healthy, idle, script>>

(* isPortAvailable may refuse any ports: backends and strangers come and   *)
(* go on the host without the manager.                                     *)
StartAllocate(c) ==
  /\ call[c].at = "allocate"
  /\ \E busy \in SUBSET Ports :
       LET p == AllocateResult(call[c].model, busy) IN
       /\ Grant(call[c].model, p)
       /\ call' = [call EXCEPT ![c].at = IF p = NoPort THEN "allocFailed" ELSE "spawn",
                               ![c].port = p]
  /\ UNCHANGED <<modelVars, script>>

(* Mutant: the status is left as it was. *)
AllocFailedKeepsStatus(c) ==
  /\ call[c].at = "allocFailed"
  /\ Finish(c, "err")
  /\ UNCHANGED <<allocated, modelVars, script>>

(* No callback runs here: requests that queued for the model are not told. *)
StartAllocFailed(c) ==
  /\ call[c].at = "allocFailed"
  /\ SetStatus(call[c].model, "error")
  /\ Finish(c, "err")
  /\ UNCHANGED <<allocated, port, healthy, idle, settled, script>>

(* Mutant: SetPort is left out. *)
SpawnWithoutSetPort(c) ==
  /\ call[c].at = "spawn"
  /\ Spawn("startLaunch", call[c].model, call[c].port)
  /\ Finish(c, "ok")
  /\ UNCHANGED <<allocated, modelVars>>

(* SetPort and the go statement of the script's goroutine.                 *)
StartSpawn(c) ==
  LET m == call[c].model  p == call[c].port IN
  /\ call[c].at = "spawn"
  /\ port' = IF p = NoPort THEN port ELSE [port EXCEPT ![m] = p]
  /\ Spawn("startLaunch", m, p)
  /\ Finish(c, "ok")
  /\ UNCHANGED <<allocated, status, healthy, idle, settled>>

-----------------------------------------------------------------------------
(* Stop, from the decision to stop.                                        *)
StopWithoutScript(c) ==
  /\ call[c].at = "setStopping"
  /\ call[c].model \notin WithStopScript
  /\ SetStatus(call[c].model, "stopped")
  /\ Goto(c, "release")
  /\ UNCHANGED <<allocated, port, healthy, idle, settled, script>>

StopWithScript(c) ==
  /\ call[c].at = "setStopping"
  /\ call[c].model \in WithStopScript
  /\ SetStatus(call[c].model, "stopping")
  /\ Spawn("stopLaunch", call[c].model, NoPort)
  /\ Finish(c, "ok")
  /\ UNCHANGED <<allocated, port, healthy, idle, settled>>

-----------------------------------------------------------------------------
(* Restart, and the lease given back by Stop and by Restart.               *)
RestartReadPort(c) ==
  /\ call[c].at = "readStopPort"
  /\ call' = [call EXCEPT ![c].at = "restartScript", ![c].port = port[call[c].model]]
  /\ UNCHANGED <<allocated, modelVars, script>>

(* CombinedOutput returns; a failure is only logged.                       *)
RestartScriptEnds(c) ==
  /\ call[c].at = "restartScript"
  /\ call' = [call EXCEPT ![c].at = "setStopped", ![c].port = NoPort]
  /\ UNCHANGED <<allocated, modelVars, script>>

RestartSetStopped(c) ==
  /\ call[c].at \in {"resetError", "setStopped"}
  /\ SetStatus(call[c].model, "stopped")
  /\ Goto(c, IF call[c].at = "resetError" THEN "releaseError" ELSE "releaseRestart")
  /\ UNCHANGED <<allocated, port, healthy, idle, settled, script>>

CallRelease(c) ==
  /\ \/ call[c].at = "release" /\ Finish(c, "ok")
     \/ call[c].at = "releaseError" /\ Goto(c, "isRunning")
     \/ call[c].at = "releaseRestart" /\ Goto(c, "ifRunning")
  /\ Release(call[c].model)
  /\ UNCHANGED <<modelVars, script>>

CallStep(c) ==
  \/ StartIfRunning(c) \/ StartIfStarting(c) \/ StartSetStarting(c) \/ StartSetStartedAt(c)
  \/ StartAllocate(c) \/ StartAllocFailed(c) \/ StartSpawn(c)
  \/ StopIfStopped(c) \/ StopIfStopping(c) \/ StopWithoutScript(c) \/ StopWithScript(c)
  \/ RestartIfError(c) \/ RestartIsRunning(c) \/ RestartIsStopping(c)
  \/ RestartReadPort(c) \/ RestartScriptEnds(c) \/ RestartSetStopped(c) \/ CallRelease(c)

-----------------------------------------------------------------------------
(* The goroutine of a start script.                                        *)
Become(s, label) == script' = [script EXCEPT ![s].at = label]

(* Mutant: the slot keeps its label. *)
VanishHalfway(s) == script' = [script EXCEPT ![s].model = NoModel]

Vanish(s) == script' = [script EXCEPT ![s] = NoScript]

(* Mutant: an early return that forgets SetError. *)
PipeFailureUnseen(s) ==
  /\ script[s].at = "startLaunch"
  /\ Become(s, "notifyError")
  /\ UNCHANGED <<allocated, modelVars, call>>

(* A pipe cannot be created: the lease is not given back.                  *)
StartPipeFails(s) ==
  /\ script[s].at = "startLaunch"
  /\ SetStatus(script[s].model, "error")
  /\ Become(s, "notifyError")
  /\ UNCHANGED <<allocated, port, healthy, idle, settled, call>>

StartScriptRuns(s) ==
  /\ script[s].at = "startLaunch"
  /\ Become(s, "startRunning")
  /\ UNCHANGED <<allocated, modelVars, call>>

(* The script cannot be started, exits with an error, or is killed by the  *)
(* five minute timeout.                                                    *)
StartScriptFails(s) ==
  /\ script[s].at \in {"startLaunch", "startRunning"}
  /\ SetStatus(script[s].model, "error")
  /\ Become(s, "failRelease")
  /\ UNCHANGED <<allocated, port, healthy, idle, settled, call>>

(* The script has exited: a model with a health check stays as it is.      *)
StartScriptSucceeds(s) ==
  /\ script[s].at = "startRunning"
  /\ IF script[s].model \in HealthChecked
     THEN Vanish(s) /\ UNCHANGED status
     ELSE Become(s, "touch") /\ SetStatus(script[s].model, "running")
  /\ UNCHANGED <<allocated, port, healthy, idle, settled, call>>

StartTouches(s) ==
  /\ script[s].at = "touch"
  /\ SetHealthy(script[s].model, TRUE)
  /\ Touch(script[s].model)
  /\ Become(s, "notifyReady")
  /\ UNCHANGED <<allocated, status, port, settled, call>>

StartFailureReleases(s) ==
  /\ script[s].at = "failRelease"
  /\ Release(script[s].model)
  /\ Become(s, "notifyError")
  /\ UNCHANGED <<modelVars, call>>

(* A callback has run: what it does is in the module Gateway.              *)
Notify(s) ==
  /\ script[s].at \in {"notifyReady", "notifyError"}
  /\ Vanish(s)
  /\ UNCHANGED <<allocated, modelVars, call>>

-----------------------------------------------------------------------------
(* The goroutine of a stop script.                                         *)

(* Mutant: an early return that forgets SetStatus. *)
StopLaunchFailureUnseen(s) ==
  /\ script[s].at = "stopLaunch"
  /\ Become(s, "stopRelease")
  /\ UNCHANGED <<allocated, modelVars, call>>

StopLaunchFails(s) ==
  /\ script[s].at = "stopLaunch"
  /\ SetStatus(script[s].model, "stopped")
  /\ Become(s, "stopRelease")
  /\ UNCHANGED <<allocated, port, healthy, idle, settled, call>>

(* Mutant: the lease is returned before the stop script has run. *)
StopScriptRunsAfterRelease(s) ==
  /\ script[s].at = "stopLaunch"
  /\ script' = [script EXCEPT ![s].at = "stopRunning", ![s].port = port[script[s].model]]
  /\ Release(script[s].model)
  /\ UNCHANGED <<modelVars, call>>

StopScriptRuns(s) ==
  /\ script[s].at = "stopLaunch"
  /\ script' = [script EXCEPT ![s].at = "stopRunning", ![s].port = port[script[s].model]]
  /\ UNCHANGED <<allocated, modelVars, call>>

(* Mutant: a failure of the script ends the goroutine. *)
StopScriptMayGiveUp(s) ==
  /\ script[s].at = "stopRunning"
  /\ \/ SetStatus(script[s].model, "stopped") /\ Become(s, "stopRelease")
     \/ Vanish(s) /\ UNCHANGED status
  /\ UNCHANGED <<allocated, port, healthy, idle, settled, call>>

(* A failure of the script is only logged.                                 *)
StopScriptEnds(s) ==
  /\ script[s].at = "stopRunning"
  /\ SetStatus(script[s].model, "stopped")
  /\ SetHealthy(script[s].model, FALSE)
  /\ Become(s, "stopRelease")
  /\ UNCHANGED <<allocated, port, idle, settled, call>>

(* Mutant: the port is not returned. *)
StopKeepsLease(s) ==
  /\ script[s].at = "stopRelease"
  /\ Vanish(s)
  /\ UNCHANGED <<allocated, modelVars, call>>

StopReleases(s) ==
  /\ script[s].at = "stopRelease"
  /\ Release(script[s].model)
  /\ Vanish(s)
  /\ UNCHANGED <<modelVars, call>>

ScriptStep(s) ==
  \/ StartPipeFails(s) \/ StartScriptRuns(s) \/ StartScriptFails(s) \/ StartScriptSucceeds(s)
  \/ StartTouches(s) \/ StartFailureReleases(s)
  \/ StopLaunchFails(s) \/ StopScriptRuns(s) \/ StopScriptEnds(s) \/ StopReleases(s)

-----------------------------------------------------------------------------
(* Everything but the callbacks, which a module that has them replaces.    *)
Step ==
  \/ \E c \in Operators, m \in Models, op \in DOMAIN Entry : Begin(c, m, op)
  \/ \E c \in Callers : CallStep(c)
  \/ \E s \in Scripts : ScriptStep(s)

Next == Step \/ \E s \in Scripts : Notify(s)

(* The scheduler runs every goroutine.  That a script ends is assumed: its *)
(* timeout kills the shell, but the goroutine waits until every process    *)
(* that holds the output has closed it.  Clients need not call.            *)
Fairness ==
  /\ \A c \in Callers : WF_vars(CallStep(c))
  /\ \A s \in Scripts : WF_vars(ScriptStep(s)) /\ WF_vars(Notify(s))

Spec == Init /\ [][Next]_vars
FairSpec == Spec /\ Fairness
-----------------------------------------------------------------------------
CallType   == [at : CallLabels, model : Models \cup {NoModel}, port : Ports \cup {NoPort}]
ScriptType == [at : ScriptLabels, model : Models \cup {NoModel}, port : Ports \cup {NoPort}]

(* Every variable has its type, and a caller or slot has a model exactly   *)
(* while it is at work.                                                    *)
TypeOK ==
  /\ AllocatorTypeOK
  /\ status \in [Models -> Statuses]
  /\ port \in [Models -> Ports \cup {NoPort}]
  /\ healthy \in [Models -> BOOLEAN]
  /\ idle \in [Models -> BOOLEAN]
  /\ settled \in [Models -> BOOLEAN]
  /\ call \in [Callers -> CallType]
  /\ script \in [Scripts -> ScriptType]
  /\ \A c \in Callers : ~Resting(c) => call[c].model \in Models
  /\ \A s \in Scripts : script[s].at # "free" => script[s].model \in Models

CallAt(m, labels)   == \E c \in Callers : call[c].model = m /\ call[c].at \in labels
ScriptAt(m, labels) == \E s \in Scripts : script[s].model = m /\ script[s].at \in labels

(* A model that is stopping has a stop goroutine that has yet to make it   *)
(* stopped, however many calls and scripts of it overlap: nothing else     *)
(* ever leaves that state for a caller that does not restart               *)
(* (manager.go:390-439, "model is already stopping").                      *)
StoppingHasOwner ==
  \A m \in Models : status[m] = "stopping" => ScriptAt(m, {"stopLaunch", "stopRunning"})

(* A model that is starting, and has no health check to wait for, has a    *)
(* call or a script goroutine that has yet to move it on, so neither the   *)
(* losers of a race between two Starts nor a Stop leave it stranded        *)
(* (manager.go:254-347).                                                   *)
StartingHasOwner ==
  \A m \in Managed \ HealthChecked :
    status[m] = "starting" =>
      \/ CallAt(m, {"setStartedAt", "allocate", "allocFailed", "spawn"})
      \/ ScriptAt(m, {"startLaunch", "startRunning"})

(* A stopped model without a health check holds a lease only while some    *)
(* call or goroutine is about to return it or to move the model on: no     *)
(* interleaving leaks a port at rest (manager.go:386,416,437,458,488).     *)
NoLeakAtRest ==
  \A m \in Managed \ HealthChecked :
    status[m] = "stopped" /\ HeldBy(m) # {} =>
      \/ CallAt(m, {"spawn", "release", "releaseError", "releaseRestart"})
      \/ ScriptAt(m, {"startLaunch", "startRunning", "failRelease", "stopRelease"})

(* The lease table, seen as the port each model holds, is the allocator's  *)
(* promise, whatever the manager's calls do.                               *)
LeaseOf(m) == IF HeldBy(m) = {} THEN NoPort ELSE CHOOSE p \in HeldBy(m) : TRUE
Lease == INSTANCE PortLease WITH holder <- [m \in Models |-> LeaseOf(m)]
LeasePromise == Lease!Spec

-----------------------------------------------------------------------------
(* What holds when calls about one model do not overlap (Serialized).      *)

(* A running model, and a start script or the stop script of a Restart     *)
(* that was given a port in place of ${PORT}, has the lease of that port:  *)
(* no two models serve on one port, none is restarted on another's         *)
(* (configs/msaki.dev-example.yaml:9, manager.go:274, 471).                *)
PortsAreOwned ==
  /\ \A m \in WithPort \ HealthChecked : status[m] = "running" => port[m] \in HeldBy(m)
  /\ \A s \in Scripts :
       script[s].at \in {"startLaunch", "startRunning"} /\ script[s].port # NoPort
         => script[s].port \in HeldBy(script[s].model)
  /\ \A c \in Callers :
       call[c].at = "restartScript" /\ call[c].port # NoPort
         => call[c].port \in HeldBy(call[c].model)

(* Each model is an instance of the service a client of the API expects.   *)
Phase(m) ==
  CASE status[m] \in {"stopped", "error"} -> "down"
    [] status[m] = "starting" -> "starting"
    [] status[m] = "running" -> "up"
    [] status[m] = "stopping" -> "stopping"
Service == INSTANCE ModelService
             WITH phase <- [m \in Models |-> Phase(m)],
                  lease <- [m \in Models |-> LeaseOf(m)]
ServicePromise == Service!Spec

-----------------------------------------------------------------------------
(* A model does not stay stopping: the stop goroutine, or a Start or       *)
(* Restart that overtakes it, moves it on (manager.go:390-439).            *)
StoppingEnds == \A m \in Managed : status[m] = "stopping" ~> status[m] # "stopping"

(* A model without a health check does not stay starting: it runs, fails,  *)
(* or is stopped (manager.go:254-347).                                     *)
StartingEnds ==
  \A m \in Managed \ HealthChecked : status[m] = "starting" ~> status[m] # "starting"

-----------------------------------------------------------------------------
(* What the sources say and the code does not do.                          *)

(* configs/msaki.dev-example.yaml:9: MSAKI replaces ${PORT} by a port      *)
(* number `to avoid conflicts', so two start scripts that run for two      *)
(* models are never given the same one.                                    *)
NoPortConflict ==
  \A s, t \in Scripts :
    /\ script[s].at = "startRunning" /\ script[t].at = "startRunning"
    /\ script[s].port = script[t].port /\ script[s].port # NoPort
    => script[s].model = script[t].model
=============================================================================

------------------------------ MODULE Program -------------------------------
(***************************************************************************)
(* The life of the process: the goroutine of the server, the background    *)
(* tasks, and the way down after a signal (cmd/msaki/main.go,              *)
(* internal/server/server.go, Manager.Shutdown), on top of the names that  *)
(* models are found by (Registry).                                         *)
(*                                                                         *)
(* A call of Start or Stop is one step here, and a goroutine that runs a   *)
(* script or a health check is known by its last step; Lifecycle and       *)
(* Monitors have them in full.  A model has at most one goroutine of each  *)
(* sort here.  The log files reopen when they are written to after they    *)
(* were closed, and are left out.                                          *)
(***************************************************************************)
EXTENDS Registry

CONSTANT Clients     \* the requests to the server

VARIABLES
  main,      \* how far main is, once the manager exists
  exit,      \* how the process ended
  listener,  \* the goroutine of server.Start
  client,    \* per client: its request
  status,    \* per model: Model.status
  flight,    \* per model: the goroutines that will still set its status
  reaper,    \* the goroutine of checkTTLs
  monitor,   \* the goroutine of runHealthChecks
  todo       \* the models Shutdown has not come to, and the one it stops

modelVars == <<status, flight>>
taskVars == <<reaper, monitor>>
programVars == <<registryVars, main, exit, listener, client, modelVars, taskVars, todo>>

Statuses == {"stopped", "starting", "running", "stopping", "error"}
MainLabels == {"setup", "serve", "cancel", "scan", "stop", "drain", "exited"}

ProgramInit ==
  /\ RegistryInit
  /\ main = "setup" /\ exit = "none"
  /\ listener = "new"
  /\ client = [r \in Clients |-> "idle"]
  /\ status = <<>> /\ flight = <<>>
  /\ reaper = "select" /\ monitor = "select"
  /\ todo = [left |-> {}, now |-> NoModel]

(* NewModel: a model that is only an address always runs.                  *)
InitialStatus(entry) == IF "external" \in entry.kind THEN "running" ELSE "stopped"

(* Load, New and NewManager.  A refused configuration is fatal.            *)
Setup ==
  /\ main = "setup"
  /\ RegistryNext
  /\ CASE phase' = "refused" -> main' = "exited" /\ exit' = "fatal"
       [] phase' = "ready" -> main' = "serve" /\ UNCHANGED exit
       [] OTHER -> UNCHANGED <<main, exit>>
  /\ status' = [m \in 1 .. indexed' |-> InitialStatus(config'[m])]
  /\ flight' = [m \in 1 .. indexed' |-> {}]
  /\ UNCHANGED <<listener, client, taskVars, todo>>

-----------------------------------------------------------------------------
(* The server's goroutine: it makes s.httpServer, and listens.             *)
Up == main \notin {"setup", "exited"}

Listener(from, to) ==
  /\ Up /\ main # "drain"
  /\ listener \in from /\ listener' = to
  /\ UNCHANGED <<registryVars, main, exit, client, modelVars, taskVars, todo>>

ServerAssigned == Listener({"new"}, "assigned")
ServerListens == Listener({"assigned"}, "listening")

(* The port cannot be had, or the listener breaks: through errChan the     *)
(* program ends without a shutdown.  Once a signal was received nobody     *)
(* asks for the error.                                                     *)
ServerFails == main = "serve" /\ Listener({"assigned", "listening"}, "failed")

ServerError ==
  /\ main = "serve" /\ listener = "failed"
  /\ main' = "exited" /\ exit' = "fatal"
  /\ UNCHANGED <<registryVars, listener, client, modelVars, taskVars, todo>>

-----------------------------------------------------------------------------
(* What Start and Stop do to the model m.                                  *)
SetStatus(m, s) == status' = [status EXCEPT ![m] = s]
Spawn(m, what) == flight' = [flight EXCEPT ![m] = @ \cup {what}]

StartEffect(m) ==
  /\ ~Is(m, "external") /\ status[m] \in {"stopped", "error", "stopping"}
  /\ "start" \notin flight[m]
  /\ \/ SetStatus(m, "starting") /\ Spawn(m, "start")
     \/ SetStatus(m, "error") /\ UNCHANGED flight

StopEffect(m) ==
  IF Is(m, "external") \/ status[m] \in {"stopped", "stopping"}
  THEN UNCHANGED modelVars
  ELSE \/ ~Is(m, "stopScript") /\ SetStatus(m, "stopped") /\ UNCHANGED flight
       \/ Is(m, "stopScript") /\ SetStatus(m, "stopping") /\ Spawn(m, "stop")

(* The last step of a goroutine.  The start script of a model that is      *)
(* health-checked leaves the status alone, as does a check that fails.     *)
Land(m, what, s) ==
  /\ what \in flight[m]
  /\ flight' = [flight EXCEPT ![m] = @ \ {what}]
  /\ SetStatus(m, s)

GoroutineEnds(m) ==
  /\ Up
  /\ \/ Land(m, "start", "error")
     \/ Land(m, "start", IF Is(m, "healthCheck") THEN status[m] ELSE "running")
     \/ Land(m, "stop", "stopped")
     \/ \E s \in {"running", status[m]} : Land(m, "check", s)
  /\ UNCHANGED <<registryVars, main, exit, listener, client, taskVars, todo>>

-----------------------------------------------------------------------------
(* Requests: a call of the API, or one that waits for its model or streams. *)
ClientGoes(r, from, to) ==
  /\ client[r] = from /\ client' = [client EXCEPT ![r] = to]
  /\ UNCHANGED <<registryVars, main, exit, listener, modelVars, taskVars, todo>>

Arrive(r) == Up /\ main # "drain" /\ listener = "listening" /\ ClientGoes(r, "idle", "active")
Answer(r) == Up /\ ClientGoes(r, "active", "idle")

(* A handler starts or stops the model that the name in its request means. *)
Act(r, k) ==
  /\ Up /\ client[r] = "active" /\ index[k] # NoModel
  /\ StartEffect(index[k]) \/ StopEffect(index[k])
  /\ UNCHANGED <<registryVars, main, exit, listener, client, taskVars, todo>>

-----------------------------------------------------------------------------
(* The background tasks select between their ticker and the context.       *)

(* Mutant: the context is never cancelled. *)
NeverCancelled == FALSE

Cancelled == main \in {"scan", "stop", "drain"}

ReaperGoes(from, to) ==
  /\ Up /\ reaper = from /\ reaper' = to
  /\ UNCHANGED <<registryVars, main, exit, listener, client, modelVars, monitor, todo>>

ReaperTicks == ReaperGoes("select", "check")
ReaperChecked == ReaperGoes("check", "select")
ReaperEnds == Cancelled /\ ReaperGoes("select", "ended")

(* checkTTLs stops, by name, models that were running when it began.       *)
ReaperStops(m) ==
  /\ Up /\ reaper = "check"
  /\ StopEffect(index[config[m].name])
  /\ UNCHANGED <<registryVars, main, exit, listener, client, taskVars, todo>>

(* A check is a goroutine of its own, which nobody waits for.              *)
MonitorTicks(m) ==
  /\ Up /\ monitor = "select"
  /\ Is(m, "healthCheck") /\ status[m] = "starting" /\ "check" \notin flight[m]
  /\ Spawn(m, "check")
  /\ UNCHANGED <<registryVars, main, exit, listener, client, status, taskVars, todo>>

MonitorEnds ==
  /\ Cancelled /\ monitor = "select"
  /\ monitor' = "ended"
  /\ UNCHANGED <<registryVars, main, exit, listener, client, modelVars, reaper, todo>>

-----------------------------------------------------------------------------
(* The way down: Server.Shutdown, and Manager.Shutdown in it.              *)
MainGoes(from, to) ==
  /\ main = from /\ main' = to
  /\ UNCHANGED <<registryVars, exit, listener, client, modelVars, taskVars>>

Signal == MainGoes("serve", "cancel") /\ UNCHANGED todo

(* The map of models does not change any more: ListModels is timeless.     *)
CancelAndList ==
  /\ MainGoes("cancel", "scan")
  /\ todo' = [todo EXCEPT !.left = ListModels]

(* Only a model that is running now is stopped.                            *)
Skip(m) ==
  /\ m \in todo.left /\ (status[m] # "running" \/ Is(m, "external"))
  /\ MainGoes("scan", "scan")
  /\ todo' = [todo EXCEPT !.left = @ \ {m}]

Pick(m) ==
  /\ m \in todo.left /\ status[m] = "running" /\ ~Is(m, "external")
  /\ MainGoes("scan", "stop")
  /\ todo' = [left |-> todo.left \ {m}, now |-> m]

(* Mutant: the loop keeps its model. *)
StopKeepsModel ==
  /\ main = "stop" /\ main' = "scan"
  /\ StopEffect(index[config[todo.now].name])
  /\ UNCHANGED <<registryVars, exit, listener, client, taskVars, todo>>

(* Mutant: the first model that is stopped ends the loop. *)
StopOnlyOne ==
  /\ main = "stop" /\ main' = "scan"
  /\ StopEffect(index[config[todo.now].name])
  /\ todo' = [left |-> {}, now |-> NoModel]
  /\ UNCHANGED <<registryVars, exit, listener, client, taskVars>>

Stop ==
  /\ main = "stop" /\ main' = "scan"
  /\ StopEffect(index[config[todo.now].name])
  /\ todo' = [todo EXCEPT !.now = NoModel]
  /\ UNCHANGED <<registryVars, exit, listener, client, taskVars>>

(* After the loop, wg.Wait; then the logs are closed and the server is     *)
(* shut down.                                                              *)
WaitForTasks ==
  /\ todo.left = {} /\ reaper = "ended" /\ monitor = "ended"
  /\ MainGoes("scan", "drain") /\ UNCHANGED todo

(* httpServer.Shutdown returns when no request is under way or after 30    *)
(* seconds; a nil httpServer panics.                                       *)
Drain ==
  /\ main = "drain" /\ main' = "exited"
  /\ \/ listener = "new" /\ exit' = "panic"
     \/ /\ listener # "new" /\ \A r \in Clients : client[r] # "active"
        /\ exit' = "graceful"
     \/ /\ listener # "new" /\ \E r \in Clients : client[r] = "active"
        /\ exit' = "failed"
  /\ UNCHANGED <<registryVars, listener, client, modelVars, taskVars, todo>>

ShutdownStep ==
  \/ CancelAndList \/ Stop \/ WaitForTasks \/ Drain
  \/ \E m \in 1 .. MaxModels : Skip(m) \/ Pick(m)

ProgramNext ==
  \/ Setup
  \/ ServerAssigned \/ ServerListens \/ ServerFails \/ ServerError
  \/ \E m \in Models : GoroutineEnds(m) \/ ReaperStops(m) \/ MonitorTicks(m)
  \/ \E r \in Clients : Arrive(r) \/ Answer(r) \/ \E k \in Strings : Act(r, k)
  \/ ReaperTicks \/ ReaperChecked \/ ReaperEnds \/ MonitorEnds
  \/ Signal \/ ShutdownStep

ProgramSpec == ProgramInit /\ [][ProgramNext]_programVars

(* Goroutines run, and a select whose context is done takes that case some *)
(* time, although its ticker may be ready too.                             *)
ProgramFairSpec ==
  /\ ProgramSpec
  /\ WF_programVars(ShutdownStep)
  /\ WF_programVars(ReaperChecked) /\ SF_programVars(ReaperEnds) /\ WF_programVars(MonitorEnds)
-----------------------------------------------------------------------------
(* Every variable has its type.                                            *)
ProgramTypeOK ==
  /\ RegistryTypeOK
  /\ main \in MainLabels
  /\ exit \in {"none", "fatal", "panic", "failed", "graceful"}
  /\ main = "exited" <=> exit # "none"
  /\ listener \in {"new", "assigned", "listening", "failed"}
  /\ client \in [Clients -> {"idle", "active"}]
  /\ status \in [Models -> Statuses]
  /\ flight \in [Models -> SUBSET {"start", "stop", "check"}]
  /\ reaper \in {"select", "check", "ended"} /\ monitor \in {"select", "ended"}
  /\ todo \in [left : SUBSET Models, now : 0 .. indexed]
  /\ main = "stop" <=> todo.now # NoModel

(* A model that runs when the signal comes is told to stop before the      *)
(* process ends, although requests, the TTL reaper and health checks go on *)
(* setting statuses while Shutdown looks for what to stop, by status, and  *)
(* stops it, by name (manager.go:210-227, 364-391, 536-547).               *)
RunningModelsStopped ==
  \A m \in 1 .. MaxModels :
    main = "cancel" /\ m \in Models /\ ~Is(m, "external") /\ status[m] = "running"
      ~> m \in Models /\ status[m] # "running"

(* A signal ends the process: neither the background tasks, which may be   *)
(* at work and are waited for, nor requests that never end keep it         *)
(* (manager.go:68-98, 546, main.go:134-140).                               *)
ShutdownEnds == main = "cancel" ~> main = "exited"
=============================================================================

------------------------------ MODULE Monitors ------------------------------
(***************************************************************************)
(* The manager's background tasks (internal/models/manager.go:65-201): the *)
(* TTL reaper, one goroutine that stops idle models, and the health        *)
(* monitor, whose tick starts one goroutine per model to check.            *)
(*                                                                         *)
(* Both work on a snapshot of the statuses and act on it later: the reaper *)
(* calls Stop, a health check makes a model that was starting when it      *)
(* looked a running one, after a GET that may take five seconds.           *)
(***************************************************************************)
EXTENDS Lifecycle

CONSTANTS
  Names,      \* the keys of Manager.models: model names and aliases
  ModelOf,    \* the model each name is indexed to (GetModel)
  Reaper,     \* the goroutine of the TTL checker
  Checkers,   \* slots for the goroutines of health checks
  WithTTL,    \* models with a TTL
  WithOverride   \* models whose configuration sets a backendOverride

ASSUME MonitorsAssumption ==
  /\ ModelOf \in [Names -> Models]
  /\ Reaper \in Internal
  /\ WithTTL \cup WithOverride \subseteq Models

VARIABLES
  due,    \* names of modelsToCheck that checkTTLs has yet to examine
  check   \* per slot: the health check in it

monitorVars == <<vars, due, check>>

NoCheck == [at |-> "idle", model |-> NoModel, saw |-> "stopped"]

CheckLabels ==
  {"idle", "readStatus", "ifSettled", "endpoint", "probe", "promote", "touch", "notifyReady"}

MonitorsInit ==
  /\ Init
  /\ due = {}
  /\ check = [k \in Checkers |-> NoCheck]

-----------------------------------------------------------------------------
(* Time.  startDelay and the TTL run out while nothing resets them.        *)
SettleTick(m) ==
  /\ ~settled[m]
  /\ settled' = [settled EXCEPT ![m] = TRUE]
  /\ UNCHANGED <<allocated, status, port, healthy, idle, call, script, due, check>>

IdleTick(m) ==
  /\ m \in WithTTL /\ ~idle[m]
  /\ idle' = [idle EXCEPT ![m] = TRUE]
  /\ UNCHANGED <<allocated, status, port, healthy, settled, call, script, due, check>>

(* UpdateActivity on behalf of a proxied request (module Gateway).         *)
Activity(m) ==
  /\ idle[m]
  /\ Touch(m)
  /\ UNCHANGED <<allocated, status, port, healthy, settled, call, script, due, check>>

-----------------------------------------------------------------------------
(* checkTTLs.  The scan meets a model once under each of its names; its    *)
(* reads of the statuses are taken as one.                                 *)
ScanTTLs ==
  /\ due = {} /\ Resting(Reaper)
  /\ due' = {n \in Names : /\ ModelOf[n] \in WithTTL \cap Managed
                           /\ status[ModelOf[n]] = "running"}
  /\ UNCHANGED <<vars, check>>

(* Mutant: the comparison with the TTL is the wrong way round. *)
ExamineTTLReversed(n) ==
  /\ n \in due /\ Resting(Reaper)
  /\ due' = due \ {n}
  /\ IF ~idle[ModelOf[n]] THEN Begin(Reaper, ModelOf[n], "stop") ELSE UNCHANGED vars
  /\ UNCHANGED check

ExamineTTL(n) ==
  /\ n \in due /\ Resting(Reaper)
  /\ due' = due \ {n}
  /\ IF idle[ModelOf[n]] THEN Begin(Reaper, ModelOf[n], "stop") ELSE UNCHANGED vars
  /\ UNCHANGED check

-----------------------------------------------------------------------------
(* runHealthChecks meets a model that is running or starting, and gives it *)
(* to a goroutine that runs checkHealth.                                   *)
Schedule(k, m) ==
  /\ check[k] = NoCheck
  /\ m \in HealthChecked
  /\ status[m] \in {"running", "starting"}
  /\ check' = [check EXCEPT ![k] = [NoCheck EXCEPT !.at = "readStatus", !.model = m]]
  /\ UNCHANGED <<vars, due>>

CheckGoto(k, label) == check' = [check EXCEPT ![k].at = label]

(* Mutant: the slot keeps its label. *)
CheckEndsHalfway(k) == check' = [check EXCEPT ![k].model = NoModel]

CheckEnds(k) == check' = [check EXCEPT ![k] = NoCheck]

CheckReadsStatus(k) ==
  LET seen == status[check[k].model] IN
  /\ check[k].at = "readStatus"
  /\ check' = [check EXCEPT ![k].at = IF seen = "starting" THEN "ifSettled" ELSE "endpoint",
                            ![k].saw = seen]
  /\ UNCHANGED <<vars, due>>

(* Mutant: the comparison with startDelay is the wrong way round. *)
CheckStartDelayReversed(k) ==
  /\ check[k].at = "ifSettled"
  /\ IF settled[check[k].model] THEN CheckEnds(k) ELSE CheckGoto(k, "endpoint")
  /\ UNCHANGED <<vars, due>>

CheckStartDelay(k) ==
  /\ check[k].at = "ifSettled"
  /\ IF settled[check[k].model] THEN CheckGoto(k, "endpoint") ELSE CheckEnds(k)
  /\ UNCHANGED <<vars, due>>

(* The override of a model that is given a port names ${PORT} as well.     *)
OverrideWithPort == WithOverride \cap WithPort

(* getModelEndpoint finds a URL that can be asked: the configured endpoint, *)
(* else the override, else localhost, with whatever port the model was last *)
(* given.                                                                  *)
Addressable(m) ==
  m \in WithEndpoint \cup (WithOverride \ OverrideWithPort) \/ port[m] # NoPort

(* Mutant: `port > 0' is not tested. *)
CheckEndpointAlways(k) ==
  /\ check[k].at = "endpoint"
  /\ CheckGoto(k, "probe")
  /\ UNCHANGED <<vars, due>>

(* A GET of an override in which ${PORT} is still there fails at once;     *)
(* without any URL nothing is checked.                                     *)
CheckEndpoint(k) ==
  LET m == check[k].model IN
  /\ check[k].at = "endpoint"
  /\ IF Addressable(m) THEN CheckGoto(k, "probe") ELSE CheckEnds(k)
  /\ IF ~Addressable(m) /\ m \in WithOverride THEN SetHealthy(m, FALSE) ELSE UNCHANGED healthy
  /\ UNCHANGED <<allocated, status, port, idle, settled, call, script, due>>

ProbeFails(k) ==
  /\ check[k].at = "probe"
  /\ SetHealthy(check[k].model, FALSE)
  /\ CheckEnds(k)
  /\ UNCHANGED <<allocated, status, port, idle, settled, call, script, due>>

ProbeSucceeds(k) ==
  /\ check[k].at = "probe"
  /\ SetHealthy(check[k].model, TRUE)
  /\ IF check[k].saw = "starting" THEN CheckGoto(k, "promote") ELSE CheckEnds(k)
  /\ UNCHANGED <<allocated, status, port, idle, settled, call, script, due>>

(* The status is the one read before the GET, not the present one.         *)
CheckPromotes(k) ==
  /\ check[k].at = "promote"
  /\ SetStatus(check[k].model, "running")
  /\ CheckGoto(k, "touch")
  /\ UNCHANGED <<allocated, port, healthy, idle, settled, call, script, due>>

CheckTouches(k) ==
  /\ check[k].at = "touch"
  /\ Touch(check[k].model)
  /\ CheckGoto(k, "notifyReady")
  /\ UNCHANGED <<allocated, status, port, healthy, settled, call, script, due>>

CheckNotifies(k) ==
  /\ check[k].at = "notifyReady"
  /\ CheckEnds(k)
  /\ UNCHANGED <<vars, due>>

CheckStep(k) ==
  \/ CheckReadsStatus(k) \/ CheckStartDelay(k) \/ CheckEndpoint(k)
  \/ ProbeFails(k) \/ ProbeSucceeds(k) \/ CheckPromotes(k) \/ CheckTouches(k)

-----------------------------------------------------------------------------
(* Everything but the callbacks and the requests of the module Gateway.    *)
MonitorsStep ==
  \/ Step /\ UNCHANGED <<due, check>>
  \/ \E m \in Models : SettleTick(m) \/ IdleTick(m)
  \/ ScanTTLs
  \/ \E n \in Names : ExamineTTL(n)
  \/ \E k \in Checkers : CheckStep(k) \/ \E m \in Models : Schedule(k, m)

MonitorsNext ==
  \/ MonitorsStep
  \/ \E m \in Models : Activity(m)
  \/ \E s \in Scripts : Notify(s) /\ UNCHANGED <<due, check>>
  \/ \E k \in Checkers : CheckNotifies(k)

(* Tickers tick, goroutines run and a GET answers or times out.            *)
MonitorsFairness ==
  /\ \A c \in Callers : WF_monitorVars(CallStep(c) /\ UNCHANGED <<due, check>>)
  /\ \A s \in Scripts : WF_monitorVars((ScriptStep(s) \/ Notify(s)) /\ UNCHANGED <<due, check>>)
  /\ \A m \in Models : WF_monitorVars(SettleTick(m))
  /\ WF_monitorVars(ScanTTLs)
  /\ WF_monitorVars(\E n \in Names : ExamineTTL(n))
  /\ \A k \in Checkers : WF_monitorVars(CheckStep(k) \/ CheckNotifies(k))
  /\ \A m \in Models : WF_monitorVars(\E k \in Checkers : Schedule(k, m))

(* A backend that is asked again and again answers some time.              *)
BackendFairness == \A k \in Checkers : SF_monitorVars(ProbeSucceeds(k))

MonitorsSpec == MonitorsInit /\ [][MonitorsNext]_monitorVars
MonitorsFairSpec == MonitorsSpec /\ MonitorsFairness
BackendFairSpec == MonitorsFairSpec /\ BackendFairness
-----------------------------------------------------------------------------
(* The reaper and the checks keep their types; a check in progress is of a *)
(* model with a health check.                                              *)
MonitorsTypeOK ==
  /\ TypeOK
  /\ due \subseteq Names
  /\ check \in [Checkers -> [at : CheckLabels, model : Models \cup {NoModel}, saw : Statuses]]
  /\ \A k \in Checkers : check[k].at # "idle" => check[k].model \in HealthChecked

(* A running model whose start script names ${PORT}, and that has no       *)
(* endpoint of its own, has been given a port, whether its script or a     *)
(* health check made it running, so the proxy finds a target for it        *)
(* (proxy.go:178-196).  Not that the port is still leased to it; and a     *)
(* model with neither ${PORT}, endpoint nor override, which config.go:271  *)
(* lets pass, runs without a target.                                       *)
RunningIsRoutable ==
  \A m \in WithPort \ WithEndpoint : status[m] = "running" => port[m] # NoPort

(* A model with a TTL does not stay running and idle: the reaper gets to   *)
(* it, also when it is health-checked, and a check that saw it starting    *)
(* makes it running again after a Stop (manager.go:101-120, 144-188,       *)
(* configs/msaki.dev-example.yaml:101).                                    *)
IdleModelsAreReaped ==
  \A m \in WithTTL \cap Managed : []<>~(status[m] = "running" /\ idle[m])

(* If its backend answers health checks in the end, a model with a health  *)
(* check does not stay starting: the checks begin once startDelay is over, *)
(* and one makes it running (manager.go:122-194, 333-337).                 *)
HealthCheckedStartingEnds ==
  \A m \in HealthChecked \cap Managed : status[m] = "starting" ~> status[m] # "starting"

-----------------------------------------------------------------------------
(* What the sources say and the code does not do.                          *)

(* manager.go:186: `Transition from starting to running when health check  *)
(* passes', so a health check makes no stopped, stopping or failed model a *)
(* running one.                                                            *)
PromotesOnlyStarting ==
  [][\A k \in Checkers : CheckPromotes(k) => status[check[k].model] \in {"starting", "running"}]_monitorVars
=============================================================================

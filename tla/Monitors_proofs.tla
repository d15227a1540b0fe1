-------------------------- MODULE Monitors_proofs ---------------------------
(***************************************************************************)
(* The background tasks keep what the manager's own operations keep, for   *)
(* any models, clients and number of checks at a time; and the proxy finds *)
(* a target for every running model.                                       *)
(***************************************************************************)
EXTENDS Monitors, Lifecycle_proofs

-----------------------------------------------------------------------------
(* Type correctness.                                                       *)

CheckType == [at : CheckLabels, model : Models \cup {NoModel}, saw : Statuses]

LEMMA MonitorsInitType == MonitorsInit => MonitorsTypeOK
BY InitType DEF MonitorsInit, MonitorsTypeOK, NoCheck, CheckLabels, Statuses

(* What a health check does to its slot and to its model.                  *)
LEMMA CheckSlotType ==
  ASSUME MonitorsTypeOK, NEW k \in Checkers, NEW new \in CheckType,
         new.at # "idle" => new.model \in HealthChecked,
         check' = [check EXCEPT ![k] = new], TypeOK', due' = due
  PROVE  MonitorsTypeOK'
BY DEF MonitorsTypeOK, CheckType

LEMMA CheckGotoType ==
  ASSUME MonitorsTypeOK, NEW k \in Checkers, NEW label \in CheckLabels,
         check[k].at # "idle", CheckGoto(k, label), TypeOK', due' = due
  PROVE  MonitorsTypeOK'
<1> DEFINE new == [check[k] EXCEPT !.at = label]
<1>1. check[k] \in CheckType /\ check[k].model \in HealthChecked
  BY DEF MonitorsTypeOK, CheckType
<1>2. new \in CheckType /\ new.model = check[k].model
  BY <1>1 DEF CheckType
<1>3. check' = [check EXCEPT ![k] = new]
  BY DEF CheckGoto
<1> QED
  BY <1>1, <1>2, <1>3, CheckSlotType

LEMMA CheckEndsType ==
  ASSUME MonitorsTypeOK, NEW k \in Checkers, CheckEnds(k), TypeOK', due' = due
  PROVE  MonitorsTypeOK'
<1>1. NoCheck \in CheckType /\ NoCheck.at = "idle"
  BY DEF NoCheck, CheckType, CheckLabels, Statuses
<1> QED
  BY <1>1, CheckSlotType DEF CheckEnds

LEMMA CheckStepType ==
  ASSUME MonitorsTypeOK, NEW k \in Checkers, CheckStep(k) \/ CheckNotifies(k)
  PROVE  MonitorsTypeOK'
<1> DEFINE m == check[k].model
<1>0. /\ TypeOK /\ check[k] \in CheckType /\ m \in Models \cup {NoModel}
      /\ check[k].at # "idle" => m \in HealthChecked /\ m \in Models
  BY ConfigAssumption DEF MonitorsTypeOK, CheckType
<1>1. CASE CheckReadsStatus(k)
  <2> DEFINE seen == status[m]
             new == [check[k] EXCEPT !.at = IF seen = "starting" THEN "ifSettled" ELSE "endpoint",
                                     !.saw = seen]
  <2>1. seen \in Statuses
    BY <1>0, <1>1 DEF CheckReadsStatus, TypeOK
  <2>2. new \in CheckType /\ new.model = m
    BY <1>0, <2>1 DEF CheckType, CheckLabels
  <2>3. check' = [check EXCEPT ![k] = new] /\ UNCHANGED <<vars, due>> /\ m \in HealthChecked
    BY <1>0, <1>1 DEF CheckReadsStatus
  <2>4. TypeOK'
    BY <1>0, <2>3, NextType
  <2> HIDE DEF new
  <2> QED
    BY <2>2, <2>3, <2>4, CheckSlotType
<1>2. CASE CheckStartDelay(k)
  <2>1. TypeOK'
    BY <1>0, <1>2, NextType DEF CheckStartDelay
  <2> QED
    BY <1>2, <2>1, CheckGotoType, CheckEndsType DEF CheckStartDelay, CheckLabels
<1>3. CASE CheckEndpoint(k)
  <2>1. TypeOK'
    BY <1>0, <1>3 DEF CheckEndpoint, SetHealthy, TypeOK, AllocatorTypeOK, Resting
  <2> QED
    BY <1>3, <2>1, CheckGotoType, CheckEndsType DEF CheckEndpoint, CheckLabels
<1>4. CASE ProbeFails(k)
  <2>1. TypeOK'
    BY <1>0, <1>4 DEF ProbeFails, SetHealthy, TypeOK, AllocatorTypeOK, Resting
  <2> QED
    BY <1>4, <2>1, CheckEndsType DEF ProbeFails
<1>5. CASE ProbeSucceeds(k)
  <2>1. TypeOK'
    BY <1>0, <1>5 DEF ProbeSucceeds, SetHealthy, TypeOK, AllocatorTypeOK, Resting
  <2> QED
    BY <1>5, <2>1, CheckGotoType, CheckEndsType DEF ProbeSucceeds, CheckLabels
<1>6. CASE CheckPromotes(k)
  <2>1. TypeOK'
    BY <1>0, <1>6 DEF CheckPromotes, SetStatus, Statuses, TypeOK, AllocatorTypeOK, Resting
  <2> QED
    BY <1>6, <2>1, CheckGotoType DEF CheckPromotes, CheckLabels
<1>7. CASE CheckTouches(k)
  <2>1. TypeOK'
    BY <1>0, <1>7 DEF CheckTouches, Touch, TypeOK, AllocatorTypeOK, Resting
  <2> QED
    BY <1>7, <2>1, CheckGotoType DEF CheckTouches, CheckLabels
<1>8. CASE CheckNotifies(k)
  <2>1. TypeOK'
    BY <1>0, <1>8, NextType DEF CheckNotifies
  <2> QED
    BY <1>8, <2>1, CheckEndsType DEF CheckNotifies
<1> QED
  BY <1>1, <1>2, <1>3, <1>4, <1>5, <1>6, <1>7, <1>8 DEF CheckStep

LEMMA MonitorsStepType ==
  ASSUME MonitorsTypeOK, MonitorsStep
  PROVE  MonitorsTypeOK'
<1>0. TypeOK
  BY DEF MonitorsTypeOK
<1>1. CASE Step /\ UNCHANGED <<due, check>>
  BY <1>0, <1>1, NextType DEF Next, MonitorsTypeOK
<1>2. ASSUME NEW m \in Models, SettleTick(m) \/ IdleTick(m) PROVE MonitorsTypeOK'
  BY <1>2 DEF SettleTick, IdleTick, MonitorsTypeOK, TypeOK, AllocatorTypeOK, Resting
<1>3. CASE ScanTTLs
  BY <1>0, <1>3, NextType DEF ScanTTLs, MonitorsTypeOK
<1>4. ASSUME NEW n \in Names, ExamineTTL(n) PROVE MonitorsTypeOK'
  <2>1. Reaper \in Callers /\ ModelOf[n] \in Models /\ "stop" \in DOMAIN Entry
    BY MonitorsAssumption DEF Callers, Entry
  <2>2. TypeOK'
    BY <1>0, <1>4, <2>1, NextType, BeginType DEF ExamineTTL
  <2> QED
    BY <1>4, <2>2 DEF ExamineTTL, MonitorsTypeOK
<1>5. ASSUME NEW k \in Checkers, CheckStep(k) PROVE MonitorsTypeOK'
  BY <1>5, CheckStepType
<1>6. ASSUME NEW k \in Checkers, NEW m \in Models, Schedule(k, m) PROVE MonitorsTypeOK'
  <2> DEFINE new == [NoCheck EXCEPT !.at = "readStatus", !.model = m]
  <2>1. new \in CheckType /\ new.model = m
    BY DEF CheckType, CheckLabels, NoCheck, Statuses
  <2>2. check' = [check EXCEPT ![k] = new] /\ m \in HealthChecked /\ UNCHANGED <<vars, due>>
    BY <1>6 DEF Schedule
  <2>3. TypeOK'
    BY <1>0, <2>2, NextType
  <2> HIDE DEF new
  <2> QED
    BY <2>1, <2>2, <2>3, CheckSlotType
<1> QED
  BY <1>1, <1>2, <1>3, <1>4, <1>5, <1>6 DEF MonitorsStep

LEMMA MonitorsNextType == MonitorsTypeOK /\ [MonitorsNext]_monitorVars => MonitorsTypeOK'
<1> SUFFICES ASSUME MonitorsTypeOK, [MonitorsNext]_monitorVars PROVE MonitorsTypeOK'
  OBVIOUS
<1>0. TypeOK
  BY DEF MonitorsTypeOK
<1>1. ASSUME NEW m \in Models, Activity(m) PROVE MonitorsTypeOK'
  BY <1>1 DEF Activity, Touch, MonitorsTypeOK, TypeOK, AllocatorTypeOK, Resting
<1>2. ASSUME NEW s \in Scripts, Notify(s), UNCHANGED <<due, check>> PROVE MonitorsTypeOK'
  BY <1>0, <1>2, NextType DEF Next, MonitorsTypeOK
<1>3. ASSUME NEW k \in Checkers, CheckNotifies(k) PROVE MonitorsTypeOK'
  BY <1>3, CheckStepType
<1>4. CASE UNCHANGED monitorVars
  BY <1>0, <1>4, NextType DEF monitorVars, MonitorsTypeOK
<1> QED
  BY <1>1, <1>2, <1>3, <1>4, MonitorsStepType DEF MonitorsNext

(* The reaper and the health checks are at work on models that exist, and  *)
(* a check on one that is to be checked (manager.go:101-201).              *)
THEOREM MonitorsTypeCorrect == MonitorsSpec => []MonitorsTypeOK
  BY MonitorsInitType, MonitorsNextType, PTL DEF MonitorsSpec

-----------------------------------------------------------------------------
(* A running model has a target.                                           *)

(* RunningIsRoutable alone is not inductive: whoever is on its way to make *)
(* a model a running one has seen to its port, or to another address.      *)
StartsHavePort ==
  /\ \A c \in Callers :
       call[c].at = "spawn" /\ call[c].model \in WithPort => call[c].port # NoPort
  /\ \A s \in Scripts :
       script[s].at \in {"startLaunch", "startRunning"} /\ script[s].model \in WithPort
         => port[script[s].model] # NoPort
ChecksHaveTarget ==
  \A k \in Checkers : check[k].at \in {"probe", "promote"} => Addressable(check[k].model)
RoutableInv == MonitorsTypeOK /\ RunningIsRoutable /\ StartsHavePort /\ ChecksHaveTarget

PortsKept == \A m \in Models : port[m] # NoPort => port'[m] # NoPort
NoneNewlyRuns ==
  \A m \in WithPort : status'[m] = "running" => status[m] = "running"

(* A step that makes no model a running one and starts no script.          *)
LEMMA RoutableKept ==
  ASSUME TypeOK, RunningIsRoutable, StartsHavePort, PortsKept, NoneNewlyRuns,
         NEW c \in Callers, NEW new, call' = [call EXCEPT ![c] = new],
         new.at = "spawn" /\ new.model \in WithPort => new.port # NoPort,
         UNCHANGED script
  PROVE  RunningIsRoutable' /\ StartsHavePort'
<1>1. RunningIsRoutable'
  BY ConfigAssumption DEF RunningIsRoutable, PortsKept, NoneNewlyRuns
<1>2. ASSUME NEW d \in Callers, call'[d].at = "spawn", call'[d].model \in WithPort
      PROVE  call'[d].port # NoPort
  <2>1. CASE d = c
    BY <1>2, <2>1 DEF TypeOK
  <2>2. CASE d # c
    BY <1>2, <2>2 DEF TypeOK, StartsHavePort
  <2> QED
    BY <2>1, <2>2
<1>3. ASSUME NEW s \in Scripts, script[s].at \in {"startLaunch", "startRunning"},
             script[s].model \in WithPort
      PROVE  port'[script[s].model] # NoPort
  BY <1>3, ConfigAssumption DEF StartsHavePort, PortsKept
<1> QED
  BY <1>1, <1>2, <1>3 DEF StartsHavePort

(* The same of a step of a goroutine that runs a script.                   *)
LEMMA RoutableKeptByScript ==
  ASSUME TypeOK, RunningIsRoutable, StartsHavePort, UNCHANGED <<port, call>>,
         NEW s \in Scripts, NEW new, script' = [script EXCEPT ![s] = new],
         new.at \in {"startLaunch", "startRunning"}
           => new.model = script[s].model /\ script[s].at \in {"startLaunch", "startRunning"},
         \A m \in WithPort : status'[m] = "running" =>
           \/ status[m] = "running"
           \/ script[s].at = "startRunning" /\ script[s].model = m
  PROVE  RunningIsRoutable' /\ StartsHavePort' /\ PortsKept
<1>1. RunningIsRoutable'
  BY ConfigAssumption DEF RunningIsRoutable, StartsHavePort
<1>2. ASSUME NEW t \in Scripts, script'[t].at \in {"startLaunch", "startRunning"},
             script'[t].model \in WithPort
      PROVE  port[script'[t].model] # NoPort
  <2>1. CASE t = s
    BY <1>2, <2>1 DEF TypeOK, StartsHavePort
  <2>2. CASE t # s
    BY <1>2, <2>2 DEF TypeOK, StartsHavePort
  <2> QED
    BY <2>1, <2>2
<1> QED
  BY <1>1, <1>2 DEF StartsHavePort, PortsKept

(* A caller that goes elsewhere, or returns, is not about to start a       *)
(* script.                                                                 *)
LEMMA CallerGoesOn ==
  ASSUME TypeOK, NEW c \in Callers,
         \/ \E l \in CallLabels \ {"spawn"} : Goto(c, l)
         \/ \E l \in {"ok", "err"} : Finish(c, l)
  PROVE  \E new : call' = [call EXCEPT ![c] = new] /\ new.at # "spawn"
<1>0. call[c] \in CallType
  BY DEF TypeOK
<1>1. ASSUME NEW l \in CallLabels \ {"spawn"}, Goto(c, l)
      PROVE  \E new : call' = [call EXCEPT ![c] = new] /\ new.at # "spawn"
  <2>1. [call[c] EXCEPT !.at = l].at = l
    BY <1>0 DEF CallType
  <2> QED
    BY <1>1, <2>1 DEF Goto
<1>2. ASSUME NEW l \in {"ok", "err"}, Finish(c, l)
      PROVE  \E new : call' = [call EXCEPT ![c] = new] /\ new.at # "spawn"
  <2> DEFINE new == IF c \in Operators THEN NoCall ELSE [NoCall EXCEPT !.at = l]
  <2>1. call' = [call EXCEPT ![c] = new]
    BY <1>2 DEF Finish
  <2>2. new.at # "spawn"
    BY DEF NoCall
  <2> HIDE DEF new
  <2> QED
    BY <2>1, <2>2
<1> QED
  BY <1>1, <1>2

LEMMA CallStepRoutable ==
  ASSUME TypeOK, RunningIsRoutable, StartsHavePort, NEW c \in Callers, CallStep(c)
  PROVE  RunningIsRoutable' /\ StartsHavePort' /\ PortsKept
<1> DEFINE m == call[c].model
<1>0. call[c] \in CallType /\ (~Resting(c) => m \in Models)
  BY DEF TypeOK
<1>1. ASSUME NEW new, call' = [call EXCEPT ![c] = new],
             new.at = "spawn" /\ new.model \in WithPort => new.port # NoPort,
             UNCHANGED <<port, script>>, NoneNewlyRuns
      PROVE  RunningIsRoutable' /\ StartsHavePort' /\ PortsKept
  <2>1. PortsKept
    BY <1>1 DEF PortsKept
  <2> QED
    BY <1>1, <2>1, RoutableKept
<1>2. CASE \/ StartIfRunning(c) \/ StartIfStarting(c) \/ StopIfStopped(c) \/ StopIfStopping(c)
           \/ RestartIfError(c) \/ RestartIsRunning(c) \/ RestartIsStopping(c)
  <2>1. UNCHANGED <<port, script>> /\ NoneNewlyRuns
    BY <1>2 DEF StartIfRunning, StartIfStarting, StopIfStopped, StopIfStopping, RestartIfError,
       RestartIsRunning, RestartIsStopping, Branch, modelVars, NoneNewlyRuns
  <2>2. \E new : call' = [call EXCEPT ![c] = new] /\ new.at # "spawn"
    <3>1. \/ \E l \in CallLabels \ {"spawn"} : Goto(c, l)
          \/ \E l \in {"ok", "err"} : Finish(c, l)
      BY <1>2 DEF StartIfRunning, StartIfStarting, StopIfStopped, StopIfStopping,
         RestartIfError, RestartIsRunning, RestartIsStopping, Branch, AfterDecision, CallLabels
    <3> QED
      BY <3>1, CallerGoesOn
  <2> QED
    BY <1>1, <2>1, <2>2
<1>3. CASE StartSetStarting(c) \/ StopWithoutScript(c) \/ RestartSetStopped(c)
  <2>1. UNCHANGED <<port, script>> /\ NoneNewlyRuns
    BY <1>3, ConfigAssumption
       DEF StartSetStarting, StopWithoutScript, RestartSetStopped, SetStatus, NoneNewlyRuns, TypeOK
  <2>2. \E new : call' = [call EXCEPT ![c] = new] /\ new.at # "spawn"
    <3>1. \/ \E l \in CallLabels \ {"spawn"} : Goto(c, l)
          \/ \E l \in {"ok", "err"} : Finish(c, l)
      BY <1>3 DEF StartSetStarting, StopWithoutScript, RestartSetStopped, CallLabels
    <3> QED
      BY <3>1, CallerGoesOn
  <2> QED
    BY <1>1, <2>1, <2>2
<1>4. CASE StartSetStartedAt(c)
  <2> DEFINE new == [call[c] EXCEPT !.at = IF m \in WithPort THEN "allocate" ELSE "spawn"]
  <2>1. new.model = m /\ new.at = IF m \in WithPort THEN "allocate" ELSE "spawn"
    BY <1>0 DEF CallType
  <2>2. call' = [call EXCEPT ![c] = new] /\ UNCHANGED <<port, script, status>>
    BY <1>4 DEF StartSetStartedAt, Goto
  <2> HIDE DEF new
  <2> QED
    BY <1>1, <2>1, <2>2 DEF NoneNewlyRuns
<1>5. CASE StartAllocate(c)
  <2>1. PICK busy \in SUBSET Ports :
          call' = [call EXCEPT
                     ![c].at = IF AllocateResult(m, busy) = NoPort THEN "allocFailed" ELSE "spawn",
                     ![c].port = AllocateResult(m, busy)]
    BY <1>5 DEF StartAllocate
  <2> DEFINE p == AllocateResult(m, busy)
             new == [call[c] EXCEPT !.at = IF p = NoPort THEN "allocFailed" ELSE "spawn",
                                    !.port = p]
  <2>2. call' = [call EXCEPT ![c] = new] /\ UNCHANGED <<port, script, status>>
    BY <1>5, <2>1 DEF StartAllocate, modelVars, TypeOK
  <2>3. new.at = "spawn" => new.port # NoPort
    BY <1>0 DEF CallType
  <2> HIDE DEF new
  <2> QED
    BY <1>1, <2>2, <2>3 DEF NoneNewlyRuns
<1>6. CASE StartAllocFailed(c) \/ CallRelease(c)
  <2>1. UNCHANGED <<port, script>> /\ NoneNewlyRuns
    BY <1>6, ConfigAssumption
       DEF StartAllocFailed, CallRelease, SetStatus, NoneNewlyRuns, TypeOK, modelVars
  <2>2. \E new : call' = [call EXCEPT ![c] = new] /\ new.at # "spawn"
    <3>1. \/ \E l \in CallLabels \ {"spawn"} : Goto(c, l)
          \/ \E l \in {"ok", "err"} : Finish(c, l)
      BY <1>6 DEF StartAllocFailed, CallRelease, CallLabels
    <3> QED
      BY <3>1, CallerGoesOn
  <2> QED
    BY <1>1, <2>1, <2>2
<1>7. CASE RestartReadPort(c) \/ RestartScriptEnds(c)
  <2>1. UNCHANGED <<port, script>> /\ NoneNewlyRuns
    BY <1>7 DEF RestartReadPort, RestartScriptEnds, modelVars, NoneNewlyRuns
  <2>2. \E l \in {"restartScript", "setStopped"}, p \in Ports \cup {NoPort} :
           call' = [call EXCEPT ![c].at = l, ![c].port = p]
    BY <1>0, <1>7 DEF RestartReadPort, RestartScriptEnds, TypeOK, Resting
  <2>3. PICK l \in {"restartScript", "setStopped"}, p \in Ports \cup {NoPort} :
           call' = [call EXCEPT ![c].at = l, ![c].port = p]
    BY <2>2
  <2> DEFINE new == [call[c] EXCEPT !.at = l, !.port = p]
  <2>4. call' = [call EXCEPT ![c] = new] /\ new.at # "spawn"
    BY <1>0, <2>3 DEF TypeOK, CallType
  <2> HIDE DEF new
  <2> QED
    BY <1>1, <2>1, <2>4
<1>8. CASE StartSpawn(c)
  <2> DEFINE p == call[c].port
             new == [at |-> "startLaunch", model |-> m, port |-> p]
  <2>1. /\ c \in Callers /\ call[c].at = "spawn" /\ m \in Models /\ p \in Ports \cup {NoPort}
        /\ port' = IF p = NoPort THEN port ELSE [port EXCEPT ![m] = p]
        /\ UNCHANGED status
    BY <1>0, <1>8 DEF StartSpawn, Resting, CallType
  <2>2. PICK s \in Scripts : script[s] = NoScript /\ script' = [script EXCEPT ![s] = new]
    BY <1>8 DEF StartSpawn, Spawn
  <2>3. PortsKept
    BY <2>1 DEF PortsKept, TypeOK
  <2>4. RunningIsRoutable'
    BY <2>1, <2>3, ConfigAssumption DEF RunningIsRoutable, PortsKept
  <2>5. ASSUME NEW d \in Callers, call'[d].at = "spawn", call'[d].model \in WithPort
        PROVE  call'[d].port # NoPort
    <3>1. d # c
      <4>1. PICK other : call' = [call EXCEPT ![c] = other] /\ other.at # "spawn"
        BY <1>8, CallerGoesOn DEF StartSpawn
      <4> QED
        BY <2>5, <4>1 DEF TypeOK
    <3>2. call'[d] = call[d]
      BY <1>8, <3>1 DEF StartSpawn, Finish, TypeOK
    <3> QED
      BY <2>5, <3>2 DEF StartsHavePort
  <2>6. ASSUME NEW t \in Scripts, script'[t].at \in {"startLaunch", "startRunning"},
               script'[t].model \in WithPort
        PROVE  port'[script'[t].model] # NoPort
    <3>1. CASE t = s
      <4>1. script'[t].model = m
        BY <2>2, <3>1 DEF TypeOK
      <4>2. p # NoPort
        BY <2>1, <2>6, <4>1 DEF StartsHavePort
      <4> QED
        BY <2>1, <4>1, <4>2 DEF TypeOK
    <3>2. CASE t # s
      <4>1. script'[t] = script[t]
        BY <2>2, <3>2 DEF TypeOK
      <4> QED
        BY <2>3, <2>6, <4>1, ConfigAssumption DEF StartsHavePort, PortsKept
    <3> QED
      BY <3>1, <3>2
  <2> QED
    BY <2>3, <2>4, <2>5, <2>6 DEF StartsHavePort
<1>9. CASE StopWithScript(c)
  <2> DEFINE new == [at |-> "stopLaunch", model |-> m, port |-> NoPort]
  <2>1. UNCHANGED port /\ NoneNewlyRuns
    BY <1>9, ConfigAssumption DEF StopWithScript, SetStatus, NoneNewlyRuns, TypeOK
  <2>2. PICK s \in Scripts : script' = [script EXCEPT ![s] = new]
    BY <1>9 DEF StopWithScript, Spawn
  <2>3. PICK other : call' = [call EXCEPT ![c] = other] /\ other.at # "spawn"
    BY <1>9, CallerGoesOn DEF StopWithScript
  <2>4. ASSUME NEW d \in Callers, call'[d].at = "spawn", call'[d].model \in WithPort
        PROVE  call'[d].port # NoPort
    BY <2>3, <2>4 DEF TypeOK, StartsHavePort
  <2>5. ASSUME NEW t \in Scripts, script'[t].at \in {"startLaunch", "startRunning"},
               script'[t].model \in WithPort
        PROVE  port'[script'[t].model] # NoPort
    <3>1. t # s
      BY <2>2, <2>5 DEF TypeOK
    <3>2. script'[t] = script[t]
      BY <2>2, <3>1 DEF TypeOK
    <3> QED
      BY <2>1, <2>5, <3>2 DEF StartsHavePort
  <2>6. RunningIsRoutable' /\ PortsKept
    BY <2>1, ConfigAssumption DEF RunningIsRoutable, PortsKept, NoneNewlyRuns
  <2> QED
    BY <2>4, <2>5, <2>6 DEF StartsHavePort
<1> QED
  BY <1>2, <1>3, <1>4, <1>5, <1>6, <1>7, <1>8, <1>9 DEF CallStep

(* A script goroutine goes on to a script that runs only from its launch.  *)
GoesOnAs(s, new) ==
  /\ script' = [script EXCEPT ![s] = new]
  /\ new.at \in {"startLaunch", "startRunning"}
       => new.model = script[s].model /\ script[s].at \in {"startLaunch", "startRunning"}

LEMMA ScriptStepRoutable ==
  ASSUME TypeOK, RunningIsRoutable, StartsHavePort, NEW s \in Scripts, ScriptStep(s) \/ Notify(s)
  PROVE  RunningIsRoutable' /\ StartsHavePort' /\ PortsKept
<1>0. script[s] \in ScriptType
  BY DEF TypeOK
<1>1. UNCHANGED <<port, call>>
  BY DEF ScriptStep, StartPipeFails, StartScriptRuns, StartScriptFails, StartScriptSucceeds,
     StartTouches, StartFailureReleases, StopLaunchFails, StopScriptRuns, StopScriptEnds,
     StopReleases, Notify, modelVars
<1>2. ASSUME NEW m \in WithPort, status'[m] = "running"
      PROVE  status[m] = "running" \/ (script[s].at = "startRunning" /\ script[s].model = m)
  <2>1. m \in Models
    BY ConfigAssumption
  <2>2. CASE StartScriptSucceeds(s)
    BY <1>2, <2>1, <2>2 DEF StartScriptSucceeds, SetStatus, TypeOK
  <2>3. CASE StartPipeFails(s) \/ StartScriptFails(s) \/ StopLaunchFails(s) \/ StopScriptEnds(s)
    BY <1>2, <2>1, <2>3
       DEF StartPipeFails, StartScriptFails, StopLaunchFails, StopScriptEnds, SetStatus, TypeOK
  <2>4. CASE \/ StartScriptRuns(s) \/ StartTouches(s) \/ StartFailureReleases(s)
             \/ StopScriptRuns(s) \/ StopReleases(s) \/ Notify(s)
    BY <1>2, <2>4 DEF StartScriptRuns, StartTouches, StartFailureReleases, StopScriptRuns,
       StopReleases, Notify, modelVars
  <2> QED
    BY <2>2, <2>3, <2>4 DEF ScriptStep
<1>3. ASSUME NEW l \in ScriptLabels, Become(s, l),
             l = "startRunning" => script[s].at = "startLaunch", l # "startLaunch"
      PROVE  \E new : GoesOnAs(s, new)
  <2> DEFINE new == [script[s] EXCEPT !.at = l]
  <2>1. new.at = l /\ new.model = script[s].model
    BY <1>0 DEF ScriptType
  <2>2. script' = [script EXCEPT ![s] = new]
    BY <1>3 DEF Become
  <2> HIDE DEF new
  <2>3. GoesOnAs(s, new)
    BY <1>3, <2>1, <2>2 DEF GoesOnAs
  <2> QED
    BY <2>3
<1>4. ASSUME Vanish(s) PROVE \E new : GoesOnAs(s, new)
  <2>1. GoesOnAs(s, NoScript)
    BY <1>4 DEF Vanish, NoScript, GoesOnAs
  <2> QED
    BY <2>1
<1>5. ASSUME StopScriptRuns(s) PROVE \E new : GoesOnAs(s, new)
  <2> DEFINE new == [script[s] EXCEPT !.at = "stopRunning", !.port = port[script[s].model]]
  <2>1. new.at = "stopRunning"
    BY <1>0 DEF ScriptType
  <2>2. script' = [script EXCEPT ![s] = new]
    BY <1>5 DEF StopScriptRuns, TypeOK
  <2> HIDE DEF new
  <2>3. GoesOnAs(s, new)
    BY <2>1, <2>2 DEF GoesOnAs
  <2> QED
    BY <2>3
<1>6. ASSUME ~StopScriptRuns(s) PROVE \E new : GoesOnAs(s, new)
  <2>1. \/ Vanish(s)
        \/ \E l \in ScriptLabels : /\ Become(s, l) /\ l # "startLaunch"
                                   /\ l = "startRunning" => script[s].at = "startLaunch"
    BY <1>6 DEF ScriptStep, StartPipeFails, StartScriptRuns, StartScriptFails,
       StartScriptSucceeds, StartTouches, StartFailureReleases, StopLaunchFails, StopScriptEnds,
       StopReleases, Notify, ScriptLabels
  <2> QED
    BY <1>3, <1>4, <2>1
<1>7. PICK new : GoesOnAs(s, new)
  BY <1>5, <1>6
<1> QED
  BY <1>1, <1>2, <1>7, RoutableKeptByScript DEF GoesOnAs

LEMMA BeginRoutable ==
  ASSUME TypeOK, RunningIsRoutable, StartsHavePort,
         NEW c \in Callers, NEW m \in Models, NEW op \in DOMAIN Entry, Begin(c, m, op)
  PROVE  RunningIsRoutable' /\ StartsHavePort' /\ PortsKept
<1> DEFINE new == [NoCall EXCEPT !.at = Entry[op], !.model = m]
<1>1. new.at # "spawn"
  BY DEF Entry, NoCall
<1>2. call' = [call EXCEPT ![c] = new] /\ UNCHANGED <<port, script, status>>
  BY DEF Begin, modelVars
<1>3. PortsKept /\ NoneNewlyRuns
  BY <1>2 DEF PortsKept, NoneNewlyRuns
<1> HIDE DEF new
<1> QED
  BY <1>1, <1>2, <1>3, RoutableKept

(* Once a check has an address, it keeps it.                               *)
LEMMA TargetsKept ==
  ASSUME MonitorsTypeOK, ChecksHaveTarget, PortsKept, UNCHANGED check
  PROVE  ChecksHaveTarget'
<1>1. ASSUME NEW k \in Checkers, check[k].at \in {"probe", "promote"}
      PROVE  Addressable(check[k].model)'
  <2>1. check[k].model \in Models
    BY <1>1, ConfigAssumption DEF MonitorsTypeOK
  <2> QED
    BY <1>1, <2>1 DEF ChecksHaveTarget, Addressable, PortsKept
<1> QED
  BY <1>1 DEF ChecksHaveTarget

LEMMA CheckStepRoutable ==
  ASSUME RoutableInv, NEW k \in Checkers, CheckStep(k) \/ CheckNotifies(k)
  PROVE  RunningIsRoutable' /\ StartsHavePort' /\ ChecksHaveTarget'
<1> DEFINE m == check[k].model
<1>0. /\ TypeOK /\ check \in [Checkers -> CheckType]
      /\ check[k].at # "idle" => m \in Models
  BY ConfigAssumption DEF RoutableInv, MonitorsTypeOK, CheckType
<1>1. /\ UNCHANGED <<port, call, script>>
      /\ \A n \in WithPort : status'[n] = "running" =>
            status[n] = "running" \/ (check[k].at = "promote" /\ n = m)
  <2>1. WithPort \subseteq Models
    BY ConfigAssumption
  <2>2. CASE CheckPromotes(k)
    BY <1>0, <2>1, <2>2 DEF CheckPromotes, SetStatus, TypeOK
  <2>3. CASE ~CheckPromotes(k)
    BY <2>3 DEF CheckStep, CheckReadsStatus, CheckStartDelay, CheckEndpoint, ProbeFails,
       ProbeSucceeds, CheckTouches, CheckNotifies, vars, modelVars
  <2> QED
    BY <2>2, <2>3
<1>2. RunningIsRoutable'
  BY <1>1, MonitorsAssumption, ConfigAssumption
     DEF RoutableInv, RunningIsRoutable, ChecksHaveTarget, Addressable, OverrideWithPort
<1>3. StartsHavePort'
  BY <1>1 DEF RoutableInv, StartsHavePort
<1>4. ASSUME NEW j \in Checkers, check'[j].at \in {"probe", "promote"}
      PROVE  Addressable(check'[j].model)
  <2>1. CASE j # k
    <3>1. check'[j] = check[j]
      BY <1>0, <2>1 DEF CheckStep, CheckReadsStatus, CheckStartDelay, CheckEndpoint, ProbeFails,
         ProbeSucceeds, CheckPromotes, CheckTouches, CheckNotifies, CheckGoto, CheckEnds
    <3> QED
      BY <1>4, <3>1 DEF RoutableInv, ChecksHaveTarget
  <2>2. CASE j = k
    <3>1. CASE CheckReadsStatus(k)
      BY <1>0, <1>4, <2>2, <3>1 DEF CheckReadsStatus, CheckType
    <3>2. CASE CheckEnds(k)
      BY <1>0, <1>4, <2>2, <3>2 DEF CheckEnds, NoCheck
    <3>3. ASSUME NEW l, CheckGoto(k, l), l \in {"probe", "promote"} => Addressable(m)
          PROVE  Addressable(check'[j].model)
      <4> DEFINE new == [check[k] EXCEPT !.at = l]
      <4>1. new.at = l /\ new.model = m
        BY <1>0 DEF CheckType
      <4>2. check'[j] = new
        BY <1>0, <2>2, <3>3 DEF CheckGoto
      <4> HIDE DEF new, m
      <4> QED
        BY <1>4, <3>3, <4>1, <4>2
    <3>4. CheckReadsStatus(k) \/ CheckEnds(k)
            \/ \E l : CheckGoto(k, l) /\ (l \in {"probe", "promote"} => Addressable(m))
      <4>1. CASE CheckStartDelay(k)
        BY <4>1 DEF CheckStartDelay
      <4>2. CASE CheckEndpoint(k)
        BY <4>2 DEF CheckEndpoint
      <4>3. CASE ProbeSucceeds(k)
        BY <4>3 DEF ProbeSucceeds, RoutableInv, ChecksHaveTarget
      <4>4. CASE CheckPromotes(k) \/ CheckTouches(k)
        BY <4>4 DEF CheckPromotes, CheckTouches
      <4>5. CASE CheckReadsStatus(k) \/ ProbeFails(k) \/ CheckNotifies(k)
        BY <4>5 DEF ProbeFails, CheckNotifies
      <4> QED
        BY <4>1, <4>2, <4>3, <4>4, <4>5 DEF CheckStep
    <3> QED
      BY <3>1, <3>2, <3>3, <3>4
  <2> QED
    BY <2>1, <2>2
<1>5. ChecksHaveTarget'
  BY <1>1, <1>4 DEF ChecksHaveTarget, Addressable
<1> QED
  BY <1>2, <1>3, <1>5

LEMMA RoutableInitial == MonitorsInit => RoutableInv
<1> SUFFICES ASSUME MonitorsInit PROVE RoutableInv
  OBVIOUS
<1>1. MonitorsTypeOK
  BY MonitorsInitType
<1>2. RunningIsRoutable
  BY ConfigAssumption DEF MonitorsInit, Init, RunningIsRoutable
<1>3. StartsHavePort /\ ChecksHaveTarget
  BY DEF MonitorsInit, Init, StartsHavePort, ChecksHaveTarget, NoCall, NoScript, NoCheck
<1> QED
  BY <1>1, <1>2, <1>3 DEF RoutableInv

LEMMA RoutableStep == RoutableInv /\ [MonitorsNext]_monitorVars => RoutableInv'
<1> SUFFICES ASSUME RoutableInv, [MonitorsNext]_monitorVars PROVE RoutableInv'
  OBVIOUS
<1>0. /\ MonitorsTypeOK /\ TypeOK /\ RunningIsRoutable /\ StartsHavePort /\ ChecksHaveTarget
      /\ MonitorsTypeOK'
  BY MonitorsNextType DEF RoutableInv, MonitorsTypeOK
<1>1. ASSUME RunningIsRoutable', StartsHavePort', PortsKept, UNCHANGED check
      PROVE  RoutableInv'
  BY <1>0, <1>1, TargetsKept DEF RoutableInv
<1>2. CASE Step /\ UNCHANGED <<due, check>>
  <2>1. Operators \subseteq Callers
    BY DEF Callers
  <2> QED
    BY <1>0, <1>1, <1>2, <2>1, BeginRoutable, CallStepRoutable, ScriptStepRoutable DEF Step
<1>3. ASSUME UNCHANGED <<status, port, call, script, check>> PROVE RoutableInv'
  <2>1. RunningIsRoutable' /\ StartsHavePort' /\ PortsKept
    BY <1>0, <1>3 DEF RunningIsRoutable, StartsHavePort, PortsKept
  <2> QED
    BY <1>1, <1>3, <2>1
<1>4. ASSUME NEW m \in Models, SettleTick(m) \/ IdleTick(m) \/ Activity(m) PROVE RoutableInv'
  BY <1>3, <1>4 DEF SettleTick, IdleTick, Activity
<1>5. CASE ScanTTLs
  BY <1>3, <1>5 DEF ScanTTLs, vars, modelVars
<1>6. ASSUME NEW n \in Names, ExamineTTL(n) PROVE RoutableInv'
  <2>1. Reaper \in Callers /\ ModelOf[n] \in Models /\ "stop" \in DOMAIN Entry
    BY MonitorsAssumption DEF Callers, Entry
  <2>2. CASE Begin(Reaper, ModelOf[n], "stop")
    BY <1>0, <1>1, <1>6, <2>1, <2>2, BeginRoutable DEF ExamineTTL
  <2>3. CASE UNCHANGED vars
    BY <1>3, <1>6, <2>3 DEF ExamineTTL, vars, modelVars
  <2> QED
    BY <1>6, <2>2, <2>3 DEF ExamineTTL
<1>7. ASSUME NEW k \in Checkers, CheckStep(k) \/ CheckNotifies(k) PROVE RoutableInv'
  BY <1>0, <1>7, CheckStepRoutable DEF RoutableInv
<1>8. ASSUME NEW k \in Checkers, NEW m \in Models, Schedule(k, m) PROVE RoutableInv'
  <2>1. RunningIsRoutable' /\ StartsHavePort' /\ UNCHANGED port
    BY <1>0, <1>8 DEF Schedule, vars, modelVars, RunningIsRoutable, StartsHavePort
  <2>2. \A j \in Checkers : check'[j].at \in {"probe", "promote"} => check'[j] = check[j]
    BY <1>0, <1>8 DEF Schedule, NoCheck, MonitorsTypeOK
  <2>3. ChecksHaveTarget'
    BY <1>0, <2>1, <2>2 DEF ChecksHaveTarget, Addressable
  <2> QED
    BY <1>0, <2>1, <2>3 DEF RoutableInv
<1>9. ASSUME NEW s \in Scripts, Notify(s), UNCHANGED <<due, check>> PROVE RoutableInv'
  BY <1>0, <1>1, <1>9, ScriptStepRoutable
<1>10. CASE UNCHANGED monitorVars
  BY <1>3, <1>10 DEF monitorVars, vars, modelVars
<1> QED
  BY <1>2, <1>4, <1>5, <1>6, <1>7, <1>8, <1>9, <1>10 DEF MonitorsNext, MonitorsStep

(* The proxy finds a target for a running model whose start script names   *)
(* ${PORT}, however health checks and starts and stops overlap             *)
(* (manager.go:122-194, proxy.go:178-196).                                 *)
THEOREM RoutableCorrect == MonitorsSpec => []RunningIsRoutable
<1>1. RoutableInv => RunningIsRoutable
  BY DEF RoutableInv
<1> QED
  BY <1>1, RoutableInitial, RoutableStep, PTL DEF MonitorsSpec

-----------------------------------------------------------------------------
(* To the manager's own invariants a background task is a call, or an      *)
(* Aside: a check that promotes a model whatever its status, or a clock.   *)
LEMMA MonitorsAside ==
  ASSUME MonitorsTypeOK, [MonitorsNext]_monitorVars
  PROVE  [Next]_vars \/ Aside
<1>0. TypeOK
  BY DEF MonitorsTypeOK
<1>1. ASSUME UNCHANGED <<allocated, status, call, script>> PROVE Aside
  BY <1>1 DEF Aside
<1>2. CASE Step \/ \E s \in Scripts : Notify(s)
  BY <1>2 DEF Next
<1>3. ASSUME NEW m \in Models, SettleTick(m) \/ IdleTick(m) \/ Activity(m) PROVE Aside
  BY <1>1, <1>3 DEF SettleTick, IdleTick, Activity
<1>4. CASE ScanTTLs \/ UNCHANGED monitorVars \/ \E k \in Checkers, m \in Models : Schedule(k, m)
  BY <1>4 DEF ScanTTLs, monitorVars, Schedule
<1>5. ASSUME NEW n \in Names, ExamineTTL(n) PROVE UNCHANGED vars \/ Aside
  <2>1. ASSUME Begin(Reaper, ModelOf[n], "stop") PROVE Aside
    <3>1. /\ Reaper \in Callers /\ Resting(Reaper) /\ UNCHANGED <<allocated, status, script>>
          /\ \E new : call' = [call EXCEPT ![Reaper] = new]
      BY <2>1, MonitorsAssumption DEF Begin, Callers, modelVars
    <3> QED
      BY <3>1 DEF Aside
  <2> QED
    BY <1>5, <2>1 DEF ExamineTTL
<1>6. ASSUME NEW k \in Checkers, CheckStep(k) \/ CheckNotifies(k) PROVE UNCHANGED vars \/ Aside
  <2>1. CASE CheckPromotes(k)
    <3>1. UNCHANGED <<allocated, call, script>> /\ SetStatus(check[k].model, "running")
      BY <2>1 DEF CheckPromotes
    <3> QED
      BY <1>0, <3>1 DEF SetStatus, TypeOK, Aside
  <2>2. CASE CheckEndpoint(k) \/ ProbeFails(k) \/ ProbeSucceeds(k) \/ CheckTouches(k)
    BY <1>1, <2>2 DEF CheckEndpoint, ProbeFails, ProbeSucceeds, CheckTouches
  <2>3. CASE CheckReadsStatus(k) \/ CheckStartDelay(k) \/ CheckNotifies(k)
    BY <2>3 DEF CheckReadsStatus, CheckStartDelay, CheckNotifies
  <2> QED
    BY <1>6, <2>1, <2>2, <2>3 DEF CheckStep
<1> QED
  BY <1>2, <1>3, <1>4, <1>5, <1>6 DEF MonitorsNext, MonitorsStep
=============================================================================

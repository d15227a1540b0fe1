------------------------- MODULE Serialized_proofs --------------------------
(***************************************************************************)
(* What the manager promises to clients whose calls about one model do not *)
(* overlap (Serialized), for any models, ports, clients and goroutines.    *)
(***************************************************************************)
EXTENDS Lifecycle_proofs

(* A call or goroutine at work on a model is the only one.                 *)
OneWorker(m) ==
  /\ \A c, d \in Callers : call[c].model = m /\ call[d].model = m => c = d
  /\ \A s, t \in Scripts : script[s].model = m /\ script[t].model = m => s = t
  /\ \A c \in Callers, s \in Scripts : ~(call[c].model = m /\ script[s].model = m)

LeaseOK(m) ==
  /\ m \in WithPort /\ status[m] = "running" => port[m] \in HeldBy(m)
  /\ m \notin WithPort => port[m] = NoPort

(* What the status of its model is while a call or goroutine is at a label. *)
Fits(label, st) ==
  /\ label \in {"setStartedAt", "allocate", "allocFailed", "spawn", "startLaunch", "startRunning"}
       => st = "starting"
  /\ label \in {"readStopPort", "restartScript", "setStopped"} => st = "running"
  /\ label \in {"stopLaunch", "stopRunning"} => st = "stopping"
  /\ label \in {"release", "releaseError", "releaseRestart", "stopRelease"} => st = "stopped"
  /\ label \in {"resetError", "failRelease"} => st = "error"
  /\ label = "ifStarting" => st # "running"
  /\ label = "setStarting" => st \in {"stopped", "error"}
  /\ label = "ifStopping" => st # "stopped"
  /\ label = "setStopping" => st \in {"starting", "running", "error"}

CallOK(c) ==
  LET m == call[c].model IN
  /\ m \in Managed \cup {NoModel}
  /\ Fits(call[c].at, status[m])
  /\ call[c].at = "allocate" => m \in WithPort
  /\ call[c].at = "spawn" => (m \in WithPort <=> call[c].port # NoPort)
  /\ call[c].port # NoPort => call[c].at \in {"spawn", "restartScript"} /\ call[c].port \in HeldBy(m)

ScriptOK(s) ==
  LET m == script[s].model IN
  /\ m \in Managed \cup {NoModel}
  /\ Fits(script[s].at, status[m])
  /\ script[s].at \in {"startLaunch", "startRunning"} =>
       /\ m \in WithPort => script[s].port = port[m] /\ port[m] \in HeldBy(m)
       /\ m \notin WithPort => script[s].port = NoPort

SerialInv ==
  /\ Serialized
  /\ \A m \in Models : OneWorker(m) /\ LeaseOK(m)
  /\ \A c \in Callers : CallOK(c)
  /\ \A s \in Scripts : ScriptOK(s)

-----------------------------------------------------------------------------
(* What a step on one model leaves alone.                                  *)
Confined(m) ==
  \A n \in Models :
    n # m => status'[n] = status[n] /\ port'[n] = port[n] /\ HeldBy(n)' = HeldBy(n)

OnlyCall(c) == UNCHANGED script /\ \A d \in Callers : d # c => call'[d] = call[d]
OnlyScript(s) == UNCHANGED call /\ \A t \in Scripts : t # s => script'[t] = script[t]

(* A step on one model, of workers of that model only, keeps what holds of *)
(* all others.                                                             *)
LEMMA OthersKept ==
  ASSUME TypeOK, SerialInv, NEW m \in Models, Confined(m), LeaseOK(m)', OneWorker(m)',
         \A d \in Callers :
           \/ call'[d] = call[d] /\ call[d].model # m
           \/ call'[d].model \in {m, NoModel} /\ CallOK(d)',
         \A t \in Scripts :
           \/ script'[t] = script[t] /\ script[t].model # m
           \/ script'[t].model \in {m, NoModel} /\ ScriptOK(t)'
  PROVE  SerialInv'
<1>1. ASSUME NEW n \in Models PROVE OneWorker(n)' /\ LeaseOK(n)'
  <2>1. CASE n = m
    BY <2>1
  <2>2. CASE n # m
    <3>1. LeaseOK(n)'
      BY <2>2 DEF Confined, SerialInv, LeaseOK
    <3>2. /\ \A d \in Callers : call'[d].model = n => call[d].model = n
          /\ \A t \in Scripts : script'[t].model = n => script[t].model = n
      BY <2>2, NoModelAssumption
    <3>3. OneWorker(n)'
      BY <3>2 DEF SerialInv, OneWorker
    <3> QED
      BY <3>1, <3>3
  <2> QED
    BY <2>1, <2>2
<1>2. ASSUME NEW d \in Callers PROVE CallOK(d)'
  <2>1. CASE call'[d] = call[d] /\ call[d].model # m
    <3>1. call[d].model \in Models \/ call[d].at \in {"idle", "ok", "err"}
      BY DEF TypeOK, Resting
    <3>2. CASE call[d].model \in Models
      BY <2>1, <3>2 DEF Fits, SerialInv, CallOK, Confined
    <3>3. CASE call[d].at \in {"idle", "ok", "err"}
      BY <2>1, <3>3 DEF Fits, SerialInv, CallOK
    <3> QED
      BY <3>1, <3>2, <3>3
  <2> QED
    BY <2>1
<1>3. ASSUME NEW t \in Scripts PROVE ScriptOK(t)'
  <2>1. CASE script'[t] = script[t] /\ script[t].model # m
    <3>1. CASE script[t].at = "free"
      BY <2>1, <3>1 DEF Fits, SerialInv, ScriptOK
    <3>2. CASE script[t].at # "free"
      BY <2>1, <3>2 DEF Fits, TypeOK, SerialInv, ScriptOK, Confined
    <3> QED
      BY <3>1, <3>2
  <2> QED
    BY <2>1
<1> QED
  BY <1>1, <1>2, <1>3 DEF SerialInv

LEMMA AtWork ==
  ASSUME TypeOK, SerialInv
  PROVE  /\ \A c \in Callers : call[c].at \notin {"idle", "ok", "err"} =>
              call[c].model \in Models /\ call[c].model \in Managed
         /\ \A s \in Scripts : script[s].at # "free" =>
              script[s].model \in Models /\ script[s].model \in Managed
BY NoModelAssumption DEF TypeOK, SerialInv, CallOK, ScriptOK, Resting

LEMMA CallMoves ==
  ASSUME TypeOK, SerialInv, NEW m \in Models, NEW c \in Callers, call[c].model = m, OnlyCall(c),
         Confined(m), LeaseOK(m)', CallOK(c)', call'[c].model \in {m, NoModel}
  PROVE  SerialInv'
<1>1. OneWorker(m)
  BY DEF SerialInv
<1>2. \A d \in Callers : d # c => call'[d] = call[d] /\ call[d].model # m
  BY <1>1 DEF OneWorker, OnlyCall
<1>3. \A t \in Scripts : script'[t] = script[t] /\ script[t].model # m
  BY <1>1 DEF OneWorker, OnlyCall
<1>4. OneWorker(m)'
  BY <1>2, <1>3 DEF OneWorker
<1> QED
  BY <1>2, <1>3, <1>4, OthersKept

LEMMA ScriptMoves ==
  ASSUME TypeOK, SerialInv, NEW m \in Models, NEW s \in Scripts, script[s].model = m, OnlyScript(s),
         Confined(m), LeaseOK(m)', ScriptOK(s)', script'[s].model \in {m, NoModel}
  PROVE  SerialInv'
<1>1. OneWorker(m)
  BY DEF SerialInv
<1>2. \A t \in Scripts : t # s => script'[t] = script[t] /\ script[t].model # m
  BY <1>1 DEF OneWorker, OnlyScript
<1>3. \A d \in Callers : call'[d] = call[d] /\ call[d].model # m
  BY <1>1 DEF OneWorker, OnlyScript
<1>4. OneWorker(m)'
  BY <1>2, <1>3 DEF OneWorker
<1> QED
  BY <1>2, <1>3, <1>4, OthersKept

(* A call hands its model over to a goroutine.                             *)
LEMMA HandOver ==
  ASSUME TypeOK, SerialInv, NEW m \in Models, NEW c \in Callers, call[c].model = m,
         NEW label \in ScriptLabels \ {"free"}, NEW p, Spawn(label, m, p), Finish(c, "ok"),
         Confined(m), LeaseOK(m)',
         \A s \in Scripts : script'[s] = [at |-> label, model |-> m, port |-> p] => ScriptOK(s)'
  PROVE  SerialInv'
<1>1. PICK s \in Scripts :
        /\ script[s] = NoScript
        /\ script' = [script EXCEPT ![s] = [at |-> label, model |-> m, port |-> p]]
  BY DEF Spawn
<1>2. OneWorker(m) /\ m # NoModel
  BY NoModelAssumption DEF SerialInv
<1>3. \A t \in Scripts : t # s => script'[t] = script[t] /\ script[t].model # m
  BY <1>1, <1>2 DEF OneWorker, TypeOK
<1>4. script'[s] = [at |-> label, model |-> m, port |-> p]
  BY <1>1 DEF TypeOK
<1>5. /\ call'[c].model = NoModel /\ call'[c].port = NoPort /\ call'[c].at \in {"idle", "ok"}
      /\ \A d \in Callers : d # c => call'[d] = call[d] /\ call[d].model # m
  BY <1>2 DEF Finish, NoCall, TypeOK, OneWorker
<1>6. CallOK(c)' /\ ScriptOK(s)'
  BY <1>4, <1>5 DEF Fits, CallOK
<1>7. OneWorker(m)'
  BY <1>2, <1>3, <1>4, <1>5 DEF OneWorker
<1> QED
  BY <1>3, <1>4, <1>5, <1>6, <1>7, OthersKept

-----------------------------------------------------------------------------
(* The pieces steps are made of.                                           *)
LEMMA GotoMoves ==
  ASSUME TypeOK, NEW c \in Callers, NEW label, Goto(c, label), UNCHANGED script
  PROVE  /\ OnlyCall(c)
         /\ call'[c].at = label /\ call'[c].model = call[c].model /\ call'[c].port = call[c].port
<1>1. call[c] \in CallType /\ call \in [Callers -> CallType]
  BY DEF TypeOK
<1> QED
  BY <1>1 DEF Goto, OnlyCall, CallType

LEMMA FinishMoves ==
  ASSUME TypeOK, NEW c \in Callers, NEW outcome \in {"ok", "err"}, Finish(c, outcome),
         UNCHANGED script
  PROVE  /\ OnlyCall(c) /\ CallOK(c)'
         /\ call'[c].at \in {"idle", "ok", "err"}
         /\ call'[c].model = NoModel /\ call'[c].port = NoPort
<1>1. /\ OnlyCall(c) /\ call'[c].at \in {"idle", "ok", "err"}
      /\ call'[c].model = NoModel /\ call'[c].port = NoPort
  BY DEF TypeOK, Finish, OnlyCall, NoCall
<1> QED
  BY <1>1 DEF Fits, CallOK

LEMMA BecomeMoves ==
  ASSUME TypeOK, NEW s \in Scripts, NEW label, Become(s, label), UNCHANGED call
  PROVE  /\ OnlyScript(s) /\ script'[s].at = label
         /\ script'[s].model = script[s].model /\ script'[s].port = script[s].port
<1>1. script[s] \in ScriptType /\ script \in [Scripts -> ScriptType]
  BY DEF TypeOK
<1> QED
  BY <1>1 DEF Become, OnlyScript, ScriptType

LEMMA VanishMoves ==
  ASSUME TypeOK, NEW s \in Scripts, Vanish(s), UNCHANGED call
  PROVE  OnlyScript(s) /\ ScriptOK(s)' /\ script'[s].model = NoModel
<1>1. OnlyScript(s) /\ script'[s] = NoScript
  BY DEF TypeOK, Vanish, OnlyScript
<1> QED
  BY <1>1 DEF Fits, ScriptOK, NoScript

LEMMA StatusMoves ==
  ASSUME TypeOK, NEW m \in Models, NEW new, SetStatus(m, new), UNCHANGED <<allocated, port>>
  PROVE  Confined(m) /\ status'[m] = new /\ HeldBy(m)' = HeldBy(m)
BY DEF TypeOK, SetStatus, Confined, HeldBy

LEMMA NothingMoves ==
  ASSUME NEW m \in Models, UNCHANGED <<allocated, status, port>>
  PROVE  Confined(m) /\ HeldBy(m)' = HeldBy(m) /\ (LeaseOK(m) => LeaseOK(m)')
BY DEF Confined, HeldBy, LeaseOK

LEMMA ReleaseMoves ==
  ASSUME TypeOK, NEW m \in Models, Release(m), UNCHANGED <<status, port>>
  PROVE  Confined(m)
<1>1. ASSUME NEW n \in Models, n # m PROVE HeldBy(n)' = HeldBy(n)
  BY <1>1, NoModelAssumption DEF Release, HeldBy, TypeOK, AllocatorTypeOK
<1> QED
  BY <1>1 DEF Confined

LEMMA GrantMoves ==
  ASSUME TypeOK, NEW m \in Models, NEW p \in Ports \cup {NoPort}, Grant(m, p),
         p # NoPort => allocated[p] \in {m, NoModel}, UNCHANGED <<status, port>>
  PROVE  Confined(m) /\ HeldBy(m) \subseteq HeldBy(m)' /\ (p # NoPort => p \in HeldBy(m)')
<1>1. ASSUME NEW n \in Models, n # m PROVE HeldBy(n)' = HeldBy(n)
  BY <1>1, NoModelAssumption DEF Grant, HeldBy, TypeOK, AllocatorTypeOK
<1>2. HeldBy(m) \subseteq HeldBy(m)' /\ (p # NoPort => p \in HeldBy(m)')
  BY PortsAssumption DEF Grant, HeldBy, TypeOK, AllocatorTypeOK, NoPort
<1> QED
  BY <1>1, <1>2 DEF Confined

-----------------------------------------------------------------------------
(* The steps of calls.                                                     *)
LEMMA BranchKeeps ==
  ASSUME TypeOK, SerialInv, StoppingHasOwner, NEW c \in Callers,
         \/ StartIfRunning(c) \/ StartIfStarting(c) \/ StopIfStopped(c) \/ StopIfStopping(c)
         \/ RestartIfError(c) \/ RestartIsRunning(c) \/ RestartIsStopping(c)
  PROVE  SerialInv'
<1> DEFINE Ask == {"ifRunning", "ifStarting", "ifStopped", "ifStopping", "ifError", "isRunning",
                   "isStopping"}
           Go == {"ifRunning", "ifStarting", "setStarting", "ifStopping", "setStopping", "resetError",
                  "isRunning", "isStopping", "readStopPort", "setStopped"}
<1>1. PICK m \in Models : m \in Managed /\ call[c].model = m /\ call[c].at \in Ask
  BY AtWork DEF StartIfRunning, StartIfStarting, StopIfStopped, StopIfStopping, RestartIfError,
     RestartIsRunning, RestartIsStopping, Branch, TypeOK, Resting
<1>2. UNCHANGED <<allocated, status, port, script>>
  BY DEF StartIfRunning, StartIfStarting, StopIfStopped, StopIfStopping, RestartIfError,
     RestartIsRunning, RestartIsStopping, Branch, modelVars
<1>3. /\ call[c].port = NoPort
      /\ LeaseOK(m) /\ OneWorker(m)
  BY <1>1 DEF Fits, SerialInv, CallOK
<1>4. status[m] # "stopping"
  <2> SUFFICES ASSUME status[m] = "stopping" PROVE FALSE
    OBVIOUS
  <2>1. \E s \in Scripts : script[s].model = m
    BY DEF StoppingHasOwner, ScriptAt
  <2> QED
    BY <1>1, <1>3, <2>1 DEF OneWorker
<1>5. status[m] \in Statuses /\ Fits(call[c].at, status[m])
  BY <1>1 DEF TypeOK, SerialInv, CallOK
<1>s. \/ \E outcome \in {"ok", "err"} : Finish(c, outcome)
      \/ \E label \in Go : Goto(c, label) /\ Fits(label, status[m])
  BY <1>1, <1>4, <1>5 DEF StartIfRunning, StartIfStarting, StopIfStopped, StopIfStopping,
     RestartIfError, RestartIsRunning, RestartIsStopping, Branch, AfterDecision, Fits, Statuses
<1>6. Confined(m) /\ LeaseOK(m)'
  BY <1>2, <1>3, NothingMoves
<1>7. CASE \E outcome \in {"ok", "err"} : Finish(c, outcome)
  BY <1>1, <1>2, <1>6, <1>7, FinishMoves, CallMoves
<1>8. ASSUME NEW label \in Go, Goto(c, label), Fits(label, status[m])
      PROVE  SerialInv'
  <2>1. OnlyCall(c) /\ call'[c].at = label /\ call'[c].model = m /\ call'[c].port = NoPort
    BY <1>1, <1>2, <1>3, <1>8, GotoMoves
  <2>2. CallOK(c)'
    BY <1>1, <1>2, <1>8, <2>1 DEF CallOK
  <2> QED
    BY <1>1, <1>6, <2>1, <2>2, CallMoves
<1> QED
  BY <1>s, <1>7, <1>8

LEMMA AllocateKeeps ==
  ASSUME TypeOK, SerialInv, NEW c \in Callers, StartAllocate(c)
  PROVE  SerialInv'
<1>1. PICK m \in Models : m \in Managed /\ call[c].model = m
  BY AtWork DEF StartAllocate, TypeOK, Resting
<1>2. PICK busy \in SUBSET Ports :
        LET p == AllocateResult(m, busy) IN
        /\ Grant(m, p)
        /\ call' = [call EXCEPT ![c].at = IF p = NoPort THEN "allocFailed" ELSE "spawn", ![c].port = p]
  BY <1>1 DEF StartAllocate
<1> DEFINE p == AllocateResult(m, busy)
<1>3. p \in Ports \cup {NoPort} /\ (p # NoPort => allocated[p] \in {m, NoModel})
  BY AllocateResultProperty DEF TypeOK, HeldBy
<1>4. /\ OnlyCall(c) /\ call'[c].model = m /\ call'[c].port = p
      /\ call'[c].at = IF p = NoPort THEN "allocFailed" ELSE "spawn"
  <2>1. call[c] \in CallType /\ call \in [Callers -> CallType] /\ UNCHANGED script
    BY DEF TypeOK, StartAllocate
  <2> HIDE DEF p
  <2>2. call' = [call EXCEPT ![c].at = IF p = NoPort THEN "allocFailed" ELSE "spawn", ![c].port = p]
    BY <1>2 DEF p
  <2> QED
    BY <1>1, <2>1, <2>2 DEF OnlyCall, CallType
<1>5. Grant(m, p)
  BY <1>2
<1> HIDE DEF p
<1>6. UNCHANGED <<status, port>> /\ call[c].at = "allocate"
  BY DEF StartAllocate, modelVars
<1>7. Confined(m) /\ HeldBy(m) \subseteq HeldBy(m)' /\ (p # NoPort => p \in HeldBy(m)')
  BY <1>3, <1>5, <1>6, GrantMoves
<1>8. LeaseOK(m)' /\ m \in WithPort
  BY <1>1, <1>6, <1>7 DEF Fits, SerialInv, LeaseOK, CallOK
<1>9. CallOK(c)'
  BY <1>1, <1>4, <1>6, <1>7, <1>8 DEF Fits, SerialInv, CallOK
<1> QED
  BY <1>1, <1>4, <1>7, <1>8, <1>9, CallMoves

(* The steps that set the status, to something other than running.         *)
LEMMA CallSetsStatusKeeps ==
  ASSUME TypeOK, SerialInv, NEW c \in Callers,
         \/ StartSetStarting(c) \/ StartAllocFailed(c) \/ StopWithoutScript(c) \/ RestartSetStopped(c)
  PROVE  SerialInv'
<1>1. PICK m \in Models : /\ m \in Managed /\ call[c].model = m
                         /\ call[c].at \in {"setStarting", "allocFailed", "setStopping", "resetError",
                                           "setStopped"}
  BY AtWork DEF StartSetStarting, StartAllocFailed, StopWithoutScript, RestartSetStopped, TypeOK, Resting
<1>2. call[c].port = NoPort /\ LeaseOK(m) /\ UNCHANGED <<allocated, port, script>>
  BY <1>1 DEF Fits, SerialInv, CallOK, StartSetStarting, StartAllocFailed, StopWithoutScript,
     RestartSetStopped
<1>3. ASSUME NEW new \in {"starting", "error", "stopped"}, SetStatus(m, new)
      PROVE  Confined(m) /\ LeaseOK(m)' /\ status'[m] = new
  BY <1>2, <1>3, StatusMoves DEF LeaseOK
<1>4. CASE StartAllocFailed(c)
  <2>1. SetStatus(m, "error") /\ Finish(c, "err")
    BY <1>1, <1>4 DEF StartAllocFailed
  <2> QED
    BY <1>1, <1>2, <1>3, <2>1, FinishMoves, CallMoves
<1>5. CASE StartSetStarting(c)
  <2>1. SetStatus(m, "starting") /\ Goto(c, "setStartedAt")
    BY <1>1, <1>5 DEF StartSetStarting
  <2>2. OnlyCall(c) /\ call'[c].at = "setStartedAt" /\ call'[c].model = m /\ call'[c].port = NoPort
    BY <1>1, <1>2, <2>1, GotoMoves
  <2> QED
    BY <1>1, <1>3, <2>1, <2>2, CallMoves DEF Fits, CallOK
<1>6. CASE StopWithoutScript(c) \/ RestartSetStopped(c)
  <2>1. PICK label \in {"release", "releaseError", "releaseRestart"} :
          SetStatus(m, "stopped") /\ Goto(c, label)
    BY <1>1, <1>6 DEF StopWithoutScript, RestartSetStopped
  <2>2. OnlyCall(c) /\ call'[c].at = label /\ call'[c].model = m /\ call'[c].port = NoPort
    BY <1>1, <1>2, <2>1, GotoMoves
  <2>3. Confined(m) /\ LeaseOK(m)' /\ status'[m] = "stopped"
    BY <1>3, <2>1
  <2>4. CallOK(c)'
    BY <1>1, <2>2, <2>3 DEF Fits, CallOK
  <2> QED
    BY <1>1, <2>2, <2>3, <2>4, CallMoves
<1> QED
  BY <1>4, <1>5, <1>6

LEMMA CallGoesOnKeeps ==
  ASSUME TypeOK, SerialInv, NEW c \in Callers,
         \/ StartSetStartedAt(c) \/ RestartReadPort(c) \/ RestartScriptEnds(c)
  PROVE  SerialInv'
<1>1. PICK m \in Models : m \in Managed /\ call[c].model = m
  BY AtWork DEF StartSetStartedAt, RestartReadPort, RestartScriptEnds, TypeOK, Resting
<1>2. UNCHANGED <<allocated, status, port, script>>
  BY DEF StartSetStartedAt, RestartReadPort, RestartScriptEnds, modelVars
<1>3. LeaseOK(m) /\ CallOK(c) /\ call[c] \in CallType /\ call \in [Callers -> CallType]
  BY DEF SerialInv, TypeOK
<1>4. Confined(m) /\ LeaseOK(m)' /\ HeldBy(m)' = HeldBy(m)
  BY <1>2, <1>3, NothingMoves
<1>5. CASE StartSetStartedAt(c)
  <2>1. Goto(c, IF m \in WithPort THEN "allocate" ELSE "spawn") /\ call[c].port = NoPort
    BY <1>1, <1>3, <1>5 DEF Fits, StartSetStartedAt, CallOK
  <2>2. /\ OnlyCall(c) /\ call'[c].model = m /\ call'[c].port = NoPort
        /\ call'[c].at = IF m \in WithPort THEN "allocate" ELSE "spawn"
    BY <1>1, <1>2, <2>1, GotoMoves
  <2>3. CallOK(c)'
    BY <1>1, <1>2, <1>3, <1>5, <2>2 DEF StartSetStartedAt, Fits, CallOK
  <2> QED
    BY <1>1, <1>4, <2>2, <2>3, CallMoves
<1>6. CASE RestartReadPort(c)
  <2>1. /\ OnlyCall(c) /\ call'[c].model = m /\ call'[c].port = port[m]
        /\ call'[c].at = "restartScript" /\ status[m] = "running"
    BY <1>1, <1>2, <1>3, <1>6 DEF Fits, RestartReadPort, OnlyCall, CallType, CallOK
  <2>2. CallOK(c)'
    BY <1>1, <1>2, <1>3, <1>4, <2>1 DEF Fits, CallOK, LeaseOK
  <2> QED
    BY <1>1, <1>4, <2>1, <2>2, CallMoves
<1>7. CASE RestartScriptEnds(c)
  <2>1. /\ OnlyCall(c) /\ call'[c].model = m /\ call'[c].port = NoPort
        /\ call'[c].at = "setStopped"
    BY <1>1, <1>2, <1>3, <1>7 DEF RestartScriptEnds, OnlyCall, CallType
  <2>2. CallOK(c)'
    BY <1>1, <1>2, <1>3, <1>7, <2>1 DEF RestartScriptEnds, Fits, CallOK
  <2> QED
    BY <1>1, <1>4, <2>1, <2>2, CallMoves
<1> QED
  BY <1>5, <1>6, <1>7

LEMMA CallReleaseKeeps ==
  ASSUME TypeOK, SerialInv, NEW c \in Callers, CallRelease(c)
  PROVE  SerialInv'
<1>1. PICK m \in Models : /\ m \in Managed /\ call[c].model = m
                         /\ call[c].at \in {"release", "releaseError", "releaseRestart"}
  BY AtWork DEF CallRelease, TypeOK, Resting
<1>2. /\ Release(m) /\ UNCHANGED <<status, port, script>>
      /\ Finish(c, "ok") \/ \E label \in {"isRunning", "ifRunning"} : Goto(c, label)
  BY <1>1 DEF CallRelease, modelVars
<1>3. call[c].port = NoPort /\ status[m] = "stopped" /\ LeaseOK(m)
  BY <1>1 DEF Fits, SerialInv, CallOK
<1>4. Confined(m) /\ LeaseOK(m)'
  BY <1>2, <1>3, ReleaseMoves DEF LeaseOK
<1>5. CASE Finish(c, "ok")
  BY <1>1, <1>2, <1>4, <1>5, FinishMoves, CallMoves
<1>6. ASSUME NEW label \in {"isRunning", "ifRunning"}, Goto(c, label) PROVE SerialInv'
  <2>1. OnlyCall(c) /\ call'[c].at = label /\ call'[c].model = m /\ call'[c].port = NoPort
    BY <1>1, <1>2, <1>3, <1>6, GotoMoves
  <2>2. CallOK(c)'
    BY <1>1, <2>1 DEF Fits, CallOK
  <2> QED
    BY <1>1, <1>4, <2>1, <2>2, CallMoves
<1> QED
  BY <1>2, <1>5, <1>6

(* The model goes from a call to a goroutine, and its port with it.        *)
LEMMA HandOverKeeps ==
  ASSUME TypeOK, SerialInv, NEW c \in Callers, StartSpawn(c) \/ StopWithScript(c)
  PROVE  SerialInv'
<1>1. PICK m \in Models : m \in Managed /\ call[c].model = m
  BY AtWork DEF StartSpawn, StopWithScript, TypeOK, Resting
<1>2. LeaseOK(m) /\ CallOK(c)
  BY DEF SerialInv
<1>3. CASE StartSpawn(c)
  <2> DEFINE p == call[c].port
  <2>1. /\ port' = IF p = NoPort THEN port ELSE [port EXCEPT ![m] = p]
        /\ Spawn("startLaunch", m, p) /\ Finish(c, "ok") /\ UNCHANGED <<allocated, status>>
        /\ call[c].at = "spawn"
    BY <1>1, <1>3 DEF StartSpawn
  <2>2. /\ m \in WithPort => p # NoPort /\ p \in HeldBy(m)
        /\ m \notin WithPort => p = NoPort
    BY <1>1, <1>2, <2>1 DEF Fits, CallOK
  <2> HIDE DEF p
  <2>3. /\ Confined(m) /\ HeldBy(m)' = HeldBy(m)
        /\ m \in WithPort => port'[m] = p
        /\ m \notin WithPort => port' = port
    BY <2>1, <2>2 DEF TypeOK, Confined, HeldBy
  <2>4. LeaseOK(m)'
    BY <1>2, <2>1, <2>2, <2>3 DEF LeaseOK
  <2>5. \A s \in Scripts : script'[s] = [at |-> "startLaunch", model |-> m, port |-> p]
                             => ScriptOK(s)'
    BY <1>1, <1>2, <2>1, <2>2, <2>3 DEF Fits, CallOK, ScriptOK
  <2> QED
    BY <1>1, <2>1, <2>3, <2>4, <2>5, HandOver DEF ScriptLabels
<1>4. CASE StopWithScript(c)
  <2>1. /\ SetStatus(m, "stopping") /\ Spawn("stopLaunch", m, NoPort) /\ Finish(c, "ok")
        /\ UNCHANGED <<allocated, port>>
    BY <1>1, <1>4 DEF StopWithScript
  <2>2. Confined(m) /\ LeaseOK(m)' /\ status'[m] = "stopping"
    BY <1>2, <2>1, StatusMoves DEF LeaseOK
  <2>3. \A s \in Scripts : script'[s] = [at |-> "stopLaunch", model |-> m, port |-> NoPort]
                             => ScriptOK(s)'
    BY <1>1, <2>2 DEF Fits, ScriptOK
  <2> QED
    BY <1>1, <2>1, <2>2, <2>3, HandOver DEF ScriptLabels
<1> QED
  BY <1>3, <1>4

LEMMA CallStepKeeps ==
  ASSUME TypeOK, SerialInv, StoppingHasOwner, NEW c \in Callers, CallStep(c)
  PROVE  SerialInv'
BY BranchKeeps, AllocateKeeps, CallSetsStatusKeeps, CallGoesOnKeeps, CallReleaseKeeps, HandOverKeeps
   DEF CallStep

-----------------------------------------------------------------------------
(* The steps of goroutines.                                                *)
LEMMA ScriptSetsStatusKeeps ==
  ASSUME TypeOK, SerialInv, NEW s \in Scripts,
         StartPipeFails(s) \/ StartScriptFails(s) \/ StopLaunchFails(s) \/ StopScriptEnds(s)
  PROVE  SerialInv'
<1>1. PICK m \in Models : m \in Managed /\ script[s].model = m
  BY AtWork DEF StartPipeFails, StartScriptFails, StopLaunchFails, StopScriptEnds, TypeOK
<1>2. LeaseOK(m) /\ UNCHANGED <<allocated, port, call>>
  BY DEF SerialInv, StartPipeFails, StartScriptFails, StopLaunchFails, StopScriptEnds
<1>3. PICK new, label :
        /\ SetStatus(m, new) /\ Become(s, label)
        /\ \/ new = "error" /\ label \in {"notifyError", "failRelease"}
           \/ new = "stopped" /\ label = "stopRelease"
  BY <1>1 DEF StartPipeFails, StartScriptFails, StopLaunchFails, StopScriptEnds
<1>4. OnlyScript(s) /\ script'[s].at = label /\ script'[s].model = m
  BY <1>1, <1>2, <1>3, BecomeMoves
<1>5. Confined(m) /\ status'[m] = new /\ HeldBy(m)' = HeldBy(m)
  BY <1>2, <1>3, StatusMoves
<1>6. LeaseOK(m)'
  BY <1>2, <1>3, <1>5 DEF LeaseOK
<1>7. ScriptOK(s)'
  BY <1>1, <1>3, <1>4, <1>5 DEF Fits, ScriptOK
<1> QED
  BY <1>1, <1>4, <1>5, <1>6, <1>7, ScriptMoves

LEMMA StartScriptSucceedsKeeps ==
  ASSUME TypeOK, SerialInv, NEW s \in Scripts, StartScriptSucceeds(s)
  PROVE  SerialInv'
<1>1. PICK m \in Models : m \in Managed /\ script[s].model = m
  BY AtWork DEF StartScriptSucceeds, TypeOK
<1>2. /\ LeaseOK(m) /\ ScriptOK(s) /\ script[s].at = "startRunning"
      /\ UNCHANGED <<allocated, port, call>>
  BY DEF SerialInv, StartScriptSucceeds
<1>3. CASE m \in HealthChecked
  <2>1. Vanish(s) /\ UNCHANGED status
    BY <1>1, <1>3 DEF StartScriptSucceeds
  <2>2. Confined(m) /\ LeaseOK(m)'
    BY <1>2, <2>1, NothingMoves
  <2> QED
    BY <1>1, <1>2, <2>1, <2>2, VanishMoves, ScriptMoves
<1>4. CASE m \notin HealthChecked
  <2>1. Become(s, "touch") /\ SetStatus(m, "running")
    BY <1>1, <1>4 DEF StartScriptSucceeds
  <2>2. Confined(m) /\ status'[m] = "running" /\ HeldBy(m)' = HeldBy(m)
    BY <1>2, <2>1, StatusMoves
  <2>3. LeaseOK(m)'
    BY <1>1, <1>2, <2>2 DEF Fits, LeaseOK, ScriptOK
  <2>4. OnlyScript(s) /\ script'[s].at = "touch" /\ script'[s].model = m
    BY <1>1, <1>2, <2>1, BecomeMoves
  <2>5. ScriptOK(s)'
    BY <1>1, <2>4 DEF Fits, ScriptOK
  <2> QED
    BY <1>1, <2>2, <2>3, <2>4, <2>5, ScriptMoves
<1> QED
  BY <1>3, <1>4

LEMMA ScriptReleasesKeeps ==
  ASSUME TypeOK, SerialInv, NEW s \in Scripts, StartFailureReleases(s) \/ StopReleases(s)
  PROVE  SerialInv'
<1>1. PICK m \in Models : m \in Managed /\ script[s].model = m
  BY AtWork DEF StartFailureReleases, StopReleases, TypeOK
<1>2. /\ LeaseOK(m) /\ ScriptOK(s) /\ script[s].at \in {"failRelease", "stopRelease"}
      /\ Release(m) /\ UNCHANGED <<status, port, call>>
      /\ Become(s, "notifyError") \/ Vanish(s)
  BY <1>1 DEF SerialInv, StartFailureReleases, StopReleases, modelVars
<1>3. Confined(m) /\ LeaseOK(m)'
  BY <1>1, <1>2, ReleaseMoves DEF Fits, LeaseOK, ScriptOK
<1>4. CASE Become(s, "notifyError")
  <2>1. OnlyScript(s) /\ script'[s].at = "notifyError" /\ script'[s].model = m
    BY <1>1, <1>2, <1>4, BecomeMoves
  <2>2. ScriptOK(s)'
    BY <1>1, <2>1 DEF Fits, ScriptOK
  <2> QED
    BY <1>1, <1>3, <2>1, <2>2, ScriptMoves
<1>5. CASE Vanish(s)
  BY <1>1, <1>2, <1>3, <1>5, VanishMoves, ScriptMoves
<1> QED
  BY <1>2, <1>4, <1>5

LEMMA ScriptGoesOnKeeps ==
  ASSUME TypeOK, SerialInv, NEW s \in Scripts,
         StartScriptRuns(s) \/ StartTouches(s) \/ StopScriptRuns(s) \/ Notify(s)
  PROVE  SerialInv'
<1>1. PICK m \in Models : m \in Managed /\ script[s].model = m
  BY AtWork DEF StartScriptRuns, StartTouches, StopScriptRuns, Notify, TypeOK
<1>2. LeaseOK(m) /\ ScriptOK(s) /\ UNCHANGED <<allocated, status, port, call>>
  BY DEF SerialInv, StartScriptRuns, StartTouches, StopScriptRuns, Notify, modelVars
<1>3. Confined(m) /\ LeaseOK(m)' /\ HeldBy(m)' = HeldBy(m)
  BY <1>2, NothingMoves
<1>4. CASE StartScriptRuns(s) \/ StartTouches(s)
  <2>1. PICK label : /\ Become(s, label)
                     /\ \/ script[s].at = "startLaunch" /\ label = "startRunning"
                        \/ label = "notifyReady"
    BY <1>4 DEF StartScriptRuns, StartTouches
  <2>2. /\ OnlyScript(s) /\ script'[s].at = label /\ script'[s].model = m
        /\ script'[s].port = script[s].port
    BY <1>1, <1>2, <2>1, BecomeMoves
  <2>3. ScriptOK(s)'
    BY <1>1, <1>2, <1>3, <2>1, <2>2 DEF Fits, ScriptOK
  <2> QED
    BY <1>1, <1>3, <2>2, <2>3, ScriptMoves
<1>5. CASE StopScriptRuns(s)
  <2>1. script[s] \in ScriptType /\ script \in [Scripts -> ScriptType]
    BY DEF TypeOK
  <2>2. OnlyScript(s) /\ script'[s].at = "stopRunning" /\ script'[s].model = m
    BY <1>1, <1>2, <1>5, <2>1 DEF StopScriptRuns, OnlyScript, ScriptType
  <2>3. ScriptOK(s)'
    BY <1>1, <1>2, <1>5, <2>2 DEF StopScriptRuns, Fits, ScriptOK
  <2> QED
    BY <1>1, <1>3, <2>2, <2>3, ScriptMoves
<1>6. CASE Notify(s)
  <2>1. Vanish(s)
    BY <1>6 DEF Notify
  <2> QED
    BY <1>1, <1>2, <1>3, <2>1, VanishMoves, ScriptMoves
<1> QED
  BY <1>4, <1>5, <1>6

(* A call begins when its model is quiet.                                  *)
LEMMA BeginKeeps ==
  ASSUME TypeOK, SerialInv, NEW c \in Callers, NEW m \in Models, NEW op \in DOMAIN Entry,
         Begin(c, m, op)
  PROVE  SerialInv'
<1>1. /\ Quiet(m) /\ LeaseOK(m) /\ m \in Managed /\ UNCHANGED <<allocated, status, port, script>>
      /\ call' = [call EXCEPT ![c] = [NoCall EXCEPT !.at = Entry[op], !.model = m]]
  BY DEF Begin, SerialInv, modelVars
<1>2. /\ call'[c].at \in {"ifRunning", "ifStopped", "ifError"}
      /\ call'[c].model = m /\ call'[c].port = NoPort
      /\ \A d \in Callers : d # c => call'[d] = call[d]
  BY <1>1 DEF TypeOK, NoCall, Entry
<1>3. CallOK(c)' /\ OneWorker(m)'
  BY <1>1, <1>2 DEF Fits, CallOK, OneWorker, Quiet
<1>4. Confined(m) /\ LeaseOK(m)'
  BY <1>1, NothingMoves
<1>5. \A d \in Callers :
        \/ call'[d] = call[d] /\ call[d].model # m
        \/ call'[d].model \in {m, NoModel} /\ CallOK(d)'
  BY <1>1, <1>2, <1>3 DEF Quiet
<1>6. \A t \in Scripts : script'[t] = script[t] /\ script[t].model # m
  BY <1>1 DEF Quiet
<1> QED
  BY <1>3, <1>4, <1>5, <1>6, OthersKept

LEMMA NextSerial == TypeOK /\ StoppingHasOwner /\ SerialInv /\ [Next]_vars => SerialInv'
<1> SUFFICES ASSUME TypeOK, StoppingHasOwner, SerialInv, [Next]_vars PROVE SerialInv'
  OBVIOUS
<1>1. ASSUME NEW s \in Scripts, ScriptStep(s) PROVE SerialInv'
  BY <1>1, ScriptSetsStatusKeeps, StartScriptSucceedsKeeps, ScriptReleasesKeeps, ScriptGoesOnKeeps
     DEF ScriptStep
<1>2. CASE UNCHANGED vars
  BY <1>2 DEF Fits, vars, modelVars, SerialInv, OneWorker, LeaseOK, CallOK, ScriptOK, HeldBy
<1> QED
  BY <1>1, <1>2, CallStepKeeps, ScriptGoesOnKeeps, BeginKeeps DEF Next, Step, Callers

LEMMA SerialInvariant == Serialized /\ Spec => []SerialInv
<1>1. Serialized /\ Init => SerialInv
  <2> SUFFICES ASSUME Serialized, Init PROVE SerialInv
    OBVIOUS
  <2>1. \A m \in Models : OneWorker(m)
    BY NoModelAssumption DEF Init, NoCall, NoScript, OneWorker
  <2>2. \A m \in Models : LeaseOK(m)
    BY ConfigAssumption DEF Init, LeaseOK
  <2>3. \A c \in Callers : CallOK(c)
    BY DEF Init, NoCall, Fits, CallOK
  <2>4. \A s \in Scripts : ScriptOK(s)
    BY DEF Init, NoScript, Fits, ScriptOK
  <2> QED
    BY <2>1, <2>2, <2>3, <2>4 DEF SerialInv
<1> QED
  BY <1>1, NextSerial, TypeCorrect, StoppingOwned, PTL DEF Spec

(* For clients whose calls about one model do not overlap: a running model *)
(* without a health check, a start script and the stop script of a Restart *)
(* that were given a port own that port, whatever happens to other models  *)
(* (manager.go:274, 471).  The stop script of a Stop is left out: that of  *)
(* a failed model is given a port its model no longer leases.              *)
THEOREM OwnedCorrect == Serialized /\ Spec => []PortsAreOwned
<1>1. SerialInv => PortsAreOwned
  <2> SUFFICES ASSUME SerialInv PROVE PortsAreOwned
    OBVIOUS
  <2>1. \A m \in WithPort \ HealthChecked : status[m] = "running" => port[m] \in HeldBy(m)
    BY ConfigAssumption DEF SerialInv, LeaseOK
  <2>2. \A s \in Scripts : script[s].at \in {"startLaunch", "startRunning"} /\ script[s].port # NoPort
          => script[s].port \in HeldBy(script[s].model)
    BY DEF SerialInv, ScriptOK
  <2>3. \A c \in Callers : call[c].at = "restartScript" /\ call[c].port # NoPort
          => call[c].port \in HeldBy(call[c].model)
    BY DEF SerialInv, CallOK
  <2> QED
    BY <2>1, <2>2, <2>3 DEF PortsAreOwned
<1> QED
  BY <1>1, SerialInvariant, PTL

-----------------------------------------------------------------------------
(* The refinement of ModelService.                                         *)
Phases == [m \in Models |-> Phase(m)]
Leases == [m \in Models |-> LeaseOf(m)]

PhaseOf(st) ==
  CASE st \in {"stopped", "error"} -> "down"
    [] st = "starting" -> "starting"
    [] st = "running" -> "up"
    [] st = "stopping" -> "stopping"

LEMMA SameLeases ==
  ASSUME UNCHANGED allocated
  PROVE  Leases' = Leases
<1>1. \A m \in Models : LeaseOf(m)' = LeaseOf(m)
  BY DEF LeaseOf, HeldBy
<1> QED
  BY <1>1 DEF Leases

LEMMA PhaseMoves ==
  ASSUME TypeOK, NEW m \in Models, NEW new, SetStatus(m, new)
  PROVE  Phases' = [Phases EXCEPT ![m] = PhaseOf(new)] /\ Phases[m] = PhaseOf(status[m])
<1>1. Phases = [n \in Models |-> PhaseOf(status[n])]
  BY DEF Phases, Phase, PhaseOf
<1>2. Phases' = [n \in Models |-> PhaseOf(status'[n])]
  BY DEF Phases, Phase, PhaseOf
<1> HIDE DEF PhaseOf
<1> QED
  BY <1>1, <1>2 DEF SetStatus, TypeOK

(* A step that sets the status of a managed model is one of the service,   *)
(* if it is one of these.                                                  *)
Expected(m, old, new) ==
  \/ old = new
  \/ old = "down" /\ new = "starting"
  \/ old = "starting" /\ new = "up" /\ (m \in WithPort => LeaseOf(m) # NoPort)
  \/ old \in {"up", "down"} /\ new = "stopping"
  \/ old \in {"starting", "up", "stopping"} /\ new = "down"

LEMMA ServiceMoves ==
  ASSUME TypeOK, NEW m \in Models, m \in Managed, NEW new, SetStatus(m, new), UNCHANGED allocated,
         Expected(m, PhaseOf(status[m]), PhaseOf(new))
  PROVE  [Service!Next]_<<Phases, Leases>>
<1> DEFINE old == PhaseOf(status[m])
           to == PhaseOf(new)
<1>1. /\ Phases' = [Phases EXCEPT ![m] = to] /\ Phases[m] = old /\ Leases' = Leases
      /\ Leases[m] = LeaseOf(m) /\ m \notin External
  BY PhaseMoves, SameLeases DEF Leases, Managed
<1>2. Expected(m, old, to)
  OBVIOUS
<1> HIDE DEF old, to
<1>3. CASE old = to
  BY <1>1, <1>3 DEF Phases
<1>4. CASE old = "down" /\ to = "starting"
  BY <1>1, <1>4 DEF Service!Next, Service!Start, Service!Move, Phases, Leases
<1>5. CASE old = "starting" /\ to = "up" /\ (m \in WithPort => LeaseOf(m) # NoPort)
  BY <1>1, <1>5 DEF Service!Next, Service!Ready, Service!Move, Phases, Leases, NoPort
<1>6. CASE old \in {"up", "down"} /\ to = "stopping"
  BY <1>1, <1>6 DEF Service!Next, Service!Stop, Service!Move, Phases, Leases
<1>7. CASE old \in {"starting", "up", "stopping"} /\ to = "down"
  BY <1>1, <1>7 DEF Service!Next, Service!Down, Service!Move, Phases, Leases
<1> QED
  BY <1>2, <1>3, <1>4, <1>5, <1>6, <1>7 DEF Expected

LEMMA ServiceRests ==
  ASSUME UNCHANGED <<allocated, status>>
  PROVE  [Service!Next]_<<Phases, Leases>>
<1>1. Phases' = Phases
  BY DEF Phases, Phase
<1> QED
  BY <1>1, SameLeases DEF Phases, Leases

LEMMA ServiceVacates ==
  ASSUME TypeOK, OnePortPerModel, NEW m \in Models, Release(m), UNCHANGED status,
         status[m] \in {"stopped", "error"}
  PROVE  [Service!Next]_<<Phases, Leases>>
<1>1. LeaseOf(m)' = NoPort
  BY ReleaseHeld DEF TypeOK, LeaseOf
<1>2. ASSUME NEW n \in Models, n # m PROVE LeaseOf(n)' = LeaseOf(n)
  <2>1. HeldBy(n)' = HeldBy(n)
    BY <1>2, NoModelAssumption DEF Release, HeldBy, TypeOK, AllocatorTypeOK
  <2> QED
    BY <2>1 DEF LeaseOf
<1>3. Leases' = [Leases EXCEPT ![m] = NoPort]
  BY <1>1, <1>2 DEF Leases
<1>4. Phases' = Phases /\ Phases[m] = "down"
  BY DEF Phases, Phase
<1>5. Service!Vacate(m)
  BY <1>3, <1>4 DEF Service!Vacate, Phases, Leases, NoPort
<1> QED
  BY <1>5 DEF Service!Next

LEMMA ServiceAssigns ==
  ASSUME TypeOK, OnePortPerModel, SerialInv, NEW c \in Callers, StartAllocate(c)
  PROVE  [Service!Next]_<<Phases, Leases>>
<1>0. AllocatorTypeOK /\ UNCHANGED status
  BY DEF TypeOK, StartAllocate, modelVars
<1>1. PICK m \in Models : call[c].model = m /\ status[m] = "starting"
  BY AtWork DEF StartAllocate, TypeOK, Resting, Fits, SerialInv, CallOK
<1>2. PICK busy \in SUBSET Ports : Grant(m, AllocateResult(m, busy))
  BY <1>1 DEF StartAllocate
<1> DEFINE p == AllocateResult(m, busy)
<1>3. /\ p \in Ports \cup {NoPort}
      /\ HeldBy(m) # {} => p \in HeldBy(m)
      /\ HeldBy(m) = {} /\ p # NoPort => allocated[p] = NoModel
  BY <1>0, AllocateResultProperty
<1>4. Grant(m, p)
  BY <1>2
<1> HIDE DEF p
<1>5. CASE p = NoPort \/ HeldBy(m) # {}
  <2>1. UNCHANGED allocated
    BY <1>0, <1>3, <1>4, <1>5 DEF Grant, HeldBy, AllocatorTypeOK
  <2> QED
    BY <1>0, <2>1, ServiceRests
<1>6. CASE p # NoPort /\ HeldBy(m) = {}
  <2>1. p \in Ports /\ allocated[p] = NoModel
    BY <1>3, <1>6
  <2>2. HeldBy(m)' = {p}
    BY <1>0, <1>4, <1>6, <2>1 DEF Grant, HeldBy, AllocatorTypeOK
  <2>3. LeaseOf(m)' = p
    BY <2>2 DEF LeaseOf
  <2>4. ASSUME NEW n \in Models, n # m PROVE LeaseOf(n)' = LeaseOf(n)
    <3>1. HeldBy(n)' = HeldBy(n)
      BY <1>0, <1>4, <1>6, <2>1, <2>4, NoModelAssumption DEF Grant, HeldBy, AllocatorTypeOK
    <3> QED
      BY <3>1 DEF LeaseOf
  <2>5. Leases' = [Leases EXCEPT ![m] = p]
    BY <2>3, <2>4 DEF Leases
  <2>6. \A n \in Models : Leases[n] # p
    BY <1>6, <2>1, LeaseOfHeld, NoModelAssumption DEF HeldBy, Leases
  <2>7. Leases[m] = NoPort
    BY <1>6, LeaseOfHeld DEF Leases
  <2>8. Phases' = Phases /\ Phases[m] = "starting"
    BY <1>0, <1>1 DEF Phases, Phase
  <2>9. Service!Assign(m, p)
    BY <2>5, <2>6, <2>7, <2>8 DEF Service!Assign, Phases, Leases, NoPort
  <2> QED
    BY <2>1, <2>9 DEF Service!Next
<1> QED
  BY <1>5, <1>6

LEMMA CallServes ==
  ASSUME TypeOK, OnePortPerModel, StartingHasOwner, SerialInv, HealthChecked = {},
         NEW c \in Callers, CallStep(c)
  PROVE  [Service!Next]_<<Phases, Leases>>
<1>1. CASE StartAllocate(c)
  BY <1>1, ServiceAssigns
<1>2. CASE \/ StartIfRunning(c) \/ StartIfStarting(c) \/ StopIfStopped(c) \/ StopIfStopping(c)
           \/ RestartIfError(c) \/ RestartIsRunning(c) \/ RestartIsStopping(c)
           \/ StartSetStartedAt(c) \/ StartSpawn(c) \/ RestartReadPort(c) \/ RestartScriptEnds(c)
  <2>1. UNCHANGED <<allocated, status>>
    BY <1>2 DEF StartIfRunning, StartIfStarting, StopIfStopped, StopIfStopping, RestartIfError,
       RestartIsRunning, RestartIsStopping, Branch, StartSetStartedAt, StartSpawn, RestartReadPort,
       RestartScriptEnds, modelVars
  <2> QED
    BY <2>1, ServiceRests
<1>3. CASE CallRelease(c)
  <2>1. PICK m \in Models : call[c].model = m /\ status[m] = "stopped"
    BY <1>3, AtWork DEF CallRelease, TypeOK, Resting, Fits, SerialInv, CallOK
  <2>2. Release(m) /\ UNCHANGED status
    BY <1>3, <2>1 DEF CallRelease, modelVars
  <2> QED
    BY <2>1, <2>2, ServiceVacates
<1>4. CASE StartSetStarting(c) \/ StartAllocFailed(c) \/ RestartSetStopped(c)
           \/ StopWithoutScript(c) \/ StopWithScript(c)
  <2>1. PICK m \in Models : m \in Managed /\ call[c].model = m
    BY <1>4, AtWork DEF StartSetStarting, StartAllocFailed, RestartSetStopped, StopWithoutScript,
       StopWithScript, TypeOK, Resting
  <2>2. Fits(call[c].at, status[m]) /\ OneWorker(m) /\ UNCHANGED allocated
    BY <1>4, <2>1 DEF SerialInv, CallOK, StartSetStarting, StartAllocFailed, RestartSetStopped,
       StopWithoutScript, StopWithScript
  <2>3. CASE ~StopWithScript(c)
    <3>1. PICK new : /\ SetStatus(m, new)
                     /\ \/ new = "starting" /\ status[m] \in {"stopped", "error"}
                        \/ new = "error" /\ status[m] = "starting"
                        \/ new = "stopped" /\ status[m] \in {"error", "running", "starting"}
      BY <1>4, <2>1, <2>2, <2>3 DEF StartSetStarting, StartAllocFailed, RestartSetStopped,
         StopWithoutScript, Fits
    <3>2. Expected(m, PhaseOf(status[m]), PhaseOf(new))
      BY <3>1 DEF Expected, PhaseOf
    <3> QED
      BY <2>1, <2>2, <3>1, <3>2, ServiceMoves
  <2>4. CASE StopWithScript(c)
    <3>1. call[c].at = "setStopping" /\ SetStatus(m, "stopping")
      BY <2>1, <2>4 DEF StopWithScript
    <3>2. status[m] # "starting"
      BY <2>1, <2>2, <3>1 DEF StartingHasOwner, CallAt, ScriptAt, OneWorker
    <3>3. status[m] \in {"running", "error"}
      BY <2>2, <3>1, <3>2 DEF Fits
    <3>4. Expected(m, PhaseOf(status[m]), PhaseOf("stopping"))
      BY <3>3 DEF Expected, PhaseOf
    <3> QED
      BY <2>1, <2>2, <3>1, <3>4, ServiceMoves
  <2> QED
    BY <2>3, <2>4
<1> QED
  BY <1>1, <1>2, <1>3, <1>4 DEF CallStep

LEMMA ScriptServes ==
  ASSUME TypeOK, OnePortPerModel, SerialInv, HealthChecked = {},
         NEW s \in Scripts, ScriptStep(s)
  PROVE  [Service!Next]_<<Phases, Leases>>
<1>1. CASE StartScriptRuns(s) \/ StartTouches(s) \/ StopScriptRuns(s)
  <2>1. UNCHANGED <<allocated, status>>
    BY <1>1 DEF StartScriptRuns, StartTouches, StopScriptRuns, modelVars
  <2> QED
    BY <2>1, ServiceRests
<1>2. CASE StartFailureReleases(s) \/ StopReleases(s)
  <2>1. PICK m \in Models : script[s].model = m /\ status[m] \in {"stopped", "error"}
    BY <1>2, AtWork DEF StartFailureReleases, StopReleases, TypeOK, Fits, SerialInv, ScriptOK
  <2>2. Release(m) /\ UNCHANGED status
    BY <1>2, <2>1 DEF StartFailureReleases, StopReleases, modelVars
  <2> QED
    BY <2>1, <2>2, ServiceVacates
<1>3. CASE \/ StartPipeFails(s) \/ StartScriptFails(s) \/ StartScriptSucceeds(s)
           \/ StopLaunchFails(s) \/ StopScriptEnds(s)
  <2>1. PICK m \in Models : m \in Managed /\ script[s].model = m
    BY <1>3, AtWork DEF StartPipeFails, StartScriptFails, StartScriptSucceeds, StopLaunchFails,
       StopScriptEnds, TypeOK
  <2>2. ScriptOK(s) /\ UNCHANGED allocated
    BY <1>3 DEF SerialInv, StartPipeFails, StartScriptFails, StartScriptSucceeds, StopLaunchFails,
       StopScriptEnds
  <2>3. PICK new : /\ SetStatus(m, new)
                   /\ \/ new = "error" /\ status[m] = "starting"
                      \/ /\ new = "running" /\ status[m] = "starting"
                         /\ m \in WithPort => HeldBy(m) # {}
                      \/ new = "stopped" /\ status[m] = "stopping"
    BY <1>3, <2>1, <2>2 DEF StartPipeFails, StartScriptFails, StartScriptSucceeds, StopLaunchFails,
       StopScriptEnds, Fits, ScriptOK
  <2>4. Expected(m, PhaseOf(status[m]), PhaseOf(new))
    BY <2>3, LeaseOfHeld DEF Expected, PhaseOf
  <2> QED
    BY <2>1, <2>2, <2>3, <2>4, ServiceMoves
<1> QED
  BY <1>1, <1>2, <1>3 DEF ScriptStep

(* For clients whose calls about one model do not overlap, and models      *)
(* without a health check, the manager with its goroutines implements      *)
(* ModelService: every step is one of the service's or none of them.       *)
THEOREM ServiceCorrect == Serialized /\ HealthChecked = {} /\ Spec => ServicePromise
<1>1. Init => Service!Init
  <2> SUFFICES ASSUME Init PROVE Service!Init
    OBVIOUS
  <2>1. \A m \in Models : LeaseOf(m) = 0
    BY NoModelAssumption DEF Init, NoLeases, HeldBy, LeaseOf, NoPort
  <2>2. Phases = [m \in Models |-> IF m \in External THEN "up" ELSE "down"]
    BY DEF Init, Phases, Phase
  <2> QED
    BY <2>1, <2>2 DEF Service!Init, Phases
<1>2. /\ HealthChecked = {} /\ TypeOK /\ OnePortPerModel /\ StartingHasOwner /\ SerialInv
      /\ [Next]_vars
      => [Service!Next]_<<Phases, Leases>>
  <2> SUFFICES ASSUME HealthChecked = {}, TypeOK, OnePortPerModel, StartingHasOwner, SerialInv,
                      [Next]_vars
               PROVE  [Service!Next]_<<Phases, Leases>>
    OBVIOUS
  <2>1. CASE UNCHANGED <<allocated, status>>
    BY <2>1, ServiceRests
  <2>2. CASE UNCHANGED vars
    BY <2>1, <2>2 DEF vars, modelVars
  <2>3. ASSUME NEW s \in Scripts, Notify(s) PROVE UNCHANGED <<allocated, status>>
    BY <2>3 DEF Notify, modelVars
  <2>4. ASSUME NEW c \in Operators, NEW m \in Models, NEW op \in DOMAIN Entry, Begin(c, m, op)
        PROVE  UNCHANGED <<allocated, status>>
    BY <2>4 DEF Begin, modelVars
  <2> QED
    BY <2>1, <2>2, <2>3, <2>4, CallServes, ScriptServes DEF Next, Step
<1>3. HealthChecked = {} => (HealthChecked = {})'
  OBVIOUS
<1> QED
  BY <1>1, <1>2, <1>3, TypeCorrect, OnePortCorrect, StartingOwned, SerialInvariant, PTL
     DEF Spec, ServicePromise, Service!Spec, Phases, Leases
=============================================================================

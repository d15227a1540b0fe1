--------------------------- MODULE Program_proofs ----------------------------
(***************************************************************************)
(* The variables of the program keep their types, and every status is set  *)
(* on a model that exists, for any number of models, names and requests.   *)
(***************************************************************************)
EXTENDS Registry_proofs

(* Types alone are not inductive: Shutdown and the reaper stop the model   *)
(* that a name stands for, and what a name stands for is the registry's.   *)
ProgramInv == RegistryInv /\ ProgramTypeOK

-----------------------------------------------------------------------------
(* A call of Stop or Start leaves the model's status and goroutines typed. *)
LEMMA StopEffectTypes ==
  ASSUME ProgramInv, NEW m \in Models, StopEffect(m)
  PROVE  status' \in [Models -> Statuses]
         /\ flight' \in [Models -> SUBSET {"start", "stop", "check"}]
<1>1. status \in [Models -> Statuses] /\ flight \in [Models -> SUBSET {"start", "stop", "check"}]
  BY DEF ProgramInv, ProgramTypeOK
<1>2. CASE UNCHANGED modelVars
  BY <1>1, <1>2 DEF modelVars
<1>3. CASE SetStatus(m, "stopped") /\ UNCHANGED flight
  BY <1>1, <1>3 DEF SetStatus, Statuses
<1>4. CASE SetStatus(m, "stopping") /\ Spawn(m, "stop")
  BY <1>1, <1>4 DEF SetStatus, Spawn, Statuses
<1> QED
  BY <1>2, <1>3, <1>4 DEF StopEffect

LEMMA StartEffectTypes ==
  ASSUME ProgramInv, NEW m \in Models, StartEffect(m)
  PROVE  status' \in [Models -> Statuses]
         /\ flight' \in [Models -> SUBSET {"start", "stop", "check"}]
<1>1. status \in [Models -> Statuses] /\ flight \in [Models -> SUBSET {"start", "stop", "check"}]
  BY DEF ProgramInv, ProgramTypeOK
<1>2. CASE SetStatus(m, "starting") /\ Spawn(m, "start")
  BY <1>1, <1>2 DEF SetStatus, Spawn, Statuses
<1>3. CASE SetStatus(m, "error") /\ UNCHANGED flight
  BY <1>1, <1>3 DEF SetStatus, Statuses
<1> QED
  BY <1>2, <1>3 DEF StartEffect

LEMMA LandTypes ==
  ASSUME ProgramInv, NEW m \in Models, GoroutineEnds(m)
  PROVE  status' \in [Models -> Statuses]
         /\ flight' \in [Models -> SUBSET {"start", "stop", "check"}]
<1>1. status \in [Models -> Statuses] /\ flight \in [Models -> SUBSET {"start", "stop", "check"}]
  BY DEF ProgramInv, ProgramTypeOK
<1>2. PICK what \in {"start", "stop", "check"}, s \in Statuses : Land(m, what, s)
  <2>1. status[m] \in Statuses /\ "running" \in Statuses /\ "error" \in Statuses
        /\ "stopped" \in Statuses
    BY <1>1 DEF Statuses
  <2> QED
    BY <2>1 DEF GoroutineEnds
<1> QED
  BY <1>1, <1>2 DEF Land, SetStatus

(* A model that is reached by its own name is the one that was meant.      *)
LEMMA NamedModel ==
  ASSUME ProgramInv, NEW m \in Models
  PROVE  index[config[m].name] = m
BY DEF ProgramInv, RegistryInv, OwnNameIndexed

-----------------------------------------------------------------------------
(* The variables of one part, when the others stay as they are.            *)
LEMMA SetupTypes ==
  ASSUME ProgramInv, Setup
  PROVE  ProgramInv'
<1>1. RegistryNext /\ main = "setup" /\ exit = "none" /\ todo.now = NoModel
  BY DEF Setup, ProgramInv, ProgramTypeOK
<1>2. RegistryInv'
  BY <1>1, RegistryInvStep DEF ProgramInv
<1>3. indexed \in Nat /\ indexed' \in Nat /\ indexed <= indexed'
  <2>1. indexed \in Nat
    BY DEF ProgramInv, RegistryInv, RegistryTypeOK
  <2> QED
    BY <1>1, <2>1 DEF RegistryNext, LoadModel, Clash, LoadFails, LoadEnds, IndexModel, IndexEnds
<1>4. /\ main' \in {"setup", "serve", "exited"} /\ exit' \in {"none", "fatal"}
      /\ main' = "exited" <=> exit' # "none"
  BY <1>1 DEF Setup
<1>5. /\ status' = [m \in 1 .. indexed' |-> InitialStatus(config'[m])]
      /\ flight' = [m \in 1 .. indexed' |-> {}]
      /\ UNCHANGED <<listener, client, reaper, monitor, todo>>
  BY DEF Setup, taskVars
<1>6. todo' \in [left : SUBSET (1 .. indexed'), now : 0 .. indexed']
  BY <1>3, <1>5 DEF ProgramInv, ProgramTypeOK, Models
<1>7. status' \in [1 .. indexed' -> Statuses]
  BY <1>5 DEF InitialStatus, Statuses
<1>8. ProgramTypeOK'
  BY <1>1, <1>2, <1>4, <1>5, <1>6, <1>7
     DEF ProgramInv, ProgramTypeOK, RegistryInv, MainLabels, Models
<1> QED
  BY <1>2, <1>8 DEF ProgramInv

LEMMA RestTypes ==
  ASSUME ProgramInv, UNCHANGED registryVars,
         main' \in MainLabels, exit' \in {"none", "fatal", "panic", "failed", "graceful"},
         main' = "exited" <=> exit' # "none",
         listener' \in {"new", "assigned", "listening", "failed"},
         client' \in [Clients -> {"idle", "active"}],
         status' \in [Models -> Statuses],
         flight' \in [Models -> SUBSET {"start", "stop", "check"}],
         reaper' \in {"select", "check", "ended"}, monitor' \in {"select", "ended"},
         todo' \in [left : SUBSET Models, now : 0 .. indexed],
         main' = "stop" <=> todo'.now # NoModel
  PROVE  ProgramInv'
<1>1. RegistryInv'
  BY RegistryInvStep DEF ProgramInv
<1>2. Models' = Models /\ indexed' = indexed
  BY DEF registryVars, Models
<1>3. ProgramTypeOK'
  BY <1>1, <1>2 DEF ProgramTypeOK, RegistryInv
<1> QED
  BY <1>1, <1>3 DEF ProgramInv

(* A step that sets the status of a model and nothing but it and, on the   *)
(* way down, what Shutdown has left to do.                                 *)
LEMMA ModelStepTypes ==
  ASSUME ProgramInv,
         status' \in [Models -> Statuses],
         flight' \in [Models -> SUBSET {"start", "stop", "check"}],
         UNCHANGED <<registryVars, main, exit, listener, client, taskVars, todo>>
  PROVE  ProgramInv'
BY RestTypes DEF ProgramInv, ProgramTypeOK, taskVars

LEMMA ServerTypes ==
  ASSUME ProgramInv, ServerAssigned \/ ServerListens \/ ServerFails \/ ServerError
  PROVE  ProgramInv'
<1>1. /\ UNCHANGED <<registryVars, client, modelVars, taskVars, todo>>
      /\ listener' \in {"assigned", "listening", "failed", listener}
      /\ \/ UNCHANGED <<main, exit>>
         \/ main = "serve" /\ main' = "exited" /\ exit' = "fatal"
  BY DEF ServerAssigned, ServerListens, ServerFails, ServerError, Listener
<1> QED
  BY <1>1, RestTypes DEF ProgramInv, ProgramTypeOK, modelVars, taskVars, MainLabels

LEMMA ClientTypes ==
  ASSUME ProgramInv, NEW r \in Clients, Arrive(r) \/ Answer(r) \/ \E k \in Strings : Act(r, k)
  PROVE  ProgramInv'
<1>1. CASE Arrive(r) \/ Answer(r)
  <2>1. /\ UNCHANGED <<registryVars, main, exit, listener, modelVars, taskVars, todo>>
        /\ client' \in [Clients -> {"idle", "active"}]
    BY <1>1 DEF Arrive, Answer, ClientGoes, ProgramInv, ProgramTypeOK
  <2> QED
    BY <2>1, RestTypes DEF ProgramInv, ProgramTypeOK, modelVars, taskVars
<1>2. ASSUME NEW k \in Strings, Act(r, k) PROVE ProgramInv'
  <2>1. index[k] \in Models
    <3>1. index[k] \in 0 .. indexed /\ index[k] # NoModel /\ indexed \in Nat
      BY <1>2 DEF Act, ProgramInv, RegistryInv, RegistryTypeOK
    <3> QED
      BY <3>1 DEF Models, NoModel
  <2>2. /\ status' \in [Models -> Statuses]
        /\ flight' \in [Models -> SUBSET {"start", "stop", "check"}]
    BY <1>2, <2>1, StartEffectTypes, StopEffectTypes DEF Act
  <2> QED
    BY <1>2, <2>2, ModelStepTypes DEF Act
<1> QED
  BY <1>1, <1>2

LEMMA TaskTypes ==
  ASSUME ProgramInv,
         \/ ReaperTicks \/ ReaperChecked \/ ReaperEnds \/ MonitorEnds
         \/ \E m \in Models : GoroutineEnds(m) \/ ReaperStops(m) \/ MonitorTicks(m)
  PROVE  ProgramInv'
<1>1. CASE ReaperTicks \/ ReaperChecked \/ ReaperEnds \/ MonitorEnds
  <2>1. /\ UNCHANGED <<registryVars, main, exit, listener, client, modelVars, todo>>
        /\ reaper' \in {"select", "check", "ended", reaper} /\ monitor' \in {"ended", monitor}
    BY <1>1 DEF ReaperTicks, ReaperChecked, ReaperEnds, MonitorEnds, ReaperGoes
  <2> QED
    BY <2>1, RestTypes DEF ProgramInv, ProgramTypeOK, modelVars
<1>2. ASSUME NEW m \in Models, GoroutineEnds(m) PROVE ProgramInv'
  BY <1>2, LandTypes, ModelStepTypes DEF GoroutineEnds
<1>3. ASSUME NEW m \in Models, ReaperStops(m) PROVE ProgramInv'
  <2>1. StopEffect(m)
    BY <1>3, NamedModel DEF ReaperStops
  <2> QED
    BY <1>3, <2>1, StopEffectTypes, ModelStepTypes DEF ReaperStops
<1>4. ASSUME NEW m \in Models, MonitorTicks(m) PROVE ProgramInv'
  <2>1. /\ flight' = [flight EXCEPT ![m] = @ \cup {"check"}]
        /\ UNCHANGED <<registryVars, main, exit, listener, client, status, taskVars, todo>>
    BY <1>4 DEF MonitorTicks, Spawn
  <2>2. /\ status' \in [Models -> Statuses]
        /\ flight' \in [Models -> SUBSET {"start", "stop", "check"}]
    BY <2>1 DEF ProgramInv, ProgramTypeOK
  <2> QED
    BY <2>1, <2>2, ModelStepTypes
<1> QED
  BY <1>1, <1>2, <1>3, <1>4

(* The way down.                                                           *)
LEMMA MainTypes ==
  ASSUME ProgramInv, Signal \/ ShutdownStep
  PROVE  ProgramInv'
<1> DEFINE Todos == [left : SUBSET Models, now : 0 .. indexed]
<1>1. todo \in Todos /\ indexed \in Nat /\ NoModel \in 0 .. indexed
  BY DEF ProgramInv, ProgramTypeOK, RegistryInv, RegistryTypeOK, NoModel
<1>2. ASSUME NEW from \in {"serve", "cancel", "scan"}, NEW to \in {"cancel", "scan", "stop", "drain"},
             MainGoes(from, to), todo' \in Todos, to = "stop" <=> todo'.now # NoModel
      PROVE  ProgramInv'
  BY <1>2, RestTypes DEF MainGoes, ProgramInv, ProgramTypeOK, modelVars, taskVars, MainLabels
<1>3. main # "stop" => todo.now = NoModel
  BY DEF ProgramInv, ProgramTypeOK
<1>4. CASE Signal \/ WaitForTasks
  BY <1>1, <1>2, <1>3, <1>4 DEF Signal, WaitForTasks, MainGoes
<1>5. CASE CancelAndList
  <2>1. ListModels = Models
    BY ListedByName DEF ProgramInv
  <2>2. /\ MainGoes("cancel", "scan") /\ todo' = [todo EXCEPT !.left = Models]
        /\ main = "cancel"
    BY <1>5, <2>1 DEF CancelAndList, MainGoes
  <2>3. todo' \in Todos /\ todo'.now = NoModel
    BY <1>1, <1>3, <2>2
  <2> QED
    BY <1>2, <2>2, <2>3
<1>6. ASSUME NEW m \in 1 .. MaxModels, Skip(m) PROVE ProgramInv'
  <2>1. MainGoes("scan", "scan") /\ todo' = [todo EXCEPT !.left = @ \ {m}] /\ main = "scan"
    BY <1>6 DEF Skip, MainGoes
  <2>2. todo' \in Todos /\ todo'.now = NoModel
    BY <1>1, <1>3, <2>1
  <2> QED
    BY <1>2, <2>1, <2>2
<1>7. ASSUME NEW m \in 1 .. MaxModels, Pick(m) PROVE ProgramInv'
  <2>1. /\ MainGoes("scan", "stop") /\ m \in todo.left
        /\ todo' = [left |-> todo.left \ {m}, now |-> m]
    BY <1>7 DEF Pick
  <2>2. m \in 1 .. indexed
    BY <1>1, <2>1 DEF Models
  <2>3. todo' \in Todos /\ todo'.now # NoModel
    BY <1>1, <2>1, <2>2 DEF NoModel
  <2> QED
    BY <1>2, <2>1, <2>3
<1>8. CASE Stop
  <2>1. /\ main = "stop" /\ main' = "scan" /\ todo' = [todo EXCEPT !.now = NoModel]
        /\ StopEffect(index[config[todo.now].name])
        /\ UNCHANGED <<registryVars, exit, listener, client, taskVars>>
    BY <1>8 DEF Stop
  <2>2. todo.now \in Models
    BY <1>1, <2>1 DEF ProgramInv, ProgramTypeOK, Models, NoModel
  <2>3. StopEffect(todo.now)
    BY <2>1, <2>2, NamedModel
  <2>4. /\ status' \in [Models -> Statuses]
        /\ flight' \in [Models -> SUBSET {"start", "stop", "check"}]
    BY <2>2, <2>3, StopEffectTypes
  <2>5. todo' \in Todos /\ todo'.now = NoModel
    BY <1>1, <2>1
  <2> QED
    BY <2>1, <2>4, <2>5, RestTypes DEF ProgramInv, ProgramTypeOK, taskVars, MainLabels
<1>9. CASE Drain
  <2>1. /\ main = "drain" /\ main' = "exited" /\ exit' \in {"panic", "graceful", "failed"}
        /\ UNCHANGED <<registryVars, listener, client, modelVars, taskVars, todo>>
    BY <1>9 DEF Drain
  <2> QED
    BY <2>1, RestTypes DEF ProgramInv, ProgramTypeOK, modelVars, taskVars, MainLabels
<1> QED
  BY <1>4, <1>5, <1>6, <1>7, <1>8, <1>9 DEF ShutdownStep

LEMMA ProgramInvInitial == ProgramInit => ProgramInv
<1> SUFFICES ASSUME ProgramInit PROVE ProgramInv
  OBVIOUS
<1>1. RegistryInv
  BY RegistryInvInitial DEF ProgramInit
<1>2. ProgramTypeOK
  BY <1>1 DEF ProgramInit, RegistryInit, ProgramTypeOK, RegistryInv, MainLabels, Models, NoModel
<1> QED
  BY <1>1, <1>2 DEF ProgramInv

LEMMA ProgramInvStep == ProgramInv /\ [ProgramNext]_programVars => ProgramInv'
<1> SUFFICES ASSUME ProgramInv, [ProgramNext]_programVars PROVE ProgramInv'
  OBVIOUS
<1>1. CASE UNCHANGED programVars
  BY <1>1, ModelStepTypes DEF programVars, modelVars, ProgramInv, ProgramTypeOK
<1> QED
  BY <1>1, SetupTypes, ServerTypes, ClientTypes, TaskTypes, MainTypes DEF ProgramNext

(* Whoever sets a status, a request, a goroutine that ends, the reaper,    *)
(* the monitor or Shutdown, sets one of the five on a model that exists,   *)
(* Shutdown has a model in hand exactly while it stops one, and the        *)
(* process has one way to have ended once it has (manager.go:210-227,      *)
(* 536-547, main.go:112-140).                                              *)
THEOREM ProgramTypeCorrect == ProgramSpec => []ProgramTypeOK
<1>1. ProgramInv => ProgramTypeOK
  BY DEF ProgramInv
<1> QED
  BY <1>1, ProgramInvInitial, ProgramInvStep, PTL DEF ProgramSpec
=============================================================================

-------------------------- MODULE Registry_proofs ---------------------------
(***************************************************************************)
(* Every model is found under its own name, for any number of models and   *)
(* any names and aliases that Validate lets pass; and the program, which   *)
(* goes on after the names are indexed, keeps it so.                       *)
(***************************************************************************)
EXTENDS Program, TLAPS

(* What the loop of Validate has made sure of: names are different, and    *)
(* the aliases of a model are not the names of models up to it.            *)
ConfigOK ==
  \A m, n \in 1 .. Len(config) :
    /\ m < n => config[m].name # config[n].name
    /\ m <= n => config[m].name \notin config[n].aliases

(* The inductive invariant.  OwnNameIndexed alone is not: what IndexModel  *)
(* overwrites depends on what Validate refused.                            *)
RegistryInv == RegistryTypeOK /\ ConfigOK /\ OwnNameIndexed

-----------------------------------------------------------------------------
(* Appending an accepted entry keeps what Validate has made sure of.       *)
LEMMA LoadKeepsInv ==
  ASSUME RegistryInv, NEW e \in Entries, LoadModel(e)
  PROVE  RegistryInv'
<1> DEFINE n == Len(config)
<1>1. /\ config \in Seq(Entries) /\ n \in Nat
      /\ config' = Append(config, e)
      /\ e.name \notin NamesUpTo(n) /\ e.aliases \cap (NamesUpTo(n) \cup {e.name}) = {}
      /\ UNCHANGED <<phase, indexed, index>>
  BY DEF RegistryInv, RegistryTypeOK, LoadModel, Accepts
<1>2. /\ config' \in Seq(Entries) /\ Len(config') = n + 1
      /\ config'[n + 1] = e /\ \A m \in 1 .. n : config'[m] = config[m]
  BY <1>1
<1>3. \A m \in 1 .. n : config[m].name # e.name /\ config[m].name \notin e.aliases
  BY <1>1 DEF NamesUpTo
<1>4. RegistryTypeOK'
  BY <1>1, <1>2 DEF RegistryInv, RegistryTypeOK
<1>5. ConfigOK'
  <2> SUFFICES ASSUME NEW m \in 1 .. n + 1, NEW k \in 1 .. n + 1
               PROVE  /\ m < k => config'[m].name # config'[k].name
                      /\ m <= k => config'[m].name \notin config'[k].aliases
    BY <1>2 DEF ConfigOK
  <2>1. CASE k \in 1 .. n /\ m \in 1 .. n
    BY <2>1, <1>2 DEF RegistryInv, ConfigOK
  <2>2. CASE k = n + 1 /\ m \in 1 .. n
    BY <2>2, <1>1, <1>2, <1>3
  <2>3. CASE k = n + 1 /\ m = n + 1
    BY <2>3, <1>1, <1>2
  <2>4. CASE k \in 1 .. n /\ m = n + 1
    BY <2>4, <1>1
  <2> QED
    BY <2>1, <2>2, <2>3, <2>4, <1>1
<1>6. OwnNameIndexed'
  <2>1. indexed \in 0 .. n
    BY DEF RegistryInv, RegistryTypeOK
  <2> QED
    BY <1>1, <1>2, <2>1 DEF RegistryInv, OwnNameIndexed, Models
<1> QED
  BY <1>4, <1>5, <1>6 DEF RegistryInv

(* A model takes its name and its aliases, none of which is the name of a  *)
(* model before it.                                                        *)
LEMMA IndexKeepsInv ==
  ASSUME RegistryInv, IndexModel
  PROVE  RegistryInv'
<1> DEFINE n == indexed + 1
           e == config[n]
<1>1. /\ config \in Seq(Entries) /\ indexed \in Nat /\ n \in 1 .. Len(config)
      /\ indexed' = n /\ UNCHANGED <<phase, config>>
      /\ index' = [k \in Strings |-> IF k \in {e.name} \cup e.aliases THEN n ELSE index[k]]
  BY DEF RegistryInv, RegistryTypeOK, IndexModel
<1>2. \A m \in 1 .. Len(config) : config[m].name \in Strings
  <2> TAKE m \in 1 .. Len(config)
  <2>1. config[m] \in Entries
    BY <1>1
  <2> QED
    BY <2>1 DEF Entries
<1>3. RegistryTypeOK'
  <2>1. index \in [Strings -> 0 .. indexed]
    BY DEF RegistryInv, RegistryTypeOK
  <2>2. index' \in [Strings -> 0 .. n]
    BY <1>1, <2>1
  <2> QED
    BY <1>1, <2>2 DEF RegistryInv, RegistryTypeOK
<1>4. OwnNameIndexed'
  <2> SUFFICES ASSUME NEW m \in 1 .. n PROVE index'[config[m].name] = m
    BY <1>1 DEF OwnNameIndexed, Models
  <2>1. CASE m = n
    BY <2>1, <1>1, <1>2
  <2>2. CASE m \in 1 .. indexed
    <3>1. m < n /\ m \in 1 .. Len(config)
      BY <2>2, <1>1
    <3>2. config[m].name # e.name /\ config[m].name \notin e.aliases
      BY <3>1, <1>1 DEF RegistryInv, ConfigOK
    <3>3. index[config[m].name] = m
      BY <2>2 DEF RegistryInv, OwnNameIndexed, Models
    <3> QED
      BY <3>1, <3>2, <3>3, <1>1, <1>2
  <2> QED
    BY <2>1, <2>2, <1>1
<1>5. ConfigOK'
  BY <1>1 DEF RegistryInv, ConfigOK
<1> QED
  BY <1>3, <1>4, <1>5 DEF RegistryInv

LEMMA RegistryInvInitial == RegistryInit => RegistryInv
BY DEF RegistryInit, RegistryInv, RegistryTypeOK, ConfigOK, OwnNameIndexed, Models, NoModel

LEMMA RegistryInvStep == RegistryInv /\ [RegistryNext]_registryVars => RegistryInv'
<1> SUFFICES ASSUME RegistryInv, [RegistryNext]_registryVars PROVE RegistryInv'
  OBVIOUS
<1>1. ASSUME NEW e \in Entries, LoadModel(e) PROVE RegistryInv'
  BY <1>1, LoadKeepsInv
<1>2. ASSUME config' = config, indexed' = indexed, index' = index,
             phase' \in {"refused", "index", "ready", phase}
      PROVE  RegistryInv'
  BY <1>2 DEF RegistryInv, RegistryTypeOK, ConfigOK, OwnNameIndexed, Models
<1>3. ASSUME NEW e \in Entries, Clash(e) PROVE RegistryInv'
  BY <1>2, <1>3 DEF Clash
<1>4. CASE LoadFails
  BY <1>2, <1>4 DEF LoadFails
<1>5. CASE LoadEnds
  BY <1>2, <1>5 DEF LoadEnds
<1>6. CASE IndexModel
  BY <1>6, IndexKeepsInv
<1>7. CASE IndexEnds
  BY <1>2, <1>7 DEF IndexEnds
<1>8. CASE UNCHANGED registryVars
  BY <1>2, <1>8 DEF registryVars
<1> QED
  BY <1>1, <1>3, <1>4, <1>5, <1>6, <1>7, <1>8 DEF RegistryNext

(* What the list holds follows from where the names lead.                  *)
LEMMA ListedByName == RegistryInv => ListModels = Models
<1> SUFFICES ASSUME RegistryInv PROVE ListModels = Models
  OBVIOUS
<1>1. index \in [Strings -> 0 .. indexed] /\ indexed \in 0 .. Len(config) /\ config \in Seq(Entries)
  BY DEF RegistryInv, RegistryTypeOK
<1>2. ListModels \subseteq Models
  BY <1>1 DEF ListModels, Models, NoModel
<1>3. ASSUME NEW m \in Models PROVE m \in ListModels
  <2>1. m \in 1 .. Len(config) /\ m # NoModel
    BY <1>1 DEF Models, NoModel
  <2>2. config[m].name \in Strings
    <3>1. config[m] \in Entries
      BY <1>1, <2>1
    <3> QED
      BY <3>1 DEF Entries
  <2>3. index[config[m].name] = m
    BY <1>3 DEF RegistryInv, OwnNameIndexed
  <2> QED
    BY <2>1, <2>2, <2>3 DEF ListModels
<1> QED
  BY <1>2, <1>3

-----------------------------------------------------------------------------
(* The names are right however the aliases of a configuration that         *)
(* Validate accepts clash (config.go:260-281, manager.go:47-56).           *)
THEOREM NamesCorrect == RegistrySpec => []OwnNameIndexed
<1>1. RegistryInv => OwnNameIndexed
  BY DEF RegistryInv
<1> QED
  BY <1>1, RegistryInvInitial, RegistryInvStep, PTL DEF RegistrySpec

(* To the names the whole program is the registry and nothing else: what   *)
(* runs after NewManager leaves the map alone (manager.go:47-56, 203-227). *)
THEOREM ProgramKeepsRegistry == ProgramSpec => RegistrySpec
<1>1. ProgramInit => RegistryInit
  BY DEF ProgramInit
<1>2. [ProgramNext]_programVars => [RegistryNext]_registryVars
  <2> SUFFICES ASSUME [ProgramNext]_programVars PROVE RegistryNext \/ UNCHANGED registryVars
    OBVIOUS
  <2>1. CASE Setup
    BY <2>1 DEF Setup
  <2>2. CASE ServerAssigned \/ ServerListens \/ ServerFails \/ ServerError
    BY <2>2 DEF ServerAssigned, ServerListens, ServerFails, ServerError, Listener
  <2>3. ASSUME NEW m \in Models, GoroutineEnds(m) \/ ReaperStops(m) \/ MonitorTicks(m)
        PROVE  UNCHANGED registryVars
    BY <2>3 DEF GoroutineEnds, ReaperStops, MonitorTicks
  <2>4. ASSUME NEW r \in Clients, Arrive(r) \/ Answer(r) \/ \E k \in Strings : Act(r, k)
        PROVE  UNCHANGED registryVars
    BY <2>4 DEF Arrive, Answer, Act, ClientGoes
  <2>5. CASE ReaperTicks \/ ReaperChecked \/ ReaperEnds \/ MonitorEnds
    BY <2>5 DEF ReaperTicks, ReaperChecked, ReaperEnds, MonitorEnds, ReaperGoes
  <2>6. CASE Signal \/ CancelAndList \/ WaitForTasks
    BY <2>6 DEF Signal, CancelAndList, WaitForTasks, MainGoes
  <2>7. CASE Stop \/ Drain
    BY <2>7 DEF Stop, Drain
  <2>8. ASSUME NEW m \in 1 .. MaxModels, Skip(m) \/ Pick(m) PROVE UNCHANGED registryVars
    BY <2>8 DEF Skip, Pick, MainGoes
  <2>9. CASE UNCHANGED programVars
    BY <2>9 DEF programVars
  <2> QED
    BY <2>1, <2>2, <2>3, <2>4, <2>5, <2>6, <2>7, <2>8, <2>9 DEF ProgramNext, ShutdownStep
<1> QED
  BY <1>1, <1>2, PTL DEF ProgramSpec, RegistrySpec
=============================================================================

-------------------------- MODULE Lifecycle_proofs --------------------------
(***************************************************************************)
(* Theorems about the port allocator and the life of a model, for any      *)
(* models, ports, clients and number of script goroutines.                 *)
(***************************************************************************)
EXTENDS Lifecycle, WellFoundedInduction, TLAPS

-----------------------------------------------------------------------------
(* Facts about the allocator's operators.                                  *)

(* A non-empty set of ports has a lowest one, and Min is that.             *)
LEMMA MinProperty ==
  ASSUME NEW S \in SUBSET Nat, S # {}
  PROVE  Min(S) \in S /\ \A p \in S : Min(S) <= p
<1> DEFINE R == OpToRel(<, Nat)
<1>1. IsWellFoundedOn(R, Nat)
  BY NatLessThanWellFounded
<1>2. PICK x \in S : \A y \in S : <<y, x>> \notin R
  <2> HIDE DEF R
  <2> QED BY <1>1, WFMin
<1>3. \A y \in S : ~(y < x)
  BY <1>2 DEF OpToRel
<1>4. \E z \in S : \A y \in S : z <= y
  BY <1>3
<1> QED BY <1>4 DEF Min

(* Allocate returns the model's lease, or an unleased port if it has none, *)
(* or the error value.                                                     *)
LEMMA AllocateResultProperty ==
  ASSUME AllocatorTypeOK, NEW m \in Models, NEW busy
  PROVE  /\ AllocateResult(m, busy) \in Ports \cup {NoPort}
         /\ HeldBy(m) # {} => AllocateResult(m, busy) \in HeldBy(m)
         /\ HeldBy(m) = {} /\ AllocateResult(m, busy) # NoPort
              => allocated[AllocateResult(m, busy)] = NoModel
<1>1. CASE HeldBy(m) # {}
  BY <1>1 DEF AllocateResult, HeldBy
<1>2. CASE HeldBy(m) = {} /\ Candidates(busy) # {}
  <2>1. Candidates(busy) \in SUBSET Nat
    BY PortsAssumption DEF Candidates
  <2>2. Min(Candidates(busy)) \in Candidates(busy)
    BY <1>2, <2>1, MinProperty
  <2> QED BY <1>2, <2>2 DEF AllocateResult, Candidates
<1>3. CASE HeldBy(m) = {} /\ Candidates(busy) = {}
  BY <1>3 DEF AllocateResult
<1> QED BY <1>1, <1>2, <1>3

(* Release keeps the type of the table.                                    *)
LEMMA ReleaseType ==
  ASSUME AllocatorTypeOK, NEW m, Release(m)
  PROVE  AllocatorTypeOK'
BY DEF Release, AllocatorTypeOK, HeldBy

-----------------------------------------------------------------------------
(* Type correctness.                                                       *)

LEMMA InitType == Init => TypeOK
BY ConfigAssumption
   DEF Init, TypeOK, AllocatorTypeOK, NoLeases, NoCall, NoScript, NoPort, Statuses, CallType,
       ScriptType, CallLabels, ScriptLabels, Resting

LEMMA BeginType ==
  ASSUME TypeOK, NEW c \in Callers, NEW m \in Models, NEW op \in DOMAIN Entry, Begin(c, m, op)
  PROVE  TypeOK'
<1>1. Entry[op] \in CallLabels
  BY DEF Entry, CallLabels
<1> QED
  BY <1>1 DEF TypeOK, Begin, AllocatorTypeOK, CallType, NoCall, Resting, modelVars, NoPort

(* Every variable but allocated keeps its type in a step of a caller.      *)
LEMMA CallStepType ==
  ASSUME TypeOK, NEW c \in Callers, CallStep(c)
  PROVE  TypeOK'
<1> DEFINE m == call[c].model
<1>0. call[c] \in CallType /\ (~Resting(c) => m \in Models)
  BY DEF TypeOK
<1>1. CASE StartIfRunning(c)
  BY <1>0, <1>1 DEF StartIfRunning, Branch, Goto, TypeOK, Finish, NoCall, AllocatorTypeOK, CallType, CallLabels, Resting, modelVars, NoPort
<1>2. CASE StartIfStarting(c)
  BY <1>0, <1>2 DEF StartIfStarting, Branch, Goto, TypeOK, Finish, NoCall, AllocatorTypeOK, CallType, CallLabels, Resting, modelVars, NoPort
<1>3. CASE StopIfStopped(c)
  BY <1>0, <1>3 DEF StopIfStopped, Branch, Goto, TypeOK, Finish, NoCall, AllocatorTypeOK, CallType, CallLabels, Resting, modelVars, NoPort
<1>4. CASE StopIfStopping(c)
  BY <1>0, <1>4 DEF StopIfStopping, Branch, Goto, TypeOK, Finish, NoCall, AllocatorTypeOK, CallType, CallLabels, Resting, modelVars, NoPort
<1>5. CASE RestartIfError(c)
  BY <1>0, <1>5 DEF RestartIfError, Branch, Goto, TypeOK, AllocatorTypeOK, CallType, CallLabels, Resting, modelVars, NoPort
<1>6. CASE RestartIsRunning(c)
  BY <1>0, <1>6 DEF RestartIsRunning, Branch, Goto, TypeOK, AfterDecision, AllocatorTypeOK, CallType, CallLabels, Resting, modelVars, NoPort
<1>7. CASE RestartIsStopping(c)
  BY <1>0, <1>7 DEF RestartIsStopping, Branch, Goto, TypeOK, AfterDecision, AllocatorTypeOK, CallType, CallLabels, Resting, modelVars, NoPort
<1>8. CASE StartSetStarting(c)
  BY <1>0, <1>8 DEF StartSetStarting, Goto, TypeOK, SetStatus, Statuses, AllocatorTypeOK, CallType, CallLabels, Resting, modelVars, NoPort
<1>9. CASE StartSetStartedAt(c)
  BY <1>0, <1>9 DEF StartSetStartedAt, Goto, TypeOK, AllocatorTypeOK, CallType, CallLabels, Resting, modelVars, NoPort
<1>10. CASE StartAllocate(c)
  <2>1. m \in Models
    BY <1>0, <1>10 DEF StartAllocate, Resting
  <2>2. PICK busy \in SUBSET Ports :
          LET p == AllocateResult(m, busy) IN
          /\ Grant(m, p)
          /\ call' = [call EXCEPT ![c].at = IF p = NoPort THEN "allocFailed" ELSE "spawn",
                                  ![c].port = p]
    BY <1>10 DEF StartAllocate
  <2>3. AllocateResult(m, busy) \in Ports \cup {NoPort}
    BY <2>1, AllocateResultProperty DEF TypeOK
  <2>4. AllocatorTypeOK'
    BY <2>1, <2>2, <2>3 DEF Grant, AllocatorTypeOK, TypeOK
  <2> QED
    BY <1>0, <1>10, <2>1, <2>2, <2>3, <2>4 DEF StartAllocate, TypeOK, CallType, CallLabels, Resting, modelVars
<1>11. CASE StartAllocFailed(c)
  BY <1>0, <1>11 DEF StartAllocFailed, Goto, TypeOK, SetStatus, Statuses, Finish, NoCall, AllocatorTypeOK, CallType, CallLabels, Resting, modelVars, NoPort
<1>12. CASE StartSpawn(c)
  BY <1>0, <1>12 DEF StartSpawn, Goto, TypeOK, Spawn, ScriptType, ScriptLabels, NoScript, Finish, NoCall, AllocatorTypeOK, CallType, CallLabels, Resting, modelVars, NoPort
<1>13. CASE StopWithoutScript(c)
  BY <1>0, <1>13 DEF StopWithoutScript, Goto, TypeOK, SetStatus, Statuses, AllocatorTypeOK, CallType, CallLabels, Resting, modelVars, NoPort
<1>14. CASE StopWithScript(c)
  BY <1>0, <1>14 DEF StopWithScript, Goto, TypeOK, SetStatus, Statuses, Spawn, ScriptType, ScriptLabels, NoScript, Finish, NoCall, AllocatorTypeOK, CallType, CallLabels, Resting, modelVars, NoPort
<1>15. CASE RestartReadPort(c)
  BY <1>0, <1>15 DEF RestartReadPort, TypeOK, AllocatorTypeOK, CallType, CallLabels, Resting, modelVars, NoPort
<1>16. CASE RestartScriptEnds(c)
  BY <1>0, <1>16 DEF RestartScriptEnds, Goto, TypeOK, AllocatorTypeOK, CallType, CallLabels, Resting, modelVars, NoPort
<1>17. CASE RestartSetStopped(c)
  BY <1>0, <1>17 DEF RestartSetStopped, Goto, TypeOK, SetStatus, Statuses, AllocatorTypeOK, CallType, CallLabels, Resting, modelVars, NoPort
<1>18. CASE CallRelease(c)
  <2>1. AllocatorTypeOK'
    BY <1>18, ReleaseType DEF CallRelease, TypeOK
  <2> QED
    BY <1>0, <1>18, <2>1 DEF CallRelease, Goto, Finish, NoCall, TypeOK, CallType, CallLabels, Resting, modelVars, NoPort
<1> QED
  BY <1>1, <1>2, <1>3, <1>4, <1>5, <1>6, <1>7, <1>8, <1>9, <1>10, <1>11, <1>12, <1>13, <1>14, <1>15, <1>16, <1>17, <1>18 DEF CallStep

LEMMA ScriptStepType ==
  ASSUME TypeOK, NEW s \in Scripts, ScriptStep(s)
  PROVE  TypeOK'
<1>0. script[s] \in ScriptType /\ (script[s].at # "free" => script[s].model \in Models)
  BY DEF TypeOK
<1>1. CASE StartPipeFails(s)
  BY <1>0, <1>1 DEF StartPipeFails, TypeOK, Resting, Become, SetStatus, Statuses, AllocatorTypeOK, ScriptType, ScriptLabels, NoScript, modelVars, NoPort
<1>2. CASE StartScriptRuns(s)
  BY <1>0, <1>2 DEF StartScriptRuns, TypeOK, Resting, Become, AllocatorTypeOK, ScriptType, ScriptLabels, NoScript, modelVars, NoPort
<1>3. CASE StartScriptFails(s)
  BY <1>0, <1>3 DEF StartScriptFails, TypeOK, Resting, Become, SetStatus, Statuses, AllocatorTypeOK, ScriptType, ScriptLabels, NoScript, modelVars, NoPort
<1>4. CASE StartScriptSucceeds(s)
  BY <1>0, <1>4 DEF StartScriptSucceeds, TypeOK, Resting, Become, Vanish, SetStatus, Statuses, AllocatorTypeOK, ScriptType, ScriptLabels, NoScript, modelVars, NoPort
<1>5. CASE StartTouches(s)
  BY <1>0, <1>5 DEF StartTouches, TypeOK, Resting, Become, SetHealthy, Touch, AllocatorTypeOK, ScriptType, ScriptLabels, NoScript, modelVars, NoPort
<1>6. CASE StartFailureReleases(s)
  <2>1. AllocatorTypeOK'
    BY <1>6, ReleaseType DEF StartFailureReleases, TypeOK
  <2> QED
    BY <1>0, <1>6, <2>1 DEF StartFailureReleases, Become, Vanish, TypeOK, ScriptType, ScriptLabels, NoScript, modelVars, NoPort, Resting
<1>7. CASE StopLaunchFails(s)
  BY <1>0, <1>7 DEF StopLaunchFails, TypeOK, Resting, Become, SetStatus, Statuses, AllocatorTypeOK, ScriptType, ScriptLabels, NoScript, modelVars, NoPort
<1>8. CASE StopScriptRuns(s)
  BY <1>0, <1>8 DEF StopScriptRuns, TypeOK, Resting, AllocatorTypeOK, ScriptType, ScriptLabels, NoScript, modelVars, NoPort
<1>9. CASE StopScriptEnds(s)
  BY <1>0, <1>9 DEF StopScriptEnds, TypeOK, Resting, Become, SetStatus, SetHealthy, Statuses, AllocatorTypeOK, ScriptType, ScriptLabels, NoScript, modelVars, NoPort
<1>10. CASE StopReleases(s)
  <2>1. AllocatorTypeOK'
    BY <1>10, ReleaseType DEF StopReleases, TypeOK
  <2> QED
    BY <1>0, <1>10, <2>1 DEF StopReleases, Become, Vanish, TypeOK, ScriptType, ScriptLabels, NoScript, modelVars, NoPort, Resting
<1> QED
  BY <1>1, <1>2, <1>3, <1>4, <1>5, <1>6, <1>7, <1>8, <1>9, <1>10 DEF ScriptStep

LEMMA NextType == TypeOK /\ [Next]_vars => TypeOK'
<1> SUFFICES ASSUME TypeOK, [Next]_vars PROVE TypeOK'
  OBVIOUS
<1>1. CASE UNCHANGED vars
  BY <1>1 DEF vars, modelVars, TypeOK, AllocatorTypeOK, Resting
<1>2. ASSUME NEW s \in Scripts, Notify(s) PROVE TypeOK'
  BY <1>2 DEF Notify, Vanish, TypeOK, AllocatorTypeOK, ScriptType, ScriptLabels, NoScript, modelVars, NoPort, Resting
<1> QED
  BY <1>1, <1>2, BeginType, CallStepType, ScriptStepType DEF Next, Step, Callers

(* The variables of the manager keep their types, and a caller or a script *)
(* goroutine at work is at work on a model.                                *)
THEOREM TypeCorrect == Spec => []TypeOK
  BY InitType, NextType, PTL DEF Spec

-----------------------------------------------------------------------------
(* One lease per model.                                                    *)

LEMMA ReleaseOnePort ==
  ASSUME AllocatorTypeOK, OnePortPerModel, NEW m, Release(m)
  PROVE  OnePortPerModel'
BY NoModelAssumption DEF Release, AllocatorTypeOK, OnePortPerModel, HeldBy

LEMMA AllocateOnePort ==
  ASSUME TypeOK, OnePortPerModel, NEW c \in Callers, StartAllocate(c)
  PROVE  OnePortPerModel'
<1> DEFINE m == call[c].model
<1>1. m \in Models
  BY DEF StartAllocate, TypeOK, Resting
<1>2. PICK busy \in SUBSET Ports : Grant(m, AllocateResult(m, busy))
  BY DEF StartAllocate
<1> DEFINE p == AllocateResult(m, busy)
<1>3. /\ p \in Ports \cup {NoPort}
      /\ HeldBy(m) # {} => p \in HeldBy(m)
      /\ HeldBy(m) = {} /\ p # NoPort => allocated[p] = NoModel
  BY <1>1, AllocateResultProperty DEF TypeOK
<1> HIDE DEF m, p
<1>4. CASE p = NoPort
  BY <1>2, <1>4 DEF Grant, OnePortPerModel, p, m
<1>5. CASE p # NoPort /\ HeldBy(m) # {}
  BY <1>2, <1>3, <1>5 DEF Grant, OnePortPerModel, HeldBy, TypeOK, AllocatorTypeOK, p, m
<1>6. CASE p # NoPort /\ HeldBy(m) = {}
  BY <1>1, <1>2, <1>3, <1>6, NoModelAssumption
     DEF Grant, OnePortPerModel, HeldBy, TypeOK, AllocatorTypeOK, p, m
<1> QED BY <1>4, <1>5, <1>6

(* The lease table changes in the allocator's steps only.                  *)
LEMMA AllocatorSteps ==
  ASSUME TypeOK, [Next]_vars
  PROVE  \/ UNCHANGED allocated
         \/ \E m \in Models : Release(m)
         \/ \E c \in Callers : StartAllocate(c)
<1>1. ASSUME NEW c \in Callers, CallStep(c)
      PROVE  UNCHANGED allocated \/ (\E m \in Models : Release(m)) \/ StartAllocate(c)
  <2>1. CASE CallRelease(c)
    BY <2>1 DEF CallRelease, TypeOK, Resting
  <2>2. CASE ~CallRelease(c)
    BY <1>1, <2>2 DEF CallStep, Branch, StartIfRunning, StartIfStarting, StopIfStopped,
       StopIfStopping, RestartIfError, RestartIsRunning, RestartIsStopping, StartSetStarting,
       StartSetStartedAt, StartAllocFailed, StartSpawn, StopWithoutScript, StopWithScript,
       RestartReadPort, RestartScriptEnds, RestartSetStopped
  <2> QED BY <2>1, <2>2
<1>2. ASSUME NEW s \in Scripts, ScriptStep(s)
      PROVE  UNCHANGED allocated \/ \E m \in Models : Release(m)
  <2>1. CASE StartFailureReleases(s) \/ StopReleases(s)
    BY <2>1 DEF StartFailureReleases, StopReleases, TypeOK
  <2>2. CASE ~StartFailureReleases(s) /\ ~StopReleases(s)
    BY <1>2, <2>2 DEF ScriptStep, StartPipeFails, StartScriptRuns, StartScriptFails,
       StartScriptSucceeds, StartTouches, StopLaunchFails, StopScriptRuns, StopScriptEnds
  <2> QED BY <2>1, <2>2
<1>3. ASSUME NEW s \in Scripts, Notify(s) PROVE UNCHANGED allocated
  BY <1>3 DEF Notify
<1>4. ASSUME NEW c \in Operators, NEW m \in Models, NEW op \in DOMAIN Entry, Begin(c, m, op)
      PROVE  UNCHANGED allocated
  BY <1>4 DEF Begin
<1> QED BY <1>1, <1>2, <1>3, <1>4 DEF Next, Step, vars

LEMMA NextOnePort == TypeOK /\ OnePortPerModel /\ [Next]_vars => OnePortPerModel'
<1> SUFFICES ASSUME TypeOK, OnePortPerModel, [Next]_vars PROVE OnePortPerModel'
  OBVIOUS
<1>1. CASE UNCHANGED allocated
  BY <1>1 DEF OnePortPerModel
<1>2. CASE \E m \in Models : Release(m)
  BY <1>2, ReleaseOnePort DEF TypeOK
<1>3. CASE \E c \in Callers : StartAllocate(c)
  BY <1>3, AllocateOnePort
<1> QED BY <1>1, <1>2, <1>3, AllocatorSteps

(* No interleaving of Start, Stop and Restart gives a model two ports.     *)
THEOREM OnePortCorrect == Spec => []OnePortPerModel
<1>1. Init => OnePortPerModel
  BY DEF Init, NoLeases, OnePortPerModel
<1> QED
  BY <1>1, TypeCorrect, NextOnePort, PTL DEF Spec

-----------------------------------------------------------------------------
(* The allocator's promise: PortLease.                                     *)

(* Release takes a model's only lease, and no other model's.               *)
LEMMA ReleaseHeld ==
  ASSUME AllocatorTypeOK, OnePortPerModel, NEW m \in Models, NEW n \in Models, Release(m)
  PROVE  /\ HeldBy(m)' = {}
         /\ HeldBy(n)' \subseteq HeldBy(n)
BY NoModelAssumption DEF Release, HeldBy, AllocatorTypeOK, OnePortPerModel

(* A grant to one model takes nothing from, and gives nothing to, another. *)
LEMMA GrantHeld ==
  ASSUME AllocatorTypeOK, NEW m \in Models, NEW n \in Models, m # n, NEW p, Grant(n, p)
  PROVE  HeldBy(m)' \subseteq HeldBy(m)
BY DEF Grant, HeldBy, AllocatorTypeOK

(* The lease of a model is the one port it holds.                          *)
LEMMA LeaseOfHeld ==
  ASSUME NEW m \in Models
  PROVE  /\ HeldBy(m) = {} => LeaseOf(m) = NoPort
         /\ HeldBy(m) # {} => LeaseOf(m) \in HeldBy(m) /\ LeaseOf(m) # NoPort
BY PortsAssumption DEF LeaseOf, HeldBy, NoPort

(* A step of the manager is a step of the lease specification, or none.    *)
LEMMA NextLease ==
  ASSUME TypeOK, OnePortPerModel, [Next]_vars
  PROVE  [Lease!Next]_([m \in Models |-> LeaseOf(m)])
<1> DEFINE H == [m \in Models |-> LeaseOf(m)]
<1>0. AllocatorTypeOK
  BY DEF TypeOK
<1>1. CASE UNCHANGED allocated
  <2>1. \A m \in Models : LeaseOf(m)' = LeaseOf(m)
    BY <1>1 DEF LeaseOf, HeldBy
  <2> QED BY <2>1
<1>2. ASSUME NEW m \in Models, HeldBy(m) # {}, Release(m) PROVE Lease!Return(m)
  <2>1. LeaseOf(m)' = NoPort
    BY <1>0, <1>2, ReleaseHeld DEF LeaseOf
  <2>2. ASSUME NEW n \in Models \ {m} PROVE LeaseOf(n)' = LeaseOf(n)
    <3>1. HeldBy(n)' = HeldBy(n)
      BY <1>0, <1>2, <2>2, NoModelAssumption DEF Release, HeldBy, AllocatorTypeOK
    <3> QED BY <3>1 DEF LeaseOf
  <2>3. H' = [H EXCEPT ![m] = NoPort]
    BY <2>1, <2>2
  <2> QED BY <1>2, <2>3, LeaseOfHeld DEF Lease!Return, NoPort
<1>3. ASSUME NEW m \in Models, NEW p \in Ports, HeldBy(m) = {}, allocated[p] = NoModel, Grant(m, p)
      PROVE  Lease!Grant(m, p)
  <2>0. p # NoPort
    BY PortsAssumption DEF NoPort
  <2>1. HeldBy(m)' = {p}
    BY <1>0, <1>3, <2>0 DEF Grant, HeldBy, AllocatorTypeOK
  <2>2. LeaseOf(m)' = p
    BY <2>1 DEF LeaseOf
  <2>3. ASSUME NEW n \in Models \ {m} PROVE LeaseOf(n)' = LeaseOf(n)
    <3>1. HeldBy(n)' = HeldBy(n)
      BY <1>0, <1>3, <2>0, <2>3, NoModelAssumption DEF Grant, HeldBy, AllocatorTypeOK
    <3> QED BY <3>1 DEF LeaseOf
  <2>4. H' = [H EXCEPT ![m] = p]
    BY <2>2, <2>3
  <2>5. \A n \in Models : H[n] # p
    BY <1>3, <2>0, LeaseOfHeld, NoModelAssumption DEF HeldBy
  <2>6. H[m] = NoPort
    BY <1>3, LeaseOfHeld
  <2> QED BY <2>4, <2>5, <2>6 DEF Lease!Grant, NoPort
<1>4. CASE \E m \in Models : Release(m)
  <2>1. PICK m \in Models : Release(m)
    BY <1>4
  <2>2. CASE HeldBy(m) = {}
    BY <2>1, <2>2, <1>1 DEF Release
  <2>3. CASE HeldBy(m) # {}
    BY <2>1, <2>3, <1>2 DEF Lease!Next
  <2> QED BY <2>2, <2>3
<1>5. CASE \E c \in Callers : StartAllocate(c)
  <2>1. PICK c \in Callers : StartAllocate(c)
    BY <1>5
  <2> DEFINE m == call[c].model
  <2>2. m \in Models
    BY <2>1 DEF StartAllocate, TypeOK, Resting
  <2>3. PICK busy \in SUBSET Ports : Grant(m, AllocateResult(m, busy))
    BY <2>1 DEF StartAllocate
  <2> DEFINE p == AllocateResult(m, busy)
  <2>4. /\ p \in Ports \cup {NoPort}
        /\ HeldBy(m) # {} => p \in HeldBy(m)
        /\ HeldBy(m) = {} /\ p # NoPort => allocated[p] = NoModel
    BY <1>0, <2>2, AllocateResultProperty
  <2>5. Grant(m, p)
    BY <2>3
  <2> HIDE DEF m, p
  <2>6. CASE p = NoPort \/ HeldBy(m) # {}
    BY <1>0, <2>4, <2>5, <2>6, <1>1 DEF Grant, HeldBy, AllocatorTypeOK
  <2>7. CASE p # NoPort /\ HeldBy(m) = {}
    BY <2>2, <2>4, <2>5, <2>7, <1>3 DEF Lease!Next
  <2> QED BY <2>6, <2>7
<1> QED BY <1>1, <1>4, <1>5, AllocatorSteps

(* Whatever calls of the manager overlap, the table of leases behaves as   *)
(* PortLease says: the detailed module implements the abstract one.        *)
THEOREM LeaseCorrect == Spec => LeasePromise
<1>1. Init => Lease!Init
  <2> SUFFICES ASSUME Init PROVE Lease!Init
    OBVIOUS
  <2>1. \A m \in Models : HeldBy(m) = {}
    BY NoModelAssumption DEF Init, NoLeases, HeldBy
  <2> QED BY <2>1 DEF Lease!Init, LeaseOf, NoPort
<1>2. TypeOK /\ OnePortPerModel /\ [Next]_vars => [Lease!Next]_([m \in Models |-> LeaseOf(m)])
  BY NextLease
<1> QED
  BY <1>1, <1>2, TypeCorrect, OnePortCorrect, PTL DEF Spec, LeasePromise, Lease!Spec

-----------------------------------------------------------------------------
(* Every state in which a model waits for the manager has an owner.        *)

(* A goroutine stays where it is when the slot of another changes, or its  *)
(* own slot keeps the model and one of the labels.                         *)
LEMMA ScriptAtKept ==
  ASSUME TypeOK, NEW m \in Models, NEW labels, ScriptAt(m, labels),
         NEW s \in Scripts, NEW new, script' = [script EXCEPT ![s] = new],
         script[s].model = m /\ script[s].at \in labels => new.model = m /\ new.at \in labels
  PROVE  ScriptAt(m, labels)'
<1>1. PICK t \in Scripts : script[t].model = m /\ script[t].at \in labels
  BY DEF ScriptAt
<1>2. CASE t = s
  BY <1>1, <1>2 DEF ScriptAt, TypeOK
<1>3. CASE t # s
  BY <1>1, <1>3 DEF ScriptAt, TypeOK
<1> QED BY <1>2, <1>3

LEMMA NextStopping == TypeOK /\ StoppingHasOwner /\ [Next]_vars => StoppingHasOwner'
<1> DEFINE L == {"stopLaunch", "stopRunning"}
<1> SUFFICES ASSUME TypeOK, StoppingHasOwner, [Next]_vars,
                    NEW m \in Models, status'[m] = "stopping"
             PROVE  ScriptAt(m, L)'
  BY DEF StoppingHasOwner
<1>1. CASE status[m] = "stopping" /\ UNCHANGED script
  BY <1>1 DEF StoppingHasOwner, ScriptAt
<1>2. ASSUME NEW c \in Callers, StopWithScript(c), call[c].model = m PROVE ScriptAt(m, L)'
  BY <1>2 DEF StopWithScript, Spawn, ScriptAt, TypeOK
<1>3. ASSUME NEW s \in Scripts, NEW new, script' = [script EXCEPT ![s] = new],
             status[m] = "stopping",
             script[s].model = m /\ script[s].at \in L => new.model = m /\ new.at \in L
      PROVE  ScriptAt(m, L)'
  <2>1. ScriptAt(m, L)
    BY <1>3 DEF StoppingHasOwner
  <2> QED BY <1>3, <2>1, ScriptAtKept
<1>4. ASSUME NEW c \in Callers, CallStep(c) PROVE ScriptAt(m, L)'
  <2>1. CASE StartSpawn(c)
    <3>1. PICK s \in Scripts :
            /\ script[s] = NoScript
            /\ script' = [script EXCEPT ![s] = [at |-> "startLaunch", model |-> call[c].model,
                                                port |-> call[c].port]]
      BY <2>1 DEF StartSpawn, Spawn
    <3>2. status[m] = "stopping" /\ script[s].at \notin L
      BY <2>1, <3>1 DEF StartSpawn, NoScript
    <3> QED BY <3>1, <3>2, <1>3
  <2>2. CASE StopWithScript(c)
    <3>1. CASE call[c].model = m
      BY <2>2, <3>1, <1>2
    <3>2. CASE call[c].model # m
      <4>1. PICK s \in Scripts :
              /\ script[s] = NoScript
              /\ script' = [script EXCEPT ![s] = [at |-> "stopLaunch", model |-> call[c].model,
                                                  port |-> NoPort]]
        BY <2>2 DEF StopWithScript, Spawn
      <4>2. status[m] = "stopping" /\ script[s].at \notin L
        BY <2>2, <3>2, <4>1 DEF StopWithScript, SetStatus, NoScript, TypeOK
      <4> QED BY <4>1, <4>2, <1>3
    <3> QED BY <3>1, <3>2
  <2>3. CASE ~StartSpawn(c) /\ ~StopWithScript(c)
    <3>1. UNCHANGED script
      BY <1>4, <2>3 DEF CallStep, Branch, StartIfRunning, StartIfStarting, StopIfStopped,
           StopIfStopping, RestartIfError, RestartIsRunning, RestartIsStopping, StartSetStarting,
           StartSetStartedAt, StartAllocate, StartAllocFailed, StopWithoutScript, RestartReadPort,
           RestartScriptEnds, RestartSetStopped, CallRelease
    <3>2. status[m] = "stopping"
      BY <1>4, <2>3 DEF CallStep, Branch, StartIfRunning, StartIfStarting, StopIfStopped,
           StopIfStopping, RestartIfError, RestartIsRunning, RestartIsStopping, StartSetStarting,
           StartSetStartedAt, StartAllocate, StartAllocFailed, StopWithoutScript, RestartReadPort,
           RestartScriptEnds, RestartSetStopped, CallRelease, SetStatus, TypeOK, modelVars
    <3> QED BY <1>1, <3>1, <3>2
  <2> QED BY <2>1, <2>2, <2>3
<1>5. ASSUME NEW s \in Scripts, ScriptStep(s) PROVE ScriptAt(m, L)'
  <2>1. CASE StartPipeFails(s)
    BY <2>1, <1>3 DEF StartPipeFails, Become, SetStatus, TypeOK
  <2>2. CASE StartScriptRuns(s)
    BY <2>2, <1>3 DEF StartScriptRuns, Become, modelVars
  <2>3. CASE StartScriptFails(s)
    BY <2>3, <1>3 DEF StartScriptFails, Become, SetStatus, TypeOK
  <2>4. CASE StartScriptSucceeds(s)
    BY <2>4, <1>3 DEF StartScriptSucceeds, Become, Vanish, SetStatus, TypeOK
  <2>5. CASE StartTouches(s)
    BY <2>5, <1>3 DEF StartTouches, Become
  <2>6. CASE StartFailureReleases(s)
    BY <2>6, <1>3 DEF StartFailureReleases, Become, modelVars
  <2>7. CASE StopLaunchFails(s)
    BY <2>7, <1>3 DEF StopLaunchFails, Become, SetStatus, TypeOK
  <2>8. CASE StopScriptRuns(s)
    <3> DEFINE new == [script[s] EXCEPT !.at = "stopRunning", !.port = port[script[s].model]]
    <3>1. script' = [script EXCEPT ![s] = new] /\ status[m] = "stopping"
      BY <2>8 DEF StopScriptRuns, modelVars, TypeOK
    <3>2. script[s] \in ScriptType
      BY DEF TypeOK
    <3>3. new.model = script[s].model /\ new.at \in L
      BY <3>2 DEF ScriptType
    <3> HIDE DEF new, L
    <3> QED BY <3>1, <3>3, <1>3
  <2>9. CASE StopScriptEnds(s)
    BY <2>9, <1>3 DEF StopScriptEnds, Become, SetStatus, TypeOK
  <2>10. CASE StopReleases(s)
    BY <2>10, <1>3 DEF StopReleases, Vanish, modelVars
  <2> QED BY <1>5, <2>1, <2>2, <2>3, <2>4, <2>5, <2>6, <2>7, <2>8, <2>9, <2>10 DEF ScriptStep
<1>6. ASSUME NEW s \in Scripts, Notify(s) PROVE ScriptAt(m, L)'
  BY <1>6, <1>3 DEF Notify, Vanish, modelVars
<1>7. ASSUME NEW c \in Operators, NEW n \in Models, NEW op \in DOMAIN Entry, Begin(c, n, op)
      PROVE  ScriptAt(m, L)'
  BY <1>7, <1>1 DEF Begin, modelVars
<1>8. CASE UNCHANGED vars
  BY <1>8, <1>1 DEF vars, modelVars
<1> QED BY <1>4, <1>5, <1>6, <1>7, <1>8 DEF Next, Step

(* A stopping model always has the goroutine that will end its stopping.   *)
THEOREM StoppingOwned == Spec => []StoppingHasOwner
<1>1. Init => StoppingHasOwner
  BY DEF Init, StoppingHasOwner
<1> QED
  BY <1>1, TypeCorrect, NextStopping, PTL DEF Spec
-----------------------------------------------------------------------------
(* A model that is starting has an owner too.                              *)

(* The counterpart of ScriptAtKept for callers.                            *)
LEMMA CallAtKept ==
  ASSUME TypeOK, NEW m \in Models, NEW labels, CallAt(m, labels),
         NEW c \in Callers, NEW new, call' = [call EXCEPT ![c] = new],
         call[c].model = m /\ call[c].at \in labels => new.model = m /\ new.at \in labels
  PROVE  CallAt(m, labels)'
<1>1. PICK d \in Callers : call[d].model = m /\ call[d].at \in labels
  BY DEF CallAt
<1>2. CASE d = c
  BY <1>1, <1>2 DEF CallAt, TypeOK
<1>3. CASE d # c
  BY <1>1, <1>3 DEF CallAt, TypeOK
<1> QED BY <1>2, <1>3

(* A goroutine that has been started is where it starts.                   *)
LEMMA Spawned ==
  ASSUME TypeOK, NEW m \in Models, NEW labels, NEW label \in labels, NEW p, Spawn(label, m, p)
  PROVE  ScriptAt(m, labels)'
BY DEF Spawn, ScriptAt, TypeOK

(* Starting a goroutine disturbs none that is at work.                     *)
LEMMA SpawnKeeps ==
  ASSUME TypeOK, NEW m \in Models, NEW labels, "free" \notin labels, ScriptAt(m, labels),
         NEW label, NEW n, NEW p, Spawn(label, n, p)
  PROVE  ScriptAt(m, labels)'
<1>1. PICK s \in Scripts :
        /\ script[s] = NoScript
        /\ script' = [script EXCEPT ![s] = [at |-> label, model |-> n, port |-> p]]
  BY DEF Spawn
<1>2. script[s].at \notin labels
  BY <1>1 DEF NoScript
<1> QED BY <1>1, <1>2, ScriptAtKept

LEMMA NextStarting == TypeOK /\ StartingHasOwner /\ [Next]_vars => StartingHasOwner'
<1> DEFINE C == {"setStartedAt", "allocate", "allocFailed", "spawn"}
           S == {"startLaunch", "startRunning"}
<1> SUFFICES ASSUME TypeOK, StartingHasOwner, [Next]_vars,
                    NEW m \in Managed \ HealthChecked, status'[m] = "starting"
             PROVE  CallAt(m, C)' \/ ScriptAt(m, S)'
  BY DEF StartingHasOwner
<1>m. m \in Models
  BY DEF Managed
<1>o. status[m] = "starting" => CallAt(m, C) \/ ScriptAt(m, S)
  BY DEF StartingHasOwner
<1> HIDE DEF C, S
<1>1. ASSUME status[m] = "starting",
             CallAt(m, C) => CallAt(m, C)' \/ ScriptAt(m, S)',
             ScriptAt(m, S) => ScriptAt(m, S)'
      PROVE  CallAt(m, C)' \/ ScriptAt(m, S)'
  BY <1>1, <1>o
<1>2. ASSUME NEW c \in Callers, NEW new, call' = [call EXCEPT ![c] = new],
             call[c].model = m /\ call[c].at \in C => new.model = m /\ new.at \in C,
             CallAt(m, C)
      PROVE  CallAt(m, C)'
  BY <1>m, <1>2, CallAtKept
<1>3. ASSUME NEW s \in Scripts, NEW new, script' = [script EXCEPT ![s] = new],
             script[s].model = m /\ script[s].at \in S => new.model = m /\ new.at \in S,
             ScriptAt(m, S)
      PROVE  ScriptAt(m, S)'
  BY <1>m, <1>3, ScriptAtKept
<1>4. UNCHANGED call /\ CallAt(m, C) => CallAt(m, C)'
  BY DEF CallAt
<1>5. UNCHANGED script /\ ScriptAt(m, S) => ScriptAt(m, S)'
  BY DEF ScriptAt
<1>6. ASSUME NEW c \in Callers, CallStep(c) PROVE CallAt(m, C)' \/ ScriptAt(m, S)'
  <2>1. CASE StartSetStarting(c)
    <3>1. CASE call[c].model = m
      BY <2>1, <3>1 DEF StartSetStarting, Goto, CallAt, TypeOK, CallType, C
    <3>2. CASE call[c].model # m
      <4>1. CallAt(m, C) => CallAt(m, C)'
        BY <2>1, <3>2, <1>2 DEF StartSetStarting, Goto, TypeOK
      <4>2. status[m] = "starting" /\ UNCHANGED script
        BY <2>1, <3>2, <1>m DEF StartSetStarting, SetStatus, TypeOK
      <4> QED BY <4>1, <4>2, <1>1, <1>5
    <3> QED BY <3>1, <3>2
  <2>2. CASE StartSetStartedAt(c) \/ StartAllocate(c)
    <3>1. status[m] = "starting" /\ UNCHANGED script
      BY <2>2 DEF StartSetStartedAt, StartAllocate, modelVars
    <3>2. PICK new : /\ call' = [call EXCEPT ![c] = new]
                     /\ new.model = call[c].model /\ new.at \in C
      <4>1. CASE StartSetStartedAt(c)
        <5> DEFINE new == [call[c] EXCEPT !.at = IF call[c].model \in WithPort THEN "allocate"
                                                 ELSE "spawn"]
        <5>1. call' = [call EXCEPT ![c] = new]
          BY <4>1 DEF StartSetStartedAt, Goto, TypeOK
        <5>2. call[c] \in CallType
          BY DEF TypeOK
        <5>3. new.model = call[c].model /\ new.at \in C
          BY <5>2 DEF CallType, C
        <5> HIDE DEF new
        <5> QED BY <5>1, <5>3
      <4>2. CASE StartAllocate(c)
        <5>0. PICK busy \in SUBSET Ports :
                LET p == AllocateResult(call[c].model, busy) IN
                call' = [call EXCEPT ![c].at = IF p = NoPort THEN "allocFailed" ELSE "spawn",
                                     ![c].port = p]
          BY <4>2 DEF StartAllocate
        <5> DEFINE p == AllocateResult(call[c].model, busy)
        <5> DEFINE new == [call[c] EXCEPT !.at = IF p = NoPort THEN "allocFailed" ELSE "spawn",
                                          !.port = p]
        <5>2. call' = [call EXCEPT ![c] = new]
          BY <5>0 DEF TypeOK
        <5>3. call[c] \in CallType
          BY DEF TypeOK
        <5>4. new.model = call[c].model /\ new.at \in C
          BY <5>3 DEF CallType, C
        <5> HIDE DEF new
        <5> QED BY <5>2, <5>4
      <4> QED BY <2>2, <4>1, <4>2
    <3>3. CallAt(m, C) => CallAt(m, C)'
      BY <3>2, <1>2
    <3> QED BY <3>1, <3>3, <1>1, <1>5
  <2>3. CASE StartSpawn(c)
    <3>1. CASE call[c].model = m
      BY <2>3, <3>1, <1>m, Spawned DEF StartSpawn, S
    <3>2. CASE call[c].model # m
      <4>1. ScriptAt(m, S) => ScriptAt(m, S)'
        BY <2>3, <1>m, SpawnKeeps DEF StartSpawn, S
      <4>2. CallAt(m, C) => CallAt(m, C)'
        BY <2>3, <3>2, <1>2 DEF StartSpawn, Finish
      <4> QED BY <2>3, <4>1, <4>2, <1>1 DEF StartSpawn
    <3> QED BY <3>1, <3>2
  <2>4. CASE StartAllocFailed(c)
    <3>1. call[c].model # m
      BY <2>4, <1>m DEF StartAllocFailed, SetStatus, TypeOK
    <3>2. CallAt(m, C) => CallAt(m, C)'
      BY <2>4, <3>1, <1>2 DEF StartAllocFailed, Finish
    <3>3. status[m] = "starting" /\ UNCHANGED script
      BY <2>4, <3>1, <1>m DEF StartAllocFailed, SetStatus, TypeOK
    <3> QED BY <3>2, <3>3, <1>1, <1>5
  <2>5. CASE StopWithScript(c)
    <3>1. ScriptAt(m, S) => ScriptAt(m, S)'
      BY <2>5, <1>m, SpawnKeeps DEF StopWithScript, S
    <3>2. CallAt(m, C) => CallAt(m, C)'
      BY <2>5, <1>2 DEF StopWithScript, Finish, C
    <3>3. status[m] = "starting"
      BY <2>5, <1>m DEF StopWithScript, SetStatus, TypeOK
    <3> QED BY <3>1, <3>2, <3>3, <1>1
  <2>6. CASE StopWithoutScript(c) \/ RestartSetStopped(c)
    <3>1. CallAt(m, C) => CallAt(m, C)'
      BY <2>6, <1>2 DEF StopWithoutScript, RestartSetStopped, Goto, TypeOK, CallType, C
    <3>2. status[m] = "starting" /\ UNCHANGED script
      BY <2>6, <1>m DEF StopWithoutScript, RestartSetStopped, SetStatus, TypeOK
    <3> QED BY <3>1, <3>2, <1>1, <1>5
  <2>7. CASE RestartReadPort(c) \/ RestartScriptEnds(c) \/ CallRelease(c)
    <3>1. CallAt(m, C) => CallAt(m, C)'
      BY <2>7, <1>2 DEF RestartReadPort, RestartScriptEnds, CallRelease, Goto, Finish, TypeOK,
                        CallType, C
    <3>2. status[m] = "starting" /\ UNCHANGED script
      BY <2>7 DEF RestartReadPort, RestartScriptEnds, CallRelease, modelVars
    <3> QED BY <3>1, <3>2, <1>1, <1>5
  <2>8. CASE \/ StartIfRunning(c) \/ StartIfStarting(c) \/ StopIfStopped(c) \/ StopIfStopping(c)
             \/ RestartIfError(c) \/ RestartIsRunning(c) \/ RestartIsStopping(c)
    <3>1. CallAt(m, C) => CallAt(m, C)'
      BY <2>8, <1>2 DEF StartIfRunning, StartIfStarting, StopIfStopped, StopIfStopping,
           RestartIfError, RestartIsRunning, RestartIsStopping, Branch, AfterDecision, Goto, Finish,
           TypeOK, CallType, C
    <3>2. status[m] = "starting" /\ UNCHANGED script
      BY <2>8 DEF StartIfRunning, StartIfStarting, StopIfStopped, StopIfStopping,
           RestartIfError, RestartIsRunning, RestartIsStopping, Branch, modelVars
    <3> QED BY <3>1, <3>2, <1>1, <1>5
  <2> QED
    BY <1>6, <2>1, <2>2, <2>3, <2>4, <2>5, <2>6, <2>7, <2>8 DEF CallStep
<1>7. ASSUME NEW s \in Scripts, ScriptStep(s) PROVE CallAt(m, C)' \/ ScriptAt(m, S)'
  <2>1. UNCHANGED call
    BY <1>7 DEF ScriptStep, StartPipeFails, StartScriptRuns, StartScriptFails, StartScriptSucceeds,
         StartTouches, StartFailureReleases, StopLaunchFails, StopScriptRuns, StopScriptEnds,
         StopReleases
  <2>2. CASE StartPipeFails(s) \/ StartScriptFails(s)
    <3>1. script[s].model # m /\ status[m] = "starting"
      BY <2>2, <1>m DEF StartPipeFails, StartScriptFails, SetStatus, TypeOK
    <3> QED
      BY <2>1, <2>2, <3>1, <1>1, <1>3, <1>4 DEF StartPipeFails, StartScriptFails, Become
  <2>3. CASE StartScriptSucceeds(s)
    <3>1. script[s].model \in HealthChecked \/ script[s].model # m
      BY <2>3, <1>m DEF StartScriptSucceeds, SetStatus, TypeOK
    <3>2. status[m] = "starting"
      BY <2>3, <3>1, <1>m DEF StartScriptSucceeds, SetStatus, TypeOK
    <3> QED
      BY <2>1, <2>3, <3>1, <3>2, <1>1, <1>3, <1>4 DEF StartScriptSucceeds, Become, Vanish
  <2>4. CASE \/ StartScriptRuns(s) \/ StartTouches(s) \/ StartFailureReleases(s)
             \/ StopScriptRuns(s) \/ StopReleases(s)
    <3>1. ScriptAt(m, S) => ScriptAt(m, S)'
      <4>1. CASE StartScriptRuns(s)
        BY <4>1, <1>3 DEF StartScriptRuns, Become, TypeOK, ScriptType, S
      <4>2. CASE StartTouches(s) \/ StartFailureReleases(s)
        BY <4>2, <1>3 DEF StartTouches, StartFailureReleases, Become, S
      <4>3. CASE StopScriptRuns(s) \/ StopReleases(s)
        BY <4>3, <1>3 DEF StopScriptRuns, StopReleases, Vanish, TypeOK, S
      <4> QED BY <2>4, <4>1, <4>2, <4>3
    <3>2. status[m] = "starting"
      BY <2>4 DEF StartScriptRuns, StartTouches, StartFailureReleases, StopScriptRuns,
           StopReleases, modelVars
    <3> QED BY <2>1, <3>1, <3>2, <1>1, <1>4
  <2>5. CASE StopLaunchFails(s) \/ StopScriptEnds(s)
    <3>1. ScriptAt(m, S) => ScriptAt(m, S)'
      BY <2>5, <1>3 DEF StopLaunchFails, StopScriptEnds, Become, S
    <3>2. status[m] = "starting"
      BY <2>5, <1>m DEF StopLaunchFails, StopScriptEnds, SetStatus, TypeOK
    <3> QED BY <2>1, <3>1, <3>2, <1>1, <1>4
  <2> QED BY <1>7, <2>2, <2>3, <2>4, <2>5 DEF ScriptStep
<1>8. ASSUME NEW s \in Scripts, Notify(s) PROVE CallAt(m, C)' \/ ScriptAt(m, S)'
  <2>1. ScriptAt(m, S) => ScriptAt(m, S)'
    BY <1>8, <1>3 DEF Notify, Vanish, S
  <2>2. status[m] = "starting" /\ UNCHANGED call
    BY <1>8 DEF Notify, modelVars
  <2> QED BY <2>1, <2>2, <1>1, <1>4
<1>9. ASSUME NEW c \in Operators, NEW n \in Models, NEW op \in DOMAIN Entry, Begin(c, n, op)
      PROVE  CallAt(m, C)' \/ ScriptAt(m, S)'
  <2>1. CallAt(m, C) => CallAt(m, C)'
    <3>1. c \in Callers /\ call[c].at \notin C
      BY <1>9 DEF Begin, Callers, Resting, C
    <3> QED BY <1>9, <3>1, <1>2 DEF Begin
  <2>2. status[m] = "starting" /\ UNCHANGED script
    BY <1>9 DEF Begin, modelVars
  <2> QED BY <2>1, <2>2, <1>1, <1>5
<1>10. CASE UNCHANGED vars
  BY <1>10, <1>1, <1>4, <1>5 DEF vars, modelVars
<1> QED BY <1>6, <1>7, <1>8, <1>9, <1>10 DEF Next, Step

(* A starting model that is not waiting for a health check always has a    *)
(* call or a goroutine that will move it on.                               *)
THEOREM StartingOwned == Spec => []StartingHasOwner
<1>1. Init => StartingHasOwner
  BY DEF Init, StartingHasOwner, Managed
<1> QED
  BY <1>1, TypeCorrect, NextStarting, PTL DEF Spec

-----------------------------------------------------------------------------
(* No lease is left behind.                                                *)

LEMMA NextNoLeak ==
  TypeOK /\ OnePortPerModel /\ NoLeakAtRest /\ [Next]_vars => NoLeakAtRest'
<1> DEFINE C == {"spawn", "release", "releaseError", "releaseRestart"}
           S == {"startLaunch", "startRunning", "failRelease", "stopRelease"}
<1> SUFFICES ASSUME TypeOK, OnePortPerModel, NoLeakAtRest, [Next]_vars,
                    NEW m \in Managed \ HealthChecked, status'[m] = "stopped", HeldBy(m)' # {}
             PROVE  CallAt(m, C)' \/ ScriptAt(m, S)'
  BY DEF NoLeakAtRest
<1>m. m \in Models /\ AllocatorTypeOK
  BY DEF Managed, TypeOK
<1>o. status[m] = "stopped" /\ HeldBy(m) # {} => CallAt(m, C) \/ ScriptAt(m, S)
  BY DEF NoLeakAtRest
<1> HIDE DEF C, S
<1>1. ASSUME status[m] = "stopped", HeldBy(m)' \subseteq HeldBy(m),
             CallAt(m, C) => CallAt(m, C)' \/ ScriptAt(m, S)',
             ScriptAt(m, S) => ScriptAt(m, S)'
      PROVE  CallAt(m, C)' \/ ScriptAt(m, S)'
  BY <1>1, <1>o
<1>2. ASSUME NEW c \in Callers, NEW new, call' = [call EXCEPT ![c] = new],
             call[c].model # m \/ call[c].at \notin C, CallAt(m, C)
      PROVE  CallAt(m, C)'
  BY <1>m, <1>2, CallAtKept
<1>3. ASSUME NEW s \in Scripts, NEW new, script' = [script EXCEPT ![s] = new],
             script[s].model = m /\ script[s].at \in S => new.model = m /\ new.at \in S,
             ScriptAt(m, S)
      PROVE  ScriptAt(m, S)'
  BY <1>m, <1>3, ScriptAtKept
<1>4. UNCHANGED call /\ CallAt(m, C) => CallAt(m, C)'
  BY DEF CallAt
<1>5. UNCHANGED script /\ ScriptAt(m, S) => ScriptAt(m, S)'
  BY DEF ScriptAt
<1>6. UNCHANGED allocated => HeldBy(m)' \subseteq HeldBy(m)
  BY DEF HeldBy
<1>7. ASSUME NEW c \in Callers, CallStep(c) PROVE CallAt(m, C)' \/ ScriptAt(m, S)'
  <2>1. CASE StartAllocate(c)
    <3>1. PICK busy \in SUBSET Ports :
            LET p == AllocateResult(call[c].model, busy) IN
            /\ Grant(call[c].model, p)
            /\ call' = [call EXCEPT ![c].at = IF p = NoPort THEN "allocFailed" ELSE "spawn",
                                    ![c].port = p]
      BY <2>1 DEF StartAllocate
    <3> DEFINE p == AllocateResult(call[c].model, busy)
               new == [call[c] EXCEPT !.at = IF p = NoPort THEN "allocFailed" ELSE "spawn",
                                      !.port = p]
    <3>2. call' = [call EXCEPT ![c] = new]
      BY <3>1 DEF TypeOK
    <3>3. Grant(call[c].model, p)
      BY <3>1
    <3>4. call[c] \in CallType /\ call[c].model \in Models /\ call[c].at \notin C
      BY <2>1 DEF StartAllocate, TypeOK, Resting, C
    <3>5. p # NoPort /\ call[c].model = m => new.at \in C /\ new.model = m
      BY <3>4 DEF CallType, C
    <3> HIDE DEF p, new
    <3>6. CASE p # NoPort /\ call[c].model = m
      BY <3>2, <3>5, <3>6 DEF CallAt, TypeOK
    <3>7. CASE p = NoPort \/ call[c].model # m
      <4>1. HeldBy(m)' \subseteq HeldBy(m)
        BY <3>3, <3>4, <3>7, <1>m, <1>6, GrantHeld DEF Grant
      <4>2. status[m] = "stopped" /\ UNCHANGED script
        BY <2>1 DEF StartAllocate, modelVars
      <4>3. CallAt(m, C) => CallAt(m, C)'
        BY <3>2, <3>4, <1>2
      <4> QED BY <4>1, <4>2, <4>3, <1>1, <1>5
    <3> QED BY <3>6, <3>7
  <2>2. CASE StartSpawn(c)
    <3>1. CASE call[c].model = m
      BY <2>2, <3>1, <1>m, Spawned DEF StartSpawn, S
    <3>2. CASE call[c].model # m
      <4>1. ScriptAt(m, S) => ScriptAt(m, S)'
        BY <2>2, <1>m, SpawnKeeps DEF StartSpawn, S
      <4>2. CallAt(m, C) => CallAt(m, C)'
        BY <2>2, <3>2, <1>2 DEF StartSpawn, Finish
      <4> QED BY <2>2, <4>1, <4>2, <1>1, <1>6 DEF StartSpawn
    <3> QED BY <3>1, <3>2
  <2>3. CASE StopWithoutScript(c) \/ RestartSetStopped(c)
    <3>1. CASE call[c].model = m
      BY <2>3, <3>1 DEF StopWithoutScript, RestartSetStopped, Goto, CallAt, TypeOK, CallType, C
    <3>2. CASE call[c].model # m
      <4>1. CallAt(m, C) => CallAt(m, C)'
        BY <2>3, <3>2, <1>2 DEF StopWithoutScript, RestartSetStopped, Goto, TypeOK
      <4>2. status[m] = "stopped" /\ UNCHANGED <<allocated, script>>
        BY <2>3, <3>2, <1>m DEF StopWithoutScript, RestartSetStopped, SetStatus, TypeOK
      <4> QED BY <4>1, <4>2, <1>1, <1>5, <1>6
    <3> QED BY <3>1, <3>2
  <2>4. CASE CallRelease(c)
    <3>0. call[c].model \in Models
      BY <2>4 DEF CallRelease, TypeOK, Resting
    <3>1. call[c].model # m /\ HeldBy(m)' \subseteq HeldBy(m)
      BY <2>4, <3>0, <1>m, ReleaseHeld DEF CallRelease
    <3>2. CallAt(m, C) => CallAt(m, C)'
      BY <2>4, <3>1, <1>2 DEF CallRelease, Goto, Finish, TypeOK
    <3>3. status[m] = "stopped" /\ UNCHANGED script
      BY <2>4 DEF CallRelease, modelVars
    <3> QED BY <3>1, <3>2, <3>3, <1>1, <1>5
  <2>5. CASE StopWithScript(c)
    <3>1. ScriptAt(m, S) => ScriptAt(m, S)'
      BY <2>5, <1>m, SpawnKeeps DEF StopWithScript, S
    <3>2. CallAt(m, C) => CallAt(m, C)'
      BY <2>5, <1>2 DEF StopWithScript, Finish, C
    <3>3. status[m] = "stopped" /\ UNCHANGED allocated
      BY <2>5, <1>m DEF StopWithScript, SetStatus, TypeOK
    <3> QED BY <3>1, <3>2, <3>3, <1>1, <1>6
  <2>6. CASE StartSetStarting(c) \/ StartAllocFailed(c)
    <3>1. CallAt(m, C) => CallAt(m, C)'
      BY <2>6, <1>2 DEF StartSetStarting, StartAllocFailed, Goto, Finish, TypeOK, C
    <3>2. status[m] = "stopped" /\ UNCHANGED <<allocated, script>>
      BY <2>6, <1>m DEF StartSetStarting, StartAllocFailed, SetStatus, TypeOK
    <3> QED BY <3>1, <3>2, <1>1, <1>5, <1>6
  <2>7. CASE StartSetStartedAt(c) \/ RestartReadPort(c) \/ RestartScriptEnds(c)
    <3>1. CallAt(m, C) => CallAt(m, C)'
      BY <2>7, <1>2 DEF StartSetStartedAt, RestartReadPort, RestartScriptEnds, Goto, TypeOK, C
    <3>2. status[m] = "stopped" /\ UNCHANGED <<allocated, script>>
      BY <2>7 DEF StartSetStartedAt, RestartReadPort, RestartScriptEnds, modelVars
    <3> QED BY <3>1, <3>2, <1>1, <1>5, <1>6
  <2>8. CASE \/ StartIfRunning(c) \/ StartIfStarting(c) \/ StopIfStopped(c) \/ StopIfStopping(c)
             \/ RestartIfError(c) \/ RestartIsRunning(c) \/ RestartIsStopping(c)
    <3>1. CallAt(m, C) => CallAt(m, C)'
      BY <2>8, <1>2 DEF StartIfRunning, StartIfStarting, StopIfStopped, StopIfStopping,
           RestartIfError, RestartIsRunning, RestartIsStopping, Branch, AfterDecision, Goto, Finish,
           TypeOK, C
    <3>2. status[m] = "stopped" /\ UNCHANGED <<allocated, script>>
      BY <2>8 DEF StartIfRunning, StartIfStarting, StopIfStopped, StopIfStopping,
           RestartIfError, RestartIsRunning, RestartIsStopping, Branch, modelVars
    <3> QED BY <3>1, <3>2, <1>1, <1>5, <1>6
  <2> QED
    BY <1>7, <2>1, <2>2, <2>3, <2>4, <2>5, <2>6, <2>7, <2>8 DEF CallStep
<1>8. ASSUME NEW s \in Scripts, ScriptStep(s) PROVE CallAt(m, C)' \/ ScriptAt(m, S)'
  <2>1. UNCHANGED call
    BY <1>8 DEF ScriptStep, StartPipeFails, StartScriptRuns, StartScriptFails, StartScriptSucceeds,
         StartTouches, StartFailureReleases, StopLaunchFails, StopScriptRuns, StopScriptEnds,
         StopReleases
  <2>2. CASE StartPipeFails(s) \/ StartScriptFails(s)
    <3>1. script[s].model # m /\ status[m] = "stopped" /\ UNCHANGED allocated
      BY <2>2, <1>m DEF StartPipeFails, StartScriptFails, SetStatus, TypeOK
    <3>2. ScriptAt(m, S) => ScriptAt(m, S)'
      BY <2>2, <3>1, <1>3 DEF StartPipeFails, StartScriptFails, Become
    <3> QED BY <2>1, <3>1, <3>2, <1>1, <1>4, <1>6
  <2>3. CASE StartScriptSucceeds(s)
    <3>1. script[s].model # m /\ status[m] = "stopped" /\ UNCHANGED allocated
      <4>1. CASE script[s].model \in HealthChecked
        BY <2>3, <4>1 DEF StartScriptSucceeds
      <4>2. CASE script[s].model \notin HealthChecked
        BY <2>3, <4>2, <1>m DEF StartScriptSucceeds, SetStatus, TypeOK
      <4> QED BY <4>1, <4>2
    <3>2. ScriptAt(m, S) => ScriptAt(m, S)'
      BY <2>3, <3>1, <1>3 DEF StartScriptSucceeds, Become, Vanish
    <3> QED BY <2>1, <3>1, <3>2, <1>1, <1>4, <1>6
  <2>4. CASE StartScriptRuns(s) \/ StartTouches(s) \/ StopScriptRuns(s)
    <3>1. ScriptAt(m, S) => ScriptAt(m, S)'
      <4>1. CASE StartScriptRuns(s)
        BY <4>1, <1>3 DEF StartScriptRuns, Become, TypeOK, ScriptType, S
      <4>2. CASE StartTouches(s)
        BY <4>2, <1>3 DEF StartTouches, Become, S
      <4>3. CASE StopScriptRuns(s)
        <5> DEFINE new == [script[s] EXCEPT !.at = "stopRunning", !.port = port[script[s].model]]
        <5>1. script' = [script EXCEPT ![s] = new]
          BY <4>3 DEF StopScriptRuns, TypeOK
        <5>2. script[s].at \notin S
          BY <4>3 DEF StopScriptRuns, S
        <5> HIDE DEF new
        <5> QED BY <5>1, <5>2, <1>3
      <4> QED BY <2>4, <4>1, <4>2, <4>3
    <3>2. status[m] = "stopped" /\ UNCHANGED allocated
      BY <2>4 DEF StartScriptRuns, StartTouches, StopScriptRuns, modelVars
    <3> QED BY <2>1, <3>1, <3>2, <1>1, <1>4, <1>6
  <2>5. CASE StopLaunchFails(s) \/ StopScriptEnds(s)
    <3>1. CASE script[s].model = m
      <4>1. script[s] \in ScriptType
        BY DEF TypeOK
      <4>2. script'[s].model = m /\ script'[s].at \in S
        BY <2>5, <3>1, <4>1 DEF StopLaunchFails, StopScriptEnds, Become, TypeOK, ScriptType, S
      <4> QED BY <4>2 DEF ScriptAt
    <3>2. CASE script[s].model # m
      <4>1. ScriptAt(m, S) => ScriptAt(m, S)'
        BY <2>5, <3>2, <1>3 DEF StopLaunchFails, StopScriptEnds, Become
      <4>2. status[m] = "stopped" /\ UNCHANGED allocated
        BY <2>5, <3>2, <1>m DEF StopLaunchFails, StopScriptEnds, SetStatus, TypeOK
      <4> QED BY <2>1, <4>1, <4>2, <1>1, <1>4, <1>6
    <3> QED BY <3>1, <3>2
  <2>6. CASE StartFailureReleases(s) \/ StopReleases(s)
    <3>0. script[s].model \in Models /\ Release(script[s].model)
      BY <2>6 DEF StartFailureReleases, StopReleases, TypeOK
    <3>1. script[s].model # m /\ HeldBy(m)' \subseteq HeldBy(m)
      BY <3>0, <1>m, ReleaseHeld
    <3>2. ScriptAt(m, S) => ScriptAt(m, S)'
      BY <2>6, <3>1, <1>3 DEF StartFailureReleases, StopReleases, Become, Vanish
    <3>3. status[m] = "stopped"
      BY <2>6 DEF StartFailureReleases, StopReleases, modelVars
    <3> QED BY <2>1, <3>1, <3>2, <3>3, <1>1, <1>4
  <2> QED BY <1>8, <2>2, <2>3, <2>4, <2>5, <2>6 DEF ScriptStep
<1>9. ASSUME NEW s \in Scripts, Notify(s) PROVE CallAt(m, C)' \/ ScriptAt(m, S)'
  <2>1. ScriptAt(m, S) => ScriptAt(m, S)'
    BY <1>9, <1>3 DEF Notify, Vanish, S
  <2>2. status[m] = "stopped" /\ UNCHANGED <<allocated, call>>
    BY <1>9 DEF Notify, modelVars
  <2> QED BY <2>1, <2>2, <1>1, <1>4, <1>6
<1>10. ASSUME NEW c \in Operators, NEW n \in Models, NEW op \in DOMAIN Entry, Begin(c, n, op)
       PROVE  CallAt(m, C)' \/ ScriptAt(m, S)'
  <2>1. CallAt(m, C) => CallAt(m, C)'
    <3>1. c \in Callers /\ call[c].at \notin C
      BY <1>10 DEF Begin, Callers, Resting, C
    <3> QED BY <1>10, <3>1, <1>2 DEF Begin
  <2>2. status[m] = "stopped" /\ UNCHANGED <<allocated, script>>
    BY <1>10 DEF Begin, modelVars
  <2> QED BY <2>1, <2>2, <1>1, <1>5, <1>6
<1>11. CASE UNCHANGED vars
  BY <1>11, <1>1, <1>4, <1>5, <1>6 DEF vars, modelVars
<1> QED BY <1>7, <1>8, <1>9, <1>10, <1>11 DEF Next, Step

(* A stopped model without a health check holds a port only while someone  *)
(* is on the way to return it or to start the model.                       *)
THEOREM NoLeak == Spec => []NoLeakAtRest
<1>1. Init => NoLeakAtRest
  BY NoModelAssumption DEF Init, NoLeakAtRest, NoLeases, HeldBy, Managed
<1> QED
  BY <1>1, TypeCorrect, OnePortCorrect, NextNoLeak, PTL DEF Spec

-----------------------------------------------------------------------------
(* The manager among others.  What the background tasks and the requests   *)
(* do to a model besides making calls of the manager is an Aside: a check  *)
(* makes a model run, a goroutine at rest begins or takes note of a call.  *)

ManagerInv == OnePortPerModel /\ StoppingHasOwner /\ StartingHasOwner /\ NoLeakAtRest

Aside ==
  /\ UNCHANGED <<allocated, script>>
  /\ \A m \in Models : status'[m] \in {status[m], "running"}
  /\ \/ UNCHANGED call
     \/ \E c \in Callers : Resting(c) /\ \E new : call' = [call EXCEPT ![c] = new]

LEMMA ManagerInvInitial == Init => ManagerInv
BY NoModelAssumption
   DEF Init, ManagerInv, OnePortPerModel, StoppingHasOwner, StartingHasOwner, NoLeakAtRest,
       NoLeases, HeldBy, Managed

LEMMA AsideKeeps ==
  ASSUME TypeOK, ManagerInv, Aside
  PROVE  ManagerInv'
<1>1. ASSUME NEW m \in Models, NEW labels, labels \cap {"idle", "ok", "err"} = {},
             CallAt(m, labels)
      PROVE  CallAt(m, labels)'
  <2>1. CASE UNCHANGED call
    BY <1>1, <2>1 DEF CallAt
  <2>2. ASSUME NEW c \in Callers, Resting(c), NEW new, call' = [call EXCEPT ![c] = new]
        PROVE  CallAt(m, labels)'
    <3>1. call[c].at \notin labels
      BY <1>1, <2>2 DEF Resting
    <3> QED
      BY <1>1, <2>2, <3>1, CallAtKept
  <2> QED
    BY <2>1, <2>2 DEF Aside
<1>2. \A m, labels : ScriptAt(m, labels) => ScriptAt(m, labels)'
  BY DEF Aside, ScriptAt
<1>3. \A m \in Models : HeldBy(m)' = HeldBy(m)
  BY DEF Aside, HeldBy
<1>4. \A m \in Models : status'[m] # "running" => status'[m] = status[m]
  BY DEF Aside
<1>5. Managed \subseteq Models
  BY DEF Managed
<1>6. OnePortPerModel'
  BY DEF Aside, ManagerInv, OnePortPerModel
<1>7. StoppingHasOwner'
  BY <1>2, <1>4 DEF ManagerInv, StoppingHasOwner
<1>8. StartingHasOwner'
  <2> DEFINE C == {"setStartedAt", "allocate", "allocFailed", "spawn"}
             S == {"startLaunch", "startRunning"}
  <2> SUFFICES ASSUME NEW m \in Managed \ HealthChecked, status'[m] = "starting"
               PROVE  CallAt(m, C)' \/ ScriptAt(m, S)'
    BY DEF StartingHasOwner
  <2>1. CallAt(m, C) \/ ScriptAt(m, S)
    BY <1>4, <1>5 DEF ManagerInv, StartingHasOwner
  <2>2. C \cap {"idle", "ok", "err"} = {}
    OBVIOUS
  <2> HIDE DEF C, S
  <2> QED
    BY <1>1, <1>2, <1>5, <2>1, <2>2
<1>9. NoLeakAtRest'
  <2> DEFINE C == {"spawn", "release", "releaseError", "releaseRestart"}
             S == {"startLaunch", "startRunning", "failRelease", "stopRelease"}
  <2> SUFFICES ASSUME NEW m \in Managed \ HealthChecked, status'[m] = "stopped", HeldBy(m)' # {}
               PROVE  CallAt(m, C)' \/ ScriptAt(m, S)'
    BY DEF NoLeakAtRest
  <2>1. CallAt(m, C) \/ ScriptAt(m, S)
    BY <1>3, <1>4, <1>5 DEF ManagerInv, NoLeakAtRest
  <2>2. C \cap {"idle", "ok", "err"} = {}
    OBVIOUS
  <2> HIDE DEF C, S
  <2> QED
    BY <1>1, <1>2, <1>5, <2>1, <2>2
<1> QED
  BY <1>6, <1>7, <1>8, <1>9 DEF ManagerInv

LEMMA ManagerInvStep ==
  ASSUME TypeOK, ManagerInv, [Next]_vars \/ Aside
  PROVE  ManagerInv' /\ [Lease!Next]_([m \in Models |-> LeaseOf(m)])
<1>1. CASE [Next]_vars
  BY <1>1, NextOnePort, NextStopping, NextStarting, NextNoLeak, NextLease DEF ManagerInv
<1>2. CASE Aside
  <2>1. UNCHANGED [m \in Models |-> LeaseOf(m)]
    BY <1>2 DEF Aside, LeaseOf, HeldBy
  <2> QED
    BY <1>2, <2>1, AsideKeeps
<1> QED
  BY <1>1, <1>2
=============================================================================

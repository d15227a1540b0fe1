--------------------------- MODULE Gateway_proofs ---------------------------
(***************************************************************************)
(* A waiting request is in one place and has one callback at most to send  *)
(* to it, for any number of requests, models and aliases, and whatever     *)
(* clients, health checks and the reaper do to the models meanwhile.       *)
(***************************************************************************)
EXTENDS Gateway, Monitors_proofs

ProxyTypeOK ==
  /\ req \in [Requests -> [at : RequestLabels, name : Names]]
  /\ queue \in [Names -> SUBSET Requests]
  /\ taken \in [Callbacks -> SUBSET Requests]
  /\ done \in [Requests -> {"empty", "ready", "failed"}]

InQueue(r) == \E n \in Names : r \in queue[n]
Held(r) == \E g \in Callbacks : r \in taken[g]

(* Only a request that waits, or has given up, is in a queue, with a       *)
(* callback, or has an answer in its channel: a request that has received  *)
(* is nowhere, or a later callback would answer it again.                  *)
OnlyWaitersInvolved ==
  \A r \in Requests :
    InQueue(r) \/ Held(r) \/ done[r] # "empty" => req[r].at \in {"waiting", "timedOut"}

WaitersAreHeld ==
  \A r \in Requests :
    req[r].at = "waiting" /\ done[r] = "empty" => r \in queue[req[r].name] \/ Held(r)

TakenIsOutOfQueue == \A g \in Callbacks : \A r \in taken[g] : ~InQueue(r)

(* The inductive invariant of the queues. *)
QueueInv ==
  ProxyTypeOK /\ WaitersAreHeld /\ QueuedIsUnanswered /\ OnlyWaitersInvolved /\ TakenIsOutOfQueue

-----------------------------------------------------------------------------
(* A handler that moves on, to or from no wait.                            *)
LEMMA QueueKept ==
  ASSUME QueueInv, NEW r \in Requests, NEW l \in RequestLabels, ReqGoto(r, l),
         UNCHANGED <<queue, taken, done>>,
         \/ l = "timedOut"
         \/ l # "waiting" /\ req[r].at \notin {"waiting", "timedOut"}
  PROVE  QueueInv'
<1>0. ProxyTypeOK /\ WaitersAreHeld /\ QueuedIsUnanswered /\ OnlyWaitersInvolved /\ TakenIsOutOfQueue
  BY DEF QueueInv
<1>1. \A q \in Requests : /\ req'[q].name = req[q].name
                          /\ req'[q].at = IF q = r THEN l ELSE req[q].at
                          /\ InQueue(q)' = InQueue(q) /\ Held(q)' = Held(q)
  BY <1>0 DEF ReqGoto, ProxyTypeOK, InQueue, Held
<1>2. ProxyTypeOK'
  BY <1>0 DEF ReqGoto, ProxyTypeOK
<1>3. WaitersAreHeld'
  BY <1>0, <1>1 DEF WaitersAreHeld
<1>4. QueuedIsUnanswered'
  BY <1>0, <1>1 DEF QueuedIsUnanswered, ProxyTypeOK
<1>5. OnlyWaitersInvolved'
  BY <1>0, <1>1 DEF OnlyWaitersInvolved
<1>6. TakenIsOutOfQueue'
  BY <1>0, <1>1 DEF TakenIsOutOfQueue, ProxyTypeOK
<1> QED
  BY <1>2, <1>3, <1>4, <1>5, <1>6 DEF QueueInv

(* What a callback takes from the queue was in it alone.                   *)
LEMMA GetKeepsQueue ==
  ASSUME QueueInv, NEW g \in Callbacks, NEW n \in Names, taken[g] = {}, GetAndClear(g, n),
         UNCHANGED req
  PROVE  QueueInv'
<1>0. ProxyTypeOK /\ WaitersAreHeld /\ QueuedIsUnanswered /\ OnlyWaitersInvolved /\ TakenIsOutOfQueue
  BY DEF QueueInv
<1>1. /\ \A m \in Names : queue'[m] = IF m = n THEN {} ELSE queue[m]
      /\ \A h \in Callbacks : taken'[h] = IF h = g THEN queue[n] ELSE taken[h]
      /\ done' = done /\ req' = req /\ queue[n] \subseteq Requests
  BY <1>0 DEF GetAndClear, ProxyTypeOK
<1>2. ProxyTypeOK'
  BY <1>0 DEF GetAndClear, ProxyTypeOK
<1>3. WaitersAreHeld'
  <2> SUFFICES ASSUME NEW r \in Requests, req[r].at = "waiting", done[r] = "empty"
               PROVE  r \in queue'[req[r].name] \/ Held(r)'
    BY <1>1 DEF WaitersAreHeld
  <2>1. req[r].name \in Names
    BY <1>0 DEF ProxyTypeOK
  <2>2. CASE r \in queue[req[r].name]
    BY <1>1, <2>1, <2>2 DEF Held
  <2>3. CASE Held(r)
    BY <1>1, <2>3 DEF Held
  <2> QED
    BY <1>0, <2>2, <2>3 DEF WaitersAreHeld
<1>4. \A h \in Callbacks : \A r \in taken'[h] : (r \in taken[h] /\ h # g) \/ (r \in queue[n] /\ h = g)
  BY <1>1
<1>5. QueuedIsUnanswered'
  <2>1. \A m \in Names : \A r \in queue'[m] : done'[r] = "empty" /\ req'[r].name = m
    BY <1>0, <1>1 DEF QueuedIsUnanswered
  <2>2. ASSUME NEW h \in Callbacks, NEW r \in taken'[h]
        PROVE  done'[r] = "empty" /\ \A i \in Callbacks : r \in taken'[i] => i = h
    BY <1>0, <1>1, <1>4 DEF QueuedIsUnanswered, TakenIsOutOfQueue, InQueue
  <2> QED
    BY <2>1, <2>2 DEF QueuedIsUnanswered
<1>6. OnlyWaitersInvolved'
  BY <1>0, <1>1, <1>4 DEF OnlyWaitersInvolved, InQueue, Held
<1>7. TakenIsOutOfQueue'
  <2> SUFFICES ASSUME NEW h \in Callbacks, NEW r \in taken'[h], NEW m \in Names, r \in queue'[m]
               PROVE  FALSE
    BY DEF TakenIsOutOfQueue, InQueue
  <2>1. m # n /\ r \in queue[m]
    BY <1>1
  <2>2. r \notin queue[n]
    BY <1>0, <2>1 DEF QueuedIsUnanswered
  <2> QED
    BY <1>0, <1>4, <2>1, <2>2 DEF TakenIsOutOfQueue, InQueue
<1> QED
  BY <1>2, <1>3, <1>5, <1>6, <1>7 DEF QueueInv

LEMMA SendKeepsQueue ==
  ASSUME QueueInv, NEW g \in Callbacks, NEW answer \in {"ready", "failed"}, Send(g, answer),
         UNCHANGED req
  PROVE  QueueInv'
<1>0. ProxyTypeOK /\ WaitersAreHeld /\ QueuedIsUnanswered /\ OnlyWaitersInvolved /\ TakenIsOutOfQueue
  BY DEF QueueInv
<1>1. PICK r \in taken[g] :
        /\ done' = [done EXCEPT ![r] = IF @ = "empty" THEN answer ELSE @]
        /\ taken' = [taken EXCEPT ![g] = @ \ {r}]
        /\ UNCHANGED queue
  BY DEF Send
<1>2. r \in Requests /\ done[r] = "empty" /\ ~InQueue(r)
      /\ \A h \in Callbacks : r \in taken[h] => h = g
  BY <1>0, <1>1 DEF ProxyTypeOK, QueuedIsUnanswered, TakenIsOutOfQueue
<1>3. /\ \A q \in Requests : done'[q] = IF q = r THEN answer ELSE done[q]
      /\ \A h \in Callbacks : taken'[h] = taken[h] \ {r}
      /\ queue' = queue /\ req' = req
  BY <1>0, <1>1, <1>2 DEF ProxyTypeOK
<1>4. ProxyTypeOK'
  BY <1>0, <1>1 DEF ProxyTypeOK
<1>5. WaitersAreHeld'
  BY <1>0, <1>3 DEF WaitersAreHeld, Held
<1>6. QueuedIsUnanswered'
  BY <1>0, <1>2, <1>3 DEF QueuedIsUnanswered, InQueue, ProxyTypeOK
<1>7. OnlyWaitersInvolved'
  BY <1>0, <1>1, <1>2, <1>3 DEF OnlyWaitersInvolved, InQueue, Held
<1>8. TakenIsOutOfQueue'
  BY <1>0, <1>3 DEF TakenIsOutOfQueue, InQueue
<1> QED
  BY <1>4, <1>5, <1>6, <1>7, <1>8 DEF QueueInv

LEMMA SignalKeepsQueue ==
  ASSUME QueueInv, NEW g \in Callbacks, NEW n \in Names, NEW answer \in {"ready", "failed"},
         Signal(g, n, answer), UNCHANGED req
  PROVE  QueueInv'
BY GetKeepsQueue, SendKeepsQueue DEF Signal

LEMMA WaitKeepsQueue ==
  ASSUME QueueInv, NEW r \in Requests, WaitForModel(r)
  PROVE  QueueInv'
<1> DEFINE n == req[r].name
<1>0. ProxyTypeOK /\ WaitersAreHeld /\ QueuedIsUnanswered /\ OnlyWaitersInvolved /\ TakenIsOutOfQueue
  BY DEF QueueInv
<1>1. n \in Names /\ done[r] = "empty" /\ ~InQueue(r) /\ ~Held(r)
  BY <1>0 DEF ProxyTypeOK, OnlyWaitersInvolved, WaitForModel
<1>2. /\ \A m \in Names : queue'[m] = IF m = n THEN queue[n] \cup {r} ELSE queue[m]
      /\ \A q \in Requests : /\ req'[q].name = req[q].name
                             /\ req'[q].at = IF q = r THEN "waiting" ELSE req[q].at
      /\ done' = done /\ taken' = taken
  BY <1>0, <1>1 DEF WaitForModel, Enqueue, ReqGoto, ProxyTypeOK
<1>3. ProxyTypeOK'
  BY <1>0, <1>1 DEF WaitForModel, Enqueue, ReqGoto, ProxyTypeOK, RequestLabels
<1>4. WaitersAreHeld'
  <2> SUFFICES ASSUME NEW q \in Requests, req'[q].at = "waiting", done[q] = "empty"
               PROVE  q \in queue'[req[q].name] \/ Held(q)'
    BY <1>2 DEF WaitersAreHeld
  <2>1. CASE q = r
    BY <1>1, <1>2, <2>1
  <2>2. CASE q # r
    BY <1>0, <1>1, <1>2, <2>2 DEF WaitersAreHeld, ProxyTypeOK, Held
  <2> QED
    BY <2>1, <2>2
<1>5. QueuedIsUnanswered'
  <2>1. ASSUME NEW m \in Names, NEW q \in queue'[m]
        PROVE  done[q] = "empty" /\ req'[q].name = m
    <3>1. CASE q = r
      BY <1>1, <1>2, <3>1 DEF InQueue
    <3>2. CASE q # r
      BY <1>0, <1>1, <1>2, <3>2 DEF QueuedIsUnanswered, ProxyTypeOK
    <3> QED
      BY <3>1, <3>2
  <2> QED
    BY <1>0, <1>2, <2>1 DEF QueuedIsUnanswered
<1>6. OnlyWaitersInvolved'
  <2> SUFFICES ASSUME NEW q \in Requests, q # r, InQueue(q)' \/ Held(q)' \/ done[q] # "empty"
               PROVE  req[q].at \in {"waiting", "timedOut"}
    BY <1>2 DEF OnlyWaitersInvolved
  <2>1. InQueue(q) \/ Held(q) \/ done[q] # "empty"
    BY <1>1, <1>2 DEF InQueue, Held
  <2> QED
    BY <1>0, <2>1 DEF OnlyWaitersInvolved
<1>7. TakenIsOutOfQueue'
  BY <1>0, <1>1, <1>2 DEF TakenIsOutOfQueue, InQueue, Held
<1> QED
  BY <1>3, <1>4, <1>5, <1>6, <1>7 DEF QueueInv

LEMMA ReceiveKeepsQueue ==
  ASSUME QueueInv, NEW r \in Requests, ReceiveDone(r)
  PROVE  QueueInv'
<1>0. ProxyTypeOK /\ WaitersAreHeld /\ QueuedIsUnanswered /\ OnlyWaitersInvolved /\ TakenIsOutOfQueue
  BY DEF QueueInv
<1>1. PICK l \in {"activity", "refused"} : ReqGoto(r, l)
  BY DEF ReceiveDone
<1>2. /\ \A q \in Requests : /\ req'[q].name = req[q].name
                             /\ req'[q].at = IF q = r THEN l ELSE req[q].at
                             /\ done'[q] = IF q = r THEN "empty" ELSE done[q]
      /\ queue' = queue /\ taken' = taken
  BY <1>0, <1>1 DEF ReceiveDone, ReqGoto, ProxyTypeOK
<1>3. ~InQueue(r) /\ ~Held(r)
  <2>1. done[r] # "empty"
    BY DEF ReceiveDone
  <2> QED
    BY <1>0, <2>1 DEF QueuedIsUnanswered, InQueue, Held
<1>4. ProxyTypeOK'
  BY <1>0, <1>1 DEF ReceiveDone, ReqGoto, ProxyTypeOK, RequestLabels
<1>5. WaitersAreHeld'
  BY <1>0, <1>2 DEF WaitersAreHeld, Held
<1>6. QueuedIsUnanswered'
  BY <1>0, <1>2, <1>3 DEF QueuedIsUnanswered, ProxyTypeOK, InQueue, Held
<1>7. OnlyWaitersInvolved'
  BY <1>0, <1>2, <1>3 DEF OnlyWaitersInvolved, InQueue, Held
<1>8. TakenIsOutOfQueue'
  BY <1>0, <1>2 DEF TakenIsOutOfQueue, InQueue
<1> QED
  BY <1>4, <1>5, <1>6, <1>7, <1>8 DEF QueueInv

LEMMA QueueInvInitial == GatewayInit => QueueInv
<1> SUFFICES ASSUME GatewayInit PROVE QueueInv
  OBVIOUS
<1>1. ProxyTypeOK
  BY DEF GatewayInit, ProxyTypeOK, RequestLabels
<1>2. \A r \in Requests : req[r].at = "absent"
  BY DEF GatewayInit
<1> QED
  BY <1>1, <1>2
     DEF GatewayInit, QueueInv, WaitersAreHeld, QueuedIsUnanswered, OnlyWaitersInvolved,
         TakenIsOutOfQueue, InQueue, Held

LEMMA QueueInvStep == QueueInv /\ MonitorsTypeOK /\ [GatewayNext]_gatewayVars => QueueInv'
<1> SUFFICES ASSUME QueueInv, MonitorsTypeOK, [GatewayNext]_gatewayVars PROVE QueueInv'
  OBVIOUS
<1>1. CASE UNCHANGED proxyVars
  BY <1>1 DEF proxyVars, QueueInv, ProxyTypeOK, WaitersAreHeld, QueuedIsUnanswered,
     OnlyWaitersInvolved, TakenIsOutOfQueue, InQueue, Held
<1>2. ASSUME NEW r \in Requests, Arrive(r) \/ RequestStep(r) PROVE QueueInv'
  <2>1. CASE WaitForModel(r)
    BY <2>1, WaitKeepsQueue
  <2>2. CASE ReceiveDone(r)
    BY <2>2, ReceiveKeepsQueue
  <2>3. CASE TimeOut(r)
    BY <2>3, QueueKept DEF TimeOut, RequestLabels
  <2>4. CASE Arrive(r) \/ OllamaReadsStatus(r) \/ RequestTouches(r) \/ Route(r)
    BY <2>4, QueueKept DEF Arrive, OllamaReadsStatus, RequestTouches, Route, RequestLabels
  <2>5. CASE ReadModelStatus(r)
    BY <2>5, QueueKept DEF ReadModelStatus, RequestLabels
  <2>6. CASE StartReturns(r)
    BY <2>6, QueueKept DEF StartReturns, RequestLabels
  <2> QED
    BY <1>2, <2>1, <2>2, <2>3, <2>4, <2>5, <2>6 DEF RequestStep
<1>3. ASSUME NEW s \in Scripts, DeliverReady(s) \/ DeliverError(s) PROVE QueueInv'
  <2>1. NameOf[script[s].model] \in Names
    BY <1>3, GatewayAssumption DEF DeliverReady, DeliverError, MonitorsTypeOK, TypeOK
  <2> QED
    BY <1>3, <2>1, SignalKeepsQueue DEF DeliverReady, DeliverError, Callbacks
<1>4. ASSUME NEW k \in Checkers, DeliverHealthy(k) PROVE QueueInv'
  <2>1. NameOf[check[k].model] \in Names
    BY <1>4, GatewayAssumption, ConfigAssumption
       DEF DeliverHealthy, MonitorsTypeOK
  <2> QED
    BY <1>4, <2>1, SignalKeepsQueue DEF DeliverHealthy, Callbacks
<1> QED
  BY <1>1, <1>2, <1>3, <1>4 DEF GatewayNext, gatewayVars, proxyVars

-----------------------------------------------------------------------------
(* Type correctness.                                                       *)

HandlersCallStart == \A r \in Requests : req[r].at = "start" <=> call[r].at # "idle"

LEMMA RequestsCall == Requests \subseteq Callers /\ Requests \cap Operators = {} /\ Reaper \notin Requests
  BY GatewayAssumption, CallersAssumption DEF Callers

(* Nobody but the handler makes it call the manager.                       *)
LEMMA IdleCallKept ==
  ASSUME MonitorsTypeOK, MonitorsStep, NEW r \in Requests, call[r].at = "idle"
  PROVE  call'[r].at = "idle"
<1>0. TypeOK /\ r \in Callers /\ r \notin Operators /\ r # Reaper
  BY RequestsCall DEF MonitorsTypeOK
<1>1. ASSUME NEW c \in Callers, c # r, NEW new, call' = [call EXCEPT ![c] = new]
      PROVE  call'[r].at = "idle"
  BY <1>0, <1>1 DEF TypeOK
<1>2. ASSUME NEW c \in Callers, CallStep(c) PROVE call'[r].at = "idle"
  <2>1. c # r
    BY <1>2 DEF CallStep, StartIfRunning, StartIfStarting, StopIfStopped, StopIfStopping,
       RestartIfError, RestartIsRunning, RestartIsStopping, Branch, StartSetStarting,
       StartSetStartedAt, StartAllocate, StartAllocFailed, StartSpawn, StopWithoutScript,
       StopWithScript, RestartReadPort, RestartScriptEnds, RestartSetStopped, CallRelease
  <2>2. call'[r] = call[r]
    BY <1>0, <1>2, <2>1 DEF CallStep, StartIfRunning, StartIfStarting, StopIfStopped,
       StopIfStopping, RestartIfError, RestartIsRunning, RestartIsStopping, Branch,
       StartSetStarting, StartSetStartedAt, StartAllocate, StartAllocFailed, StartSpawn,
       StopWithoutScript, StopWithScript, RestartReadPort, RestartScriptEnds, RestartSetStopped,
       CallRelease, Goto, Finish, AfterDecision, TypeOK
  <2> QED
    BY <2>2
<1>3. ASSUME NEW s \in Scripts, ScriptStep(s) PROVE call' = call
  BY <1>3 DEF ScriptStep, StartPipeFails, StartScriptRuns, StartScriptFails, StartScriptSucceeds,
     StartTouches, StartFailureReleases, StopLaunchFails, StopScriptRuns, StopScriptEnds,
     StopReleases
<1>4. ASSUME NEW c \in Operators \cup {Reaper}, NEW m, NEW op, Begin(c, m, op)
      PROVE  call'[r].at = "idle"
  <2>1. c \in Callers /\ c # r
    BY <1>0, MonitorsAssumption DEF Callers
  <2> QED
    BY <1>1, <1>4, <2>1 DEF Begin
<1>5. ASSUME NEW n \in Names, ExamineTTL(n) PROVE call'[r].at = "idle"
  BY <1>4, <1>5 DEF ExamineTTL, vars
<1>6. ASSUME NEW k \in Checkers, CheckStep(k) PROVE call' = call
  BY <1>6 DEF CheckStep, CheckReadsStatus, CheckStartDelay, CheckEndpoint, ProbeFails,
     ProbeSucceeds, CheckPromotes, CheckTouches, vars
<1>7. ASSUME \/ ScanTTLs
             \/ \E m \in Models : SettleTick(m) \/ IdleTick(m)
             \/ \E k \in Checkers, m \in Models : Schedule(k, m)
      PROVE  call' = call
  BY <1>7 DEF ScanTTLs, SettleTick, IdleTick, Schedule, vars
<1> QED
  BY <1>2, <1>3, <1>4, <1>5, <1>6, <1>7 DEF MonitorsStep, Step

(* A call stays with the handler that made it until the handler has its    *)
(* outcome.                                                                *)
LEMMA BusyCallKept ==
  ASSUME MonitorsTypeOK, MonitorsStep, NEW r \in Requests, call[r].at # "idle"
  PROVE  call'[r].at # "idle"
<1>0. TypeOK /\ r \in Callers /\ r \notin Operators /\ r # Reaper
  BY RequestsCall DEF MonitorsTypeOK
<1>1. ASSUME NEW c \in Callers, CallStep(c), c # r PROVE call'[r] = call[r]
  BY <1>0, <1>1 DEF CallStep, StartIfRunning, StartIfStarting, StopIfStopped,
     StopIfStopping, RestartIfError, RestartIsRunning, RestartIsStopping, Branch,
     StartSetStarting, StartSetStartedAt, StartAllocate, StartAllocFailed, StartSpawn,
     StopWithoutScript, StopWithScript, RestartReadPort, RestartScriptEnds, RestartSetStopped,
     CallRelease, Goto, Finish, AfterDecision, TypeOK
<1>2. ASSUME CallStep(r) PROVE call'[r].at # "idle"
  <2>1. ASSUME NEW l \in CallLabels \ {"idle"}, Goto(r, l) PROVE call'[r].at # "idle"
    <3> DEFINE new == [call[r] EXCEPT !.at = l]
    <3>1. new.at = l
      BY <1>0 DEF TypeOK, CallType
    <3>2. call'[r] = new
      BY <1>0, <2>1 DEF Goto, TypeOK
    <3> QED
      BY <2>1, <3>1, <3>2
  <2>2. ASSUME NEW l \in {"ok", "err"}, Finish(r, l) PROVE call'[r].at # "idle"
    <3>1. call'[r] = [NoCall EXCEPT !.at = l]
      BY <1>0, <2>2 DEF Finish, TypeOK
    <3> QED
      BY <2>2, <3>1 DEF NoCall
  <2>3. ASSUME NEW l \in CallLabels \ {"idle"}, NEW p, call' = [call EXCEPT ![r].at = l, ![r].port = p]
        PROVE  call'[r].at # "idle"
    <3> DEFINE new == [call[r] EXCEPT !.at = l, !.port = p]
    <3>1. new.at = l
      BY <1>0 DEF TypeOK, CallType
    <3>2. call'[r] = new
      BY <1>0, <2>3 DEF TypeOK
    <3> QED
      BY <2>3, <3>1, <3>2
  <2>4. CASE \/ StartIfRunning(r) \/ StartIfStarting(r) \/ StopIfStopped(r) \/ StopIfStopping(r)
             \/ RestartIfError(r) \/ RestartIsRunning(r) \/ RestartIsStopping(r)
             \/ StartSetStarting(r) \/ StartSetStartedAt(r) \/ StartAllocFailed(r)
             \/ StartSpawn(r) \/ StopWithoutScript(r) \/ StopWithScript(r)
             \/ RestartSetStopped(r) \/ CallRelease(r)
    <3>1. \/ \E l \in CallLabels \ {"idle"} : Goto(r, l)
          \/ \E l \in {"ok", "err"} : Finish(r, l)
      BY <2>4 DEF StartIfRunning, StartIfStarting, StopIfStopped, StopIfStopping,
         RestartIfError, RestartIsRunning, RestartIsStopping, Branch, AfterDecision,
         StartSetStarting, StartSetStartedAt, StartAllocFailed, StartSpawn, StopWithoutScript,
         StopWithScript, RestartSetStopped, CallRelease, CallLabels
    <3> QED
      BY <2>1, <2>2, <3>1
  <2>5. CASE StartAllocate(r) \/ RestartReadPort(r) \/ RestartScriptEnds(r)
    <3>1. \E l \in CallLabels \ {"idle"} : \E p : call' = [call EXCEPT ![r].at = l, ![r].port = p]
      BY <2>5 DEF StartAllocate, RestartReadPort, RestartScriptEnds, CallLabels
    <3> QED
      BY <2>3, <3>1
  <2> QED
    BY <1>2, <2>4, <2>5 DEF CallStep
<1>3. ASSUME NEW s \in Scripts, ScriptStep(s) PROVE call' = call
  BY <1>3 DEF ScriptStep, StartPipeFails, StartScriptRuns, StartScriptFails, StartScriptSucceeds,
     StartTouches, StartFailureReleases, StopLaunchFails, StopScriptRuns, StopScriptEnds,
     StopReleases
<1>4. ASSUME NEW c \in Operators \cup {Reaper}, NEW m, NEW op, Begin(c, m, op)
      PROVE  call'[r].at # "idle"
  <2>1. c \in Callers /\ c # r
    BY <1>0, MonitorsAssumption DEF Callers
  <2> QED
    BY <1>0, <1>4, <2>1 DEF Begin, TypeOK
<1>5. ASSUME NEW n \in Names, ExamineTTL(n) PROVE call'[r].at # "idle"
  BY <1>4, <1>5 DEF ExamineTTL, vars
<1>6. ASSUME \/ \E k \in Checkers : CheckStep(k)
             \/ ScanTTLs
             \/ \E m \in Models : SettleTick(m) \/ IdleTick(m)
             \/ \E k \in Checkers, m \in Models : Schedule(k, m)
      PROVE  call' = call
  BY <1>6 DEF CheckStep, CheckReadsStatus, CheckStartDelay, CheckEndpoint, ProbeFails,
     ProbeSucceeds, CheckPromotes, CheckTouches, ScanTTLs, SettleTick, IdleTick, Schedule, vars
<1> QED
  BY <1>1, <1>2, <1>3, <1>4, <1>5, <1>6 DEF MonitorsStep, Step

LEMMA GatewayTypeInitial == GatewayInit => MonitorsTypeOK /\ HandlersCallStart
<1> SUFFICES ASSUME GatewayInit PROVE MonitorsTypeOK /\ HandlersCallStart
  OBVIOUS
<1>1. MonitorsTypeOK
  BY MonitorsInitType DEF GatewayInit
<1>2. HandlersCallStart
  BY RequestsCall DEF GatewayInit, MonitorsInit, Init, HandlersCallStart, NoCall
<1> QED
  BY <1>1, <1>2

(* A step of the handler, with what it does to the manager.                *)
LEMMA RequestStepType ==
  ASSUME MonitorsTypeOK, ProxyTypeOK, HandlersCallStart, NEW r \in Requests,
         Arrive(r) \/ RequestStep(r)
  PROVE  MonitorsTypeOK' /\ HandlersCallStart'
<1>0. TypeOK /\ r \in Callers /\ Target(r) \in Models /\ req[r].at \in RequestLabels
  BY RequestsCall, MonitorsAssumption DEF MonitorsTypeOK, ProxyTypeOK, Target
<1>1. ASSUME NEW l, ReqGoto(r, l), l = "start" <=> call'[r].at # "idle",
             \A q \in Requests \ {r} : call'[q] = call[q]
      PROVE  HandlersCallStart'
  BY <1>0, <1>1 DEF HandlersCallStart, ReqGoto, ProxyTypeOK
<1>2. CASE \/ Arrive(r) \/ OllamaReadsStatus(r) \/ WaitForModel(r) \/ ReceiveDone(r) \/ TimeOut(r)
           \/ Route(r)
  <2>1. UNCHANGED monitorVars /\ req[r].at # "start"
    BY <1>2 DEF Arrive, OllamaReadsStatus, WaitForModel, ReceiveDone, TimeOut, Route
  <2>2. UNCHANGED call /\ call[r].at = "idle"
    BY <2>1 DEF monitorVars, vars, HandlersCallStart
  <2>3. \E l : ReqGoto(r, l) /\ l # "start"
    BY <1>2 DEF Arrive, OllamaReadsStatus, WaitForModel, ReceiveDone, TimeOut, Route
  <2>4. HandlersCallStart'
    BY <1>1, <2>2, <2>3
  <2> QED
    BY <2>1, <2>4, MonitorsNextType
<1>3. CASE ReadModelStatus(r)
  <2>1. call[r].at = "idle"
    BY <1>3 DEF ReadModelStatus, HandlersCallStart
  <2>2. CASE Begin(r, Target(r), "start") /\ ReqGoto(r, "start")
    <3>1. TypeOK'
      BY <1>0, <2>2, BeginType DEF Entry
    <3>2. \A q \in Requests \ {r} : call'[q] = call[q]
      BY <1>0, <2>2, RequestsCall DEF Begin, TypeOK
    <3>3. call'[r].at # "idle"
      BY <1>0, <2>2 DEF Begin, Entry, NoCall, TypeOK
    <3>4. HandlersCallStart'
      BY <1>1, <2>2, <3>2, <3>3
    <3> QED
      BY <1>3, <3>1, <3>4 DEF ReadModelStatus, MonitorsTypeOK
  <2>3. CASE UNCHANGED vars /\ \E l : ReqGoto(r, l) /\ l # "start"
    <3>1. HandlersCallStart'
      BY <1>1, <2>1, <2>3 DEF vars
    <3>2. UNCHANGED monitorVars
      BY <1>3, <2>3 DEF ReadModelStatus, monitorVars
    <3> QED
      BY <3>1, <3>2, MonitorsNextType
  <2> QED
    BY <1>3, <2>2, <2>3 DEF ReadModelStatus
<1>4. CASE StartReturns(r)
  <2>1. TypeOK'
    BY <1>0, <1>4 DEF StartReturns, NoCall, TypeOK, CallType, CallLabels, AllocatorTypeOK,
       modelVars, Resting, NoPort
  <2>2. \E l : ReqGoto(r, l) /\ l # "start"
    BY <1>4 DEF StartReturns
  <2>3. call'[r].at = "idle" /\ \A q \in Requests \ {r} : call'[q] = call[q]
    BY <1>0, <1>4, RequestsCall DEF StartReturns, NoCall, TypeOK
  <2>4. HandlersCallStart'
    BY <1>1, <2>2, <2>3
  <2> QED
    BY <1>4, <2>1, <2>4 DEF StartReturns, MonitorsTypeOK
<1>5. CASE RequestTouches(r)
  <2>1. MonitorsTypeOK'
    BY <1>0, <1>5 DEF RequestTouches, Touch, MonitorsTypeOK, TypeOK, AllocatorTypeOK, Resting
  <2>2. HandlersCallStart'
    BY <1>0, <1>1, <1>5 DEF RequestTouches, HandlersCallStart
  <2> QED
    BY <2>1, <2>2
<1> QED
  BY <1>2, <1>3, <1>4, <1>5 DEF RequestStep

LEMMA GatewayTypeStep ==
  MonitorsTypeOK /\ HandlersCallStart /\ QueueInv /\ [GatewayNext]_gatewayVars
    => (MonitorsTypeOK /\ HandlersCallStart)'
<1> SUFFICES ASSUME MonitorsTypeOK, HandlersCallStart, QueueInv, [GatewayNext]_gatewayVars
             PROVE  MonitorsTypeOK' /\ HandlersCallStart'
  OBVIOUS
<1>1. CASE MonitorsStep /\ UNCHANGED proxyVars
  BY <1>1, MonitorsStepType, IdleCallKept, BusyCallKept DEF HandlersCallStart, proxyVars
<1>2. ASSUME NEW r \in Requests, Arrive(r) \/ RequestStep(r)
      PROVE  MonitorsTypeOK' /\ HandlersCallStart'
  BY <1>2, RequestStepType DEF QueueInv
<1>3. ASSUME NEW s \in Scripts, DeliverReady(s) \/ DeliverError(s)
      PROVE  MonitorsTypeOK' /\ HandlersCallStart'
  <2>1. (Notify(s) \/ UNCHANGED vars) /\ UNCHANGED <<due, check, req>>
    BY <1>3 DEF DeliverReady, DeliverError
  <2>2. [MonitorsNext]_monitorVars
    BY <2>1 DEF MonitorsNext, monitorVars
  <2>3. UNCHANGED call
    BY <2>1 DEF Notify, vars
  <2> QED
    BY <2>1, <2>2, <2>3, MonitorsNextType DEF HandlersCallStart
<1>4. ASSUME NEW k \in Checkers, DeliverHealthy(k) PROVE MonitorsTypeOK' /\ HandlersCallStart'
  <2>1. (CheckNotifies(k) \/ UNCHANGED monitorVars) /\ UNCHANGED req
    BY <1>4 DEF DeliverHealthy
  <2>2. UNCHANGED call
    BY <2>1 DEF CheckNotifies, monitorVars, vars
  <2>3. [MonitorsNext]_monitorVars
    BY <2>1 DEF MonitorsNext
  <2> QED
    BY <2>1, <2>2, <2>3, MonitorsNextType DEF HandlersCallStart
<1>5. CASE UNCHANGED gatewayVars
  <2>1. UNCHANGED monitorVars /\ UNCHANGED <<req, call>>
    BY <1>5 DEF gatewayVars, proxyVars, monitorVars, vars
  <2> QED
    BY <2>1, MonitorsNextType DEF HandlersCallStart
<1> QED
  BY <1>1, <1>2, <1>3, <1>4, <1>5 DEF GatewayNext

-----------------------------------------------------------------------------
GatewayInv == MonitorsTypeOK /\ HandlersCallStart /\ QueueInv

LEMMA GatewayInvCorrect == GatewaySpec => []GatewayInv
<1>1. GatewayInit => GatewayInv
  BY GatewayTypeInitial, QueueInvInitial DEF GatewayInv
<1>2. GatewayInv /\ [GatewayNext]_gatewayVars => GatewayInv'
  BY GatewayTypeStep, QueueInvStep DEF GatewayInv
<1> QED
  BY <1>1, <1>2, PTL DEF GatewaySpec

(* A handler makes a call of the manager exactly while it starts its       *)
(* model (openai.go:83-96).                                                *)
THEOREM GatewayTypeCorrect == GatewaySpec => []GatewayTypeOK
<1>1. GatewayInv => GatewayTypeOK
  BY DEF GatewayInv, GatewayTypeOK, QueueInv, ProxyTypeOK, HandlersCallStart
<1> QED
  BY <1>1, GatewayInvCorrect, PTL

(* A waiting request is in its queue, with one callback, or has its        *)
(* answer, and only one of these (queue.go:45-75, proxy.go:48-64).         *)
THEOREM WaitingCorrect == GatewaySpec => []WaitingIsInOnePlace
<1>1. ASSUME GatewayInv, NEW r \in Requests, req[r].at = "waiting"
      PROVE  /\ r \in queue[req[r].name] \/ Held(r) <=> done[r] = "empty"
             /\ ~(r \in queue[req[r].name] /\ Held(r))
  BY <1>1 DEF GatewayInv, QueueInv, ProxyTypeOK, WaitersAreHeld, QueuedIsUnanswered,
     TakenIsOutOfQueue, InQueue, Held
<1>2. GatewayInv => WaitingIsInOnePlace
  BY <1>1 DEF WaitingIsInOnePlace, Held
<1> QED
  BY <1>2, GatewayInvCorrect, PTL

(* No answer is sent to a channel that is full, and no two callbacks send  *)
(* to one request (queue.go:45-75).                                        *)
THEOREM QueuedCorrect == GatewaySpec => []QueuedIsUnanswered
<1>1. GatewayInv => QueuedIsUnanswered
  BY DEF GatewayInv, QueueInv
<1> QED
  BY <1>1, GatewayInvCorrect, PTL

-----------------------------------------------------------------------------
(* The whole: what holds of the manager and of its background tasks by     *)
(* themselves holds when requests start models on demand.                  *)

(* A handler that makes, or takes note of, a call of the manager.          *)
HandlerCalls ==
  /\ UNCHANGED <<allocated, modelVars, script, due, check>>
  /\ \E r \in Requests : \E new :
       Resting(r) /\ new.at # "spawn" /\ call' = [call EXCEPT ![r] = new]

LEMMA GatewaySteps ==
  ASSUME GatewayInv, [GatewayNext]_gatewayVars
  PROVE  [MonitorsNext]_monitorVars \/ HandlerCalls
<1>0. /\ TypeOK /\ \A r \in Requests : Target(r) \in Models
  BY MonitorsAssumption DEF GatewayInv, MonitorsTypeOK, QueueInv, ProxyTypeOK, Target
<1>1. CASE MonitorsStep \/ UNCHANGED gatewayVars
  BY <1>1 DEF MonitorsNext, gatewayVars
<1>2. ASSUME NEW s \in Scripts, DeliverReady(s) \/ DeliverError(s)
      PROVE  [MonitorsNext]_monitorVars
  BY <1>2 DEF DeliverReady, DeliverError, MonitorsNext, monitorVars
<1>3. ASSUME NEW k \in Checkers, DeliverHealthy(k) PROVE [MonitorsNext]_monitorVars
  BY <1>3 DEF DeliverHealthy, MonitorsNext
<1>4. ASSUME NEW r \in Requests,
             \/ Arrive(r) \/ OllamaReadsStatus(r) \/ WaitForModel(r) \/ ReceiveDone(r)
             \/ TimeOut(r) \/ Route(r)
      PROVE  UNCHANGED monitorVars
  BY <1>4 DEF Arrive, OllamaReadsStatus, WaitForModel, ReceiveDone, TimeOut, Route
<1>5. ASSUME NEW r \in Requests, ReadModelStatus(r) PROVE UNCHANGED monitorVars \/ HandlerCalls
  <2>1. ASSUME Begin(r, Target(r), "start") PROVE HandlerCalls
    <3> DEFINE new == [NoCall EXCEPT !.at = Entry["start"], !.model = Target(r)]
    <3>1. new.at # "spawn"
      BY DEF NoCall, Entry
    <3>2. /\ Resting(r) /\ call' = [call EXCEPT ![r] = new]
          /\ UNCHANGED <<allocated, modelVars, script, due, check>>
      BY <1>5, <2>1 DEF ReadModelStatus, Begin
    <3> HIDE DEF new
    <3> QED
      BY <3>1, <3>2 DEF HandlerCalls
  <2> QED
    BY <1>5, <2>1 DEF ReadModelStatus, monitorVars
<1>6. ASSUME NEW r \in Requests, StartReturns(r) PROVE HandlerCalls
  <2>1. /\ Resting(r) /\ call' = [call EXCEPT ![r] = NoCall] /\ NoCall.at # "spawn"
        /\ UNCHANGED <<allocated, modelVars, script, due, check>>
    BY <1>6 DEF StartReturns, Resting, NoCall
  <2> QED
    BY <2>1 DEF HandlerCalls
<1>7. ASSUME NEW r \in Requests, RequestTouches(r) PROVE [MonitorsNext]_monitorVars
  <2>1. CASE idle[Target(r)]
    BY <1>0, <1>7, <2>1 DEF RequestTouches, Activity, MonitorsNext
  <2>2. CASE ~idle[Target(r)]
    <3>1. UNCHANGED idle
      BY <1>0, <1>7, <2>2 DEF RequestTouches, Touch, TypeOK
    <3> QED
      BY <1>7, <3>1 DEF RequestTouches, monitorVars, vars, modelVars
  <2> QED
    BY <2>1, <2>2
<1> QED
  BY <1>1, <1>2, <1>3, <1>4, <1>5, <1>6, <1>7 DEF GatewayNext, RequestStep

LEMMA HandlersRoutable ==
  ASSUME RoutableInv, MonitorsTypeOK', HandlerCalls
  PROVE  RoutableInv'
<1>1. /\ MonitorsTypeOK /\ TypeOK /\ RunningIsRoutable /\ StartsHavePort /\ ChecksHaveTarget
      /\ UNCHANGED <<status, port, script, check>>
  BY DEF RoutableInv, MonitorsTypeOK, HandlerCalls, modelVars
<1>2. PortsKept /\ NoneNewlyRuns
  BY <1>1 DEF PortsKept, NoneNewlyRuns
<1>3. PICK r \in Requests : \E new : new.at # "spawn" /\ call' = [call EXCEPT ![r] = new]
  BY DEF HandlerCalls
<1>4. PICK new : new.at # "spawn" /\ call' = [call EXCEPT ![r] = new]
  BY <1>3
<1>5. RunningIsRoutable' /\ StartsHavePort'
  BY <1>1, <1>2, <1>4, RequestsCall, RoutableKept
<1>6. ChecksHaveTarget'
  BY <1>1, <1>2, TargetsKept
<1> QED
  BY <1>5, <1>6 DEF RoutableInv

WholeInv == GatewayInv /\ ManagerInv /\ RoutableInv

LEMMA WholeInvStep ==
  ASSUME WholeInv, [GatewayNext]_gatewayVars
  PROVE  WholeInv' /\ [Lease!Next]_([m \in Models |-> LeaseOf(m)])
<1>1. GatewayInv' /\ MonitorsTypeOK' /\ MonitorsTypeOK /\ TypeOK
  BY GatewayTypeStep, QueueInvStep DEF WholeInv, GatewayInv, MonitorsTypeOK
<1>2. [MonitorsNext]_monitorVars \/ HandlerCalls
  BY GatewaySteps DEF WholeInv
<1>3. HandlerCalls => Aside
  BY RequestsCall DEF HandlerCalls, Aside, modelVars
<1>4. [Next]_vars \/ Aside
  BY <1>1, <1>2, <1>3, MonitorsAside
<1>5. ManagerInv' /\ [Lease!Next]_([m \in Models |-> LeaseOf(m)])
  BY <1>1, <1>4, ManagerInvStep DEF WholeInv
<1>6. RoutableInv'
  BY <1>1, <1>2, RoutableStep, HandlersRoutable DEF WholeInv
<1> QED
  BY <1>1, <1>5, <1>6 DEF WholeInv

LEMMA WholeInvCorrect == GatewaySpec => []WholeInv
<1>1. GatewayInit => WholeInv
  <2> SUFFICES ASSUME GatewayInit PROVE WholeInv
    OBVIOUS
  <2>1. GatewayInv
    BY GatewayTypeInitial, QueueInvInitial DEF GatewayInv
  <2>2. MonitorsInit /\ Init
    BY DEF GatewayInit, MonitorsInit
  <2> QED
    BY <2>1, <2>2, ManagerInvInitial, RoutableInitial DEF WholeInv
<1>2. WholeInv /\ [GatewayNext]_gatewayVars => WholeInv'
  BY WholeInvStep
<1> QED
  BY <1>1, <1>2, PTL DEF GatewaySpec

(* With requests that start models on demand, the reaper and the health    *)
(* checks, no model is stranded while it starts or stops                   *)
(* (manager.go:101-201, 254-439, openai.go:83-96).                         *)
THEOREM WholeHasOwners == GatewaySpec => [](StartingHasOwner /\ StoppingHasOwner)
<1>1. WholeInv => StartingHasOwner /\ StoppingHasOwner
  BY DEF WholeInv, ManagerInv
<1> QED
  BY <1>1, WholeInvCorrect, PTL

(* Nor does any of them make the manager give a model two ports, or leave  *)
(* one behind at rest with a model that has no health check; one that has  *)
(* may leak its port (port.go:37-42, manager.go:386-488).                  *)
THEOREM WholeLeaksNothing == GatewaySpec => [](NoLeakAtRest /\ OnePortPerModel)
<1>1. WholeInv => NoLeakAtRest /\ OnePortPerModel
  BY DEF WholeInv, ManagerInv
<1> QED
  BY <1>1, WholeInvCorrect, PTL

(* The gateway implements PortLease: whatever requests, background tasks   *)
(* and clients do, the table of leases changes as the allocator promises.  *)
THEOREM WholeLeases == GatewaySpec => LeasePromise
<1>1. GatewayInit => Lease!Init
  <2> SUFFICES ASSUME GatewayInit PROVE Lease!Init
    OBVIOUS
  <2>1. \A m \in Models : HeldBy(m) = {}
    BY NoModelAssumption DEF GatewayInit, MonitorsInit, Init, NoLeases, HeldBy
  <2> QED BY <2>1 DEF Lease!Init, LeaseOf, NoPort
<1>2. WholeInv /\ [GatewayNext]_gatewayVars => [Lease!Next]_([m \in Models |-> LeaseOf(m)])
  BY WholeInvStep
<1> QED
  BY <1>1, <1>2, WholeInvCorrect, PTL DEF GatewaySpec, LeasePromise, Lease!Spec

(* A request finds a target for a running model whose start script names   *)
(* ${PORT}, also when others start and stop it meanwhile                   *)
(* (proxy.go:178-196).                                                     *)
THEOREM WholeRoutable == GatewaySpec => []RunningIsRoutable
<1>1. WholeInv => RunningIsRoutable
  BY DEF WholeInv, RoutableInv
<1> QED
  BY <1>1, WholeInvCorrect, PTL
=============================================================================

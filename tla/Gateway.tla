------------------------------ MODULE Gateway ------------------------------
(***************************************************************************)
(* Requests for a model.  Those of the OpenAI routes start it on demand    *)
(* and wait for it (internal/proxy/openai.go, proxy.go, queue.go), those   *)
(* of the Ollama routes only use it (ollama.go); together with the manager *)
(* they call and whose callbacks wake them.                                *)
(*                                                                         *)
(* A request is a handler goroutine; its Start is a call of the module     *)
(* Lifecycle made by the request itself.  The queue is keyed by the name   *)
(* the client used, which may be an alias; a callback carries the model's  *)
(* own name.                                                               *)
(***************************************************************************)
EXTENDS Monitors

CONSTANTS
  Requests,   \* handler goroutines; a retry by a client is another request
  NameOf      \* Model.Name()

ASSUME GatewayAssumption ==
  /\ Requests \subseteq Internal \ {Reaper}
  /\ NameOf \in [Models -> Names]
  /\ \A m \in Models : ModelOf[NameOf[m]] = m
ASSUME SlotsAssumption == Scripts \cap Checkers = {}

VARIABLES
  req,     \* per request: how far it is, and the name it asks for
  queue,   \* RequestQueue.queues, as sets: sends may come in any order
  taken,   \* per callback goroutine: the requests it has yet to signal
  done     \* QueuedRequest.Done: what its one-element buffer holds

proxyVars == <<req, queue, taken, done>>
gatewayVars == <<monitorVars, proxyVars>>

RequestLabels ==
  {"absent", "arrived", "start", "enqueue", "waiting", "activity", "route",
   "forwarded", "refused", "timedOut"}
Answered == {"forwarded", "refused", "timedOut"}

(* Goroutines that may come to run a callback. *)
Callbacks == Scripts \cup Checkers

GatewayInit ==
  /\ MonitorsInit
  /\ req \in [Requests -> [at : {"absent"}, name : Names]]
  /\ queue = [n \in Names |-> {}]
  /\ taken = [g \in Callbacks |-> {}]
  /\ done = [r \in Requests |-> "empty"]

Target(r) == ModelOf[req[r].name]

ReqGoto(r, label) == req' = [req EXCEPT ![r].at = label]

-----------------------------------------------------------------------------
(* RequestQueue.                                                           *)
Enqueue(n, r) == queue' = [queue EXCEPT ![n] = @ \cup {r}]

(* Mutant: the queue is cleared before it is read. *)
ClearAndGet(g, n) ==
  /\ queue' = [queue EXCEPT ![n] = {}]
  /\ UNCHANGED <<taken, done>>

(* Mutant: the queue is not cleared. *)
GetAndKeep(g, n) ==
  /\ taken' = [taken EXCEPT ![g] = queue[n]]
  /\ UNCHANGED <<queue, done>>

GetAndClear(g, n) ==
  /\ taken' = [taken EXCEPT ![g] = queue[n]]
  /\ queue' = [queue EXCEPT ![n] = {}]
  /\ UNCHANGED done

(* A send that does not block: to a full channel nothing is sent.          *)
Send(g, answer) ==
  \E r \in taken[g] :
    /\ done' = [done EXCEPT ![r] = IF @ = "empty" THEN answer ELSE @]
    /\ taken' = [taken EXCEPT ![g] = @ \ {r}]
    /\ UNCHANGED queue

(* NotifyAll and FailAll: the queue is taken, then each request in it is   *)
(* sent its answer.                                                        *)
Signal(g, n, answer) == IF taken[g] = {} THEN GetAndClear(g, n) ELSE Send(g, answer)

-----------------------------------------------------------------------------
(* The handler, from the decoded request to the choice of a target.        *)
Arrive(r) ==
  /\ req[r].at = "absent"
  /\ ReqGoto(r, "arrived")
  /\ UNCHANGED <<monitorVars, queue, taken, done>>

ReadModelStatus(r) ==
  LET m == Target(r) IN
  /\ req[r].at = "arrived"
  /\ \/ /\ status[m] \in {"stopped", "error"}
        /\ Begin(r, m, "start")
        /\ ReqGoto(r, "start")
     \/ /\ status[m] \in {"starting", "stopping"}
        /\ ReqGoto(r, "enqueue")
        /\ UNCHANGED vars
     \/ /\ status[m] = "running"
        /\ ReqGoto(r, "activity")
        /\ UNCHANGED vars
  /\ UNCHANGED <<due, check, queue, taken, done>>

(* The Ollama routes wait for nothing: the model runs or the client is told *)
(* that it does not.  Which route a request uses shows in its first step.  *)
OllamaReadsStatus(r) ==
  /\ req[r].at = "arrived"
  /\ ReqGoto(r, IF status[Target(r)] = "running" THEN "activity" ELSE "refused")
  /\ UNCHANGED <<monitorVars, queue, taken, done>>

(* Mutant: the call is not taken off the handler. *)
StartReturnsTwice(r) ==
  /\ req[r].at = "start"
  /\ \/ call[r].at = "ok" /\ ReqGoto(r, "enqueue")
     \/ call[r].at = "err" /\ ReqGoto(r, "refused")
  /\ UNCHANGED <<monitorVars, queue, taken, done>>

(* Any success of Start, also that of finding the model running, is taken  *)
(* to mean that the model is starting.                                     *)
StartReturns(r) ==
  /\ req[r].at = "start"
  /\ \/ call[r].at = "ok" /\ ReqGoto(r, "enqueue")
     \/ call[r].at = "err" /\ ReqGoto(r, "refused")
  /\ call' = [call EXCEPT ![r] = NoCall]
  /\ UNCHANGED <<allocated, modelVars, script, due, check, queue, taken, done>>

WaitForModel(r) ==
  /\ req[r].at = "enqueue"
  /\ Enqueue(req[r].name, r)
  /\ ReqGoto(r, "waiting")
  /\ UNCHANGED <<monitorVars, taken, done>>

ReceiveDone(r) ==
  /\ req[r].at = "waiting"
  /\ \/ done[r] = "ready" /\ ReqGoto(r, "activity")
     \/ done[r] = "failed" /\ ReqGoto(r, "refused")
  /\ done' = [done EXCEPT ![r] = "empty"]
  /\ UNCHANGED <<monitorVars, queue, taken>>

(* Mutant: the select has no branch for the timer. *)
NeverTimesOut(r) == FALSE /\ UNCHANGED gatewayVars

(* QueueTimeout.  The entry stays in the queue, or with who has taken it.  *)
TimeOut(r) ==
  /\ req[r].at = "waiting"
  /\ ReqGoto(r, "timedOut")
  /\ UNCHANGED <<monitorVars, queue, taken, done>>

RequestTouches(r) ==
  /\ req[r].at = "activity"
  /\ Touch(Target(r))
  /\ ReqGoto(r, "route")
  /\ UNCHANGED <<allocated, status, port, healthy, settled, call, script, due, check, queue, taken, done>>

(* buildTargetURL: the override, else the endpoint, else localhost and the *)
(* model's port.                                                           *)
HasTarget(m) ==
  m \in (WithOverride \cup WithEndpoint) \ OverrideWithPort \/ port[m] # NoPort

Route(r) ==
  /\ req[r].at = "route"
  /\ ReqGoto(r, IF HasTarget(Target(r)) THEN "forwarded" ELSE "refused")
  /\ UNCHANGED <<monitorVars, queue, taken, done>>

RequestStep(r) ==
  \/ ReadModelStatus(r) \/ OllamaReadsStatus(r) \/ StartReturns(r) \/ WaitForModel(r) \/ ReceiveDone(r)
  \/ TimeOut(r) \/ RequestTouches(r) \/ Route(r)

-----------------------------------------------------------------------------
(* The callbacks New registers, run by the goroutines of notifyModelReady  *)
(* and notifyModelError, which end with the last send.                     *)
DeliverReady(s) ==
  /\ script[s].at = "notifyReady"
  /\ Signal(s, NameOf[script[s].model], "ready")
  /\ IF taken'[s] = {} THEN Notify(s) ELSE UNCHANGED vars
  /\ UNCHANGED <<due, check, req>>

DeliverError(s) ==
  /\ script[s].at = "notifyError"
  /\ Signal(s, NameOf[script[s].model], "failed")
  /\ IF taken'[s] = {} THEN Notify(s) ELSE UNCHANGED vars
  /\ UNCHANGED <<due, check, req>>

DeliverHealthy(k) ==
  /\ check[k].at = "notifyReady"
  /\ Signal(k, NameOf[check[k].model], "ready")
  /\ IF taken'[k] = {} THEN CheckNotifies(k) ELSE UNCHANGED monitorVars
  /\ UNCHANGED req

-----------------------------------------------------------------------------
GatewayNext ==
  \/ MonitorsStep /\ UNCHANGED proxyVars
  \/ \E r \in Requests : Arrive(r) \/ RequestStep(r)
  \/ \E s \in Scripts : DeliverReady(s) \/ DeliverError(s)
  \/ \E k \in Checkers : DeliverHealthy(k)

(* Handlers, manager calls and goroutines run; a timer fires.  A `go'      *)
(* statement never waits, so a start that finds all Scripts taken, which   *)
(* is our bound, does not wait for ever.                                   *)
GatewayFairness ==
  /\ \A r \in Requests : /\ WF_gatewayVars(RequestStep(r))
                         /\ SF_gatewayVars(StartSpawn(r) /\ UNCHANGED <<due, check, proxyVars>>)
  /\ \A c \in Callers : WF_gatewayVars(CallStep(c) /\ UNCHANGED <<due, check, proxyVars>>)
  /\ \A s \in Scripts :
       WF_gatewayVars(\/ ScriptStep(s) /\ UNCHANGED <<due, check, proxyVars>>
                      \/ DeliverReady(s) \/ DeliverError(s))

GatewaySpec == GatewayInit /\ [][GatewayNext]_gatewayVars
GatewayFairSpec == GatewaySpec /\ GatewayFairness

-----------------------------------------------------------------------------
(* Every variable has its type, and a handler makes a call of the manager  *)
(* exactly while it starts its model.                                      *)
GatewayTypeOK ==
  /\ MonitorsTypeOK
  /\ req \in [Requests -> [at : RequestLabels, name : Names]]
  /\ queue \in [Names -> SUBSET Requests]
  /\ taken \in [Callbacks -> SUBSET Requests]
  /\ done \in [Requests -> {"empty", "ready", "failed"}]
  /\ \A r \in Requests : req[r].at = "start" <=> call[r].at # "idle"

(* A request that waits has not fallen between queue and channel: it is in *)
(* the queue of the name it asked for, or a callback that emptied the      *)
(* queue has yet to send to it, or its answer is in its channel, and only  *)
(* one of the three, however callbacks of several starts overlap.  Whether *)
(* a callback ever empties that queue is another matter: see               *)
(* ReadySignalsAll and NoWaitForRunning (queue.go:45-75, proxy.go:48-64).  *)
WaitingIsInOnePlace ==
  \A r \in Requests : req[r].at = "waiting" =>
    LET queued == r \in queue[req[r].name]
        held == \E g \in Callbacks : r \in taken[g]
    IN  /\ queued \/ held <=> done[r] = "empty"
        /\ ~(queued /\ held)

(* Whoever is queued, or taken from a queue, has an empty channel and one  *)
(* callback at most to send to it, also when it has timed out: so the      *)
(* default branch, which queue.go:60 has for those, is never taken, and no *)
(* answer is thrown away; and a request is in no queue but its own         *)
(* (queue.go:45-75).                                                       *)
QueuedIsUnanswered ==
  /\ \A n \in Names : \A r \in queue[n] : done[r] = "empty" /\ req[r].name = n
  /\ \A g \in Callbacks : \A r \in taken[g] :
       done[r] = "empty" /\ \A h \in Callbacks : r \in taken[h] => h = g

(* Every request is answered in the end, although its model is stopped or  *)
(* restarted meanwhile, gets no port, fails or stays stopping, and         *)
(* although no callback finds it (proxy.go:59-64).                         *)
EveryRequestAnswered ==
  \A r \in Requests : req[r].at = "arrived" ~> req[r].at \in Answered

-----------------------------------------------------------------------------
(* What the sources say and the code does not do.                          *)

(* queue.go:53: `NotifyAll signals all queued requests for a model that    *)
(* it's ready', under whatever name of the model they were queued: none is *)
(* still in a queue when the callback has taken those it signals.          *)
ReadySignalsAll ==
  [][\A s \in Scripts : DeliverReady(s) /\ taken[s] = {} =>
       \A r \in Requests : req[r].at = "waiting" /\ Target(r) = script[s].model
                             => r \notin queue'[req[r].name]]_gatewayVars

(* openai.go:97: `Queue the request and wait for model to become ready',   *)
(* so a request does not wait for a running model of which no goroutine is *)
(* left to tell it so.                                                     *)
NoWaitForRunning ==
  \A r \in Requests :
    /\ req[r].at = "waiting" /\ done[r] = "empty"
    /\ req[r].name = NameOf[Target(r)]
    /\ Quiet(Target(r)) /\ \A k \in Checkers : check[k].model # Target(r)
    => status[Target(r)] # "running"
=============================================================================

------------------------- MODULE ScriptLogs_proofs --------------------------
(***************************************************************************)
(* What a script printed is in the log before its goroutine sets an        *)
(* outcome, and a viewer is shown the log in order and, at a stream's end, *)
(* the output of scripts that were through: for pipes and logs of any      *)
(* size, any number of scripts and lines, and any order in which           *)
(* processes, scanners, the timeout, health checks and the viewer act.     *)
(*                                                                         *)
(* GetLogsSince and ShowFetched are loops: the proofs take the sequence of *)
(* the values after each round (Loop), show that there is one and that it  *)
(* is the recursive function of the model, and reason over it with UpTo.   *)
(***************************************************************************)
EXTENDS ScriptLogs, SequenceTheorems, NaturalsInduction, WellFoundedInduction, TLAPS

Lines == {"line", "overlong"}

PlumbingType ==
  /\ runner.at \in RunnerLabels
  /\ runner = [at |-> runner.at, does |-> runner.does, failed |-> runner.failed]
  /\ pipe \in [Streams -> Seq(Lines)]
  /\ scanner \in [Streams -> {"off", "reading", "ended", "gaveUp"}]

(* Without a shell there is nobody who could print, and nothing printed.   *)
Quiet == shell = "off" => ~child /\ \A st \in Streams : pipe[st] = <<>>

(* A scanner that met the end of its stream met the end of all that could  *)
(* write to it: for ever, since only a shell that is up forks.             *)
EndIsFinal ==
  \A st \in Streams :
    scanner[st] = "ended" => pipe[st] = <<>> /\ ~child /\ shell \in {"exited", "failed", "off"}

(* There is a shell between Launch and WaitForShell only, and scanners are *)
(* through when the shell is waited for.                                   *)
Phases ==
  /\ runner.at \notin {"scan", "wait"} => shell = "off"
  /\ runner.at = "wait" => \A st \in Streams : scanner[st] \in {"ended", "gaveUp"}

PlumbingInv == PlumbingType /\ Quiet /\ EndIsFinal /\ Phases

(* What the processes and the scanners do leaves the runner where it is.   *)
LEMMA ProcessesKeepInv ==
  ASSUME PlumbingInv, UNCHANGED RunnerVars,
         \/ \E st \in Streams, line \in Lines : PrintLine(st, line)
         \/ \E st \in Streams : Block(st)
         \/ Fork \/ ChildEnds \/ Unblock \/ Kill
         \/ \E how \in {"exited", "failed"} : ShellExits(how)
  PROVE  PlumbingInv'
<1>1. ASSUME NEW st \in Streams, NEW line \in Lines, PrintLine(st, line)
      PROVE  PlumbingInv'
  <2>1. /\ shell # "off" /\ (shell = "up" \/ child)
        /\ pipe' = [pipe EXCEPT ![st] = Append(@, line)]
        /\ UNCHANGED <<status, runner, job, shell, child, scanner>>
    BY <1>1 DEF PrintLine, PlumbingInv, Quiet, RunnerVars
  <2>2. PlumbingType'
    BY <2>1 DEF PlumbingInv, PlumbingType
  <2>3. EndIsFinal'
    BY <2>1 DEF PlumbingInv, EndIsFinal
  <2> QED
    BY <2>1, <2>2, <2>3 DEF PlumbingInv, Quiet, Phases
<1>2. ASSUME NEW st \in Streams, Block(st) PROVE PlumbingInv'
  <2>1. /\ shell = "up" /\ shell' = st /\ UNCHANGED <<runner, child, pipe, scanner>>
    BY <1>2 DEF Block, RunnerVars
  <2>2. st \notin {"off", "exited", "failed"}
    BY DEF Streams
  <2> QED
    BY <2>1, <2>2 DEF PlumbingInv, PlumbingType, Quiet, EndIsFinal, Phases
<1>3. CASE Fork
  BY <1>3 DEF Fork, RunnerVars, PlumbingInv, PlumbingType, Quiet, EndIsFinal, Phases
<1>4. CASE ChildEnds
  BY <1>4 DEF ChildEnds, RunnerVars, PlumbingInv, PlumbingType, Quiet, EndIsFinal, Phases
<1>5. CASE Unblock \/ Kill \/ \E how \in {"exited", "failed"} : ShellExits(how)
  <2>1. /\ shell \in {"up"} \cup Streams /\ shell' \in {"up", "exited", "failed"}
        /\ shell' = "up" => shell \in Streams
        /\ UNCHANGED <<runner, child, pipe, scanner>>
    BY <1>5 DEF Unblock, Kill, ShellExits, RunnerVars
  <2>2. shell \notin {"off", "exited", "failed"}
    BY <2>1 DEF Streams
  <2> QED
    BY <2>1, <2>2 DEF PlumbingInv, PlumbingType, Quiet, EndIsFinal, Phases
<1> QED
  BY <1>1, <1>2, <1>3, <1>4, <1>5

LEMMA ScannersKeepInv ==
  ASSUME PlumbingInv, NEW st \in Streams, ScanStep(st)
  PROVE  PlumbingInv'
<1>1. UNCHANGED <<runner, shell, child>> /\ scanner[st] = "reading"
  BY DEF ScanStep, ScanLine, ScanEnds, RunnerVars
<1>2. CASE Head(pipe[st]) = "line" /\ pipe' = [pipe EXCEPT ![st] = Tail(@)]
           /\ pipe[st] # <<>> /\ UNCHANGED scanner
  <2>1. PlumbingType'
    BY <1>1, <1>2 DEF PlumbingInv, PlumbingType
  <2>2. EndIsFinal'
    BY <1>1, <1>2 DEF PlumbingInv, PlumbingType, EndIsFinal
  <2>3. Quiet'
    BY <1>1, <1>2 DEF PlumbingInv, Quiet
  <2> QED
    BY <1>1, <1>2, <2>1, <2>2, <2>3 DEF PlumbingInv, Phases
<1>3. CASE scanner' = [scanner EXCEPT ![st] = "gaveUp"] /\ UNCHANGED pipe
  BY <1>1, <1>3 DEF PlumbingInv, PlumbingType, Quiet, EndIsFinal, Phases
<1>4. CASE ScanEnds(st)
  BY <1>1, <1>4 DEF ScanEnds, PlumbingInv, PlumbingType, Quiet, EndIsFinal, Phases
<1> QED
  BY <1>2, <1>3, <1>4 DEF ScanStep, ScanLine

LEMMA RunnerKeepsInv ==
  ASSUME PlumbingInv, StartClears \/ StopSetsStopping \/ StopWithoutScript \/ RunnerStep
  PROVE  PlumbingInv'
<1>1. PlumbingType /\ Quiet /\ EndIsFinal /\ Phases
  BY DEF PlumbingInv
<1>2. CASE WaitForOutput
  BY <1>1, <1>2 DEF WaitForOutput, Run, ScriptVars, PlumbingInv, PlumbingType, RunnerLabels, Quiet,
     EndIsFinal, Phases
<1>3. CASE WaitForShell
  <2>1. /\ runner' = [at |-> runner'.at, does |-> runner'.does, failed |-> runner'.failed]
        /\ runner'.at \in {"warn", "outcome"}
        /\ shell' = "off" /\ child' = FALSE /\ pipe' = [st \in Streams |-> <<>>]
        /\ UNCHANGED scanner
    BY <1>1, <1>3 DEF WaitForShell, PlumbingType
  <2> QED
    BY <1>1, <2>1 DEF PlumbingInv, PlumbingType, RunnerLabels, Quiet, EndIsFinal, Phases
<1>4. CASE Launch
  <2>1. /\ shell' = "up" /\ scanner' = [st \in Streams |-> "reading"]
        /\ runner' = [runner EXCEPT !.at = "scan"] /\ UNCHANGED <<child, pipe>>
    BY <1>4 DEF Launch, Run
  <2> QED
    BY <1>1, <2>1 DEF PlumbingInv, PlumbingType, RunnerLabels, Quiet, EndIsFinal, Phases
<1>5. CASE Outcome
  <2>1. /\ runner.at = "outcome" /\ UNCHANGED <<shell, child, pipe>>
        /\ scanner' = [st \in Streams |-> "off"]
        /\ runner'.at \in {"none", "report"}
        /\ runner' = [at |-> runner'.at, does |-> runner'.does, failed |-> runner'.failed]
    BY <1>1, <1>5 DEF Outcome, Run, NoRunner, PlumbingType
  <2> QED
    BY <1>1, <2>1 DEF PlumbingInv, PlumbingType, RunnerLabels, Quiet, EndIsFinal, Phases
<1>6. CASE \/ StartClears \/ StopSetsStopping \/ StopWithoutScript
           \/ StartSetsStarting \/ Announce \/ LaunchFails \/ Warn \/ Report
  <2>1. runner.at \notin {"scan", "wait"} /\ UNCHANGED <<shell, child, pipe, scanner>>
    BY <1>1, <1>6 DEF StartClears, StopSetsStopping, StopWithoutScript, StartSetsStarting, Announce,
       LaunchFails, Warn, Report, ScriptVars, Phases
  <2>2. /\ runner'.at \in RunnerLabels \ {"scan", "wait"}
        /\ runner' = [at |-> runner'.at, does |-> runner'.does, failed |-> runner'.failed]
    <3>1. CASE StartClears \/ StopSetsStopping \/ StopWithoutScript \/ Report
      BY <3>1 DEF StartClears, StopSetsStopping, StopWithoutScript, Report, NoRunner, RunnerLabels
    <3>2. CASE StartSetsStarting \/ Announce \/ Warn
      <4>1. \E l \in {"announce", "report", "launch", "outcome"} : runner' = [runner EXCEPT !.at = l]
        BY <3>2 DEF StartSetsStarting, Announce, Warn, Run
      <4> QED
        BY <1>1, <4>1 DEF PlumbingType, RunnerLabels
    <3>3. CASE LaunchFails
      <4>1. \E l \in {"warn", "outcome"} : runner' = [runner EXCEPT !.at = l, !.failed = TRUE]
        BY <3>3 DEF LaunchFails
      <4> QED
        BY <1>1, <4>1 DEF PlumbingType, RunnerLabels
    <3> QED
      BY <1>6, <3>1, <3>2, <3>3
  <2> QED
    BY <1>1, <2>1, <2>2 DEF PlumbingInv, PlumbingType, Quiet, EndIsFinal, Phases
<1> QED
  BY <1>2, <1>3, <1>4, <1>5, <1>6 DEF RunnerStep

LEMMA PlumbingInvStep ==
  ASSUME PlumbingInv, [LogsNext]_logsVars
  PROVE  PlumbingInv'
<1>1. CASE \/ \E st \in Streams, line \in Lines : PrintLine(st, line)
           \/ \E st \in Streams : Block(st)
           \/ Fork \/ ChildEnds \/ Unblock \/ Kill
           \/ \E how \in {"exited", "failed"} : ShellExits(how)
  <2>1. UNCHANGED RunnerVars
    BY <1>1 DEF PrintLine, Block, Fork, ChildEnds, Unblock, Kill, ShellExits
  <2> QED
    BY <1>1, <2>1, ProcessesKeepInv
<1>2. CASE \/ StreamOpens \/ StreamTicks \/ StreamReadsStatus \/ StreamEnds
           \/ PollFetches \/ PollShows \/ GoAway \/ UNCHANGED logsVars \/ CheckerStep
  <2>1. UNCHANGED <<runner, shell, child, pipe, scanner>>
    BY <1>2 DEF StreamOpens, StreamTicks, StreamReadsStatus, StreamEnds, PollFetches, PollShows,
       GoAway, CheckerStep, CheckBegins, CheckFails, CheckPasses, CheckReports, ScriptVars,
       logsVars, jobVars
  <2> QED
    BY <2>1 DEF PlumbingInv, PlumbingType, Quiet, EndIsFinal, Phases
<1> QED
  BY <1>1, <1>2, ScannersKeepInv, RunnerKeepsInv DEF LogsNext, Lines

(* Nothing that a script or a process it left behind printed is still in a *)
(* pipe when its goroutine comes to the outcome, whatever the timeout      *)
(* kills, and so it is in the log (manager.go:311-322, 351-361, 420-427);  *)
(* a health check may set the status before that (manager.go:188).         *)
THEOREM OutputCorrect == LogsSpec => []OutputBeforeOutcome
<1>1. LogsInit => PlumbingInv
  BY DEF LogsInit, NoRunner, PlumbingInv, PlumbingType, RunnerLabels, Quiet, EndIsFinal, Phases
<1>2. PlumbingInv => OutputBeforeOutcome
  BY DEF PlumbingInv, Quiet, EndIsFinal, Phases, OutputBeforeOutcome
<1> QED
  BY <1>1, <1>2, PlumbingInvStep, PTL DEF LogsSpec

-----------------------------------------------------------------------------
(* Loops.  What a loop over a sequence computes is a function on 0 .. n,   *)
(* and what holds of it is shown by induction over the set of those i for  *)
(* which it holds.                                                         *)

LEMMA UpTo ==
  ASSUME NEW n \in Nat, NEW S, 0 \in S, \A i \in 1 .. n : i - 1 \in S => i \in S
  PROVE  \A i \in 0 .. n : i \in S
<1> DEFINE Bad == {i \in 0 .. n : i \notin S}
           R == OpToRel(<, Nat)
<1> SUFFICES ASSUME Bad # {} PROVE FALSE
  OBVIOUS
<1>1. IsWellFoundedOn(R, Nat)
  BY NatLessThanWellFounded
<1>2. Bad \subseteq Nat
  OBVIOUS
<1>3. PICK m \in Bad : \A i \in Bad : <<i, m>> \notin R
  <2> HIDE DEF R, Bad
  <2> QED
    BY <1>1, <1>2, WFMin
<1>4. \A i \in Bad : ~(i < m)
  <2> HIDE DEF Bad
  <2> QED
    BY <1>2, <1>3 DEF OpToRel
<1>5. m # 0 /\ m \in 1 .. n
  OBVIOUS
<1> QED
  BY <1>4, <1>5

(* f holds the values of a loop's variable after each of n rounds.         *)
Loop(f, n, X, base, body) ==
  /\ f \in [0 .. n -> X] /\ f[0] = base
  /\ \A i \in 1 .. n : f[i] = body[i][f[i - 1]]

LEMMA LoopExists ==
  ASSUME NEW n \in Nat, NEW X, NEW base \in X, NEW body \in [1 .. n -> [X -> X]]
  PROVE  \E f : Loop(f, n, X, base, body)
<1> DEFINE S == {m \in 0 .. n : \E f : Loop(f, m, X, base, body)}
<1>1. 0 \in S
  <2>1. Loop([i \in 0 .. 0 |-> base], 0, X, base, body)
    BY DEF Loop
  <2> QED
    BY <2>1
<1>2. ASSUME NEW m \in 1 .. n, m - 1 \in S PROVE m \in S
  <2>1. PICK f : Loop(f, m - 1, X, base, body)
    BY <1>2
  <2> DEFINE g == [i \in 0 .. m |-> IF i = m THEN body[m][f[m - 1]] ELSE f[i]]
  <2>2. g \in [0 .. m -> X]
    <3>1. f[m - 1] \in X /\ body[m] \in [X -> X]
      BY <2>1 DEF Loop
    <3>2. \A i \in 0 .. m : i # m => f[i] \in X
      BY <2>1 DEF Loop
    <3> QED
      BY <3>1, <3>2
  <2>3. \A i \in 1 .. m : g[i] = body[i][g[i - 1]]
    <3> SUFFICES ASSUME NEW i \in 1 .. m PROVE g[i] = body[i][g[i - 1]]
      OBVIOUS
    <3>1. CASE i = m
      BY <3>1
    <3>2. CASE i # m
      BY <2>1, <3>2 DEF Loop
    <3> QED
      BY <3>1, <3>2
  <2>4. g[0] = base
    BY <2>1 DEF Loop
  <2>5. Loop(g, m, X, base, body)
    <3> HIDE DEF g
    <3> QED
      BY <2>2, <2>3, <2>4 DEF Loop
  <2> QED
    BY <2>5
<1>3. \A i \in 1 .. n : i - 1 \in S => i \in S
  BY <1>2
<1> HIDE DEF S
<1>4. \A i \in 0 .. n : i \in S
  BY <1>1, <1>3, UpTo
<1>5. n \in S
  BY <1>4
<1> QED
  BY <1>5 DEF S

-----------------------------------------------------------------------------
(* Facts about sequences and numbers.                                      *)

Ordered(s) == \A i, j \in 1 .. Len(s) : i < j => s[i] < s[j]

LEMMA InToSet ==
  ASSUME NEW S, NEW s \in Seq(S)
  PROVE  /\ ToSet(s) = {s[i] : i \in 1 .. Len(s)} /\ Len(s) \in Nat
         /\ \A i \in 1 .. Len(s) : s[i] \in S
<1>1. DOMAIN s = 1 .. Len(s) /\ Len(s) \in Nat
  BY LenProperties
<1> QED
  BY <1>1, ElementOfSeq DEF ToSet

LEMMA OrderedConcat ==
  ASSUME NEW s \in Seq(Nat), NEW u \in Seq(Nat), Ordered(s), Ordered(u), NEW b \in Nat,
         \A i \in 1 .. Len(s) : s[i] <= b, \A i \in 1 .. Len(u) : b < u[i]
  PROVE  /\ s \o u \in Seq(Nat) /\ Ordered(s \o u)
         /\ \A x : x \in ToSet(s \o u) <=> x \in ToSet(s) \/ x \in ToSet(u)
<1> DEFINE w == s \o u
<1>1. /\ w \in Seq(Nat) /\ Len(s) \in Nat /\ Len(u) \in Nat /\ Len(w) = Len(s) + Len(u)
      /\ \A i \in 1 .. Len(w) : w[i] = IF i <= Len(s) THEN s[i] ELSE u[i - Len(s)]
  BY ConcatProperties, LenProperties
<1>2. /\ \A i \in 1 .. Len(s) : s[i] \in Nat
      /\ \A i \in 1 .. Len(u) : u[i] \in Nat
  BY InToSet
<1> HIDE DEF w
<1>3. Ordered(w)
  <2> SUFFICES ASSUME NEW i \in 1 .. Len(w), NEW j \in 1 .. Len(w), i < j PROVE w[i] < w[j]
    BY DEF Ordered
  <2>1. CASE j <= Len(s)
    <3>1. i \in 1 .. Len(s) /\ j \in 1 .. Len(s) /\ w[i] = s[i] /\ w[j] = s[j]
      BY <1>1, <2>1
    <3> QED
      BY <3>1 DEF Ordered
  <2>2. CASE i <= Len(s) /\ j > Len(s)
    <3>1. /\ i \in 1 .. Len(s) /\ j - Len(s) \in 1 .. Len(u)
          /\ w[i] = s[i] /\ w[j] = u[j - Len(s)]
      BY <1>1, <2>2
    <3>2. s[i] <= b /\ b < u[j - Len(s)] /\ s[i] \in Nat /\ u[j - Len(s)] \in Nat
      BY <1>2, <3>1
    <3> QED
      BY <3>1, <3>2
  <2>3. CASE i > Len(s)
    <3>1. /\ i - Len(s) \in 1 .. Len(u) /\ j - Len(s) \in 1 .. Len(u)
          /\ i - Len(s) < j - Len(s) /\ w[i] = u[i - Len(s)] /\ w[j] = u[j - Len(s)]
      BY <1>1, <2>3
    <3> QED
      BY <3>1 DEF Ordered
  <2> QED
    BY <1>1, <2>1, <2>2, <2>3
<1>4. \A x : x \in ToSet(w) <=> x \in ToSet(s) \/ x \in ToSet(u)
  <2> TAKE x
  <2>1. /\ ToSet(w) = {w[i] : i \in 1 .. Len(w)} /\ ToSet(s) = {s[i] : i \in 1 .. Len(s)}
        /\ ToSet(u) = {u[i] : i \in 1 .. Len(u)}
    BY <1>1, InToSet
  <2>2. ASSUME NEW i \in 1 .. Len(w) PROVE w[i] \in ToSet(s) \/ w[i] \in ToSet(u)
    <3>1. CASE i <= Len(s)
      BY <1>1, <2>1, <3>1
    <3>2. CASE i > Len(s)
      <4>1. i - Len(s) \in 1 .. Len(u) /\ w[i] = u[i - Len(s)]
        BY <1>1, <3>2
      <4> QED
        BY <2>1, <4>1
    <3> QED
      BY <1>1, <3>1, <3>2
  <2>3. ASSUME NEW i \in 1 .. Len(s) PROVE s[i] \in ToSet(w)
    <3>1. i \in 1 .. Len(w) /\ w[i] = s[i]
      BY <1>1
    <3> QED
      BY <2>1, <3>1
  <2>4. ASSUME NEW i \in 1 .. Len(u) PROVE u[i] \in ToSet(w)
    <3>1. i + Len(s) \in 1 .. Len(w) /\ i + Len(s) > Len(s) /\ (i + Len(s)) - Len(s) = i
      BY <1>1
    <3>2. w[i + Len(s)] = u[(i + Len(s)) - Len(s)]
      <4> DEFINE k == i + Len(s)
      <4>1. k \in 1 .. Len(w) /\ ~(k <= Len(s))
        BY <1>1, <3>1
      <4> HIDE DEF k
      <4>2. w[k] = u[k - Len(s)]
        BY <1>1, <4>1
      <4> QED
        BY <4>2 DEF k
    <3> QED
      BY <2>1, <3>1, <3>2
  <2> QED
    BY <2>1, <2>2, <2>3, <2>4
<1> QED
  BY <1>1, <1>3, <1>4 DEF w

(* A set of numbers with a bound has a greatest one, and Max is that.      *)
LEMMA MaxProperty ==
  ASSUME NEW S \in SUBSET Nat, S # {}, NEW b \in Nat, \A x \in S : x <= b
  PROVE  Max(S) \in S /\ \A x \in S : x <= Max(S)
<1> DEFINE D == {b - x : x \in S}
           R == OpToRel(<, Nat)
<1>1. IsWellFoundedOn(R, Nat)
  BY NatLessThanWellFounded
<1>2. D \subseteq Nat /\ D # {}
  <2>1. \A x \in S : b - x \in Nat
    OBVIOUS
  <2>2. PICK x \in S : TRUE
    OBVIOUS
  <2> QED
    BY <2>1, <2>2
<1>3. PICK d \in D : \A e \in D : <<e, d>> \notin R
  <2> HIDE DEF R, D
  <2> QED
    BY <1>1, <1>2, WFMin
<1>4. \A e \in D : ~(e < d)
  BY <1>2, <1>3 DEF OpToRel
<1>5. PICK m \in S : d = b - m
  OBVIOUS
<1>6. \A x \in S : m >= x
  <2> SUFFICES ASSUME NEW x \in S PROVE m >= x
    OBVIOUS
  <2>1. ~(b - x < b - m)
    BY <1>4, <1>5
  <2> QED
    BY <2>1
<1> HIDE DEF D, R
<1>7. Max(S) \in S /\ \A x \in S : Max(S) >= x
  BY <1>6 DEF Max
<1>8. \A x \in S : x \in Nat
  OBVIOUS
<1> QED
  BY <1>7, <1>8

LEMMA MilliMonotone ==
  ASSUME NEW a \in Nat, NEW b \in Nat, a <= b
  PROVE  Milli(a) <= Milli(b)
<1> DEFINE k == PerMilli
<1>1. k \in Nat /\ k > 0
  BY LogsAssumption
<1> QED
  BY <1>1 DEF Milli

-----------------------------------------------------------------------------
(* The log: its entries are younger and younger, and none is from the      *)
(* future, whatever is cut off and cleared.                                *)

LogEntry == [kind : {"system", "output"}, job : 0 .. MaxJobs, stamp : Nat]

Aging(s) == \A i, j \in 1 .. Len(s) : i < j => s[i].stamp < s[j].stamp

LogInv ==
  /\ now \in Nat /\ logs \in Seq(LogEntry) /\ Len(logs) <= Cap
  /\ \A i \in 1 .. Len(logs) :
       logs[i].stamp \in 1 .. now /\ (logs[i].kind = "output" => logs[i].job >= 1)
  /\ Aging(logs)

(* Newest cuts off the beginning.                                          *)
LEMMA NewestProperties ==
  ASSUME NEW s \in Seq(LogEntry)
  PROVE  /\ Newest(s) \in Seq(LogEntry) /\ Len(Newest(s)) <= Cap
         /\ \E k \in Nat : /\ Len(Newest(s)) + k = Len(s)
                           /\ \A i \in 1 .. Len(Newest(s)) : Newest(s)[i] = s[k + i]
<1> DEFINE from == IF Len(s) > Cap THEN Len(s) - Cap + 1 ELSE 1
<1>1. Cap \in Nat /\ Cap > 0 /\ Len(s) \in Nat /\ \A i \in 1 .. Len(s) : s[i] \in LogEntry
  BY LogsAssumption, InToSet
<1>2. from \in 1 .. Len(s) + 1 /\ Len(s) - from + 1 <= Cap /\ Len(s) - from + 1 \in Nat
  BY <1>1
<1>3. Newest(s) = SubSeq(s, from, Len(s))
  BY DEF Newest
<1> HIDE DEF from
<1>4. \A i \in from .. Len(s) : s[i] \in LogEntry
  BY <1>1, <1>2
<1>5. /\ Newest(s) \in Seq(LogEntry) /\ Len(Newest(s)) = Len(s) - from + 1
      /\ \A i \in 1 .. Len(s) - from + 1 : Newest(s)[i] = s[from + i - 1]
  BY <1>1, <1>2, <1>3, <1>4, SubSeqProperties
<1> DEFINE k == from - 1
<1>6. /\ k \in Nat /\ Len(Newest(s)) + k = Len(s)
      /\ \A i \in 1 .. Len(Newest(s)) : Newest(s)[i] = s[k + i]
  <2>1. k \in Nat /\ Len(Newest(s)) + k = Len(s)
    BY <1>1, <1>2, <1>5
  <2>2. ASSUME NEW i \in 1 .. Len(Newest(s)) PROVE Newest(s)[i] = s[k + i]
    <3>1. from + i - 1 = k + i /\ i \in 1 .. Len(s) - from + 1
      BY <1>1, <1>2, <1>5
    <3> QED
      BY <1>5, <3>1
  <2> QED
    BY <2>1, <2>2
<1> HIDE DEF k
<1> QED
  BY <1>2, <1>5, <1>6

LEMMA AppendKeepsLog ==
  ASSUME LogInv, NEW kind \in {"system", "output"}, AppendLog(kind),
         job \in 0 .. MaxJobs, kind = "output" => job >= 1
  PROVE  /\ LogInv' /\ now' = now + 1
         /\ \A e \in ToSet(logs') :
              e \in ToSet(logs) \/ e = [kind |-> kind, job |-> job, stamp |-> now + 1]
<1> DEFINE e == [kind |-> kind, job |-> job, stamp |-> now + 1]
           s == Append(logs, e)
           n == Len(logs)
<1>1. /\ now \in Nat /\ now' = now + 1 /\ logs' = Newest(s) /\ logs \in Seq(LogEntry)
      /\ n \in Nat /\ \A i \in 1 .. n : logs[i] \in LogEntry /\ logs[i].stamp \in 1 .. now
      /\ Aging(logs) /\ ToSet(logs) = {logs[i] : i \in 1 .. n}
      /\ \A i \in 1 .. n : logs[i].kind = "output" => logs[i].job >= 1
  BY InToSet DEF LogInv, AppendLog
<1>2. /\ e \in LogEntry /\ e.stamp = now + 1 /\ e.kind = kind /\ e.job = job
  BY <1>1 DEF LogEntry
<1> HIDE DEF e
<1>3. s \in Seq(LogEntry) /\ Len(s) = n + 1 /\ s[n + 1] = e /\ \A i \in 1 .. n : s[i] = logs[i]
  BY <1>1, <1>2, AppendProperties
<1> HIDE DEF s, n
<1>4. ASSUME NEW i \in 1 .. n + 1
      PROVE  s[i].stamp \in 1 .. now + 1 /\ (s[i].kind = "output" => s[i].job >= 1)
  <2>1. CASE i = n + 1
    BY <1>1, <1>2, <1>3, <2>1
  <2>2. CASE i \in 1 .. n
    BY <1>1, <1>3, <2>2
  <2> QED
    BY <1>1, <2>1, <2>2
<1>5. ASSUME NEW i \in 1 .. n + 1, NEW j \in 1 .. n + 1, i < j
      PROVE  s[i].stamp < s[j].stamp
  <2>1. i \in 1 .. n
    BY <1>1, <1>5
  <2>2. CASE j = n + 1
    BY <1>1, <1>2, <1>3, <2>1, <2>2
  <2>3. CASE j \in 1 .. n
    BY <1>1, <1>3, <1>5, <2>1, <2>3 DEF Aging, n
  <2> QED
    BY <1>1, <2>2, <2>3
<1>6. PICK k \in Nat : /\ Len(Newest(s)) + k = Len(s)
                       /\ \A i \in 1 .. Len(Newest(s)) : Newest(s)[i] = s[k + i]
  BY <1>3, NewestProperties
<1>7. /\ logs' \in Seq(LogEntry) /\ Len(logs') <= Cap /\ Len(logs') \in Nat
      /\ Len(logs') + k = n + 1 /\ \A i \in 1 .. Len(logs') : logs'[i] = s[k + i]
  BY <1>1, <1>3, <1>6, NewestProperties, LenProperties
<1>8. \A i \in 1 .. Len(logs') : k + i \in 1 .. n + 1
  BY <1>1, <1>7
<1>9. \A i \in 1 .. Len(logs') :
        logs'[i].stamp \in 1 .. now' /\ (logs'[i].kind = "output" => logs'[i].job >= 1)
  BY <1>1, <1>4, <1>7, <1>8
<1>10. Aging(logs')
  <2> SUFFICES ASSUME NEW i \in 1 .. Len(logs'), NEW j \in 1 .. Len(logs'), i < j
               PROVE  logs'[i].stamp < logs'[j].stamp
    BY DEF Aging
  <2>1. k + i < k + j /\ k + i \in 1 .. n + 1 /\ k + j \in 1 .. n + 1
    BY <1>7, <1>8
  <2> QED
    BY <1>5, <1>7, <2>1
<1>11. ASSUME NEW x \in ToSet(logs') PROVE x \in ToSet(logs) \/ x = e
  <2>1. PICK i \in 1 .. Len(logs') : x = logs'[i]
    BY <1>7, InToSet
  <2>2. x = s[k + i] /\ k + i \in 1 .. n + 1
    BY <1>7, <1>8, <2>1
  <2>3. k + i \in 1 .. n \/ k + i = n + 1
    BY <1>1, <2>2
  <2>4. ASSUME k + i \in 1 .. n PROVE x \in ToSet(logs)
    <3>1. x = logs[k + i]
      BY <1>3, <2>2, <2>4
    <3> QED
      BY <1>1, <2>4, <3>1
  <2>5. ASSUME k + i = n + 1 PROVE x = e
    BY <1>3, <2>2, <2>5
  <2> QED
    BY <2>3, <2>4, <2>5
<1> QED
  BY <1>1, <1>7, <1>9, <1>10, <1>11 DEF LogInv, e

(* GetLogsSince is the loop that it is written as.                         *)
LEMMA SinceLoop ==
  ASSUME LogInv, NEW t \in Nat
  PROVE  \E f \in [0 .. Len(logs) -> Seq(LogEntry)] :
           /\ f[0] = <<>> /\ GetLogsSince(t) = f[Len(logs)]
           /\ \A i \in 1 .. Len(logs) :
                f[i] = IF logs[i].stamp > t THEN Append(f[i - 1], logs[i]) ELSE f[i - 1]
<1> DEFINE n == Len(logs)
           X == Seq(LogEntry)
           body == [i \in 1 .. n |-> [v \in X |->
                      IF logs[i].stamp > t THEN Append(v, logs[i]) ELSE v]]
           Def(f) == [i \in 0 .. n |->
                        IF i = 0 THEN <<>>
                        ELSE IF logs[i].stamp > t THEN Append(f[i - 1], logs[i]) ELSE f[i - 1]]
<1>1. n \in Nat /\ <<>> \in X /\ \A i \in 1 .. n : logs[i] \in LogEntry
  BY InToSet, EmptySeq DEF LogInv
<1>2. body \in [1 .. n -> [X -> X]]
  <2>1. \A i \in 1 .. n, v \in X : Append(v, logs[i]) \in X
    BY <1>1, AppendProperties
  <2> HIDE DEF X
  <2> QED
    BY <2>1
<1>3. PICK f : Loop(f, n, X, <<>>, body)
  <2> HIDE DEF body, X
  <2> QED
    BY <1>1, <1>2, LoopExists
<1>4. /\ f \in [0 .. n -> X] /\ f[0] = <<>>
      /\ \A i \in 1 .. n :
           f[i] = IF logs[i].stamp > t THEN Append(f[i - 1], logs[i]) ELSE f[i - 1]
  <2>1. f \in [0 .. n -> X] /\ f[0] = <<>> /\ \A i \in 1 .. n : f[i] = body[i][f[i - 1]]
    BY <1>3 DEF Loop
  <2>2. \A i \in 1 .. n : f[i - 1] \in X
    BY <1>1, <2>1
  <2> HIDE DEF X
  <2> QED
    BY <2>1, <2>2
<1>5. f = Def(f)
  <2>1. \A i \in 0 .. n : i # 0 => i \in 1 .. n
    BY <1>1
  <2>2. \A i \in 0 .. n : f[i] = Def(f)[i]
    BY <1>4, <2>1
  <2> QED
    BY <1>4, <2>2
<1> DEFINE g == CHOOSE g : g = Def(g)
<1>6. g = Def(g)
  BY <1>5
<1>7. GetLogsSince(t) = g[n]
  BY DEF GetLogsSince
<1> HIDE DEF g
<1>8. \A i \in 0 .. n : g[i] = f[i]
  <2> DEFINE S == {i \in 0 .. n : g[i] = f[i]}
  <2>1. 0 \in S
    BY <1>1, <1>4, <1>6
  <2>2. ASSUME NEW i \in 1 .. n, i - 1 \in S PROVE i \in S
    <3>1. i \in 0 .. n /\ i # 0 /\ i - 1 \in 0 .. n
      BY <1>1
    <3>2. g[i] = IF logs[i].stamp > t THEN Append(g[i - 1], logs[i]) ELSE g[i - 1]
      BY <1>6, <3>1
    <3> QED
      BY <1>4, <2>2, <3>1, <3>2
  <2> HIDE DEF S
  <2>3. \A i \in 0 .. n : i \in S
    BY <1>1, <2>1, <2>2, UpTo
  <2> QED
    BY <2>3 DEF S
<1>9. n \in 0 .. n
  BY <1>1
<1> QED
  BY <1>4, <1>7, <1>8, <1>9

(* It returns what is younger than t and nothing else, in order.           *)
LEMMA SinceProperties ==
  ASSUME LogInv, NEW t \in Nat
  PROVE  /\ GetLogsSince(t) \in Seq(LogEntry) /\ Aging(GetLogsSince(t))
         /\ \A i \in 1 .. Len(GetLogsSince(t)) : GetLogsSince(t)[i].stamp \in t + 1 .. now
         /\ \A e \in ToSet(logs) : e.stamp > t => e \in ToSet(GetLogsSince(t))
<1> DEFINE n == Len(logs)
<1>1. PICK f \in [0 .. n -> Seq(LogEntry)] :
        /\ f[0] = <<>> /\ GetLogsSince(t) = f[n]
        /\ \A i \in 1 .. n :
             f[i] = IF logs[i].stamp > t THEN Append(f[i - 1], logs[i]) ELSE f[i - 1]
  BY SinceLoop
<1>2. /\ n \in Nat /\ ToSet(logs) = {logs[i] : i \in 1 .. n} /\ now \in Nat
      /\ \A i \in 1 .. n : logs[i] \in LogEntry /\ logs[i].stamp \in 1 .. now
  BY InToSet DEF LogInv
<1>3. \A i \in 0 .. n : f[i] \in Seq(LogEntry) /\ Len(f[i]) \in Nat
  BY <1>1, LenProperties
<1> DEFINE From(i) == \A j \in 1 .. Len(f[i]) :
                        f[i][j].stamp > t /\ \E k \in 1 .. i : f[i][j] = logs[k]
           All(i) == \A k \in 1 .. i :
                       logs[k].stamp > t => \E j \in 1 .. Len(f[i]) : f[i][j] = logs[k]
           S == {i \in 0 .. n : From(i) /\ All(i) /\ Aging(f[i])}
<1>4. 0 \in S
  <2>1. Len(f[0]) = 0
    BY <1>1, EmptySeq
  <2> QED
    BY <1>2, <2>1 DEF Aging
<1>5. ASSUME NEW i \in 1 .. n, i - 1 \in S PROVE i \in S
  <2> DEFINE p == f[i - 1]
             m == Len(p)
  <2>1. /\ p \in Seq(LogEntry) /\ m \in Nat /\ From(i - 1) /\ All(i - 1) /\ Aging(p)
        /\ logs[i] \in LogEntry
    BY <1>2, <1>3, <1>5
  <2>2. CASE ~(logs[i].stamp > t)
    <3>1. f[i] = p
      BY <1>1, <2>2
    <3>2. From(i)
      BY <2>1, <3>1
    <3>3. All(i)
      BY <2>1, <2>2, <3>1
    <3>4. Aging(f[i])
      BY <2>1, <3>1
    <3> HIDE DEF From, All
    <3> QED
      BY <3>2, <3>3, <3>4
  <2>3. CASE logs[i].stamp > t
    <3>1. f[i] = Append(p, logs[i])
      BY <1>1, <2>3
    <3>2. /\ Len(f[i]) = m + 1 /\ f[i][m + 1] = logs[i]
          /\ \A j \in 1 .. m : f[i][j] = p[j]
      BY <2>1, <3>1, AppendProperties
    <3>3. \A j \in 1 .. m : p[j].stamp > t /\ \E k \in 1 .. i - 1 : p[j] = logs[k]
      BY <2>1
    <3>4. \A j \in 1 .. m : f[i][j].stamp > t /\ \E k \in 1 .. i - 1 : f[i][j] = logs[k]
      BY <3>2, <3>3
    <3> HIDE DEF m
    <3>5. From(i)
      <4> SUFFICES ASSUME NEW j \in 1 .. m + 1
                   PROVE  f[i][j].stamp > t /\ \E k \in 1 .. i : f[i][j] = logs[k]
        BY <3>2
      <4>1. CASE j = m + 1
        BY <2>3, <3>2, <4>1
      <4>2. CASE j \in 1 .. m
        BY <3>4, <4>2
      <4> QED
        BY <2>1, <4>1, <4>2
    <3>6. All(i)
      <4> SUFFICES ASSUME NEW k \in 1 .. i, logs[k].stamp > t
                   PROVE  \E j \in 1 .. m + 1 : f[i][j] = logs[k]
        BY <3>2
      <4>1. CASE k = i
        <5>1. m + 1 \in 1 .. m + 1
          BY <2>1
        <5> QED
          BY <3>2, <4>1, <5>1
      <4>2. CASE k \in 1 .. i - 1
        <5>1. PICK j \in 1 .. m : p[j] = logs[k]
          BY <2>1, <4>2 DEF m
        <5>2. j \in 1 .. m + 1
          BY <2>1
        <5> QED
          BY <3>2, <5>1, <5>2
      <4> QED
        BY <4>1, <4>2
    <3>7. Aging(f[i])
      <4> SUFFICES ASSUME NEW j \in 1 .. m + 1, NEW l \in 1 .. m + 1, j < l
                   PROVE  f[i][j].stamp < f[i][l].stamp
        BY <3>2 DEF Aging
      <4>1. j \in 1 .. m
        BY <2>1
      <4>2. CASE l = m + 1
        <5>1. PICK k \in 1 .. i - 1 : f[i][j] = logs[k]
          BY <3>4, <4>1
        <5>2. k < i /\ k \in 1 .. n
          OBVIOUS
        <5> QED
          BY <3>2, <4>2, <5>1, <5>2 DEF LogInv, Aging
      <4>3. CASE l \in 1 .. m
        BY <2>1, <3>2, <4>1, <4>3 DEF Aging, m
      <4> QED
        BY <2>1, <4>2, <4>3
    <3> QED
      BY <3>5, <3>6, <3>7
  <2> QED
    BY <2>2, <2>3
<1>6. \A i \in 1 .. n : i - 1 \in S => i \in S
  BY <1>5
<1> HIDE DEF S
<1>7. \A i \in 0 .. n : i \in S
  BY <1>2, <1>4, <1>6, UpTo
<1>8. n \in S
  BY <1>2, <1>7
<1>9. From(n) /\ All(n) /\ Aging(f[n]) /\ f[n] \in Seq(LogEntry) /\ n \in 0 .. n
  BY <1>2, <1>3, <1>8 DEF S
<1>10. \A i \in 1 .. Len(f[n]) : f[n][i].stamp \in t + 1 .. now
  BY <1>2, <1>9
<1>11. ASSUME NEW e \in ToSet(logs), e.stamp > t PROVE e \in ToSet(f[n])
  <2>1. PICK k \in 1 .. n : e = logs[k]
    BY <1>2
  <2>2. PICK j \in 1 .. Len(f[n]) : f[n][j] = e
    BY <1>9, <1>11, <2>1
  <2> QED
    BY <1>9, <2>2, InToSet
<1> HIDE DEF From, All
<1> QED
  BY <1>1, <1>9, <1>10, <1>11

-----------------------------------------------------------------------------
(* Who watches: what was shown is in order, and nothing in the log that is *)
(* not younger than the cursor is missing from a stream.                   *)

ViewerType ==
  [kind : {"stream", "poll"}, at : ViewerLabels, last : Nat, shown : Seq(Nat),
   fetched : Seq(LogEntry), saw : Nat]

(* What the loop over fetched entries keeps.                               *)
ShownBy(v) ==
  /\ v \in ViewerType /\ v.last <= now /\ Ordered(v.shown)
  /\ \A i \in 1 .. Len(v.shown) : v.shown[i] <= v.last

ViewInv ==
  /\ viewer \in ViewerType /\ viewer.last <= now /\ viewer.saw <= job
  /\ \A i \in 1 .. Len(viewer.fetched) : viewer.fetched[i].stamp \in 1 .. now
  /\ Ordered(viewer.shown)
  /\ viewer.at # "done" => \A i \in 1 .. Len(viewer.shown) : viewer.shown[i] <= viewer.last
  /\ viewer.kind = "stream" /\ viewer.at = "away" => viewer.shown = <<>> /\ viewer.last = 0

LEMMA StampsProperties ==
  ASSUME NEW r \in Seq(LogEntry)
  PROVE  /\ Stamps(r) \in Seq(Nat) /\ Len(Stamps(r)) = Len(r)
         /\ \A i \in 1 .. Len(r) : Stamps(r)[i] = r[i].stamp
         /\ \A e \in ToSet(r) : e.stamp \in ToSet(Stamps(r))
         /\ Aging(r) => Ordered(Stamps(r))
<1>1. /\ DOMAIN r = 1 .. Len(r) /\ Len(r) \in Nat /\ \A i \in 1 .. Len(r) : r[i] \in LogEntry
      /\ ToSet(r) = {r[i] : i \in 1 .. Len(r)}
  BY InToSet, LenProperties
<1>2. \A i \in 1 .. Len(r) : r[i].stamp \in Nat
  BY <1>1 DEF LogEntry
<1>3. /\ Stamps(r) = [i \in 1 .. Len(r) |-> r[i].stamp]
      /\ Stamps(r) \in [1 .. Len(r) -> Nat]
  BY <1>1, <1>2 DEF Stamps
<1>4. Stamps(r) \in Seq(Nat) /\ Len(Stamps(r)) = Len(r)
  BY <1>1, <1>3
<1>5. \A i \in 1 .. Len(r) : Stamps(r)[i] = r[i].stamp
  BY <1>3
<1>6. \A e \in ToSet(r) : e.stamp \in ToSet(Stamps(r))
  BY <1>1, <1>4, <1>5, InToSet
<1> QED
  BY <1>4, <1>5, <1>6 DEF Aging, Ordered

(* Entries that are younger than all that was shown are put behind it.     *)
LEMMA ShowKeepsOrder ==
  ASSUME ViewInv, viewer.at # "done", now \in Nat,
         NEW r \in Seq(LogEntry), Aging(r),
         \A i \in 1 .. Len(r) : r[i].stamp \in viewer.last + 1 .. now
  PROVE  /\ viewer.shown \o Stamps(r) \in Seq(Nat) /\ Ordered(viewer.shown \o Stamps(r))
         /\ \A x : x \in ToSet(viewer.shown \o Stamps(r))
                     <=> x \in ToSet(viewer.shown) \/ x \in ToSet(Stamps(r))
<1>1. viewer.shown \in Seq(Nat) /\ viewer.last \in Nat
  BY DEF ViewInv, ViewerType
<1>2. /\ Stamps(r) \in Seq(Nat) /\ Ordered(Stamps(r)) /\ Len(Stamps(r)) = Len(r)
      /\ \A i \in 1 .. Len(r) : Stamps(r)[i] = r[i].stamp
  BY StampsProperties
<1>3. \A i \in 1 .. Len(Stamps(r)) : viewer.last < Stamps(r)[i]
  BY <1>1, <1>2
<1>4. Ordered(viewer.shown) /\ \A i \in 1 .. Len(viewer.shown) : viewer.shown[i] <= viewer.last
  BY DEF ViewInv
<1> QED
  BY <1>1, <1>2, <1>3, <1>4, OrderedConcat

LEMMA ShowMovesCursor ==
  ASSUME ViewInv, viewer.at # "done", now \in Nat,
         NEW r \in Seq(LogEntry), Aging(r),
         \A i \in 1 .. Len(r) : r[i].stamp \in viewer.last + 1 .. now,
         NEW label \in ViewerLabels \ {"done", "away"}, Show(r, label), UNCHANGED <<now, job>>
  PROVE  /\ ViewInv' /\ viewer'.kind = viewer.kind /\ viewer'.at = label
         /\ \A x : x \in ToSet(viewer.shown) => x \in ToSet(viewer'.shown)
         /\ \A e \in ToSet(r) : e.stamp \in ToSet(viewer'.shown)
<1> DEFINE shown == viewer.shown \o Stamps(r)
           S == {viewer.last} \cup ToSet(Stamps(r))
           last == Max(S)
           new == [viewer EXCEPT !.at = label, !.shown = shown, !.last = last]
<1>1. viewer' = new
  BY DEF Show
<1>2. /\ shown \in Seq(Nat) /\ Ordered(shown)
      /\ \A x : x \in ToSet(shown) <=> x \in ToSet(viewer.shown) \/ x \in ToSet(Stamps(r))
  BY ShowKeepsOrder
<1>3. /\ Stamps(r) \in Seq(Nat) /\ Len(Stamps(r)) = Len(r)
      /\ \A i \in 1 .. Len(r) : Stamps(r)[i] = r[i].stamp
      /\ \A e \in ToSet(r) : e.stamp \in ToSet(Stamps(r))
  BY StampsProperties
<1>4. /\ viewer \in ViewerType /\ viewer.last \in Nat /\ viewer.last <= now
      /\ viewer.shown \in Seq(Nat) /\ viewer.saw <= job
      /\ \A i \in 1 .. Len(viewer.fetched) : viewer.fetched[i].stamp \in 1 .. now
      /\ \A i \in 1 .. Len(viewer.shown) : viewer.shown[i] <= viewer.last
  BY DEF ViewInv, ViewerType
<1>5. \A x \in ToSet(Stamps(r)) : x \in Nat /\ x <= now
  <2> SUFFICES ASSUME NEW i \in 1 .. Len(r) PROVE Stamps(r)[i] \in Nat /\ Stamps(r)[i] <= now
    BY <1>3, InToSet
  <2> QED
    BY <1>3, <1>4
<1>6. last \in S /\ (\A x \in S : x <= last) /\ last \in Nat /\ last <= now /\ viewer.last <= last
  <2>1. S \in SUBSET Nat /\ S # {} /\ viewer.last \in S /\ \A x \in S : x <= now
    BY <1>4, <1>5
  <2> HIDE DEF S
  <2>2. Max(S) \in S /\ \A x \in S : x <= Max(S)
    BY <2>1, MaxProperty
  <2> QED
    BY <2>1, <2>2
<1> HIDE DEF last, shown
<1>7. \A i \in 1 .. Len(shown) : shown[i] <= last
  <2> TAKE i \in 1 .. Len(shown)
  <2>1. shown[i] \in ToSet(viewer.shown) \/ shown[i] \in ToSet(Stamps(r))
    <3>1. shown[i] \in ToSet(shown)
      BY <1>2, InToSet
    <3> QED
      BY <1>2, <3>1
  <2>2. ASSUME NEW x \in ToSet(viewer.shown) PROVE x <= last
    <3>1. PICK j \in 1 .. Len(viewer.shown) : x = viewer.shown[j]
      <4> DEFINE s == viewer.shown
      <4>1. s \in Seq(Nat) /\ x \in ToSet(s)
        BY <1>4
      <4> HIDE DEF s
      <4>2. \E j \in 1 .. Len(s) : x = s[j]
        BY <4>1, InToSet
      <4> QED
        BY <4>2 DEF s
    <3>2. x \in Nat /\ x <= viewer.last
      BY <1>4, <3>1, InToSet
    <3> QED
      BY <1>4, <1>6, <3>2
  <2> QED
    BY <1>6, <2>1, <2>2
<1>8. /\ new \in ViewerType /\ new.at = label /\ new.shown = shown /\ new.last = last
      /\ new.kind = viewer.kind /\ new.fetched = viewer.fetched /\ new.saw = viewer.saw
  BY <1>2, <1>4, <1>6 DEF ViewerType
<1> HIDE DEF new
<1>9. ViewInv'
  BY <1>1, <1>2, <1>4, <1>6, <1>7, <1>8 DEF ViewInv
<1> QED
  BY <1>1, <1>2, <1>3, <1>8, <1>9

(* One entry of what a poll fetched: it is shown behind the others, if a   *)
(* millisecond younger than the last.                                      *)
LEMMA ShowOneKeepsOrder ==
  ASSUME NEW v, ShownBy(v), now \in Nat, NEW e \in LogEntry, e.stamp \in 1 .. now
  PROVE  LET w == ShowIfYounger(v, e) IN
         ShownBy(w) /\ w.kind = v.kind /\ w.saw = v.saw
<1>1. /\ v \in ViewerType /\ v.last \in Nat /\ v.last <= now /\ v.shown \in Seq(Nat)
      /\ Ordered(v.shown) /\ \A i \in 1 .. Len(v.shown) : v.shown[i] <= v.last
  BY DEF ShownBy, ViewerType
<1>2. CASE Milli(e.stamp) > Milli(v.last)
  <2> DEFINE shown == Append(v.shown, e.stamp)
             n == Len(v.shown)
             new == [v EXCEPT !.shown = shown, !.last = e.stamp]
  <2>1. v.last < e.stamp /\ e.stamp \in Nat
    <3>1. e.stamp <= v.last => Milli(e.stamp) <= Milli(v.last)
      BY <1>1, MilliMonotone
    <3>2. ASSUME NEW t \in Nat PROVE Milli(t) \in Nat
      BY LogsAssumption DEF Milli
    <3>3. e.stamp \in Nat
      OBVIOUS
    <3>4. Milli(e.stamp) \in Nat /\ Milli(v.last) \in Nat
      BY <1>1, <3>2, <3>3
    <3> QED
      BY <1>1, <1>2, <3>1, <3>3, <3>4
  <2>2. /\ shown \in Seq(Nat) /\ n \in Nat /\ Len(shown) = n + 1 /\ shown[n + 1] = e.stamp
        /\ \A i \in 1 .. n : shown[i] = v.shown[i] /\ v.shown[i] \in Nat
    BY <1>1, <2>1, AppendProperties, InToSet
  <2> HIDE DEF shown
  <2>3. Ordered(shown)
    <3> SUFFICES ASSUME NEW i \in 1 .. n + 1, NEW j \in 1 .. n + 1, i < j
                 PROVE  shown[i] < shown[j]
      BY <2>2 DEF Ordered
    <3>1. i \in 1 .. n
      BY <2>2
    <3>2. CASE j = n + 1
      BY <1>1, <2>1, <2>2, <3>1, <3>2
    <3>3. CASE j \in 1 .. n
      BY <1>1, <2>2, <3>1, <3>3 DEF Ordered
    <3> QED
      BY <2>2, <3>2, <3>3
  <2>4. \A i \in 1 .. Len(shown) : shown[i] <= e.stamp
    <3> SUFFICES ASSUME NEW i \in 1 .. n + 1 PROVE shown[i] <= e.stamp
      BY <2>2
    <3>1. CASE i \in 1 .. n
      BY <1>1, <2>1, <2>2, <3>1
    <3> QED
      BY <2>1, <2>2, <3>1
  <2>5. /\ new \in ViewerType /\ new.shown = shown /\ new.last = e.stamp
        /\ new.kind = v.kind /\ new.saw = v.saw
    BY <1>1, <2>1, <2>2 DEF ViewerType
  <2>6. ShowIfYounger(v, e) = new
    BY <1>2 DEF ShowIfYounger, shown
  <2> HIDE DEF new
  <2> QED
    BY <2>1, <2>3, <2>4, <2>5, <2>6 DEF ShownBy
<1>3. CASE ~(Milli(e.stamp) > Milli(v.last))
  BY <1>3 DEF ShowIfYounger
<1> QED
  BY <1>2, <1>3

(* ShowFetched is a loop, too, and keeps what one round keeps.             *)
LEMMA ShowFetchedKeepsOrder ==
  ASSUME ViewInv, ShownBy(viewer), now \in Nat
  PROVE  ShownBy(ShowFetched) /\ ShowFetched.kind = viewer.kind /\ ShowFetched.saw = viewer.saw
<1> DEFINE n == Len(viewer.fetched)
           X == {v \in ViewerType : ShownBy(v) /\ v.kind = viewer.kind /\ v.saw = viewer.saw}
           body == [i \in 1 .. n |-> [v \in X |-> ShowIfYounger(v, viewer.fetched[i])]]
           Def(f) == [i \in 0 .. n |->
                        IF i = 0 THEN viewer ELSE ShowIfYounger(f[i - 1], viewer.fetched[i])]
<1>1. viewer.fetched \in Seq(LogEntry)
  BY DEF ViewInv, ViewerType
<1>2. /\ n \in Nat /\ \A i \in 1 .. n : viewer.fetched[i] \in LogEntry
      /\ \A i \in 1 .. n : viewer.fetched[i].stamp \in 1 .. now
  BY <1>1, InToSet DEF ViewInv
<1>3. viewer \in X
  BY DEF ShownBy
<1>4. body \in [1 .. n -> [X -> X]]
  <2>1. ASSUME NEW i \in 1 .. n, NEW v \in X PROVE ShowIfYounger(v, viewer.fetched[i]) \in X
    <3> DEFINE w == ShowIfYounger(v, viewer.fetched[i])
    <3>1. ShownBy(w) /\ w.kind = v.kind /\ w.saw = v.saw
      BY <1>2, ShowOneKeepsOrder
    <3> HIDE DEF w
    <3>2. w \in X
      BY <3>1 DEF ShownBy
    <3> QED
      BY <3>2 DEF w
  <2> HIDE DEF X
  <2> QED
    BY <2>1
<1> HIDE DEF X
<1>5. PICK f : Loop(f, n, X, viewer, body)
  <2> HIDE DEF body
  <2> QED
    BY <1>2, <1>3, <1>4, LoopExists
<1>6. /\ f \in [0 .. n -> X] /\ f[0] = viewer
      /\ \A i \in 1 .. n : f[i] = ShowIfYounger(f[i - 1], viewer.fetched[i])
  <2>1. f \in [0 .. n -> X] /\ f[0] = viewer /\ \A i \in 1 .. n : f[i] = body[i][f[i - 1]]
    BY <1>5 DEF Loop
  <2>2. \A i \in 1 .. n : f[i - 1] \in X
    BY <1>2, <2>1
  <2> QED
    BY <2>1, <2>2
<1>7. f = Def(f)
  <2>1. \A i \in 0 .. n : i # 0 => i \in 1 .. n
    BY <1>2
  <2>2. \A i \in 0 .. n : f[i] = Def(f)[i]
    BY <1>6, <2>1
  <2> QED
    BY <1>6, <2>2
<1> DEFINE g == CHOOSE g : g = Def(g)
<1>8. g = Def(g)
  BY <1>7
<1>9. ShowFetched = g[n]
  BY DEF ShowFetched
<1> HIDE DEF g
<1> DEFINE S == {i \in 0 .. n : g[i] = f[i]}
<1>10. 0 \in S
  BY <1>2, <1>6, <1>8
<1>11. ASSUME NEW i \in 1 .. n, i - 1 \in S PROVE i \in S
  <2>1. i \in 0 .. n /\ i # 0 /\ i - 1 \in 0 .. n
    BY <1>2
  <2>2. g[i] = ShowIfYounger(g[i - 1], viewer.fetched[i])
    BY <1>8, <2>1
  <2> QED
    BY <1>6, <1>11, <2>1, <2>2
<1> HIDE DEF S
<1>12. \A i \in 0 .. n : i \in S
  BY <1>2, <1>10, <1>11, UpTo
<1>13. n \in 0 .. n
  BY <1>2
<1>14. ShowFetched \in X
  BY <1>6, <1>9, <1>12, <1>13 DEF S
<1> QED
  BY <1>14 DEF X

-----------------------------------------------------------------------------
(* The runner: while a script is under way the status says so, unless a    *)
(* health check has set it, and only then does a scanner read.             *)

AtRest == {"none", "setStarting", "report"}

RunInv ==
  /\ status \in Statuses /\ job \in 0 .. MaxJobs
  /\ runner \in [at : RunnerLabels, does : {"start", "stop"}, failed : BOOLEAN]
  /\ checker \in CheckerLabels
  /\ runner.at \notin AtRest => job >= 1
  /\ runner.at \notin AtRest /\ checker = "off" => status \in {"starting", "stopping"}
  /\ runner.at = "setStarting" => job < MaxJobs
  /\ \A st \in Streams : scanner[st] = "reading" => runner.at = "scan"

(* The processes have their types.                                         *)
ProcessInv ==
  /\ printed \in 0 .. MaxLines
  /\ shell \in {"off", "up", "exited", "failed"} \cup Streams /\ child \in BOOLEAN
  /\ \A st \in Streams : Len(pipe[st]) <= PipeCap

LEMMA RunInvStep ==
  ASSUME PlumbingInv, RunInv, [LogsNext]_logsVars
  PROVE  RunInv'
<1> DEFINE Runners == [at : RunnerLabels, does : {"start", "stop"}, failed : BOOLEAN]
<1>1. /\ runner \in Runners /\ status \in Statuses /\ job \in 0 .. MaxJobs /\ MaxJobs \in Nat
      /\ checker \in CheckerLabels
      /\ scanner \in [Streams -> {"off", "reading", "ended", "gaveUp"}]
  BY LogsAssumption DEF RunInv, PlumbingInv, PlumbingType
<1>2. CASE UNCHANGED <<status, runner, job, checker>> /\
           \A st \in Streams : scanner'[st] = "reading" => scanner[st] = "reading"
  BY <1>2 DEF RunInv
<1>3. ASSUME NEW label \in RunnerLabels \ {"scan", "setStarting"}, Run(label), UNCHANGED <<status, job, scanner, checker>>,
             label \in AtRest \/ runner.at \notin AtRest, runner.at # "scan"
      PROVE  RunInv'
  <2> DEFINE new == [runner EXCEPT !.at = label]
  <2>1. new \in Runners /\ new.at = label
    BY <1>1
  <2>2. runner' = new
    BY <1>3 DEF Run
  <2> HIDE DEF new
  <2> QED
    BY <1>1, <1>3, <2>1, <2>2 DEF RunInv, AtRest
<1>4. CASE StartClears
  BY <1>1, <1>4 DEF StartClears, ScriptVars, RunInv, RunnerLabels, AtRest
<1>5. CASE StartSetsStarting
  <2>1. /\ runner.at = "setStarting" /\ job' = job + 1 /\ UNCHANGED <<scanner, checker>>
        /\ \/ status' = "starting" /\ runner' = [runner EXCEPT !.at = "announce"]
           \/ status' = "error" /\ runner' = [runner EXCEPT !.at = "report"]
    BY <1>5 DEF StartSetsStarting, Run, ScriptVars
  <2>2. /\ runner' \in Runners /\ runner'.at \in {"announce", "report"}
        /\ runner'.at = "announce" => status' = "starting"
    BY <1>1, <2>1 DEF RunnerLabels
  <2>3. job' \in 0 .. MaxJobs /\ job' >= 1
    BY <1>1, <2>1 DEF RunInv
  <2>4. \A st \in Streams : scanner'[st] # "reading"
    BY <2>1 DEF RunInv
  <2> QED
    BY <2>1, <2>2, <2>3, <2>4 DEF RunInv, AtRest, Statuses
<1>6. CASE StopSetsStopping
  <2>1. /\ runner.at = "none" /\ job < MaxJobs /\ job' = job + 1 /\ UNCHANGED <<scanner, checker>>
        /\ status' = "stopping"
        /\ runner' = [at |-> "announce", does |-> "stop", failed |-> FALSE]
    BY <1>6 DEF StopSetsStopping, ScriptVars
  <2> QED
    BY <1>1, <2>1 DEF RunInv, RunnerLabels, AtRest, Statuses
<1>7. CASE StopWithoutScript
  BY <1>1, <1>7 DEF StopWithoutScript, ScriptVars, RunInv, RunnerLabels, AtRest, Statuses
<1>8. CASE Announce
  BY <1>3, <1>8 DEF Announce, ScriptVars, RunnerLabels, AtRest
<1>9. CASE Launch
  <2> DEFINE new == [runner EXCEPT !.at = "scan"]
  <2>1. new \in Runners /\ new.at = "scan"
    BY <1>1 DEF RunnerLabels
  <2>2. /\ runner' = new /\ runner.at = "launch" /\ UNCHANGED <<status, job, checker>>
    BY <1>9 DEF Launch, Run
  <2> HIDE DEF new
  <2> QED
    BY <1>1, <2>1, <2>2 DEF RunInv, AtRest
<1>10. CASE LaunchFails
  <2> DEFINE label == IF runner.does = "stop" THEN "warn" ELSE "outcome"
             new == [runner EXCEPT !.at = label, !.failed = TRUE]
  <2>1. new \in Runners /\ new.at \in {"warn", "outcome"}
    BY <1>1 DEF RunnerLabels
  <2>2. /\ runner' = new /\ runner.at = "launch" /\ UNCHANGED <<status, job, scanner, checker>>
    BY <1>10 DEF LaunchFails, ScriptVars
  <2> HIDE DEF new
  <2> QED
    BY <1>1, <2>1, <2>2 DEF RunInv, AtRest
<1>11. CASE WaitForOutput
  <2> DEFINE new == [runner EXCEPT !.at = "wait"]
  <2>1. new \in Runners /\ new.at = "wait"
    BY <1>1 DEF RunnerLabels
  <2>2. /\ runner' = new /\ runner.at = "scan" /\ UNCHANGED <<status, job, scanner, checker>>
        /\ \A st \in Streams : scanner[st] # "reading"
    BY <1>11 DEF WaitForOutput, Run, ScriptVars
  <2> HIDE DEF new
  <2> QED
    BY <1>1, <2>1, <2>2 DEF RunInv, AtRest
<1>12. CASE WaitForShell
  <2> DEFINE label == IF runner.does = "stop" /\ shell = "failed" THEN "warn" ELSE "outcome"
             failed == runner.does = "start" /\ shell = "failed"
             new == [runner EXCEPT !.at = label, !.failed = failed]
  <2>1. failed \in BOOLEAN
    OBVIOUS
  <2> HIDE DEF failed
  <2>2. new \in Runners /\ new.at \in {"warn", "outcome"}
    BY <1>1, <2>1 DEF RunnerLabels
  <2>3. /\ runner' = new /\ runner.at = "wait" /\ UNCHANGED <<status, job, scanner, checker>>
    BY <1>12 DEF WaitForShell, failed
  <2> HIDE DEF new
  <2> QED
    BY <1>1, <2>2, <2>3 DEF RunInv, AtRest
<1>13. CASE Warn
  BY <1>3, <1>13 DEF Warn, ScriptVars, RunnerLabels, AtRest
<1>14. CASE Outcome
  <2>1. /\ runner' = NoRunner \/ Run("report")
        /\ scanner' = [st \in Streams |-> "off"] /\ UNCHANGED <<job, checker>>
        /\ status' \in {"stopped", "error", "running", status}
    <3>1. /\ runner.does = "stop" \/ runner.does = "start"
          /\ runner.failed \/ ~runner.failed
      BY <1>1
    <3> QED
      BY <1>14, <3>1 DEF Outcome
  <2>2. runner' \in Runners /\ runner'.at \in {"none", "report"}
    <3> DEFINE new == [runner EXCEPT !.at = "report"]
    <3>1. new \in Runners /\ new.at = "report"
      BY <1>1 DEF RunnerLabels
    <3>2. NoRunner \in Runners /\ NoRunner.at = "none"
      BY DEF NoRunner, RunnerLabels
    <3>3. runner' = NoRunner \/ runner' = new
      BY <2>1 DEF Run
    <3> HIDE DEF new
    <3> QED
      BY <3>1, <3>2, <3>3
  <2> QED
    BY <1>1, <2>1, <2>2 DEF RunInv, AtRest, Statuses
<1>15. CASE Report
  BY <1>1, <1>15 DEF Report, NoRunner, ScriptVars, RunInv, RunnerLabels, AtRest
<1>16. ASSUME NEW st \in Streams, ScanStep(st) PROVE RunInv'
  <2>1. /\ UNCHANGED <<status, runner, job, checker>>
        /\ \/ UNCHANGED scanner
           \/ scanner' = [scanner EXCEPT ![st] = "gaveUp"]
           \/ scanner' = [scanner EXCEPT ![st] = "ended"]
    BY <1>16 DEF ScanStep, ScanLine, ScanEnds, RunnerVars
  <2>2. \A s \in Streams : scanner'[s] = "reading" => scanner[s] = "reading"
    BY <1>1, <2>1
  <2> QED
    BY <1>2, <2>1, <2>2
<1>17. CASE \/ \E st \in Streams, line \in Lines : PrintLine(st, line)
            \/ \E st \in Streams : Block(st)
            \/ Fork \/ ChildEnds \/ Unblock \/ Kill
            \/ \E how \in {"exited", "failed"} : ShellExits(how)
  <2>1. UNCHANGED <<status, runner, job, scanner, checker>>
    BY <1>17 DEF PrintLine, Block, Fork, ChildEnds, Unblock, Kill, ShellExits, RunnerVars
  <2> QED
    BY <1>2, <2>1
<1>18. CASE \/ StreamOpens \/ StreamTicks \/ StreamReadsStatus \/ StreamEnds
            \/ PollFetches \/ PollShows \/ GoAway \/ UNCHANGED logsVars
  <2>1. UNCHANGED <<status, runner, job, scanner, checker>>
    BY <1>18 DEF StreamOpens, StreamTicks, StreamReadsStatus, StreamEnds, PollFetches, PollShows,
       GoAway, logsVars, jobVars
  <2> QED
    BY <1>2, <2>1
<1>19. CASE CheckerStep
  <2>1. /\ checker # "off" /\ checker' \in CheckerLabels \ {"off"} /\ status' \in {status, "running"}
        /\ UNCHANGED <<runner, job, scanner>>
    BY <1>19 DEF CheckerStep, CheckBegins, CheckFails, CheckPasses, CheckReports, ScriptVars,
       CheckerLabels
  <2> QED
    BY <1>1, <2>1 DEF RunInv, Statuses
<1> QED
  BY <1>4, <1>5, <1>6, <1>7, <1>8, <1>9, <1>10, <1>11, <1>12, <1>13, <1>14, <1>15, <1>16, <1>17,
     <1>18, <1>19 DEF LogsNext, RunnerStep, Lines

LEMMA ProcessInvStep ==
  ASSUME PlumbingInv, ProcessInv, [LogsNext]_logsVars
  PROVE  ProcessInv'
<1>1. /\ pipe \in [Streams -> Seq(Lines)] /\ MaxLines \in Nat /\ PipeCap \in Nat
      /\ \A st \in Streams : Len(pipe[st]) \in Nat
  <2>1. pipe \in [Streams -> Seq(Lines)]
    BY DEF PlumbingInv, PlumbingType
  <2> QED
    BY <2>1, LogsAssumption, LenProperties
<1>2. CASE UNCHANGED <<shell, child, printed, pipe>>
  BY <1>2 DEF ProcessInv
<1>3. CASE \/ StartClears \/ StopSetsStopping \/ StopWithoutScript
           \/ StartSetsStarting \/ Announce \/ LaunchFails \/ WaitForOutput \/ Warn \/ Outcome \/ Report
           \/ CheckerStep
           \/ StreamOpens \/ StreamTicks \/ StreamReadsStatus \/ StreamEnds
           \/ PollFetches \/ PollShows \/ GoAway \/ UNCHANGED logsVars
  BY <1>2, <1>3 DEF StartClears, StopSetsStopping, StopWithoutScript, StartSetsStarting, Announce,
     LaunchFails, WaitForOutput, Warn, Outcome, Report, CheckerStep, CheckBegins, CheckFails,
     CheckPasses, CheckReports, StreamOpens, StreamTicks,
     StreamReadsStatus, StreamEnds, PollFetches, PollShows, GoAway, logsVars, jobVars, ScriptVars
<1>4. CASE Launch
  BY <1>1, <1>4 DEF Launch, ProcessInv
<1>5. CASE WaitForShell
  <2>1. /\ shell' = "off" /\ child' = FALSE /\ UNCHANGED printed
        /\ \A st \in Streams : pipe'[st] = <<>>
    BY <1>5 DEF WaitForShell
  <2>2. \A st \in Streams : Len(pipe'[st]) <= PipeCap
    BY <1>1, <2>1, EmptySeq
  <2> QED
    BY <2>1, <2>2 DEF ProcessInv
<1>6. ASSUME NEW st \in Streams, NEW line \in Lines, PrintLine(st, line) PROVE ProcessInv'
  <2>1. /\ printed < MaxLines /\ printed' = printed + 1 /\ UNCHANGED <<shell, child>>
        /\ Len(pipe[st]) < PipeCap /\ pipe' = [pipe EXCEPT ![st] = Append(@, line)]
    <3>1. /\ printed < IF checker = "off" THEN MaxLines ELSE MaxChecked
          /\ printed' = printed + 1 /\ UNCHANGED <<shell, child>>
          /\ Len(pipe[st]) < PipeCap /\ pipe' = [pipe EXCEPT ![st] = Append(@, line)]
      BY <1>6 DEF PrintLine
    <3>2. MaxChecked \in Nat /\ MaxChecked <= MaxLines /\ printed \in Nat
      BY LogsAssumption DEF ProcessInv
    <3> QED
      BY <1>1, <3>1, <3>2
  <2>2. pipe'[st] = Append(pipe[st], line) /\ \A s \in Streams : s # st => pipe'[s] = pipe[s]
    BY <1>1, <2>1
  <2>3. Len(pipe'[st]) = Len(pipe[st]) + 1
    BY <1>1, <2>2, AppendProperties
  <2>4. \A s \in Streams : Len(pipe'[s]) <= PipeCap
    BY <1>1, <2>1, <2>2, <2>3 DEF ProcessInv
  <2> QED
    BY <1>1, <2>1, <2>4 DEF ProcessInv
<1>7. CASE \/ \E st \in Streams : Block(st)
           \/ Fork \/ ChildEnds \/ Unblock \/ Kill
           \/ \E how \in {"exited", "failed"} : ShellExits(how)
  <2>1. /\ UNCHANGED <<printed, pipe>> /\ child' \in {TRUE, FALSE, child}
        /\ shell' \in {"up", "exited", "failed", shell} \cup Streams
    BY <1>7 DEF Block, Fork, ChildEnds, Unblock, Kill, ShellExits
  <2> QED
    BY <2>1 DEF ProcessInv
<1>8. ASSUME NEW st \in Streams, ScanStep(st) PROVE ProcessInv'
  <2>1. CASE UNCHANGED pipe /\ UNCHANGED <<shell, child, printed>>
    BY <1>2, <2>1
  <2>2. CASE pipe' = [pipe EXCEPT ![st] = Tail(@)] /\ pipe[st] # <<>>
             /\ UNCHANGED <<shell, child, printed>>
    <3>1. pipe'[st] = Tail(pipe[st]) /\ \A s \in Streams : s # st => pipe'[s] = pipe[s]
      BY <1>1, <2>2
    <3>2. Len(pipe'[st]) = Len(pipe[st]) - 1
      BY <1>1, <2>2, <3>1, HeadTailProperties
    <3>3. ASSUME NEW s \in Streams PROVE Len(pipe'[s]) <= PipeCap
      <4>1. Len(pipe[s]) \in Nat /\ Len(pipe[s]) <= PipeCap
        BY <1>1 DEF ProcessInv
      <4>2. PipeCap \in Nat
        BY <1>1
      <4>3. CASE s = st
        <5> DEFINE l == Len(pipe[st])
        <5>1. l \in Nat /\ l <= PipeCap
          BY <4>1, <4>3
        <5>2. Len(pipe'[s]) = l - 1
          BY <3>2, <4>3
        <5> HIDE DEF l
        <5> QED
          BY <4>2, <5>1, <5>2
      <4>4. CASE s # st
        BY <3>1, <4>1, <4>4
      <4> QED
        BY <4>3, <4>4
    <3> QED
      BY <2>2, <3>3 DEF ProcessInv
  <2> QED
    BY <1>8, <2>1, <2>2 DEF ScanStep, ScanLine, ScanEnds
<1> QED
  BY <1>3, <1>4, <1>5, <1>6, <1>7, <1>8 DEF LogsNext, RunnerStep, Lines

-----------------------------------------------------------------------------
(* What a step does to the log, to the clock and to who watches: one of    *)
(* few things, whatever action it is.                                      *)
ViewerStep ==
  \/ StreamOpens \/ StreamTicks \/ StreamReadsStatus \/ StreamEnds
  \/ PollFetches \/ PollShows \/ GoAway

LogStep ==
  \/ UNCHANGED logVars
  \/ ClearLogs
  \/ AppendLog("system") /\ UNCHANGED job
  \/ AppendLog("output") /\ runner.at = "scan" /\ UNCHANGED <<runner, job>>

LEMMA StepEffects ==
  ASSUME RunInv, [LogsNext]_logsVars
  PROVE  \/ UNCHANGED <<jobVars, logVars>> /\ ViewerStep
         \/ /\ UNCHANGED viewer /\ LogStep /\ job' \in {job, job + 1}
            /\ (checker' = "off") = (checker = "off")
            /\ runner.at \in AtRest /\ runner'.at \notin AtRest => job' = job + 1
<1>1. CASE ViewerStep
  BY <1>1 DEF ViewerStep, StreamOpens, StreamTicks, StreamReadsStatus, StreamEnds, PollFetches,
     PollShows, GoAway
<1>2. CASE StartClears \/ StopWithoutScript
  <2>1. runner'.at \in AtRest /\ UNCHANGED <<viewer, job, checker>> /\ LogStep
    BY <1>2 DEF StartClears, StopWithoutScript, LogStep, AtRest
  <2> QED
    BY <2>1
<1>3. CASE StopSetsStopping \/ StartSetsStarting
  BY <1>3 DEF StopSetsStopping, StartSetsStarting, LogStep
<1>4. CASE Announce \/ Launch \/ LaunchFails \/ WaitForOutput \/ WaitForShell \/ Warn
  BY <1>4 DEF Announce, Launch, LaunchFails, WaitForOutput, WaitForShell, Warn, LogStep, AtRest
<1>5. CASE Outcome
  BY <1>5 DEF Outcome, LogStep, AtRest
<1>6. CASE Report
  BY <1>6 DEF Report, NoRunner, LogStep, AtRest
<1>7. ASSUME NEW st \in Streams, ScanStep(st)
      PROVE  UNCHANGED <<viewer, runner, job, checker>> /\ LogStep
  <2>1. scanner[st] = "reading" /\ UNCHANGED <<viewer, runner, job, checker>>
    BY <1>7 DEF ScanStep, ScanLine, ScanEnds, RunnerVars
  <2>2. runner.at = "scan"
    BY <2>1 DEF RunInv
  <2> QED
    BY <1>7, <2>1, <2>2 DEF ScanStep, ScanLine, ScanEnds, LogStep
<1>8. CASE \/ \E st \in Streams, line \in Lines : PrintLine(st, line)
           \/ \E st \in Streams : Block(st)
           \/ Fork \/ ChildEnds \/ Unblock \/ Kill
           \/ \E how \in {"exited", "failed"} : ShellExits(how)
  BY <1>8 DEF PrintLine, Block, Fork, ChildEnds, Unblock, Kill, ShellExits, RunnerVars, LogStep
<1>9. CASE UNCHANGED logsVars
  BY <1>9 DEF logsVars, jobVars, LogStep
<1>10. CASE CheckerStep
  BY <1>10 DEF CheckerStep, CheckBegins, CheckFails, CheckPasses, CheckReports, LogStep
<1> QED
  BY <1>1, <1>2, <1>3, <1>4, <1>5, <1>6, <1>7, <1>8, <1>9, <1>10
     DEF LogsNext, RunnerStep, ViewerStep, Lines

LEMMA LogInvStep ==
  ASSUME LogInv, RunInv, LogStep
  PROVE  /\ LogInv' /\ now' \in Nat /\ now <= now'
         /\ \A e \in ToSet(logs') :
              \/ e \in ToSet(logs)
              \/ e.stamp = now + 1 /\ e.kind = "system"
              \/ /\ e.stamp = now + 1 /\ e.job = job /\ runner.at = "scan"
                 /\ UNCHANGED <<runner, job>>
<1>1. now \in Nat /\ job \in 0 .. MaxJobs /\ MaxJobs \in Nat
  BY LogsAssumption DEF LogInv, RunInv
<1>2. CASE UNCHANGED logVars
  BY <1>1, <1>2 DEF logVars, LogInv
<1>3. CASE ClearLogs
  <2>1. logs' = <<>> /\ now' = now /\ Len(<<>>) = 0 /\ <<>> \in Seq(LogEntry) /\ ToSet(<<>>) = {}
    BY <1>3, EmptySeq DEF ClearLogs, ToSet
  <2>2. Cap \in Nat
    BY LogsAssumption
  <2>3. LogInv'
    BY <1>1, <2>1, <2>2 DEF LogInv, Aging
  <2> QED
    BY <1>1, <2>1, <2>3
<1>4. CASE AppendLog("system") /\ UNCHANGED job
  BY <1>1, <1>4, AppendKeepsLog
<1>5. CASE AppendLog("output") /\ runner.at = "scan" /\ UNCHANGED <<runner, job>>
  <2>1. job >= 1
    BY <1>5 DEF RunInv, AtRest
  <2> QED
    BY <1>1, <1>5, <2>1, AppendKeepsLog
<1> QED
  BY <1>2, <1>3, <1>4, <1>5 DEF LogStep
-----------------------------------------------------------------------------
(* Who watches, step by step.                                              *)

(* Nothing that a stream's cursor has passed, and the log still has, was   *)
(* skipped.                                                                *)
NothingSkipped ==
  viewer.kind = "stream" /\ viewer.at \notin {"away", "done"} =>
    \A e \in ToSet(logs) : e.stamp <= viewer.last => e.stamp \in ToSet(viewer.shown)

(* A stream that saw the model at rest saw the end of that job, if there   *)
(* is no health check.                                                     *)
SawTheEnd ==
  /\ viewer.kind = "stream" /\ viewer.at \in {"sleep", "done"}
  /\ viewer.saw = job /\ checker = "off"
  => runner.at \in AtRest

StreamInv == NothingSkipped /\ SawTheEnd /\ StreamShowsOutput

(* The log's entries seen one by one and as a set.                         *)
LEMMA LogEntries ==
  ASSUME LogInv
  PROVE  /\ logs \in Seq(LogEntry) /\ Aging(logs)
         /\ \A e \in ToSet(logs) :
              e \in LogEntry /\ e.stamp \in 1 .. now /\ (e.kind = "output" => e.job >= 1)
<1>1. logs \in Seq(LogEntry) /\ Aging(logs)
  BY DEF LogInv
<1>2. ToSet(logs) = {logs[i] : i \in 1 .. Len(logs)} /\ \A i \in 1 .. Len(logs) : logs[i] \in LogEntry
  BY <1>1, InToSet
<1> QED
  BY <1>1, <1>2 DEF LogInv

(* A stream that opens or ticks shows all that the log has.                *)
LEMMA StreamCatchesUp ==
  ASSUME LogInv, ViewInv, NothingSkipped, StreamOpens \/ StreamTicks
  PROVE  /\ ViewInv' /\ viewer'.kind = "stream" /\ viewer'.at \in {"tick", "readStatus"}
         /\ \A e \in ToSet(logs) : e.stamp \in ToSet(viewer'.shown)
<1>1. now \in Nat /\ viewer.last \in Nat
  BY DEF LogInv, ViewInv, ViewerType
<1>2. CASE StreamOpens
  <2>1. /\ viewer.kind = "stream" /\ viewer.at = "away" /\ viewer.last = 0
        /\ Show(logs, "tick") /\ UNCHANGED <<now, job>>
    BY <1>2 DEF StreamOpens, ViewInv, jobVars, logVars
  <2>2. \A i \in 1 .. Len(logs) : logs[i].stamp \in viewer.last + 1 .. now
    BY <2>1 DEF LogInv
  <2>3. "tick" \in ViewerLabels \ {"done", "away"}
    BY DEF ViewerLabels
  <2> QED
    BY <1>1, <2>1, <2>2, <2>3, LogEntries, ShowMovesCursor
<1>3. CASE StreamTicks
  <2> DEFINE r == GetLogsSince(viewer.last)
  <2>1. /\ viewer.kind = "stream" /\ viewer.at = "tick"
        /\ Show(r, "readStatus") /\ UNCHANGED <<now, job>>
    BY <1>3 DEF StreamTicks, jobVars, logVars
  <2>2. /\ r \in Seq(LogEntry) /\ Aging(r)
        /\ \A i \in 1 .. Len(r) : r[i].stamp \in viewer.last + 1 .. now
        /\ \A e \in ToSet(logs) : e.stamp > viewer.last => e \in ToSet(r)
    BY <1>1, SinceProperties
  <2> HIDE DEF r
  <2>3. "readStatus" \in ViewerLabels \ {"done", "away"}
    BY DEF ViewerLabels
  <2>4. /\ ViewInv' /\ viewer'.kind = viewer.kind /\ viewer'.at = "readStatus"
        /\ \A x : x \in ToSet(viewer.shown) => x \in ToSet(viewer'.shown)
        /\ \A e \in ToSet(r) : e.stamp \in ToSet(viewer'.shown)
    BY <1>1, <2>1, <2>2, <2>3, ShowMovesCursor
  <2>5. ASSUME NEW e \in ToSet(logs) PROVE e.stamp \in ToSet(viewer'.shown)
    <3>1. e.stamp \in Nat
      BY LogEntries DEF LogEntry
    <3>2. CASE e.stamp > viewer.last
      BY <2>2, <2>4, <3>2
    <3>3. CASE e.stamp <= viewer.last
      BY <2>1, <2>4, <3>3 DEF NothingSkipped
    <3> QED
      BY <1>1, <3>1, <3>2, <3>3
  <2> QED
    BY <2>1, <2>4, <2>5
<1> QED
  BY <1>2, <1>3

(* What is left when it ends is sent.                                      *)
LEMMA StreamEndsWhole ==
  ASSUME LogInv, ViewInv, NothingSkipped, StreamEnds
  PROVE  /\ ViewInv' /\ viewer'.kind = "stream" /\ viewer'.at = "done" /\ viewer'.saw = viewer.saw
         /\ \A e \in ToSet(logs) : e.stamp \in ToSet(viewer'.shown)
<1> DEFINE r == GetLogsSince(viewer.last)
           shown == viewer.shown \o Stamps(r)
           new == [viewer EXCEPT !.at = "done", !.shown = shown]
<1>1. /\ now \in Nat /\ viewer.last \in Nat /\ viewer \in ViewerType /\ viewer.last <= now
      /\ viewer.saw <= job /\ \A i \in 1 .. Len(viewer.fetched) : viewer.fetched[i].stamp \in 1 .. now
  BY DEF LogInv, ViewInv, ViewerType
<1>2. /\ viewer.kind = "stream" /\ viewer.at = "sleep" /\ viewer' = new /\ UNCHANGED <<now, job>>
  BY DEF StreamEnds, jobVars, logVars
<1>3. /\ r \in Seq(LogEntry) /\ Aging(r)
      /\ \A i \in 1 .. Len(r) : r[i].stamp \in viewer.last + 1 .. now
      /\ \A e \in ToSet(logs) : e.stamp > viewer.last => e \in ToSet(r)
  BY <1>1, SinceProperties
<1> HIDE DEF r
<1>4. /\ shown \in Seq(Nat) /\ Ordered(shown)
      /\ \A x : x \in ToSet(shown) <=> x \in ToSet(viewer.shown) \/ x \in ToSet(Stamps(r))
  BY <1>1, <1>2, <1>3, ShowKeepsOrder
<1>5. \A e \in ToSet(r) : e.stamp \in ToSet(Stamps(r))
  BY <1>3, StampsProperties
<1> HIDE DEF shown
<1>6. /\ new \in ViewerType /\ new.at = "done" /\ new.shown = shown /\ new.last = viewer.last
      /\ new.kind = viewer.kind /\ new.fetched = viewer.fetched /\ new.saw = viewer.saw
  BY <1>1, <1>4 DEF ViewerType, ViewerLabels
<1> HIDE DEF new
<1>7. ViewInv'
  BY <1>1, <1>2, <1>4, <1>6 DEF ViewInv
<1>8. ASSUME NEW e \in ToSet(logs) PROVE e.stamp \in ToSet(shown)
  <2>1. e.stamp \in Nat
    BY LogEntries DEF LogEntry
  <2>2. CASE e.stamp > viewer.last
    BY <1>3, <1>4, <1>5, <2>2
  <2>3. CASE e.stamp <= viewer.last
    BY <1>2, <1>4, <2>3 DEF NothingSkipped
  <2> QED
    BY <1>1, <2>1, <2>2, <2>3
<1> QED
  BY <1>2, <1>6, <1>7, <1>8

(* A poll shows what it fetched in order.                                  *)
LEMMA PollKeepsOrder ==
  ASSUME LogInv, ViewInv, RunInv, PollFetches \/ PollShows
  PROVE  ViewInv' /\ viewer'.kind = "poll"
<1>1. /\ now \in Nat /\ job \in Nat /\ viewer \in ViewerType
      /\ viewer.last <= now /\ viewer.saw <= job /\ Ordered(viewer.shown)
  BY LogsAssumption DEF LogInv, RunInv, ViewInv
<1>2. CASE PollFetches
  <2> DEFINE new == [viewer EXCEPT !.at = "readStatus", !.fetched = logs]
  <2>1. /\ viewer.kind = "poll" /\ viewer.at # "done" /\ viewer' = new /\ UNCHANGED <<now, job>>
    BY <1>2 DEF PollFetches, jobVars, logVars
  <2>2. logs \in Seq(LogEntry) /\ \A i \in 1 .. Len(logs) : logs[i].stamp \in 1 .. now
    BY DEF LogInv
  <2>3. /\ new \in ViewerType /\ new.at = "readStatus" /\ new.shown = viewer.shown
        /\ new.last = viewer.last /\ new.kind = viewer.kind /\ new.fetched = logs
        /\ new.saw = viewer.saw
    BY <1>1, <2>2 DEF ViewerType, ViewerLabels
  <2> HIDE DEF new
  <2>4. \A i \in 1 .. Len(viewer.shown) : viewer.shown[i] <= viewer.last
    BY <2>1 DEF ViewInv
  <2>5. ViewInv'
    BY <1>1, <2>1, <2>2, <2>3, <2>4 DEF ViewInv
  <2> QED
    BY <2>1, <2>3, <2>5
<1>3. CASE PollShows
  <2> DEFINE v == ShowFetched
             label == IF status \in Terminal THEN "done" ELSE "tick"
             new == [v EXCEPT !.at = label, !.saw = job, !.fetched = <<>>]
  <2>1. /\ viewer.kind = "poll" /\ viewer.at = "readStatus" /\ UNCHANGED <<now, job>>
        /\ viewer' = new
    BY <1>3 DEF PollShows, jobVars, logVars
  <2>2. ShownBy(viewer)
    BY <1>1, <2>1 DEF ShownBy, ViewInv
  <2>3. ShownBy(v) /\ v.kind = viewer.kind
    BY <1>1, <2>2, ShowFetchedKeepsOrder
  <2> HIDE DEF v
  <2>4. <<>> \in Seq(LogEntry) /\ Len(<<>>) = 0
    BY EmptySeq
  <2>5. label \in {"done", "tick"}
    OBVIOUS
  <2> HIDE DEF label
  <2>6. /\ new \in ViewerType /\ new.at = label /\ new.shown = v.shown
        /\ new.last = v.last /\ new.kind = v.kind /\ new.fetched = <<>> /\ new.saw = job
    BY <1>1, <2>3, <2>4, <2>5 DEF ShownBy, ViewerType, ViewerLabels
  <2> HIDE DEF new
  <2>7. /\ v.last <= now /\ Ordered(v.shown)
        /\ \A i \in 1 .. Len(v.shown) : v.shown[i] <= v.last
    BY <2>3 DEF ShownBy
  <2>8. ViewInv'
    BY <1>1, <2>1, <2>4, <2>5, <2>6, <2>7 DEF ViewInv
  <2> QED
    BY <2>1, <2>3, <2>6, <2>8
<1> QED
  BY <1>2, <1>3

(* What looks at nothing but the status.                                   *)
LEMMA LooksKeepOrder ==
  ASSUME LogInv, ViewInv, RunInv, StreamReadsStatus \/ GoAway
  PROVE  /\ ViewInv' /\ viewer'.kind = viewer.kind
         /\ viewer'.shown = viewer.shown /\ viewer'.last = viewer.last
<1>1. /\ now \in Nat /\ job \in Nat /\ viewer \in ViewerType
      /\ viewer.last <= now /\ viewer.saw <= job /\ Ordered(viewer.shown)
      /\ \A i \in 1 .. Len(viewer.fetched) : viewer.fetched[i].stamp \in 1 .. now
  BY LogsAssumption DEF LogInv, RunInv, ViewInv
<1>2. PICK label \in {"sleep", "tick", "done"}, saw \in {0, job} :
        viewer' = [viewer EXCEPT !.at = label, !.saw = saw]
  BY DEF StreamReadsStatus, GoAway
<1>3. viewer.at # "done" /\ UNCHANGED <<now, job>>
  BY DEF StreamReadsStatus, GoAway, jobVars, logVars
<1> DEFINE new == [viewer EXCEPT !.at = label, !.saw = saw]
<1>4. /\ new \in ViewerType /\ new.at = label /\ new.shown = viewer.shown
      /\ new.last = viewer.last /\ new.kind = viewer.kind /\ new.fetched = viewer.fetched
      /\ new.saw = saw
  <2>1. saw \in Nat /\ label \in ViewerLabels
    BY <1>1, <1>2 DEF ViewerLabels
  <2> QED
    BY <1>1, <2>1 DEF ViewerType
<1>5. viewer' = new
  BY <1>2
<1> HIDE DEF new
<1>6. \A i \in 1 .. Len(viewer.shown) : viewer.shown[i] <= viewer.last
  BY <1>3 DEF ViewInv
<1>7. saw <= job
  BY <1>1, <1>2
<1>8. ViewInv'
  BY <1>1, <1>2, <1>3, <1>4, <1>5, <1>6, <1>7 DEF ViewInv
<1> QED
  BY <1>4, <1>5, <1>8

(* A step that is not the viewer's leaves it behind the clock.             *)
LEMMA OthersKeepOrder ==
  ASSUME ViewInv, UNCHANGED viewer, now \in Nat, now' \in Nat, now <= now',
         job \in Nat, job' \in {job, job + 1}
  PROVE  ViewInv'
<1>1. /\ viewer \in ViewerType /\ viewer.last \in Nat /\ viewer.saw \in Nat
      /\ viewer.last <= now /\ viewer.saw <= job /\ viewer.fetched \in Seq(LogEntry)
      /\ \A i \in 1 .. Len(viewer.fetched) : viewer.fetched[i].stamp \in 1 .. now
  BY DEF ViewInv, ViewerType
<1>2. viewer.last <= now' /\ viewer.saw <= job'
  BY <1>1
<1>3. \A i \in 1 .. Len(viewer.fetched) : viewer.fetched[i].stamp \in 1 .. now'
  BY <1>1
<1> QED
  BY <1>1, <1>2, <1>3 DEF ViewInv

LogsInv == PlumbingInv /\ RunInv /\ ProcessInv /\ LogInv /\ ViewInv /\ StreamInv

(* An entry that appears while a stream is under way is younger than its   *)
(* cursor; one that appears after its end is of a job it did not see.      *)
LEMMA OthersKeepStreams ==
  ASSUME LogsInv, UNCHANGED viewer, LogStep, job' \in {job, job + 1},
         (checker' = "off") = (checker = "off"),
         runner.at \in AtRest /\ runner'.at \notin AtRest => job' = job + 1
  PROVE  ViewInv' /\ StreamInv'
<1>1. /\ now \in Nat /\ job \in Nat /\ viewer \in ViewerType /\ viewer.last \in Nat
      /\ viewer.saw \in Nat /\ viewer.last <= now /\ viewer.saw <= job
  BY LogsAssumption DEF LogsInv, LogInv, RunInv, ViewInv, ViewerType
<1>2. /\ now' \in Nat /\ now <= now'
      /\ \A e \in ToSet(logs') :
           \/ e \in ToSet(logs)
           \/ e.stamp = now + 1 /\ e.kind = "system"
           \/ e.stamp = now + 1 /\ e.job = job /\ runner.at = "scan" /\ UNCHANGED <<runner, job>>
  BY LogInvStep DEF LogsInv
<1>3. ViewInv'
  BY <1>1, <1>2, OthersKeepOrder DEF LogsInv
<1>4. NothingSkipped'
  <2> SUFFICES ASSUME viewer.kind = "stream", viewer.at \notin {"away", "done"},
                      NEW e \in ToSet(logs'), e.stamp <= viewer.last
               PROVE  e.stamp \in ToSet(viewer.shown)
    BY DEF NothingSkipped
  <2>1. e \in ToSet(logs)
    BY <1>1, <1>2
  <2> QED
    BY <2>1 DEF LogsInv, StreamInv, NothingSkipped
<1>5. SawTheEnd'
  <2> SUFFICES ASSUME viewer.kind = "stream", viewer.at \in {"sleep", "done"}, viewer.saw = job',
                      checker' = "off"
               PROVE  runner'.at \in AtRest
    BY DEF SawTheEnd
  <2>1. job' = job
    BY <1>1
  <2>2. runner.at \in AtRest
    BY <2>1 DEF LogsInv, StreamInv, SawTheEnd
  <2> QED
    BY <1>1, <2>1, <2>2
<1>6. StreamShowsOutput'
  <2> SUFFICES ASSUME viewer.kind = "stream", viewer.at = "done", NEW e \in ToSet(logs'),
                      e.kind = "output",
                      e.job < viewer.saw \/ (e.job = viewer.saw /\ checker = "off")
               PROVE  e.stamp \in ToSet(viewer.shown)
    BY DEF StreamShowsOutput
  <2>1. CASE e \in ToSet(logs)
    BY <2>1 DEF LogsInv, StreamInv, StreamShowsOutput
  <2>2. CASE e.job = job /\ runner.at = "scan"
    <3>1. viewer.saw = job /\ checker = "off"
      BY <1>1, <2>2
    <3> QED
      BY <2>2, <3>1 DEF LogsInv, StreamInv, SawTheEnd, AtRest
  <2> QED
    BY <1>2, <2>1, <2>2
<1> QED
  BY <1>3, <1>4, <1>5, <1>6 DEF StreamInv

LEMMA ViewersKeepStreams ==
  ASSUME LogsInv, UNCHANGED <<jobVars, logVars>>, ViewerStep
  PROVE  ViewInv' /\ StreamInv'
<1>1. /\ LogInv /\ ViewInv /\ RunInv /\ NothingSkipped /\ SawTheEnd /\ StreamShowsOutput
      /\ UNCHANGED <<logs, job, runner, status, checker>>
  BY DEF LogsInv, StreamInv, jobVars, logVars
<1>2. CASE StreamOpens \/ StreamTicks
  <2>1. /\ ViewInv' /\ viewer'.kind = "stream" /\ viewer'.at \in {"tick", "readStatus"}
        /\ \A e \in ToSet(logs) : e.stamp \in ToSet(viewer'.shown)
    BY <1>1, <1>2, StreamCatchesUp
  <2> QED
    BY <1>1, <2>1 DEF StreamInv, NothingSkipped, SawTheEnd, StreamShowsOutput
<1>3. CASE StreamEnds
  <2>1. /\ ViewInv' /\ viewer'.kind = "stream" /\ viewer'.at = "done" /\ viewer'.saw = viewer.saw
        /\ \A e \in ToSet(logs) : e.stamp \in ToSet(viewer'.shown)
    BY <1>1, <1>3, StreamEndsWhole
  <2>2. viewer.kind = "stream" /\ viewer.at = "sleep"
    BY <1>3 DEF StreamEnds
  <2> QED
    BY <1>1, <2>1, <2>2 DEF StreamInv, NothingSkipped, SawTheEnd, StreamShowsOutput
<1>4. CASE PollFetches \/ PollShows
  <2>1. ViewInv' /\ viewer'.kind = "poll"
    BY <1>1, <1>4, PollKeepsOrder
  <2> QED
    BY <2>1 DEF StreamInv, NothingSkipped, SawTheEnd, StreamShowsOutput
<1>5. ASSUME StreamReadsStatus \/ GoAway
      PROVE  /\ ViewInv' /\ viewer'.kind = viewer.kind
             /\ viewer'.shown = viewer.shown /\ viewer'.last = viewer.last
  BY <1>1, <1>5, LooksKeepOrder
<1>6. CASE StreamReadsStatus
  <2>1. /\ viewer.at = "readStatus"
        /\ viewer'.at = "tick" \/ (viewer'.at = "sleep" /\ status \in Terminal)
    <3> DEFINE label == IF status \in Terminal THEN "sleep" ELSE "tick"
    <3>1. /\ viewer \in ViewerType /\ viewer.at = "readStatus"
          /\ viewer' = [viewer EXCEPT !.at = label, !.saw = job]
      BY <1>1, <1>6 DEF ViewInv, StreamReadsStatus
    <3>2. label = "tick" \/ (label = "sleep" /\ status \in Terminal)
      OBVIOUS
    <3> HIDE DEF label
    <3>3. viewer'.at = label
      BY <3>1 DEF ViewerType
    <3> QED
      BY <3>1, <3>2, <3>3
  <2>2. status \in Terminal /\ checker = "off" => runner.at \in AtRest
    BY <1>1 DEF RunInv, Terminal
  <2> QED
    BY <1>1, <1>5, <1>6, <2>1, <2>2 DEF StreamInv, NothingSkipped, SawTheEnd, StreamShowsOutput
<1>7. CASE GoAway
  <2>1. viewer'.at = "done" /\ viewer'.saw = 0
    <3>1. viewer \in ViewerType
      BY <1>1 DEF ViewInv
    <3> QED
      BY <1>7, <3>1 DEF GoAway, ViewerType
  <2>2. \A e \in ToSet(logs) : e.kind = "output" => ~(e.job < 0) /\ e.job # 0
    <3> SUFFICES ASSUME NEW e \in ToSet(logs), e.kind = "output" PROVE ~(e.job < 0) /\ e.job # 0
      OBVIOUS
    <3>1. e \in LogEntry /\ e.job >= 1
      BY <1>1, LogEntries
    <3>2. e.job \in 0 .. MaxJobs
      BY <3>1 DEF LogEntry
    <3> QED
      BY LogsAssumption, <3>1, <3>2
  <2>3. job = 0 => runner.at \in AtRest
    BY <1>1 DEF RunInv
  <2> QED
    BY <1>1, <1>5, <1>7, <2>1, <2>2, <2>3 DEF StreamInv, NothingSkipped, SawTheEnd, StreamShowsOutput
<1> QED
  BY <1>2, <1>3, <1>4, <1>6, <1>7 DEF ViewerStep

LEMMA LogsInvStep ==
  ASSUME LogsInv, [LogsNext]_logsVars
  PROVE  LogsInv'
<1>1. PlumbingInv' /\ RunInv' /\ ProcessInv'
  BY PlumbingInvStep, RunInvStep, ProcessInvStep DEF LogsInv
<1>2. CASE UNCHANGED <<jobVars, logVars>> /\ ViewerStep
  <2>1. LogInv'
    BY <1>2 DEF LogsInv, LogInv, logVars
  <2> QED
    BY <1>1, <1>2, <2>1, ViewersKeepStreams DEF LogsInv
<1>3. CASE /\ UNCHANGED viewer /\ LogStep /\ job' \in {job, job + 1}
           /\ (checker' = "off") = (checker = "off")
           /\ runner.at \in AtRest /\ runner'.at \notin AtRest => job' = job + 1
  <2>1. LogInv'
    BY <1>3, LogInvStep DEF LogsInv
  <2> QED
    BY <1>1, <1>3, <2>1, OthersKeepStreams DEF LogsInv
<1> QED
  BY <1>2, <1>3, StepEffects DEF LogsInv

LEMMA LogsInvInit ==
  ASSUME LogsInit
  PROVE  LogsInv
<1>1. <<>> \in Seq(LogEntry) /\ <<>> \in Seq(Nat) /\ <<>> \in Seq(Lines) /\ Len(<<>>) = 0
  BY EmptySeq
<1>2. /\ Cap \in Nat /\ PipeCap \in Nat /\ MaxJobs \in Nat /\ MaxLines \in Nat
  BY LogsAssumption
<1>3. PlumbingInv
  BY <1>1 DEF LogsInit, NoRunner, RunnerLabels, Lines, PlumbingInv, PlumbingType, Quiet, EndIsFinal, Phases
<1>4. RunInv
  BY <1>2 DEF LogsInit, NoRunner, RunnerLabels, CheckerLabels, Statuses, RunInv, AtRest
<1>5. ProcessInv
  <2>1. /\ printed = 0 /\ shell = "off" /\ child = FALSE
        /\ \A st \in Streams : pipe[st] = <<>>
    BY DEF LogsInit
  <2>2. \A st \in Streams : Len(pipe[st]) <= PipeCap
    BY <1>1, <1>2, <2>1
  <2>3. printed \in 0 .. MaxLines
    BY <1>2, <2>1
  <2>4. shell \in {"off", "up", "exited", "failed"} \cup Streams /\ child \in BOOLEAN
    BY <2>1
  <2> QED
    BY <2>2, <2>3, <2>4 DEF ProcessInv
<1>6. LogInv
  BY <1>1, <1>2 DEF LogsInit, LogInv, Aging
<1>7. /\ viewer.kind \in {"stream", "poll"} /\ viewer.at = "away" /\ viewer.last = 0
      /\ viewer.shown = <<>> /\ viewer.fetched = <<>> /\ viewer.saw = 0
      /\ viewer \in [kind : {"stream", "poll"}, at : {"away"}, last : {0},
                     shown : {<<>>}, fetched : {<<>>}, saw : {0}]
  BY DEF LogsInit
<1>8. viewer \in ViewerType
  <2> DEFINE empty == <<>>
  <2>1. empty \in Seq(LogEntry) /\ empty \in Seq(Nat) /\ "away" \in ViewerLabels
    BY <1>1 DEF ViewerLabels
  <2>2. viewer \in [kind : {"stream", "poll"}, at : {"away"}, last : {0},
                    shown : {empty}, fetched : {empty}, saw : {0}]
    BY <1>7
  <2> HIDE DEF empty
  <2> QED
    BY <2>1, <2>2 DEF ViewerType
<1>9. ViewInv
  BY <1>1, <1>7, <1>8 DEF LogsInit, ViewInv, Ordered
<1>10. StreamInv
  BY <1>7 DEF StreamInv, NothingSkipped, SawTheEnd, StreamShowsOutput
<1> QED
  BY <1>3, <1>4, <1>5, <1>6, <1>9, <1>10 DEF LogsInv

LEMMA LogsInvAlways == LogsSpec => []LogsInv
<1>1. LogsInv /\ [LogsNext]_logsVars => LogsInv'
  BY LogsInvStep
<1>2. LogsInit => LogsInv
  BY LogsInvInit
<1> QED
  BY <1>1, <1>2, PTL DEF LogsSpec

-----------------------------------------------------------------------------
(* Every variable has its type, and the log never outgrows its cap         *)
(* (AppendLog, models/model.go:162-176), however many scripts run.         *)
THEOREM LogsTypeCorrect == LogsSpec => []LogsTypeOK
<1>1. LogsInv => LogsTypeOK
  <2> SUFFICES ASSUME LogsInv PROVE LogsTypeOK
    OBVIOUS
  <2>1. PlumbingInv /\ RunInv /\ ProcessInv /\ LogInv /\ ViewInv
    BY DEF LogsInv
  <2>2. /\ status \in Statuses /\ job \in 0 .. MaxJobs /\ printed \in 0 .. MaxLines /\ now \in Nat
        /\ runner \in [at : RunnerLabels, does : {"start", "stop"}, failed : BOOLEAN]
        /\ Len(logs) <= Cap /\ checker \in CheckerLabels
        /\ shell \in {"off", "up", "exited", "failed"} \cup Streams /\ child \in BOOLEAN
    BY <2>1 DEF RunInv, ProcessInv, LogInv
  <2>3. \A e \in ToSet(logs) :
          e \in [kind : {"system", "output"}, job : 0 .. MaxJobs, stamp : 1 .. now]
    BY <2>1, LogEntries DEF LogEntry
  <2>4. /\ \A st \in Streams : pipe[st] \in Seq(Lines) /\ Len(pipe[st]) <= PipeCap
        /\ scanner \in [Streams -> {"off", "reading", "ended", "gaveUp"}]
    BY <2>1 DEF PlumbingInv, PlumbingType, ProcessInv
  <2>5. viewer.at \in ViewerLabels /\ viewer.last \in 0 .. now /\ viewer.saw \in 0 .. job
    BY <2>1, <2>2 DEF ViewInv, ViewerType
  <2> QED
    BY <2>2, <2>3, <2>4, <2>5 DEF LogsTypeOK, Lines
<1> QED
  BY <1>1, LogsInvAlways, PTL

(* A viewer is shown no entry twice and none before an older one, for any  *)
(* cap of the log, any resolution of the frontend's clock, and however the *)
(* log is cut, cleared and appended to between two reads                   *)
(* (models/model.go:162-209, handlers/models.go:219-276).                  *)
THEOREM ShownCorrect == LogsSpec => []ShownInOrder
<1>1. LogsInv => ShownInOrder
  <2> SUFFICES ASSUME LogsInv, NEW i \in 1 .. Len(viewer.shown) - 1
               PROVE  viewer.shown[i] < viewer.shown[i + 1]
    BY DEF ShownInOrder
  <2>1. viewer.shown \in Seq(Nat) /\ Ordered(viewer.shown)
    BY DEF LogsInv, ViewInv, ViewerType
  <2>2. Len(viewer.shown) \in Nat
    BY <2>1, LenProperties
  <2>3. i \in 1 .. Len(viewer.shown) /\ i + 1 \in 1 .. Len(viewer.shown) /\ i < i + 1
    BY <2>2
  <2> QED
    BY <2>1, <2>3 DEF Ordered
<1> QED
  BY <1>1, LogsInvAlways, PTL

(* A stream that ended because it saw a model that runs, failed or stopped *)
(* has shown all that the scripts before the last one had printed, as far  *)
(* as the log still has it, and what the last one had printed if the model *)
(* has no health check (handlers/models.go:245-276).  The calls that run   *)
(* scripts do not overlap here.                                            *)
THEOREM StreamCorrect == LogsSpec => []StreamShowsOutput
<1>1. LogsInv => StreamShowsOutput
  BY DEF LogsInv, StreamInv
<1> QED
  BY <1>1, LogsInvAlways, PTL
=============================================================================

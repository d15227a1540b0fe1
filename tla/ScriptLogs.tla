----------------------------- MODULE ScriptLogs -----------------------------
(***************************************************************************)
(* The output of the scripts of one model: how it gets from the processes  *)
(* through pipes into the model's log (internal/models/manager.go), and    *)
(* from there to somebody who watches (internal/models/model.go,           *)
(* internal/api/handlers/models.go, frontend/src/lib/api.ts).              *)
(*                                                                         *)
(* The calls that run scripts do not overlap here; those that do are in    *)
(* the module Lifecycle, and Restart, which logs the output of its stop    *)
(* script as one entry, is left out.  A job is one run of a script.  A     *)
(* health check, if the model has one, runs beside all of that, and sets   *)
(* the status when it likes; here one check ends before the next begins.   *)
(*                                                                         *)
(* Each entry of the log is stamped under the log's lock with a clock that *)
(* advances between entries; the frontend sees stamps in milliseconds.     *)
(***************************************************************************)
EXTENDS Naturals, Sequences, SequencesExt, FiniteSets, FiniteSetsExt

CONSTANTS
  MaxJobs,     \* how many scripts are run
  MaxLines,    \* how many lines the processes of one job print at most
  MaxChecked,  \* the same, of a model that has a health check
  Cap,         \* how many entries the log keeps: 1000 in the code
  PipeCap,     \* how many lines a pipe holds
  PerMilli     \* stamps per millisecond

ASSUME LogsAssumption ==
  /\ MaxJobs \in Nat /\ MaxLines \in Nat /\ MaxChecked \in 0 .. MaxLines
  /\ Cap \in Nat \ {0} /\ PipeCap \in Nat \ {0} /\ PerMilli \in Nat \ {0}

VARIABLES
  status,    \* Model.status
  runner,    \* the call or goroutine that runs a script, and which
  job,       \* how many scripts have been run
  logs,      \* Model.scriptLogs
  now,       \* the clock, which also numbers the entries
  shell,     \* the process the manager started
  child,     \* a process the script left behind holds the pipes
  printed,   \* how many lines the job has printed
  pipe,      \* per stream: the lines in its pipe
  scanner,   \* per stream: the goroutine of streamOutput
  checker,   \* checkHealth of the model, "off" if it has no health check
  viewer     \* somebody who watches the log

jobVars == <<status, runner, job, shell, child, printed, pipe, scanner, checker>>
logVars == <<logs, now>>
logsVars == <<jobVars, logVars, viewer>>

Streams == {"stdout", "stderr"}
Statuses == {"stopped", "starting", "running", "stopping", "error"}
Terminal == {"running", "stopped", "error"}
RunnerLabels ==
  {"none", "setStarting", "announce", "launch", "scan", "wait", "warn", "outcome", "report"}
CheckerLabels == {"off", "idle", "probe", "report"}
ViewerLabels == {"away", "tick", "readStatus", "sleep", "done"}

NoRunner == [at |-> "none", does |-> "start", failed |-> FALSE]

LogsInit ==
  /\ status = "stopped" /\ runner = NoRunner /\ job = 0
  /\ logs = <<>> /\ now = 0
  /\ shell = "off" /\ child = FALSE /\ printed = 0
  /\ pipe = [st \in Streams |-> <<>>]
  /\ scanner = [st \in Streams |-> "off"]
  /\ checker \in {"off", "idle"}
  /\ viewer \in [kind : {"stream", "poll"}, at : {"away"}, last : {0},
                 shown : {<<>>}, fetched : {<<>>}, saw : {0}]

-----------------------------------------------------------------------------
(* The log.                                                                *)
Newest(s) == SubSeq(s, IF Len(s) > Cap THEN Len(s) - Cap + 1 ELSE 1, Len(s))

(* Mutant: the log is not cut. *)
AppendWithoutCut(kind) ==
  /\ now' = now + 1
  /\ logs' = Append(logs, [kind |-> kind, job |-> job, stamp |-> now + 1])

AppendLog(kind) ==
  /\ now' = now + 1
  /\ logs' = Newest(Append(logs, [kind |-> kind, job |-> job, stamp |-> now + 1]))

ClearLogs == logs' = <<>> /\ UNCHANGED now

GetLogsSince(t) ==
  LET result[i \in 0 .. Len(logs)] ==
        IF i = 0 THEN <<>>
        ELSE IF logs[i].stamp > t THEN Append(result[i - 1], logs[i]) ELSE result[i - 1]
  IN  result[Len(logs)]

-----------------------------------------------------------------------------
(* The calls Start and Stop, up to the goroutine.                          *)
Run(label) == runner' = [runner EXCEPT !.at = label]

ScriptVars == <<shell, child, printed, pipe, scanner>>

StartClears ==
  /\ runner.at = "none" /\ status \in {"stopped", "error"} /\ job < MaxJobs
  /\ ClearLogs
  /\ runner' = [at |-> "setStarting", does |-> "start", failed |-> FALSE]
  /\ UNCHANGED <<status, job, ScriptVars, checker, viewer>>

(* A port that cannot be had is an error that is logged.                   *)
StartSetsStarting ==
  /\ runner.at = "setStarting"
  /\ job' = job + 1
  /\ \/ status' = "starting" /\ Run("announce")
     \/ status' = "error" /\ Run("report")
  /\ UNCHANGED <<logVars, ScriptVars, checker, viewer>>

(* A model that failed, or waits for its health check, is stopped as well. *)
StopSetsStopping ==
  /\ runner.at = "none" /\ status \notin {"stopped", "stopping"} /\ job < MaxJobs
  /\ status' = "stopping" /\ job' = job + 1
  /\ runner' = [at |-> "announce", does |-> "stop", failed |-> FALSE]
  /\ UNCHANGED <<logVars, ScriptVars, checker, viewer>>

StopWithoutScript ==
  /\ runner.at = "none" /\ status \notin {"stopped", "stopping"}
  /\ status' = "stopped"
  /\ runner' = [at |-> "report", does |-> "stop", failed |-> FALSE]
  /\ UNCHANGED <<job, logVars, ScriptVars, checker, viewer>>

-----------------------------------------------------------------------------
(* The goroutine of a script: it says what it runs, starts the shell with  *)
(* one goroutine for each pipe, waits for both, then for the shell.        *)
Announce ==
  /\ runner.at = "announce"
  /\ AppendLog("system")
  /\ Run("launch")
  /\ UNCHANGED <<status, job, ScriptVars, checker, viewer>>

Launch ==
  /\ runner.at = "launch"
  /\ shell' = "up" /\ printed' = 0
  /\ scanner' = [st \in Streams |-> "reading"]
  /\ Run("scan")
  /\ UNCHANGED <<status, job, logVars, child, pipe, checker, viewer>>

(* The pipes or the shell cannot be had.                                   *)
LaunchFails ==
  /\ runner.at = "launch"
  /\ runner' = [runner EXCEPT !.at = IF runner.does = "stop" THEN "warn" ELSE "outcome",
                              !.failed = TRUE]
  /\ UNCHANGED <<status, job, logVars, ScriptVars, checker, viewer>>

(* Mutant: cmd.Wait, which closes the pipes, does not wait for wg. *)
StopWaitingForOutput ==
  /\ runner.at = "scan"
  /\ Run("wait")
  /\ UNCHANGED <<status, job, logVars, ScriptVars, checker, viewer>>

WaitForOutput ==
  /\ runner.at = "scan"
  /\ \A st \in Streams : scanner[st] \in {"ended", "gaveUp"}
  /\ Run("wait")
  /\ UNCHANGED <<status, job, logVars, ScriptVars, checker, viewer>>

(* cmd.Wait: the shell is gone, and our ends of the pipes are closed.      *)
WaitForShell ==
  /\ runner.at = "wait" /\ shell \in {"exited", "failed"}
  /\ runner' = [runner EXCEPT
       !.at = IF runner.does = "stop" /\ shell = "failed" THEN "warn" ELSE "outcome",
       !.failed = runner.does = "start" /\ shell = "failed"]
  /\ shell' = "off" /\ child' = FALSE
  /\ pipe' = [st \in Streams |-> <<>>]
  /\ UNCHANGED <<status, job, logVars, printed, scanner, checker, viewer>>

Warn ==
  /\ runner.at = "warn"
  /\ AppendLog("system")
  /\ Run("outcome")
  /\ UNCHANGED <<status, job, ScriptVars, checker, viewer>>

(* The status is set before the last entry, if there is one, is appended.  *)
(* With a health check, a start that succeeds leaves it as it is.          *)
Outcome ==
  /\ runner.at = "outcome"
  /\ status' = CASE runner.does = "stop" -> "stopped"
                 [] runner.does = "start" /\ runner.failed -> "error"
                 [] runner.does = "start" /\ ~runner.failed /\ checker = "off" -> "running"
                 [] runner.does = "start" /\ ~runner.failed /\ checker # "off" -> status
  /\ scanner' = [st \in Streams |-> "off"]
  /\ IF runner.does = "stop" /\ runner.failed THEN runner' = NoRunner ELSE Run("report")
  /\ UNCHANGED <<job, logVars, shell, child, printed, pipe, checker, viewer>>

Report ==
  /\ runner.at = "report"
  /\ AppendLog("system")
  /\ runner' = NoRunner
  /\ UNCHANGED <<status, job, ScriptVars, checker, viewer>>

RunnerStep ==
  \/ StartSetsStarting \/ Announce \/ Launch \/ LaunchFails \/ WaitForOutput \/ WaitForShell
  \/ Warn \/ Outcome \/ Report

-----------------------------------------------------------------------------
(* checkHealth: a check that saw the model starting makes it running when  *)
(* the backend answers, whatever became of the model in the meantime.      *)
CheckBegins ==
  /\ checker = "idle" /\ status = "starting"
  /\ checker' = "probe"
  /\ UNCHANGED <<status, runner, job, logVars, ScriptVars, viewer>>

CheckFails ==
  /\ checker = "probe"
  /\ checker' = "idle"
  /\ UNCHANGED <<status, runner, job, logVars, ScriptVars, viewer>>

CheckPasses ==
  /\ checker = "probe"
  /\ status' = "running"
  /\ checker' = "report"
  /\ UNCHANGED <<runner, job, logVars, ScriptVars, viewer>>

CheckReports ==
  /\ checker = "report"
  /\ AppendLog("system")
  /\ checker' = "idle"
  /\ UNCHANGED <<status, runner, job, ScriptVars, viewer>>

CheckerStep == CheckBegins \/ CheckFails \/ CheckPasses \/ CheckReports

-----------------------------------------------------------------------------
(* The processes: the shell, and what it leaves behind.                    *)
RunnerVars == <<status, runner, job, checker>>

(* A line that is too long for the scanner is one like any other here.     *)
PrintLine(st, line) ==
  /\ shell = "up" \/ child
  /\ printed < IF checker = "off" THEN MaxLines ELSE MaxChecked
  /\ Len(pipe[st]) < PipeCap
  /\ printed' = printed + 1
  /\ pipe' = [pipe EXCEPT ![st] = Append(@, line)]
  /\ UNCHANGED <<RunnerVars, logVars, shell, child, scanner, viewer>>

Fork ==
  /\ shell = "up" /\ ~child
  /\ child' = TRUE
  /\ UNCHANGED <<RunnerVars, logVars, shell, printed, pipe, scanner, viewer>>

ChildEnds ==
  /\ child
  /\ child' = FALSE
  /\ UNCHANGED <<RunnerVars, logVars, shell, printed, pipe, scanner, viewer>>

(* The shell writes to a pipe that is full, and has it drained some time   *)
(* or never.                                                               *)
Block(st) ==
  /\ shell = "up" /\ Len(pipe[st]) = PipeCap
  /\ shell' = st
  /\ UNCHANGED <<RunnerVars, logVars, child, printed, pipe, scanner, viewer>>

Unblock ==
  /\ shell \in Streams /\ Len(pipe[shell]) < PipeCap
  /\ shell' = "up"
  /\ UNCHANGED <<RunnerVars, logVars, child, printed, pipe, scanner, viewer>>

ShellExits(how) ==
  /\ shell = "up"
  /\ shell' = how
  /\ UNCHANGED <<RunnerVars, logVars, child, printed, pipe, scanner, viewer>>

(* Mutant: the command has no context. *)
NeverKill == FALSE /\ UNCHANGED logsVars

(* The context's timeout kills the shell, and only the shell.              *)
Kill ==
  /\ shell \in {"up"} \cup Streams
  /\ shell' = "failed"
  /\ UNCHANGED <<RunnerVars, logVars, child, printed, pipe, scanner, viewer>>

-----------------------------------------------------------------------------
(* streamOutput: each line is logged; a line that is longer than the       *)
(* scanner's buffer ends the reading without a word.                       *)
ScanLine(st) ==
  /\ scanner[st] = "reading" /\ pipe[st] # <<>>
  /\ \/ /\ Head(pipe[st]) = "line"
        /\ AppendLog("output")
        /\ pipe' = [pipe EXCEPT ![st] = Tail(@)]
        /\ UNCHANGED scanner
     \/ /\ Head(pipe[st]) = "overlong"
        /\ scanner' = [scanner EXCEPT ![st] = "gaveUp"]
        /\ UNCHANGED <<logVars, pipe>>
  /\ UNCHANGED <<RunnerVars, shell, child, printed, viewer>>

ScanEnds(st) ==
  /\ scanner[st] = "reading" /\ pipe[st] = <<>>
  /\ shell \in {"exited", "failed"} /\ ~child
  /\ scanner' = [scanner EXCEPT ![st] = "ended"]
  /\ UNCHANGED <<RunnerVars, logVars, shell, child, printed, pipe, viewer>>

-----------------------------------------------------------------------------
(* LogsStream.  Sending moves the cursor to the youngest entry sent.       *)
Stamps(entries) == [i \in DOMAIN entries |-> entries[i].stamp]

(* Mutant: the cursor stays where it is. *)
ShowAgain(entries, label) ==
  viewer' = [viewer EXCEPT !.at = label, !.shown = @ \o Stamps(entries)]

Show(entries, label) ==
  viewer' = [viewer EXCEPT !.at = label,
                           !.shown = @ \o Stamps(entries),
                           !.last = Max({@} \cup ToSet(Stamps(entries)))]

StreamOpens ==
  /\ viewer.kind = "stream" /\ viewer.at = "away"
  /\ Show(logs, "tick")
  /\ UNCHANGED <<jobVars, logVars>>

StreamTicks ==
  /\ viewer.kind = "stream" /\ viewer.at = "tick"
  /\ Show(GetLogsSince(viewer.last), "readStatus")
  /\ UNCHANGED <<jobVars, logVars>>

StreamReadsStatus ==
  /\ viewer.kind = "stream" /\ viewer.at = "readStatus"
  /\ viewer' = [viewer EXCEPT !.at = IF status \in Terminal THEN "sleep" ELSE "tick", !.saw = job]
  /\ UNCHANGED <<jobVars, logVars>>

(* Mutant: the stream ends at once. *)
StreamEndsAtOnce ==
  /\ viewer.kind = "stream" /\ viewer.at = "sleep"
  /\ viewer' = [viewer EXCEPT !.at = "done"]
  /\ UNCHANGED <<jobVars, logVars>>

(* What is left after one more second is sent, and the stream ends.        *)
StreamEnds ==
  /\ viewer.kind = "stream" /\ viewer.at = "sleep"
  /\ viewer' = [viewer EXCEPT !.at = "done", !.shown = @ \o Stamps(GetLogsSince(viewer.last))]
  /\ UNCHANGED <<jobVars, logVars>>

(* The handler Logs reads the log and then the status; the frontend, which *)
(* asks again and again, drops what is not a millisecond younger than the  *)
(* last entry it showed, and goes away at a terminal status.               *)
PollFetches ==
  /\ viewer.kind = "poll" /\ viewer.at \in {"away", "tick"}
  /\ viewer' = [viewer EXCEPT !.at = "readStatus", !.fetched = logs]
  /\ UNCHANGED <<jobVars, logVars>>

Milli(t) == t \div PerMilli

ShowIfYounger(v, e) ==
  IF Milli(e.stamp) > Milli(v.last)
  THEN [v EXCEPT !.shown = Append(@, e.stamp), !.last = e.stamp]
  ELSE v

ShowFetched ==
  LET showing[i \in 0 .. Len(viewer.fetched)] ==
        IF i = 0 THEN viewer ELSE ShowIfYounger(showing[i - 1], viewer.fetched[i])
  IN  showing[Len(viewer.fetched)]

PollShows ==
  /\ viewer.kind = "poll" /\ viewer.at = "readStatus"
  /\ viewer' = [ShowFetched EXCEPT
                   !.at = IF status \in Terminal THEN "done" ELSE "tick",
                   !.saw = job, !.fetched = <<>>]
  /\ UNCHANGED <<jobVars, logVars>>

(* The request is cancelled, or the page is left.                          *)
GoAway ==
  /\ viewer.at = "tick"
  /\ viewer' = [viewer EXCEPT !.at = "done", !.saw = 0]
  /\ UNCHANGED <<jobVars, logVars>>

-----------------------------------------------------------------------------
ScanStep(st) == ScanLine(st) \/ ScanEnds(st)

LogsNext ==
  \/ StartClears \/ StopSetsStopping \/ StopWithoutScript
  \/ RunnerStep \/ CheckerStep
  \/ \E st \in Streams :
       \/ \E line \in {"line", "overlong"} : PrintLine(st, line)
       \/ Block(st) \/ ScanStep(st)
  \/ Fork \/ ChildEnds \/ Unblock \/ Kill
  \/ \E how \in {"exited", "failed"} : ShellExits(how)
  \/ StreamOpens \/ StreamTicks \/ StreamReadsStatus \/ StreamEnds
  \/ PollFetches \/ PollShows \/ GoAway

LogsSpec == LogsInit /\ [][LogsNext]_logsVars

(* Goroutines run, the timeout fires, and a process that was left behind   *)
(* closes the output it inherited some time, which is up to the script.    *)
LogsFairSpec ==
  /\ LogsSpec
  /\ WF_logsVars(RunnerStep) /\ WF_logsVars(Kill) /\ WF_logsVars(ChildEnds)
  /\ \A st \in Streams : WF_logsVars(ScanStep(st))
-----------------------------------------------------------------------------
(* Every variable has its type, and the log never outgrows its cap.        *)
LogsTypeOK ==
  /\ status \in Statuses
  /\ runner \in [at : RunnerLabels, does : {"start", "stop"}, failed : BOOLEAN]
  /\ job \in 0 .. MaxJobs /\ printed \in 0 .. MaxLines /\ now \in Nat
  /\ Len(logs) <= Cap
  /\ \A e \in ToSet(logs) :
       e \in [kind : {"system", "output"}, job : 0 .. MaxJobs, stamp : 1 .. now]
  /\ shell \in {"off", "up", "exited", "failed"} \cup Streams /\ child \in BOOLEAN
  /\ \A st \in Streams : pipe[st] \in Seq({"line", "overlong"}) /\ Len(pipe[st]) <= PipeCap
  /\ scanner \in [Streams -> {"off", "reading", "ended", "gaveUp"}]
  /\ checker \in CheckerLabels
  /\ viewer.at \in ViewerLabels /\ viewer.last \in 0 .. now /\ viewer.saw \in 0 .. job

(* A viewer is shown no entry twice and none before an older one, although *)
(* the log is cut, cleared and appended to by several goroutines between   *)
(* two reads, for the stream and for the polling page                      *)
(* (models/model.go:162-209, handlers/models.go:219-276).                  *)
ShownInOrder ==
  \A i \in 1 .. Len(viewer.shown) - 1 : viewer.shown[i] < viewer.shown[i + 1]

(* The goroutine of a script comes to its outcome when nothing is left in  *)
(* the pipes: all that the script printed, on both streams and by whatever *)
(* process, is in the log before that goroutine makes the model running,   *)
(* failed or stopped, unless a scanner met a line it could not hold        *)
(* (manager.go:311-322, 420-427).  A health check may have made the model  *)
(* running before that (manager.go:188).                                   *)
OutputBeforeOutcome ==
  runner.at \in {"wait", "warn", "outcome"} /\ (\A st \in Streams : scanner[st] # "gaveUp")
    => \A st \in Streams : pipe[st] = <<>>

(* A stream that ended because it saw a model that runs, failed or stopped *)
(* has shown all that the scripts before the last one had printed, as far  *)
(* as the log still has it, and if the model has no health check what the  *)
(* last one had printed too: what came between its last look at the log    *)
(* and its look at the status is sent in the end (handlers/models.go:      *)
(* 245-276).  A health check makes a model running while its script still  *)
(* prints (manager.go:188), and what comes more than a second later is not *)
(* shown.                                                                  *)
StreamShowsOutput ==
  viewer.kind = "stream" /\ viewer.at = "done" =>
    \A e \in ToSet(logs) :
      /\ e.kind = "output"
      /\ e.job < viewer.saw \/ (e.job = viewer.saw /\ checker = "off")
      => e.stamp \in ToSet(viewer.shown)

(* The goroutine of a script comes to its end: it is not kept by a script  *)
(* that runs on, nor by a line that nobody reads and a full pipe, only by  *)
(* a process left behind that never closes its output (manager.go:         *)
(* 280-319).  A health-checked model then still waits for its check.       *)
ScriptsEnd == runner.at # "none" ~> runner.at = "none"
=============================================================================

---------------------------- MODULE Orchestrator ----------------------------
(***************************************************************************)
(* The cross-module orchestrator, src/src/api/orchestrator.py: runs begun  *)
(* by API servers (a background thread each) and by CLI processes, one     *)
(* flock beside the database shared with the children they spawn, and the  *)
(* provenance tables orchestrator_run and orchestrator_step.               *)
(*                                                                         *)
(* A run r is one handle.  pc[r] is the place its code has reached, in the *)
(* thread of an API server or the main thread of a CLI process.  Each      *)
(* action is one stretch of that code between two points at which another  *)
(* process, the other threads or a signal can be seen.                     *)
(***************************************************************************)
EXTENDS Integers, FiniteSets

CONSTANTS
    N,            \* steps of the pipeline, in execution order: 1..N
    DependsOn,    \* StepSpec.depends_on, as a set of steps
    Checked,      \* steps with a pending_command
    AlwaysRun,    \* steps with always_run
    NewsStep,     \* the step skipped when the news database is missing
    ApiRuns,      \* handles begun by POST
    CliRuns,      \* handles begun by `python -m api orchestrate`
    Servers,      \* API processes on the same database
    Home,         \* the server an API run is posted to
    Plans,        \* the step sets a POST may ask for
    FaultyRuns,   \* runs whose provenance writes (or thread start) may fail
    SigtermRuns,  \* CLI runs that may be sent SIGTERM, any number of times
    NoRun

Runs  == ApiRuns \cup CliRuns
Steps == 1..N

ASSUME PipelineAssumption ==
    /\ N \in Nat \ {0}
    /\ DependsOn \in [Steps -> SUBSET Steps]
    /\ \A s \in Steps : \A d \in DependsOn[s] : d < s
    /\ Checked \subseteq Steps
    /\ AlwaysRun \subseteq Steps

\* POST /run/pipeline asks for every step, POST /run/<step> for one of them.
ASSUME RunsAssumption ==
    /\ ApiRuns \cap CliRuns = {}
    /\ Home \in [ApiRuns -> Servers]
    /\ Plans \subseteq ({Steps} \cup {{s} : s \in Steps})
    /\ FaultyRuns \subseteq Runs
    /\ SigtermRuns \subseteq CliRuns
    /\ NoRun \notin Runs

VARIABLES
    lock,     \* the run whose open file holds the flock, or NoRun
    pc,       \* where each run's code is
    cur,      \* the index of execute_run's loop
    prog,     \* the run's locals: plan, _Progress, the decision, how it fails
    child,    \* the subprocess a run has spawned
    started,  \* history: the steps whose own child was spawned
    run,      \* orchestrator_run.status
    row,      \* orchestrator_step.status, which the StepState in memory equals
    srv,      \* each API process
    active,   \* _REGISTRY.active, per API process
    stop      \* _LOCK_STATE.stop_reason is set, per API process

thread  == <<pc, cur, prog>>
ledger  == <<run, row>>
process == <<child, started>>
server  == <<srv, active, stop>>
vars    == <<lock, thread, process, ledger, server>>

-----------------------------------------------------------------------------
(* Types *)

\* Places in begin_run, start_run and execute_run.  From "reconcile" to
\* "release" the run has taken the lock and not yet given it up.
InStep   == {"decide", "check", "mark", "launch", "run", "reason", "settled"}
Critical == {"reconcile", "record", "register", "stranded", "head",
             "failing", "marking", "finish", "persist", "release"} \cup InStep
Places   == {"idle", "begin", "refused", "done", "dead"} \cup Critical

StepStatus == {"none", "pending", "running", "completed", "failed", "skipped",
               "blocked", "not_run", "abandoned"}
RunStatus  == {"none", "running", "completed", "failed", "abandoned"}

\* What made the run fail: nothing, a stop after or before the step was marked
\* running, or a failed provenance write.
Causes == {"none", "stopped", "prevented", "write"}

Progress == [plan : SUBSET Steps, ranPending : SUBSET Steps, signal : BOOLEAN,
             cause : Causes, failed : BOOLEAN]

TypeOK ==
    /\ lock \in Runs \cup {NoRun}
    /\ pc \in [Runs -> Places]
    /\ cur \in [Runs -> Steps \cup {N + 1}]
    /\ prog \in [Runs -> Progress]
    /\ child \in [Runs -> {"none", "running", "dying"}]
    /\ started \in [Runs -> SUBSET Steps]
    /\ run \in [Runs -> RunStatus]
    /\ row \in [Runs -> [Steps -> StepStatus]]
    /\ srv \in [Servers -> {"up", "stopping", "joining", "exited", "down"}]
    /\ active \in [Servers -> Runs \cup {NoRun}]
    /\ stop \in [Servers -> BOOLEAN]

Init ==
    /\ lock = NoRun
    /\ pc = [r \in Runs |-> "idle"]
    /\ cur = [r \in Runs |-> 1]
    /\ prog = [r \in Runs |-> [plan |-> {}, ranPending |-> {}, signal |-> FALSE,
                               cause |-> "none", failed |-> FALSE]]
    /\ child = [r \in Runs |-> "none"]
    /\ started = [r \in Runs |-> {}]
    /\ run = [r \in Runs |-> "none"]
    /\ row = [r \in Runs |-> [s \in Steps |-> "none"]]
    /\ srv = [a \in Servers |-> "up"]
    /\ active = [a \in Servers |-> NoRun]
    /\ stop = [a \in Servers |-> FALSE]

-----------------------------------------------------------------------------
(* Helpers *)

Goto(r, p) == pc' = [pc EXCEPT ![r] = p]

\* _stop_reason(): only an API process ever sets it.
Stopping(r) == r \in ApiRuns /\ stop[Home[r]]

\* _PIPELINE_KIND runs are incremental; a single-step kind never checks.
Incremental(r) == prog[r].plan = Steps

\* The stop and write-failure handlers of execute_run.
Fail(r, cause) ==
    /\ Goto(r, "failing")
    /\ prog' = [prog EXCEPT ![r].cause = cause, ![r].failed = TRUE]

\* _set: the state, then its row; a failed write stops the run.
SetStatus(r, status, next) ==
    \/ /\ row' = [row EXCEPT ![r][cur[r]] = status]
       /\ Goto(r, next)
       /\ UNCHANGED prog
    \/ /\ r \in FaultyRuns
       /\ Fail(r, "write")
       /\ UNCHANGED row

\* _try_set: best effort.
TrySetStatus(r, status) ==
    \/ row' = [row EXCEPT ![r][cur[r]] = status]
    \/ r \in FaultyRuns /\ UNCHANGED row

\* Mutant: a failed upstream blocks, a blocked one does not.
BlockedByFailureOnly(r) ==
    \E d \in DependsOn[cur[r]] \cap prog[r].plan : row[r][d] = "failed"

IsBlocked(r) ==
    \E d \in DependsOn[cur[r]] \cap prog[r].plan : row[r][d] \in {"failed", "blocked"}

PendingUpstream(r) == DependsOn[cur[r]] \cap prog[r].ranPending # {}

-----------------------------------------------------------------------------
(* begin_run *)

\* start_run's in-process guard: a second POST is refused while a run is active.
Post(r) ==
    /\ pc[r] = "idle" /\ r \in ApiRuns
    /\ srv[Home[r]] = "up"
    /\ Goto(r, IF active[Home[r]] = NoRun THEN "begin" ELSE "refused")
    /\ UNCHANGED <<lock, cur, prog, process, ledger, server>>

StartCli(r) ==
    /\ pc[r] = "idle" /\ r \in CliRuns
    /\ Goto(r, "begin")
    /\ UNCHANGED <<lock, cur, prog, process, ledger, server>>

\* The non-blocking flock.  Only the run that took it clears the stop flag.
AcquireLock(r) ==
    /\ pc[r] = "begin" /\ lock = NoRun
    /\ lock' = r
    /\ Goto(r, "reconcile")
    /\ stop' = IF r \in ApiRuns THEN [stop EXCEPT ![Home[r]] = FALSE] ELSE stop
    /\ UNCHANGED <<cur, prog, process, ledger, srv, active>>

RefusedByLock(r) ==
    /\ pc[r] = "begin" /\ lock # NoRun
    /\ Goto(r, "refused")
    /\ UNCHANGED <<lock, cur, prog, process, ledger, server>>

\* _STALE_RUNS_SQL: every run still 'running' is taken for dead.
StaleRuns == {q \in Runs : run[q] = "running"}

\* Mutant: the two literals are swapped between the tables.
ReconcileSwapped(r) ==
    /\ pc[r] = "reconcile"
    /\ Goto(r, "record")
    /\ run' = [q \in Runs |-> IF q \in StaleRuns THEN "not_run" ELSE run[q]]
    /\ UNCHANGED <<lock, cur, prog, process, row, server>>

\* reconcile_abandoned_runs, one transaction.
ReconcileAbandonedRuns(r) ==
    /\ pc[r] = "reconcile"
    /\ Goto(r, "record")
    /\ run' = [q \in Runs |-> IF q \in StaleRuns THEN "abandoned" ELSE run[q]]
    /\ row' = [q \in Runs |->
                 IF q \notin StaleRuns THEN row[q]
                 ELSE [s \in Steps |-> CASE row[q][s] = "running" -> "abandoned"
                                         [] row[q][s] = "pending" -> "not_run"
                                         [] OTHER -> row[q][s]]]
    /\ UNCHANGED <<lock, cur, prog, process, server>>

\* new_run: the run row and its step rows in one transaction.
InsertRun(r) ==
    /\ pc[r] = "record"
    /\ Goto(r, "register")
    /\ \E plan \in (IF r \in CliRuns THEN {Steps} ELSE Plans) :
         /\ prog' = [prog EXCEPT ![r].plan = plan]
         /\ row' = [row EXCEPT ![r] = [s \in Steps |-> IF s \in plan THEN "pending" ELSE "none"]]
         /\ \E first \in plan : /\ \A s \in plan : first <= s
                                /\ cur' = [cur EXCEPT ![r] = first]
    /\ run' = [run EXCEPT ![r] = "running"]
    /\ UNCHANGED <<lock, process, server>>

\* A failure after the lock is taken releases it before it propagates.
BeginFails(r) ==
    /\ pc[r] \in {"reconcile", "record"} /\ r \in FaultyRuns
    /\ lock' = NoRun
    /\ Goto(r, "done")
    /\ UNCHANGED <<cur, prog, process, ledger, server>>

\* start_run reserves the active slot, then starts the thread; thread.start()
\* itself may fail.  A CLI process goes on in its main thread.
Register(r) ==
    /\ pc[r] = "register"
    /\ active' = IF r \in ApiRuns THEN [active EXCEPT ![Home[r]] = r] ELSE active
    /\ \/ Goto(r, "head")
       \/ r \in ApiRuns \cap FaultyRuns /\ Goto(r, "stranded")
    /\ UNCHANGED <<lock, cur, prog, process, ledger, srv, stop>>

-----------------------------------------------------------------------------
(* execute_run: the loop and _execute_step *)

\* The stop check before each step.
Head(r) ==
    /\ pc[r] = "head"
    /\ IF Stopping(r) THEN Fail(r, "prevented")
                      ELSE Goto(r, "decide") /\ UNCHANGED prog
    /\ UNCHANGED <<lock, cur, process, ledger, server>>

Blocked(r) ==
    /\ pc[r] = "decide" /\ IsBlocked(r)
    /\ SetStatus(r, "blocked", "settled")
    /\ UNCHANGED <<lock, cur, process, run, server>>

\* The news database is looked for when the step is reached.
SkipMissingNews(r) ==
    /\ pc[r] = "decide" /\ ~IsBlocked(r) /\ cur[r] = NewsStep
    /\ SetStatus(r, "skipped", "settled")
    /\ UNCHANGED <<lock, cur, process, run, server>>

\* _decide without a check: a single step, a pending upstream, or always_run.
DecideToRun(r) ==
    /\ pc[r] = "decide" /\ ~IsBlocked(r)
    /\ \/ ~Incremental(r)
       \/ PendingUpstream(r)
       \/ cur[r] \in AlwaysRun \ Checked
    /\ prog' = [prog EXCEPT ![r].signal = Incremental(r) /\ PendingUpstream(r)]
    /\ Goto(r, "mark")
    /\ UNCHANGED <<lock, cur, process, ledger, server>>

\* _decide: no signal from upstream and no check of its own.
DecideToSkip(r) ==
    /\ pc[r] = "decide" /\ ~IsBlocked(r)
    /\ Incremental(r) /\ ~PendingUpstream(r)
    /\ cur[r] \notin Checked \cup AlwaysRun
    /\ SetStatus(r, "skipped", "settled")
    /\ UNCHANGED <<lock, cur, process, run, server>>

NeedsCheck(r) ==
    /\ pc[r] = "decide" /\ ~IsBlocked(r)
    /\ Incremental(r) /\ ~PendingUpstream(r)
    /\ cur[r] \in Checked

\* _set(started_at), then run_command spawns the check, unless a stop is set.
LaunchCheck(r) ==
    /\ NeedsCheck(r)
    /\ \/ /\ Stopping(r)
          /\ Fail(r, "prevented")
          /\ UNCHANGED child
       \/ /\ ~Stopping(r)
          /\ child' = [child EXCEPT ![r] = "running"]
          /\ Goto(r, "check")
          /\ UNCHANGED prog
       \/ /\ r \in FaultyRuns
          /\ Fail(r, "write")
          /\ UNCHANGED child
    /\ UNCHANGED <<lock, cur, started, ledger, server>>

\* A check that could not start, exited non-zero, printed no verdict or timed
\* out counts as pending.
CheckCannotStart(r) ==
    /\ NeedsCheck(r) /\ ~Stopping(r)
    /\ prog' = [prog EXCEPT ![r].signal = TRUE]
    /\ Goto(r, "mark")
    /\ UNCHANGED <<lock, cur, process, ledger, server>>

CheckTimesOut(r) ==
    /\ pc[r] = "check" /\ child[r] = "running"
    /\ child' = [child EXCEPT ![r] = "none"]
    /\ prog' = [prog EXCEPT ![r].signal = TRUE]
    /\ Goto(r, "mark")
    /\ UNCHANGED <<lock, cur, started, ledger, server>>

CheckSaysPending(r) ==
    /\ pc[r] = "check" /\ child[r] = "none" /\ ~Stopping(r)
    /\ prog' = [prog EXCEPT ![r].signal = TRUE]
    /\ Goto(r, "mark")
    /\ UNCHANGED <<lock, cur, process, ledger, server>>

CheckSaysNotPending(r) ==
    /\ pc[r] = "check" /\ child[r] = "none" /\ ~Stopping(r)
    /\ SetStatus(r, "skipped", "settled")
    /\ UNCHANGED <<lock, cur, process, run, server>>

\* run_command looks for a stop once the child has ended.
StoppedDuringChild(r) ==
    /\ pc[r] \in {"check", "run"} /\ child[r] = "none" /\ Stopping(r)
    /\ Fail(r, IF pc[r] = "check" THEN "prevented" ELSE "stopped")
    /\ UNCHANGED <<lock, cur, process, ledger, server>>

MarkRunning(r) ==
    /\ pc[r] = "mark"
    /\ SetStatus(r, "running", "launch")
    /\ UNCHANGED <<lock, cur, process, run, server>>

\* Mutant: the stop is not tested in the critical section that spawns.
LaunchUntested(r) ==
    /\ pc[r] = "launch"
    /\ child' = [child EXCEPT ![r] = "running"]
    /\ started' = [started EXCEPT ![r] = @ \cup {cur[r]}]
    /\ Goto(r, "run")
    /\ UNCHANGED <<lock, cur, prog, ledger, server>>

\* _spawn: the stop test, Popen and the registration, one critical section.
Launch(r) ==
    /\ pc[r] = "launch"
    /\ IF Stopping(r)
       THEN Fail(r, "stopped") /\ UNCHANGED process
       ELSE /\ child' = [child EXCEPT ![r] = "running"]
            /\ started' = [started EXCEPT ![r] = @ \cup {cur[r]}]
            /\ Goto(r, "run")
            /\ UNCHANGED prog
    /\ UNCHANGED <<lock, cur, ledger, server>>

\* Popen raises: the step is failed, the run goes on.
LaunchFails(r) ==
    /\ pc[r] = "launch" /\ ~Stopping(r)
    /\ SetStatus(r, "failed", "settled")
    /\ UNCHANGED <<lock, cur, process, run, server>>

\* _run_one after the child: exit code, run id, then the status.
StepReturns(r) ==
    /\ pc[r] = "run" /\ child[r] = "none" /\ ~Stopping(r)
    /\ \E status \in {"completed", "failed"} : SetStatus(r, status, "reason")
    /\ UNCHANGED <<lock, cur, process, run, server>>

\* Why no run id was captured, if there is a why: a write of its own, after the
\* status.  When it fails, so does the step whose outcome is on record already.
RecordReason(r) ==
    /\ pc[r] = "reason"
    /\ \/ Goto(r, "settled") /\ UNCHANGED prog
       \/ r \in FaultyRuns /\ Fail(r, "write")
    /\ UNCHANGED <<lock, cur, process, ledger, server>>

\* Mutant: cycle select's run is a pending signal like any other.
SignalsEvenAlwaysRun(r) == row[r][cur[r]] = "completed"

\* The step completed because it was pending.
RanPending(r) ==
    prog[r].signal /\ cur[r] \notin AlwaysRun /\ row[r][cur[r]] = "completed"

\* A failed step fails the run, which goes on.
RunFailed(r) == prog[r].failed \/ row[r][cur[r]] = "failed"

\* status_of, ran_pending and the failed flag, then the next iteration.
NextStep(r) ==
    /\ pc[r] = "settled"
    /\ LET s == cur[r]
       IN  /\ prog' = [prog EXCEPT ![r].ranPending = @ \cup {d \in {s} : RanPending(r)},
                                   ![r].signal = FALSE,
                                   ![r].failed = RunFailed(r)]
           /\ cur' = [cur EXCEPT ![r] = s + 1]
           /\ Goto(r, IF s + 1 \in prog[r].plan THEN "head" ELSE "finish")
    /\ UNCHANGED <<lock, process, ledger, server>>

-----------------------------------------------------------------------------
(* _fail_run and _finish_run *)

FailStep(r) ==
    /\ pc[r] = "failing"
    /\ TrySetStatus(r, IF prog[r].cause = "prevented" THEN "not_run" ELSE "failed")
    /\ cur' = [cur EXCEPT ![r] = @ + 1]
    /\ Goto(r, "marking")
    /\ UNCHANGED <<lock, prog, process, run, server>>

MarkNotRun(r) ==
    /\ pc[r] = "marking"
    /\ IF cur[r] \in prog[r].plan
       THEN /\ TrySetStatus(r, "not_run")
            /\ cur' = [cur EXCEPT ![r] = @ + 1]
            /\ UNCHANGED pc
       ELSE /\ Goto(r, "finish")
            /\ UNCHANGED <<cur, row>>
    /\ UNCHANGED <<lock, prog, process, run, server>>

\* Mutant: the lock is released before the run's row is written.
FinishReleasesFirst(r) ==
    /\ pc[r] = "finish"
    /\ active' = IF r \in ApiRuns /\ active[Home[r]] = r
                 THEN [active EXCEPT ![Home[r]] = NoRun] ELSE active
    /\ stop' = IF r \in ApiRuns THEN [stop EXCEPT ![Home[r]] = FALSE] ELSE stop
    /\ lock' = NoRun
    /\ Goto(r, "persist")
    /\ UNCHANGED <<cur, prog, process, ledger, srv>>

\* Under _LOCK: the final status in memory, the active slot and the stop flag.
FinishRun(r) ==
    /\ pc[r] = "finish"
    /\ active' = IF r \in ApiRuns /\ active[Home[r]] = r
                 THEN [active EXCEPT ![Home[r]] = NoRun] ELSE active
    /\ stop' = IF r \in ApiRuns THEN [stop EXCEPT ![Home[r]] = FALSE] ELSE stop
    /\ Goto(r, "persist")
    /\ UNCHANGED <<lock, cur, prog, process, ledger, srv>>

\* _persist_run, best effort.
PersistRun(r) ==
    /\ pc[r] = "persist"
    /\ \/ run' = [run EXCEPT ![r] = IF prog[r].failed THEN "failed" ELSE "completed"]
       \/ r \in FaultyRuns /\ UNCHANGED run
    /\ Goto(r, "release")
    /\ UNCHANGED <<lock, cur, prog, process, row, server>>

\* _release_lock: LOCK_UN frees the flock for every holder of the open file.
ReleaseLock(r) ==
    /\ pc[r] = "release"
    /\ lock' = NoRun
    /\ Goto(r, "done")
    /\ UNCHANGED <<cur, prog, process, ledger, server>>

-----------------------------------------------------------------------------
(* Children, crashes and restarts *)

\* Mutant: the lock is the file, which no exit removes.
ChildExitsHoldingLock(r) ==
    /\ child[r] # "none"
    /\ child' = [child EXCEPT ![r] = "none"]
    /\ UNCHANGED <<lock, thread, started, ledger, server>>

\* A child exits by itself, or is gone after a kill.  Its copy of the lock's
\* descriptor was the last one when its parent is dead.
ChildExits(r) ==
    /\ child[r] # "none"
    /\ child' = [child EXCEPT ![r] = "none"]
    /\ lock' = IF pc[r] = "dead" /\ lock = r THEN NoRun ELSE lock
    /\ UNCHANGED <<thread, started, ledger, server>>

\* Mutant: the lock's descriptor is not passed to the children.
DescriptorNotInherited(dying) == FALSE

\* pass_fds: the flock stays with a child that inherited its descriptor.
LockSurvives(dying) == lock \in dying /\ child[lock] # "none"

\* The end of a process: its threads stop where they are.
EndProcess(dying) ==
    /\ pc' = [r \in Runs |-> IF r \in dying THEN "dead" ELSE pc[r]]
    /\ lock' = IF lock \in dying /\ ~LockSurvives(dying) THEN NoRun ELSE lock
    /\ UNCHANGED <<cur, prog, process, ledger>>

\* The runs whose code is in the API process a.
ThreadsOf(a) == {r \in ApiRuns : Home[r] = a /\ pc[r] \in Critical \cup {"begin"}}

CrashCli(r) ==
    /\ r \in CliRuns /\ pc[r] \in Critical \cup {"begin"}
    /\ EndProcess({r})
    /\ UNCHANGED server

CrashServer(a) ==
    /\ srv[a] \in {"up", "stopping", "joining"}
    /\ srv' = [srv EXCEPT ![a] = "down"]
    /\ EndProcess(ThreadsOf(a))
    /\ UNCHANGED <<active, stop>>

RestartServer(a) ==
    /\ srv[a] \in {"exited", "down"}
    /\ srv' = [srv EXCEPT ![a] = "up"]
    /\ active' = [active EXCEPT ![a] = NoRun]
    /\ stop' = [stop EXCEPT ![a] = FALSE]
    /\ UNCHANGED <<lock, thread, process, ledger>>

-----------------------------------------------------------------------------
(* The graceful stop of an API process: shutdown_active_run *)

\* uvicorn runs the lifespan's shutdown once no request is in flight.
RequestsDrained(a) ==
    \A r \in ApiRuns : Home[r] = a => pc[r] \notin {"begin", "reconcile", "record", "register"}

\* Nothing active: the process exits, and its daemon threads with it.
ShutdownIdle(a) ==
    /\ srv[a] = "up" /\ RequestsDrained(a) /\ active[a] = NoRun
    /\ srv' = [srv EXCEPT ![a] = "exited"]
    /\ EndProcess(ThreadsOf(a))
    /\ UNCHANGED <<active, stop>>

ShutdownActive(a) ==
    /\ srv[a] = "up" /\ RequestsDrained(a) /\ active[a] # NoRun
    /\ srv' = [srv EXCEPT ![a] = "stopping"]
    /\ UNCHANGED <<lock, thread, process, ledger, active, stop>>

\* Mutant: the reason is set, the child is not killed.
RequestStopWithoutKill(a) ==
    /\ srv[a] = "stopping"
    /\ srv' = [srv EXCEPT ![a] = "joining"]
    /\ stop' = [stop EXCEPT ![a] = TRUE]
    /\ UNCHANGED <<lock, thread, process, ledger, active>>

\* request_stop: the reason and the kill, in one critical section.
RequestStop(a) ==
    /\ srv[a] = "stopping"
    /\ srv' = [srv EXCEPT ![a] = "joining"]
    /\ stop' = [stop EXCEPT ![a] = TRUE]
    /\ child' = [r \in Runs |-> IF /\ r \in ApiRuns /\ Home[r] = a
                                   /\ pc[r] \in {"check", "run"} /\ child[r] = "running"
                                THEN "dying" ELSE child[r]]
    /\ UNCHANGED <<lock, thread, started, ledger, active>>

\* The thread has ended, so has every run of the process.
JoinReturns(a) ==
    /\ srv[a] = "joining" /\ ThreadsOf(a) = {}
    /\ srv' = [srv EXCEPT ![a] = "exited"]
    /\ UNCHANGED <<lock, thread, process, ledger, active, stop>>

\* join(10.0) gives up, or the thread was never started.
JoinTimesOut(a) ==
    /\ srv[a] = "joining" /\ ThreadsOf(a) # {}
    /\ srv' = [srv EXCEPT ![a] = "down"]
    /\ EndProcess(ThreadsOf(a))
    /\ UNCHANGED <<active, stop>>

-----------------------------------------------------------------------------
(* SIGTERM to a CLI process: _on_sigterm raises RunStopped in the main      *)
(* thread, wherever it is.                                                  *)

\* Outside execute_run: nothing is recorded; the process exits.
SigtermOutsideRun(r) ==
    /\ r \in SigtermRuns /\ pc[r] \in {"begin", "reconcile", "record", "register"}
    /\ Goto(r, "done")
    /\ lock' = IF lock = r THEN NoRun ELSE lock
    /\ UNCHANGED <<cur, prog, process, ledger, server>>

\* In the loop but outside the inner try: only the finally clause runs.
SigtermBetweenSteps(r) ==
    /\ r \in SigtermRuns /\ pc[r] = "head"
    /\ Goto(r, "finish")
    /\ UNCHANGED <<lock, cur, prog, process, ledger, server>>

\* In the inner try: the handler asks whether the step is 'running'.
StopCause(r) == IF row[r][cur[r]] = "running" THEN "stopped" ELSE "prevented"

SigtermInStep(r) ==
    /\ r \in SigtermRuns /\ pc[r] \in InStep
    /\ Fail(r, StopCause(r))
    /\ child' = [child EXCEPT ![r] = IF @ = "running" THEN "dying" ELSE @]
    /\ UNCHANGED <<lock, cur, started, ledger, server>>

\* Between the fork and `proc = _spawn()`: nobody holds the child to kill it.
SigtermInSpawn(r) ==
    /\ r \in SigtermRuns
    /\ \/ /\ NeedsCheck(r)
          /\ UNCHANGED started
       \/ /\ pc[r] = "launch"
          /\ started' = [started EXCEPT ![r] = @ \cup {cur[r]}]
    /\ Fail(r, StopCause(r))
    /\ child' = [child EXCEPT ![r] = "running"]
    /\ UNCHANGED <<lock, cur, ledger, server>>

\* In the handler: the rest of _fail_run is lost, the finally clause runs.
SigtermInFailRun(r) ==
    /\ r \in SigtermRuns /\ pc[r] \in {"failing", "marking"}
    /\ Goto(r, "finish")
    /\ UNCHANGED <<lock, cur, prog, process, ledger, server>>

\* In _finish_run: cli_main's finally still releases the lock.
SigtermInFinishRun(r) ==
    /\ r \in SigtermRuns /\ pc[r] \in {"finish", "persist"}
    /\ Goto(r, "release")
    /\ UNCHANGED <<lock, cur, prog, process, ledger, server>>

-----------------------------------------------------------------------------
BeginRun(r) ==
    \/ Post(r) \/ StartCli(r) \/ AcquireLock(r) \/ RefusedByLock(r)
    \/ ReconcileAbandonedRuns(r) \/ InsertRun(r) \/ BeginFails(r) \/ Register(r)

ExecuteStep(r) ==
    \/ Head(r) \/ Blocked(r) \/ SkipMissingNews(r)
    \/ DecideToRun(r) \/ DecideToSkip(r)
    \/ LaunchCheck(r) \/ CheckCannotStart(r) \/ CheckTimesOut(r)
    \/ CheckSaysPending(r) \/ CheckSaysNotPending(r) \/ StoppedDuringChild(r)
    \/ MarkRunning(r) \/ Launch(r) \/ LaunchFails(r) \/ StepReturns(r)
    \/ RecordReason(r) \/ NextStep(r)

EndRun(r) ==
    \/ FailStep(r) \/ MarkNotRun(r) \/ FinishRun(r) \/ PersistRun(r) \/ ReleaseLock(r)

Sigterm(r) ==
    \/ SigtermOutsideRun(r) \/ SigtermBetweenSteps(r) \/ SigtermInStep(r)
    \/ SigtermInSpawn(r) \/ SigtermInFailRun(r) \/ SigtermInFinishRun(r)

Process(a) ==
    \/ CrashServer(a) \/ RestartServer(a)
    \/ ShutdownIdle(a) \/ ShutdownActive(a) \/ RequestStop(a)
    \/ JoinReturns(a) \/ JoinTimesOut(a)

Next ==
    \/ \E r \in Runs : \/ BeginRun(r) \/ ExecuteStep(r) \/ EndRun(r)
                       \/ ChildExits(r) \/ CrashCli(r) \/ Sigterm(r)
    \/ \E a \in Servers : Process(a)

Spec == Init /\ [][Next]_vars

-----------------------------------------------------------------------------
(* Properties *)

\* A run that can still write the shared database: its code is past the lock,
\* or a child of it has not been killed.
Live(r) == pc[r] \in Critical \/ child[r] = "running"

\* A child that outlived a run which released the lock itself.
Leaked(r) == pc[r] = "done" /\ child[r] = "running"

\* The lock protects every live run, an orphaned child of a dead process
\* included; the one exception is a child leaked past an explicit release.
LockProtects == \A r \in Runs : Live(r) /\ ~Leaked(r) => lock = r

\* "a step orphaned by a kill -9 still holds it until it exits": never two live
\* runs on one database.
OneLiveRun == \A r, q \in Runs : Live(r) /\ Live(q) => r = q

\* "blocked = an upstream failed": a step that started, or that was skipped as
\* not pending, had every direct upstream of its plan completed or skipped, and
\* no later write of the run changes that; blocking is transitive.
SoundUpstream ==
    \A r \in Runs : \A s \in Steps :
        s \in started[r] \/ row[r][s] = "skipped" =>
            \A d \in DependsOn[s] \cap prog[r].plan : row[r][d] \in {"completed", "skipped"}

\* The pending signal reaches exactly the steps downstream of a step that ran
\* on it: a step without a check of its own ran if, and only if, one of its
\* direct upstreams completed on a pending signal (cycle select never does).
PendingPropagates ==
    \A r \in Runs : Incremental(r) =>
        \A s \in Steps \ (Checked \cup AlwaysRun \cup {NewsStep}) :
            row[r][s] \in {"completed", "skipped"} =>
               (row[r][s] = "completed" <=>
                   \E d \in DependsOn[s] \ AlwaysRun : row[r][d] = "completed")

\* Once request_stop has returned, and as long as shutdown_active_run waits for
\* the runner, no run of the server has a child but a killed one: the stop test
\* and the spawn cannot be told apart.
StopLeavesNoChild ==
    \A r \in ApiRuns :
        srv[Home[r]] = "joining" /\ pc[r] # "dead" => child[r] # "running"

-----------------------------------------------------------------------------
(* Refinement *)

\* The live runs own the database, the tables are the tables.
Ledger == INSTANCE RunLedger WITH owner <- {r \in Runs : Live(r)}

\* The lock, the reconciliation and the runner together keep the promise of
\* RunLedger, through crashes, refused runs, stops and failed writes: what a step
\* came to stays, but for 'completed' revoked by the write that follows it.
ImplementsRunLedger == Ledger!Spec

-----------------------------------------------------------------------------
(* Fairness.  The runner's thread and a signalled child make progress; no    *)
(* step is assumed to end by itself, as the code gives steps no timeout.     *)

RunnerFairness ==
    \A r \in Runs : /\ WF_vars(AcquireLock(r) \/ ReconcileAbandonedRuns(r)
                                  \/ InsertRun(r) \/ Register(r))
                    /\ WF_vars(ExecuteStep(r))
                    /\ WF_vars(EndRun(r))
                    /\ WF_vars(child[r] = "dying" /\ ChildExits(r))

StopSpec == Spec /\ RunnerFairness /\ \A a \in Servers : WF_vars(RequestStop(a))

\* A stop ends the run it was asked for, without waiting for the step to end by
\* itself: the run's row is closed, unless the process dies first.  A run whose
\* final write fails, or whose thread never started, cannot keep this.
StopEndsRun ==
    \A a \in Servers : \A r \in ApiRuns \ FaultyRuns :
        (srv[a] = "joining" /\ active[a] = r) ~>
            (run[r] \in {"completed", "failed"} \/ srv[a] = "down")

\* Whatever ends the run, failed writes included, the lock is held for ever
\* only by a child that runs for ever, or by the process whose thread.start()
\* failed.
LockIsFreed ==
    \A r \in Runs :
        \/ <>[](child[r] = "running" \/ pc[r] = "stranded")
        \/ (lock = r ~> lock # r)
=============================================================================

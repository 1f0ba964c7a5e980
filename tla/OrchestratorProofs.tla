------------------------- MODULE OrchestratorProofs -------------------------
(***************************************************************************)
(* Proofs about Orchestrator for every pipeline, every number of runs and  *)
(* servers, every set of faulty runs and of runs that may be signalled.    *)
(*                                                                         *)
(* TypeOK is not inductive: the loop adds one to its index, so the index   *)
(* must be known to lie in the plan wherever the loop may do so.  The      *)
(* inductive invariant is TypeOK with that fact, and LockProtects is       *)
(* inductive once the types are known.                                     *)
(*                                                                         *)
(* The refinement of RunLedger, the stop of a server and the two pipeline  *)
(* properties each need an invariant of their own, which says what the     *)
(* rows and the loop's locals are at each place of the code.               *)
(***************************************************************************)
EXTENDS Orchestrator, TLAPS

\* Where the loop's index points at a step of the plan.
LoopPlaces == InStep \cup {"register", "stranded", "head", "failing"}

CursorInPlan == \A r \in Runs : pc[r] \in LoopPlaces => cur[r] \in prog[r].plan

TypeInv == TypeOK /\ CursorInPlan

-----------------------------------------------------------------------------
(* The helpers the actions are built from                                   *)

\* The three updates of a run's locals stay in Progress and keep the plan.
LEMMA ProgressSettled ==
    ASSUME NEW p \in Progress, NEW ran \in SUBSET Steps,
           NEW signal \in BOOLEAN, NEW failed \in BOOLEAN
    PROVE  /\ [p EXCEPT !.ranPending = ran, !.signal = signal, !.failed = failed]
                 \in Progress
           /\ [p EXCEPT !.ranPending = ran, !.signal = signal, !.failed = failed].plan
                 = p.plan
  BY DEF Progress

LEMMA ProgressFailed ==
    ASSUME NEW p \in Progress, NEW cause \in Causes
    PROVE  /\ [p EXCEPT !.cause = cause, !.failed = TRUE] \in Progress
           /\ [p EXCEPT !.cause = cause, !.failed = TRUE].plan = p.plan
  BY DEF Progress

LEMMA ProgressSignalled ==
    ASSUME NEW p \in Progress, NEW signal \in BOOLEAN
    PROVE  /\ [p EXCEPT !.signal = signal] \in Progress
           /\ [p EXCEPT !.signal = signal].plan = p.plan
  BY DEF Progress

\* What the two failure handlers do to the run's place and locals.
LEMMA FailEffect ==
    ASSUME TypeOK, NEW r \in Runs, NEW cause \in Causes, Fail(r, cause)
    PROVE  /\ pc' = [pc EXCEPT ![r] = "failing"]
           /\ pc' \in [Runs -> Places]
           /\ prog' \in [Runs -> Progress]
           /\ \A q \in Runs : prog'[q].plan = prog[q].plan
<1>1. prog' = [prog EXCEPT ![r] = [prog[r] EXCEPT !.cause = cause, !.failed = TRUE]]
  BY DEF Fail, Progress
<1>2. /\ prog[r] \in Progress
      /\ [prog[r] EXCEPT !.cause = cause, !.failed = TRUE] \in Progress
      /\ [prog[r] EXCEPT !.cause = cause, !.failed = TRUE].plan = prog[r].plan
  BY ProgressFailed DEF TypeOK
<1>3. /\ prog' \in [Runs -> Progress]
      /\ \A q \in Runs : prog'[q].plan = prog[q].plan
  BY <1>1, <1>2 DEF TypeOK
<1> QED
  BY <1>3 DEF Fail, Goto, TypeOK, Places, Critical

\* A status write succeeds and goes on, or fails and stops the run.
LEMMA SetStatusEffect ==
    ASSUME TypeOK, NEW r \in Runs, NEW status \in StepStatus, NEW next \in Places,
           SetStatus(r, status, next)
    PROVE  /\ \E p \in {next, "failing"} : pc' = [pc EXCEPT ![r] = p]
           /\ pc' \in [Runs -> Places]
           /\ prog' \in [Runs -> Progress]
           /\ \A q \in Runs : prog'[q].plan = prog[q].plan
           /\ row' \in [Runs -> [Steps -> StepStatus]]
<1>1. CASE Fail(r, "write") /\ UNCHANGED row
  BY <1>1, FailEffect DEF TypeOK, Causes
<1>2. CASE /\ row' = [row EXCEPT ![r][cur[r]] = status]
           /\ Goto(r, next) /\ UNCHANGED prog
  BY <1>2 DEF TypeOK, Goto
<1> QED
  BY <1>1, <1>2 DEF SetStatus

\* Deciding to run only sets the signal.
LEMMA SignalEffect ==
    ASSUME TypeOK, NEW r \in Runs, NEW signal \in BOOLEAN,
           prog' = [prog EXCEPT ![r].signal = signal]
    PROVE  /\ prog' \in [Runs -> Progress]
           /\ \A q \in Runs : prog'[q].plan = prog[q].plan
<1>1. prog' = [prog EXCEPT ![r] = [prog[r] EXCEPT !.signal = signal]]
  BY DEF Progress
<1>2. /\ prog[r] \in Progress
      /\ [prog[r] EXCEPT !.signal = signal] \in Progress
      /\ [prog[r] EXCEPT !.signal = signal].plan = prog[r].plan
  BY ProgressSignalled DEF TypeOK
<1> QED
  BY <1>1, <1>2 DEF TypeOK

-----------------------------------------------------------------------------
(* Type correctness                                                         *)

LEMMA TypeInit == Init => TypeInv
  BY PipelineAssumption DEF Init, TypeInv, TypeOK, CursorInPlan, Places, Critical, InStep,
     LoopPlaces, Progress, Causes, RunStatus, StepStatus, Steps

LEMMA TypeSimple ==
    ASSUME TypeInv, NEW r \in Runs,
           Post(r) \/ StartCli(r) \/ AcquireLock(r) \/ RefusedByLock(r) \/ BeginFails(r) \/ Register(r) \/ FinishRun(r) \/ PersistRun(r) \/ ReleaseLock(r) \/ ChildExits(r) \/ SigtermOutsideRun(r) \/ SigtermBetweenSteps(r) \/ SigtermInFailRun(r) \/ SigtermInFinishRun(r)
    PROVE  TypeInv'
<1>1. CASE Post(r)
  BY <1>1
  DEF Post, Goto, TypeInv, TypeOK, CursorInPlan, Places, Critical, InStep, LoopPlaces, thread, process, ledger, server
<1>2. CASE StartCli(r)
  BY <1>2
  DEF StartCli, Goto, TypeInv, TypeOK, CursorInPlan, Places, Critical, InStep, LoopPlaces, thread, process, ledger, server
<1>3. CASE AcquireLock(r)
  BY <1>3, RunsAssumption
  DEF AcquireLock, Goto, TypeInv, TypeOK, CursorInPlan, Places, Critical, InStep, LoopPlaces, thread, process, ledger, server
<1>4. CASE RefusedByLock(r)
  BY <1>4
  DEF RefusedByLock, Goto, TypeInv, TypeOK, CursorInPlan, Places, Critical, InStep, LoopPlaces, thread, process, ledger, server
<1>5. CASE BeginFails(r)
  BY <1>5
  DEF BeginFails, Goto, TypeInv, TypeOK, CursorInPlan, Places, Critical, InStep, LoopPlaces, thread, process, ledger, server
<1>6. CASE Register(r)
  BY <1>6, RunsAssumption
  DEF Register, Goto, TypeInv, TypeOK, CursorInPlan, Places, Critical, InStep, LoopPlaces, thread, process, ledger, server
<1>7. CASE FinishRun(r)
  BY <1>7, RunsAssumption
  DEF FinishRun, Goto, TypeInv, TypeOK, CursorInPlan, Places, Critical, InStep, LoopPlaces, thread, process, ledger, server
<1>8. CASE PersistRun(r)
  BY <1>8
  DEF PersistRun, RunStatus, Goto, TypeInv, TypeOK, CursorInPlan, Places, Critical, InStep, LoopPlaces, thread, process, ledger, server
<1>9. CASE ReleaseLock(r)
  BY <1>9
  DEF ReleaseLock, Goto, TypeInv, TypeOK, CursorInPlan, Places, Critical, InStep, LoopPlaces, thread, process, ledger, server
<1>10. CASE ChildExits(r)
  BY <1>10
  DEF ChildExits, Goto, TypeInv, TypeOK, CursorInPlan, Places, Critical, InStep, LoopPlaces, thread, process, ledger, server
<1>11. CASE SigtermOutsideRun(r)
  BY <1>11
  DEF SigtermOutsideRun, Goto, TypeInv, TypeOK, CursorInPlan, Places, Critical, InStep, LoopPlaces, thread, process, ledger, server
<1>12. CASE SigtermBetweenSteps(r)
  BY <1>12
  DEF SigtermBetweenSteps, Goto, TypeInv, TypeOK, CursorInPlan, Places, Critical, InStep, LoopPlaces, thread, process, ledger, server
<1>13. CASE SigtermInFailRun(r)
  BY <1>13
  DEF SigtermInFailRun, Goto, TypeInv, TypeOK, CursorInPlan, Places, Critical, InStep, LoopPlaces, thread, process, ledger, server
<1>14. CASE SigtermInFinishRun(r)
  BY <1>14
  DEF SigtermInFinishRun, Goto, TypeInv, TypeOK, CursorInPlan, Places, Critical, InStep, LoopPlaces, thread, process, ledger, server
<1> QED
  BY <1>1, <1>2, <1>3, <1>4, <1>5, <1>6, <1>7, <1>8, <1>9, <1>10, <1>11, <1>12, <1>13, <1>14

\* An action that writes the current step's status and nothing else.
LEMMA TypeSetStatus ==
    ASSUME TypeInv, NEW r \in Runs, pc[r] \in InStep,
           NEW status \in StepStatus, NEW next \in InStep,
           SetStatus(r, status, next), UNCHANGED <<lock, cur, process, run, server>>
    PROVE  TypeInv'
<1>1. /\ \E p \in {next, "failing"} : pc' = [pc EXCEPT ![r] = p]
      /\ pc' \in [Runs -> Places]
      /\ prog' \in [Runs -> Progress]
      /\ \A q \in Runs : prog'[q].plan = prog[q].plan
      /\ row' \in [Runs -> [Steps -> StepStatus]]
  BY SetStatusEffect DEF TypeInv, Places, Critical
<1>2. TypeOK'
  BY <1>1 DEF TypeInv, TypeOK, process, server
<1>3. CursorInPlan'
  BY <1>1 DEF TypeInv, TypeOK, CursorInPlan, LoopPlaces
<1> QED
  BY <1>2, <1>3 DEF TypeInv

LEMMA TypeStatusWrites ==
    ASSUME TypeInv, NEW r \in Runs,
           \/ Blocked(r) \/ SkipMissingNews(r) \/ DecideToSkip(r)
           \/ CheckSaysNotPending(r) \/ MarkRunning(r) \/ LaunchFails(r) \/ StepReturns(r)
    PROVE  TypeInv'
<1>1. CASE Blocked(r)
  <2>1. /\ SetStatus(r, "blocked", "settled") /\ pc[r] \in InStep
        /\ UNCHANGED <<lock, cur, process, run, server>>
    BY <1>1 DEF Blocked, InStep
  <2> QED
    BY <2>1, TypeSetStatus DEF StepStatus, InStep
<1>2. CASE SkipMissingNews(r)
  <2>1. /\ SetStatus(r, "skipped", "settled") /\ pc[r] \in InStep
        /\ UNCHANGED <<lock, cur, process, run, server>>
    BY <1>2 DEF SkipMissingNews, InStep
  <2> QED
    BY <2>1, TypeSetStatus DEF StepStatus, InStep
<1>3. CASE DecideToSkip(r)
  <2>1. /\ SetStatus(r, "skipped", "settled") /\ pc[r] \in InStep
        /\ UNCHANGED <<lock, cur, process, run, server>>
    BY <1>3 DEF DecideToSkip, InStep
  <2> QED
    BY <2>1, TypeSetStatus DEF StepStatus, InStep
<1>4. CASE CheckSaysNotPending(r)
  <2>1. /\ SetStatus(r, "skipped", "settled") /\ pc[r] \in InStep
        /\ UNCHANGED <<lock, cur, process, run, server>>
    BY <1>4 DEF CheckSaysNotPending, InStep
  <2> QED
    BY <2>1, TypeSetStatus DEF StepStatus, InStep
<1>5. CASE MarkRunning(r)
  <2>1. /\ SetStatus(r, "running", "launch") /\ pc[r] \in InStep
        /\ UNCHANGED <<lock, cur, process, run, server>>
    BY <1>5 DEF MarkRunning, InStep
  <2> QED
    BY <2>1, TypeSetStatus DEF StepStatus, InStep
<1>6. CASE LaunchFails(r)
  <2>1. /\ SetStatus(r, "failed", "settled") /\ pc[r] \in InStep
        /\ UNCHANGED <<lock, cur, process, run, server>>
    BY <1>6 DEF LaunchFails, InStep
  <2> QED
    BY <2>1, TypeSetStatus DEF StepStatus, InStep
<1>7. CASE StepReturns(r)
  <2>1. PICK status \in {"completed", "failed"} : SetStatus(r, status, "reason")
    BY <1>7 DEF StepReturns
  <2>2. pc[r] \in InStep /\ UNCHANGED <<lock, cur, process, run, server>>
    BY <1>7 DEF StepReturns, InStep
  <2> QED
    BY <2>1, <2>2, TypeSetStatus DEF StepStatus, InStep
<1> QED
  BY <1>1, <1>2, <1>3, <1>4, <1>5, <1>6, <1>7

LEMMA TypeDecisions ==
    ASSUME TypeInv, NEW r \in Runs,
           \/ DecideToRun(r) \/ CheckCannotStart(r) \/ CheckTimesOut(r) \/ CheckSaysPending(r)
    PROVE  TypeInv'
<1>1. \E signal \in BOOLEAN : prog' = [prog EXCEPT ![r].signal = signal]
  BY DEF DecideToRun, CheckCannotStart, CheckTimesOut, CheckSaysPending, Incremental,
         PendingUpstream
<1>2. /\ prog' \in [Runs -> Progress]
      /\ \A q \in Runs : prog'[q].plan = prog[q].plan
  BY <1>1, SignalEffect DEF TypeInv
<1>3. pc[r] \in LoopPlaces /\ pc' = [pc EXCEPT ![r] = "mark"]
  BY DEF DecideToRun, CheckCannotStart, CheckTimesOut, CheckSaysPending, NeedsCheck, Goto,
         LoopPlaces, InStep
<1>4. /\ child' \in [Runs -> {"none", "running", "dying"}]
      /\ UNCHANGED <<lock, cur, started, ledger, server>>
  BY DEF DecideToRun, CheckCannotStart, CheckTimesOut, CheckSaysPending, process,
         TypeInv, TypeOK
<1>5. TypeOK'
  BY <1>2, <1>3, <1>4 DEF TypeInv, TypeOK, Places, Critical, InStep, ledger, server
<1>6. CursorInPlan'
  BY <1>2, <1>3, <1>4 DEF TypeInv, TypeOK, CursorInPlan
<1> QED
  BY <1>5, <1>6 DEF TypeInv

\* Going to "failing" from inside the loop, whatever it does to the child.
LEMMA TypeFail ==
    ASSUME TypeInv, NEW r \in Runs, pc[r] \in LoopPlaces, NEW cause \in Causes,
           Fail(r, cause),
           child' \in [Runs -> {"none", "running", "dying"}],
           started' \in [Runs -> SUBSET Steps],
           UNCHANGED <<lock, cur, ledger, server>>
    PROVE  TypeInv'
<1>1. /\ pc' = [pc EXCEPT ![r] = "failing"]
      /\ pc' \in [Runs -> Places]
      /\ prog' \in [Runs -> Progress]
      /\ \A q \in Runs : prog'[q].plan = prog[q].plan
  BY FailEffect DEF TypeInv
<1>2. TypeOK'
  BY <1>1 DEF TypeInv, TypeOK, ledger, server
<1>3. CursorInPlan'
  BY <1>1 DEF TypeInv, TypeOK, CursorInPlan
<1> QED
  BY <1>2, <1>3 DEF TypeInv

\* A step of the plan is a step of the pipeline.
LEMMA CursorInSteps ==
    ASSUME TypeInv, NEW r \in Runs, pc[r] \in LoopPlaces
    PROVE  cur[r] \in Steps
  BY DEF TypeInv, TypeOK, CursorInPlan, Progress

LEMMA TypeStops ==
    ASSUME TypeInv, NEW r \in Runs,
           \/ Head(r) \/ LaunchCheck(r) \/ StoppedDuringChild(r) \/ Launch(r)
           \/ RecordReason(r) \/ SigtermInStep(r) \/ SigtermInSpawn(r)
    PROVE  TypeInv'
<1> DEFINE Stays == /\ pc' \in [Runs -> Places] /\ pc[r] \in LoopPlaces
                    /\ \A q \in Runs : q # r => pc'[q] = pc[q]
                    /\ UNCHANGED prog
<1>1. /\ child' \in [Runs -> {"none", "running", "dying"}]
      /\ UNCHANGED <<lock, cur, ledger, server>>
  BY DEF Head, LaunchCheck, StoppedDuringChild, Launch, RecordReason, SigtermInStep,
         SigtermInSpawn,
         TypeInv, TypeOK, process
<1>2. pc[r] \in LoopPlaces
  BY DEF Head, LaunchCheck, StoppedDuringChild, Launch, RecordReason, SigtermInStep,
         SigtermInSpawn,
         NeedsCheck, LoopPlaces, InStep
<1>3. started' \in [Runs -> SUBSET Steps]
  <2>1. started' = started \/ started' = [started EXCEPT ![r] = @ \cup {cur[r]}]
    BY DEF Head, LaunchCheck, StoppedDuringChild, Launch, RecordReason, SigtermInStep,
         SigtermInSpawn,
           process
  <2>2. started[r] \cup {cur[r]} \in SUBSET Steps
    BY <1>2, CursorInSteps DEF TypeInv, TypeOK
  <2> QED
    BY <2>1, <2>2 DEF TypeInv, TypeOK
<1>4. (\E cause \in Causes : Fail(r, cause)) \/ Stays
  <2>1. \/ \E cause \in Causes : Fail(r, cause)
        \/ /\ Goto(r, "decide") \/ Goto(r, "check") \/ Goto(r, "run") \/ Goto(r, "settled")
           /\ UNCHANGED prog
    BY DEF Head, LaunchCheck, StoppedDuringChild, Launch, RecordReason, SigtermInStep,
         SigtermInSpawn,
           StopCause, Causes
  <2> QED
    BY <2>1, <1>2 DEF Goto, TypeInv, TypeOK, Places, Critical, InStep
<1>5. CASE \E cause \in Causes : Fail(r, cause)
  BY <1>1, <1>2, <1>3, <1>5, TypeFail
<1>6. CASE Stays
  BY <1>1, <1>2, <1>3, <1>6 DEF TypeInv, TypeOK, CursorInPlan, ledger, server
<1> QED
  BY <1>4, <1>5, <1>6

\* The loop and the failure path advance the index by one.
LEMMA TypeNextStep ==
    ASSUME TypeInv, NEW r \in Runs, NextStep(r)
    PROVE  TypeInv'
<1> DEFINE ran == prog[r].ranPending \cup {d \in {cur[r]} : RanPending(r)}
           failed == prog[r].failed \/ row[r][cur[r]] = "failed"
<1>1. cur[r] \in Steps
  BY CursorInSteps DEF NextStep, LoopPlaces, InStep
<1>2. prog' = [prog EXCEPT ![r] = [prog[r] EXCEPT !.ranPending = ran, !.signal = FALSE,
                                                  !.failed = failed]]
  BY DEF NextStep, RunFailed, TypeInv, TypeOK, Progress
<1>3. prog[r] \in Progress /\ ran \in SUBSET Steps /\ failed \in BOOLEAN
  BY <1>1 DEF TypeInv, TypeOK, Progress
<1> HIDE DEF ran, failed
<1> DEFINE after == [prog[r] EXCEPT !.ranPending = ran, !.signal = FALSE, !.failed = failed]
<1>4. /\ prog' \in [Runs -> Progress]
      /\ \A q \in Runs : prog'[q].plan = prog[q].plan
  <2>1. after \in Progress /\ after.plan = prog[r].plan
    BY <1>3, ProgressSettled
  <2>2. prog' = [prog EXCEPT ![r] = after]
    BY <1>2
  <2> HIDE DEF after
  <2> QED
    BY <2>1, <2>2 DEF TypeInv, TypeOK
<1>5. cur' = [cur EXCEPT ![r] = cur[r] + 1] /\ cur' \in [Runs -> Steps \cup {N + 1}]
  BY <1>1, PipelineAssumption DEF NextStep, TypeInv, TypeOK, Steps
<1>6. /\ pc' = [pc EXCEPT ![r] = IF cur[r] + 1 \in prog[r].plan THEN "head" ELSE "finish"]
      /\ UNCHANGED <<lock, process, ledger, server>>
  BY DEF NextStep, Goto
<1>7. TypeOK'
  BY <1>4, <1>5, <1>6 DEF TypeInv, TypeOK, Places, Critical, process, ledger, server
<1>8. CursorInPlan'
  BY <1>4, <1>5, <1>6 DEF TypeInv, TypeOK, CursorInPlan, LoopPlaces, InStep
<1> QED
  BY <1>7, <1>8 DEF TypeInv

LEMMA TypeFailRun ==
    ASSUME TypeInv, NEW r \in Runs, FailStep(r) \/ MarkNotRun(r)
    PROVE  TypeInv'
<1>1. /\ UNCHANGED <<lock, prog, process, run, server>>
      /\ \E p \in {"marking", "finish"} : pc' = [pc EXCEPT ![r] = p]
  BY DEF FailStep, MarkNotRun, Goto, TypeInv, TypeOK
<1>2. row' \in [Runs -> [Steps -> StepStatus]]
  <2>1. \/ UNCHANGED row
        \/ \E status \in {"failed", "not_run"} :
             row' = [row EXCEPT ![r][cur[r]] = status]
    BY DEF FailStep, MarkNotRun, TrySetStatus
  <2>2. CASE UNCHANGED row
    BY <2>2 DEF TypeInv, TypeOK
  <2>3. ASSUME NEW status \in {"failed", "not_run"},
               row' = [row EXCEPT ![r][cur[r]] = status]
        PROVE  row' \in [Runs -> [Steps -> StepStatus]]
    <3>1. [row[r] EXCEPT ![cur[r]] = status] \in [Steps -> StepStatus]
      BY DEF TypeInv, TypeOK, StepStatus
    <3> QED
      BY <2>3, <3>1 DEF TypeInv, TypeOK
  <2> QED
    BY <2>1, <2>2, <2>3
<1>3. cur' \in [Runs -> Steps \cup {N + 1}] /\ \A q \in Runs : q # r => cur'[q] = cur[q]
  <2>1. CASE FailStep(r)
    <3>1. cur[r] \in Steps
      BY <2>1, CursorInSteps DEF FailStep, LoopPlaces
    <3> QED
      BY <2>1, <3>1, PipelineAssumption DEF FailStep, TypeInv, TypeOK, Steps
  <2>2. CASE MarkNotRun(r)
    <3>1. CASE cur[r] \in prog[r].plan
      <4>1. cur[r] \in Steps
        BY <3>1 DEF TypeInv, TypeOK, Progress
      <4>2. cur' = [cur EXCEPT ![r] = cur[r] + 1]
        BY <2>2, <3>1 DEF MarkNotRun
      <4> QED
        BY <4>1, <4>2, PipelineAssumption DEF TypeInv, TypeOK, Steps
    <3>2. CASE cur[r] \notin prog[r].plan
      BY <2>2, <3>2 DEF MarkNotRun, TypeInv, TypeOK
    <3> QED
      BY <3>1, <3>2
  <2> QED
    BY <2>1, <2>2
<1>4. TypeOK'
  BY <1>1, <1>2, <1>3 DEF TypeInv, TypeOK, Places, Critical, process, server
<1>5. CursorInPlan'
  BY <1>1, <1>3 DEF TypeInv, TypeOK, CursorInPlan, LoopPlaces, InStep
<1> QED
  BY <1>4, <1>5 DEF TypeInv

LEMMA TypeReconcile ==
    ASSUME TypeInv, NEW r \in Runs, ReconcileAbandonedRuns(r)
    PROVE  TypeInv'
<1>1. run' \in [Runs -> RunStatus]
  BY DEF ReconcileAbandonedRuns, TypeInv, TypeOK, RunStatus
<1>2. row' \in [Runs -> [Steps -> StepStatus]]
  BY DEF ReconcileAbandonedRuns, TypeInv, TypeOK, StepStatus
<1>3. /\ pc' = [pc EXCEPT ![r] = "record"]
      /\ UNCHANGED <<lock, cur, prog, process, server>>
  BY DEF ReconcileAbandonedRuns, Goto
<1>4. TypeOK'
  BY <1>1, <1>2, <1>3 DEF TypeInv, TypeOK, Places, Critical, process, server
<1>5. CursorInPlan'
  BY <1>3 DEF TypeInv, TypeOK, CursorInPlan, LoopPlaces, InStep
<1> QED
  BY <1>4, <1>5 DEF TypeInv

LEMMA TypeInsertRun ==
    ASSUME TypeInv, NEW r \in Runs, InsertRun(r)
    PROVE  TypeInv'
<1>1. PICK plan \in SUBSET Steps :
        /\ prog' = [prog EXCEPT ![r].plan = plan]
        /\ row' = [row EXCEPT ![r] = [s \in Steps |-> IF s \in plan THEN "pending" ELSE "none"]]
        /\ \E first \in plan : cur' = [cur EXCEPT ![r] = first]
  <2>1. PICK plan \in (IF r \in CliRuns THEN {Steps} ELSE Plans) :
          /\ prog' = [prog EXCEPT ![r].plan = plan]
          /\ row' = [row EXCEPT ![r] = [s \in Steps |-> IF s \in plan THEN "pending" ELSE "none"]]
          /\ \E first \in plan : cur' = [cur EXCEPT ![r] = first]
    BY DEF InsertRun
  <2>2. plan \in SUBSET Steps
    BY RunsAssumption
  <2> QED
    BY <2>1, <2>2
<1>2. /\ prog' = [prog EXCEPT ![r] = [prog[r] EXCEPT !.plan = plan]]
      /\ [prog[r] EXCEPT !.plan = plan] \in Progress
      /\ [prog[r] EXCEPT !.plan = plan].plan = plan
  <2>1. prog[r] \in Progress
    BY DEF TypeInv, TypeOK
  <2>2. /\ [prog[r] EXCEPT !.plan = plan] \in Progress
        /\ [prog[r] EXCEPT !.plan = plan].plan = plan
    BY <2>1 DEF Progress
  <2>3. prog' = [prog EXCEPT ![r] = [prog[r] EXCEPT !.plan = plan]]
    BY <1>1
  <2> QED
    BY <2>2, <2>3
<1>3. prog' \in [Runs -> Progress] /\ prog'[r].plan = plan
  BY <1>2 DEF TypeInv, TypeOK
<1>4. \A q \in Runs : q # r => prog'[q] = prog[q]
  BY <1>1 DEF TypeInv, TypeOK
<1>5. PICK first \in plan : cur' = [cur EXCEPT ![r] = first]
  BY <1>1
<1>6. row' \in [Runs -> [Steps -> StepStatus]] /\ run' \in [Runs -> RunStatus]
  BY <1>1 DEF InsertRun, TypeInv, TypeOK, StepStatus, RunStatus
<1>7. pc' = [pc EXCEPT ![r] = "register"] /\ UNCHANGED <<lock, process, server>>
  BY DEF InsertRun, Goto
<1>8. TypeOK'
  BY <1>3, <1>5, <1>6, <1>7 DEF TypeInv, TypeOK, Places, Critical, process, server
<1>9. CursorInPlan'
  BY <1>3, <1>4, <1>5, <1>7 DEF TypeInv, TypeOK, CursorInPlan, LoopPlaces
<1> QED
  BY <1>8, <1>9 DEF TypeInv

\* The end of a process moves its runs to "dead" and leaves their locals.
LEMMA EndProcessEffect ==
    ASSUME TypeInv, NEW dying \in SUBSET Runs, EndProcess(dying)
    PROVE  /\ CursorInPlan'
           /\ pc' \in [Runs -> Places] /\ lock' \in Runs \cup {NoRun}
           /\ UNCHANGED <<cur, prog, process, ledger>>
  BY DEF EndProcess, TypeInv, TypeOK, CursorInPlan, LoopPlaces, InStep, Places

LEMMA TypeProcess ==
    ASSUME TypeInv,
           \/ \E r \in Runs : CrashCli(r)
           \/ \E a \in Servers : Process(a)
    PROVE  TypeInv'
<1>1. ASSUME NEW r \in Runs, CrashCli(r) PROVE TypeInv'
  <2>1. EndProcess({r}) /\ UNCHANGED server
    BY <1>1 DEF CrashCli
  <2> QED
    BY <2>1, EndProcessEffect DEF TypeInv, TypeOK, process, ledger, server
<1> SUFFICES ASSUME NEW a \in Servers, Process(a) PROVE TypeInv'
  BY <1>1
<1>2. CASE CrashServer(a) \/ ShutdownIdle(a) \/ JoinTimesOut(a)
  <2>1. /\ EndProcess(ThreadsOf(a)) /\ UNCHANGED <<active, stop>>
        /\ ThreadsOf(a) \in SUBSET Runs
        /\ srv' \in [Servers -> {"up", "stopping", "joining", "exited", "down"}]
    BY <1>2 DEF CrashServer, ShutdownIdle, JoinTimesOut, ThreadsOf, Runs, TypeInv, TypeOK
  <2>2. /\ CursorInPlan'
        /\ pc' \in [Runs -> Places] /\ lock' \in Runs \cup {NoRun}
        /\ UNCHANGED <<cur, prog, process, ledger>>
    BY <2>1, EndProcessEffect
  <2> QED
    BY <2>1, <2>2 DEF TypeInv, TypeOK, process, ledger
<1>3. CASE RestartServer(a) \/ ShutdownActive(a) \/ RequestStop(a) \/ JoinReturns(a)
  <2>1. /\ UNCHANGED <<lock, pc, cur, prog, started, ledger>>
        /\ child' \in [Runs -> {"none", "running", "dying"}]
    BY <1>3 DEF RestartServer, ShutdownActive, RequestStop, JoinReturns, thread, process,
                TypeInv, TypeOK
  <2>2. /\ srv' \in [Servers -> {"up", "stopping", "joining", "exited", "down"}]
        /\ active' \in [Servers -> Runs \cup {NoRun}]
        /\ stop' \in [Servers -> BOOLEAN]
    BY <1>3 DEF RestartServer, ShutdownActive, RequestStop, JoinReturns, TypeInv, TypeOK
  <2> QED
    BY <2>1, <2>2 DEF TypeInv, TypeOK, CursorInPlan, ledger
<1> QED
  BY <1>2, <1>3 DEF Process

LEMMA TypeStep == TypeInv /\ [Next]_vars => TypeInv'
<1> SUFFICES ASSUME TypeInv, [Next]_vars PROVE TypeInv'
  OBVIOUS
<1>1. ASSUME NEW r \in Runs, BeginRun(r) PROVE TypeInv'
  BY <1>1, TypeSimple, TypeReconcile, TypeInsertRun DEF BeginRun
<1>2. ASSUME NEW r \in Runs, ExecuteStep(r) PROVE TypeInv'
  BY <1>2, TypeStatusWrites, TypeDecisions, TypeStops, TypeNextStep DEF ExecuteStep
<1>3. ASSUME NEW r \in Runs, EndRun(r) PROVE TypeInv'
  BY <1>3, TypeSimple, TypeFailRun DEF EndRun
<1>4. ASSUME NEW r \in Runs, ChildExits(r) \/ CrashCli(r) PROVE TypeInv'
  BY <1>4, TypeSimple, TypeProcess
<1>5. ASSUME NEW r \in Runs, Sigterm(r) PROVE TypeInv'
  BY <1>5, TypeSimple, TypeStops DEF Sigterm
<1>6. ASSUME NEW a \in Servers, Process(a) PROVE TypeInv'
  BY <1>6, TypeProcess
<1>7. CASE UNCHANGED vars
  BY <1>7 DEF vars, thread, process, ledger, server, TypeInv, TypeOK, CursorInPlan
<1> QED
  BY <1>1, <1>2, <1>3, <1>4, <1>5, <1>6, <1>7 DEF Next

\* Every variable keeps its type, whatever the constants: in particular the
\* index of execute_run's loop never passes the end of its plan by more than
\* one, through stops, crashes and failed writes.
THEOREM TypeCorrect == Spec => []TypeOK
<1>1. Spec => []TypeInv
  BY TypeInit, TypeStep, PTL DEF Spec
<1>2. TypeInv => TypeOK
  BY DEF TypeInv
<1> QED
  BY <1>1, <1>2, PTL

-----------------------------------------------------------------------------
(* The lock                                                                 *)

Inv == TypeInv /\ LockProtects

\* A run that keeps the lock where it is, and becomes live only while it holds it.
LEMMA LockKept ==
    ASSUME Inv, UNCHANGED lock,
           \A r \in Runs : Live(r)' /\ ~Leaked(r)' => (Live(r) /\ ~Leaked(r)) \/ lock = r
    PROVE  LockProtects'
  BY DEF Inv, LockProtects

\* The lock is given up by the run that holds it, or by one that never took it.
LEMMA LockReleased ==
    ASSUME Inv, NEW r \in Runs, UNCHANGED child,
           BeginFails(r) \/ ReleaseLock(r) \/ SigtermOutsideRun(r)
    PROVE  LockProtects'
<1>1. pc' = [pc EXCEPT ![r] = "done"]
  BY DEF BeginFails, ReleaseLock, SigtermOutsideRun, Goto
<1>2. lock' = (IF lock = r THEN NoRun ELSE lock)
  <2>1. pc[r] \in Critical => lock = r
    BY DEF Inv, TypeInv, TypeOK, LockProtects, Live, Leaked, Critical, InStep
  <2> QED
    BY <2>1 DEF BeginFails, ReleaseLock, SigtermOutsideRun, Critical
<1> SUFFICES ASSUME NEW q \in Runs, Live(q)', ~Leaked(q)' PROVE lock' = q
  BY DEF LockProtects
<1>3. q # r
  BY <1>1 DEF Live, Leaked, Inv, TypeInv, TypeOK, Critical, InStep
<1>4. Live(q) /\ ~Leaked(q)
  BY <1>1, <1>3 DEF Live, Leaked, Inv, TypeInv, TypeOK
<1> QED
  BY <1>2, <1>3, <1>4 DEF Inv, LockProtects

LEMMA LockTaken ==
    ASSUME Inv, NEW r \in Runs, AcquireLock(r)
    PROVE  LockProtects'
<1> SUFFICES ASSUME NEW q \in Runs, Live(q)', ~Leaked(q)' PROVE q = r
  BY DEF LockProtects, AcquireLock
<1>1. CASE Live(q) /\ ~Leaked(q)
  BY <1>1, RunsAssumption DEF Inv, LockProtects, AcquireLock
<1>2. CASE ~(Live(q) /\ ~Leaked(q))
  BY <1>2 DEF Live, Leaked, AcquireLock, Goto, process, Inv, TypeInv, TypeOK
<1> QED
  BY <1>1, <1>2

\* A process that dies with a child leaves it the lock; the last child frees it.
LEMMA LockAtEndOfProcess ==
    ASSUME Inv, NEW dying \in SUBSET Runs, EndProcess(dying),
           \A r \in dying : pc[r] \in Critical \cup {"begin"}
    PROVE  LockProtects'
<1> SUFFICES ASSUME NEW q \in Runs, Live(q)', ~Leaked(q)' PROVE lock' = q
  BY DEF LockProtects
<1>1. lock = q
  <2>1. Live(q) /\ ~Leaked(q)
    BY DEF Live, Leaked, EndProcess, process, Critical, InStep, Inv, TypeInv, TypeOK
  <2> QED
    BY <2>1 DEF Inv, LockProtects
<1>2. CASE q \in dying
  <2>1. child[q] = "running"
    BY <1>2 DEF Live, EndProcess, process, Critical, InStep, Inv, TypeInv, TypeOK
  <2> QED
    BY <1>1, <2>1 DEF EndProcess, LockSurvives
<1>3. CASE q \notin dying
  BY <1>1, <1>3 DEF EndProcess
<1> QED
  BY <1>2, <1>3

LEMMA LockAtChildExit ==
    ASSUME Inv, NEW r \in Runs, ChildExits(r)
    PROVE  LockProtects'
<1> SUFFICES ASSUME NEW q \in Runs, Live(q)', ~Leaked(q)' PROVE lock' = q
  BY DEF LockProtects
<1>1. Live(q) /\ ~Leaked(q) /\ (q = r => pc[q] # "dead")
  BY DEF Live, Leaked, ChildExits, thread, Critical, InStep, Inv, TypeInv, TypeOK
<1> QED
  BY <1>1 DEF Inv, LockProtects, ChildExits

\* A step of a run that is past the lock disturbs nobody else's claim to it.
LEMMA LockKeptInside ==
    ASSUME Inv, NEW r \in Runs, pc[r] \in Critical, UNCHANGED lock,
           \A q \in Runs : q # r => pc'[q] = pc[q] /\ child'[q] = child[q]
    PROVE  LockProtects'
<1>1. lock = r
  BY DEF Inv, LockProtects, Live, Leaked, Critical, InStep
<1> QED
  BY <1>1, LockKept DEF Live, Leaked

LEMMA LockInBegin ==
    ASSUME Inv, NEW r \in Runs, BeginRun(r)
    PROVE  LockProtects'
<1>1. CASE Post(r) \/ StartCli(r) \/ RefusedByLock(r)
  <2>1. /\ UNCHANGED <<lock, child>> /\ pc[r] \in {"idle", "begin"}
        /\ \E p \in {"begin", "refused"} : pc' = [pc EXCEPT ![r] = p]
    BY <1>1 DEF Post, StartCli, RefusedByLock, Goto, process
  <2> QED
    BY <2>1, LockKept DEF Live, Leaked, Critical, InStep, Inv, TypeInv, TypeOK
<1>2. CASE AcquireLock(r)
  BY <1>2, LockTaken
<1>3. CASE BeginFails(r)
  BY <1>3, LockReleased DEF BeginFails, process
<1>4. CASE ReconcileAbandonedRuns(r) \/ InsertRun(r) \/ Register(r)
  <2>1. /\ UNCHANGED <<lock, child>> /\ pc[r] \in Critical
        /\ \A q \in Runs : q # r => pc'[q] = pc[q]
    BY <1>4 DEF ReconcileAbandonedRuns, InsertRun, Register, Goto, process, Critical,
                Inv, TypeInv, TypeOK
  <2> QED
    BY <2>1, LockKeptInside
<1> QED
  BY <1>1, <1>2, <1>3, <1>4 DEF BeginRun

LEMMA LockInStep ==
    ASSUME Inv, NEW r \in Runs, ExecuteStep(r)
    PROVE  LockProtects'
<1>1. UNCHANGED lock
  BY DEF ExecuteStep, Head, Blocked, SkipMissingNews, DecideToRun, DecideToSkip, LaunchCheck,
         CheckCannotStart, CheckTimesOut, CheckSaysPending, CheckSaysNotPending,
         StoppedDuringChild, MarkRunning, Launch, LaunchFails, StepReturns, RecordReason, NextStep
<1>2. pc[r] \in Critical
  BY DEF ExecuteStep, Head, Blocked, SkipMissingNews, DecideToRun, DecideToSkip, LaunchCheck,
         CheckCannotStart, CheckTimesOut, CheckSaysPending, CheckSaysNotPending,
         StoppedDuringChild, MarkRunning, Launch, LaunchFails, StepReturns, RecordReason, NextStep,
         NeedsCheck, Critical, InStep
<1>3. \E p \in Places : pc' = [pc EXCEPT ![r] = p]
  BY DEF ExecuteStep, Head, Blocked, SkipMissingNews, DecideToRun, DecideToSkip, LaunchCheck,
         CheckCannotStart, CheckTimesOut, CheckSaysPending, CheckSaysNotPending,
         StoppedDuringChild, MarkRunning, Launch, LaunchFails, StepReturns, RecordReason, NextStep,
         SetStatus, Fail, Goto, Places, Critical, InStep
<1>4. child' = child \/ \E c \in {"none", "running"} : child' = [child EXCEPT ![r] = c]
  BY DEF ExecuteStep, Head, Blocked, SkipMissingNews, DecideToRun, DecideToSkip, LaunchCheck,
         CheckCannotStart, CheckTimesOut, CheckSaysPending, CheckSaysNotPending,
         StoppedDuringChild, MarkRunning, Launch, LaunchFails, StepReturns, RecordReason, NextStep,
         process
<1>5. \A q \in Runs : q # r => pc'[q] = pc[q] /\ child'[q] = child[q]
  BY <1>3, <1>4 DEF Inv, TypeInv, TypeOK
<1> QED
  BY <1>1, <1>2, <1>5, LockKeptInside

LEMMA LockAtEnd ==
    ASSUME Inv, NEW r \in Runs, EndRun(r)
    PROVE  LockProtects'
<1>1. CASE ReleaseLock(r)
  BY <1>1, LockReleased DEF ReleaseLock, process
<1>2. CASE FailStep(r) \/ MarkNotRun(r) \/ FinishRun(r) \/ PersistRun(r)
  <2>1. /\ UNCHANGED <<lock, child>> /\ pc[r] \in Critical
        /\ \A q \in Runs : q # r => pc'[q] = pc[q]
    BY <1>2 DEF FailStep, MarkNotRun, FinishRun, PersistRun, Goto, process, Critical,
                Inv, TypeInv, TypeOK
  <2> QED
    BY <2>1, LockKeptInside
<1> QED
  BY <1>1, <1>2 DEF EndRun

LEMMA LockAtSigterm ==
    ASSUME Inv, NEW r \in Runs, Sigterm(r)
    PROVE  LockProtects'
<1>1. CASE SigtermOutsideRun(r)
  BY <1>1, LockReleased DEF SigtermOutsideRun, process
<1>2. CASE SigtermBetweenSteps(r) \/ SigtermInFailRun(r) \/ SigtermInFinishRun(r)
  <2>1. /\ UNCHANGED <<lock, child>> /\ pc[r] \in Critical
        /\ \A q \in Runs : q # r => pc'[q] = pc[q]
    BY <1>2 DEF SigtermBetweenSteps, SigtermInFailRun, SigtermInFinishRun, Goto, process,
                Critical, Inv, TypeInv, TypeOK
  <2> QED
    BY <2>1, LockKeptInside
<1>3. CASE SigtermInStep(r) \/ SigtermInSpawn(r)
  <2>1. /\ UNCHANGED lock /\ pc[r] \in Critical
        /\ \A q \in Runs : q # r => pc'[q] = pc[q] /\ child'[q] = child[q]
    BY <1>3 DEF SigtermInStep, SigtermInSpawn, NeedsCheck, Fail, Goto, Critical, InStep,
                Inv, TypeInv, TypeOK
  <2> QED
    BY <2>1, LockKeptInside
<1> QED
  BY <1>1, <1>2, <1>3 DEF Sigterm

LEMMA LockAtProcess ==
    ASSUME Inv, NEW a \in Servers, Process(a)
    PROVE  LockProtects'
<1>1. CASE CrashServer(a) \/ ShutdownIdle(a) \/ JoinTimesOut(a)
  <2>1. EndProcess(ThreadsOf(a))
    BY <1>1 DEF CrashServer, ShutdownIdle, JoinTimesOut
  <2>2. /\ ThreadsOf(a) \in SUBSET Runs
        /\ \A r \in ThreadsOf(a) : pc[r] \in Critical \cup {"begin"}
    BY DEF ThreadsOf, Runs
  <2> QED
    BY <2>1, <2>2, LockAtEndOfProcess
<1>2. CASE RestartServer(a) \/ ShutdownActive(a) \/ RequestStop(a) \/ JoinReturns(a)
  <2>1. /\ UNCHANGED <<lock, pc>>
        /\ \A q \in Runs : child'[q] = "running" => child[q] = "running"
    BY <1>2 DEF RestartServer, ShutdownActive, RequestStop, JoinReturns, thread, process
  <2> QED
    BY <2>1, LockKept DEF Live, Leaked, Critical, InStep
<1> QED
  BY <1>1, <1>2 DEF Process

LEMMA LockStep == Inv /\ [Next]_vars => LockProtects'
<1> SUFFICES ASSUME Inv, [Next]_vars PROVE LockProtects'
  OBVIOUS
<1>1. ASSUME NEW r \in Runs, BeginRun(r) \/ ExecuteStep(r) \/ EndRun(r)
      PROVE  LockProtects'
  BY <1>1, LockInBegin, LockInStep, LockAtEnd
<1>2. ASSUME NEW r \in Runs, ChildExits(r) \/ Sigterm(r) PROVE LockProtects'
  BY <1>2, LockAtChildExit, LockAtSigterm
<1>3. ASSUME NEW r \in Runs, CrashCli(r) PROVE LockProtects'
  BY <1>3, LockAtEndOfProcess DEF CrashCli
<1>4. ASSUME NEW a \in Servers, Process(a) PROVE LockProtects'
  BY <1>4, LockAtProcess
<1>5. CASE UNCHANGED vars
  BY <1>5, LockKept DEF vars, thread, process, Live, Leaked
<1> QED
  BY <1>1, <1>2, <1>3, <1>4, <1>5 DEF Next

LEMMA InvInvariant == Spec => []Inv
<1>1. Init => Inv
  BY TypeInit DEF Inv, Init, LockProtects, Live, Critical, InStep
<1>2. Inv /\ [Next]_vars => Inv'
  BY TypeStep, LockStep DEF Inv
<1> QED
  BY <1>1, <1>2, PTL DEF Spec

\* The run lock protects every run that can still write the database: its own
\* code past the lock, and a child of a process that died, until that child
\* exits.  It holds for any number of servers, CLI processes, crashes, failed
\* writes and signals; a child leaked past an explicit release is the one
\* exception.
THEOREM LockProtectsLiveRuns == Spec => []LockProtects
<1>1. Inv => LockProtects
  BY DEF Inv
<1> QED
  BY <1>1, InvInvariant, PTL

-----------------------------------------------------------------------------
(* One live run                                                             *)

\* Without SIGTERM a child runs only where its run waits for it, or after its
\* process died.
ChildWhereAwaited ==
    \A r \in Runs : child[r] = "running" => pc[r] \in {"check", "run", "dead"}

LEMMA ChildAwaitedStep ==
    ASSUME SigtermRuns = {}, TypeInv, ChildWhereAwaited, [Next]_vars
    PROVE  ChildWhereAwaited'
<1>1. ASSUME NEW r \in Runs, BeginRun(r) PROVE ChildWhereAwaited'
  <2>1. /\ UNCHANGED child /\ pc[r] \in {"idle", "begin", "reconcile", "record", "register"}
        /\ \A q \in Runs : q # r => pc'[q] = pc[q]
    BY <1>1 DEF BeginRun, Post, StartCli, AcquireLock, RefusedByLock, ReconcileAbandonedRuns,
                InsertRun, BeginFails, Register, Goto, process, TypeInv, TypeOK
  <2> QED
    BY <2>1 DEF ChildWhereAwaited
<1>2. ASSUME NEW r \in Runs, ExecuteStep(r) PROVE ChildWhereAwaited'
  <2>1. \E p \in Places : pc' = [pc EXCEPT ![r] = p]
    BY <1>2 DEF ExecuteStep, Head, Blocked, SkipMissingNews, DecideToRun, DecideToSkip,
         LaunchCheck, CheckCannotStart, CheckTimesOut, CheckSaysPending, CheckSaysNotPending,
         StoppedDuringChild, MarkRunning, Launch, LaunchFails, StepReturns, RecordReason, NextStep,
         SetStatus, Fail, Goto, Places, Critical, InStep
  <2>2. \/ UNCHANGED child /\ child[r] = "none"
        \/ UNCHANGED child /\ pc[r] \notin {"check", "run", "dead"}
        \/ child' = [child EXCEPT ![r] = "none"]
        \/ child' = [child EXCEPT ![r] = "running"] /\ (Goto(r, "check") \/ Goto(r, "run"))
    BY <1>2 DEF ExecuteStep, Head, Blocked, SkipMissingNews, DecideToRun, DecideToSkip,
         LaunchCheck, CheckCannotStart, CheckTimesOut, CheckSaysPending, CheckSaysNotPending,
         StoppedDuringChild, MarkRunning, Launch, LaunchFails, StepReturns, RecordReason, NextStep,
         NeedsCheck, process
  <2>3. \A q \in Runs : q # r => pc'[q] = pc[q] /\ child'[q] = child[q]
    BY <2>1, <2>2 DEF TypeInv, TypeOK
  <2>4. child'[r] = "running" => pc'[r] \in {"check", "run"}
    BY <2>2 DEF ChildWhereAwaited, Goto, TypeInv, TypeOK
  <2> QED
    BY <2>3, <2>4 DEF ChildWhereAwaited
<1>3. ASSUME NEW r \in Runs, EndRun(r) PROVE ChildWhereAwaited'
  <2>1. /\ UNCHANGED child
        /\ pc[r] \in {"failing", "marking", "finish", "persist", "release"}
        /\ \A q \in Runs : q # r => pc'[q] = pc[q]
    BY <1>3 DEF EndRun, FailStep, MarkNotRun, FinishRun, PersistRun, ReleaseLock, Goto,
                process, TypeInv, TypeOK
  <2> QED
    BY <2>1 DEF ChildWhereAwaited
<1>4. ASSUME NEW r \in Runs, ChildExits(r) PROVE ChildWhereAwaited'
  BY <1>4 DEF ChildExits, ChildWhereAwaited, thread, TypeInv, TypeOK
<1>5. ASSUME NEW r \in Runs, Sigterm(r) PROVE ChildWhereAwaited'
  BY <1>5 DEF Sigterm, SigtermOutsideRun, SigtermBetweenSteps, SigtermInStep, SigtermInSpawn,
              SigtermInFailRun, SigtermInFinishRun
<1>6. ASSUME NEW dying \in SUBSET Runs, EndProcess(dying) PROVE ChildWhereAwaited'
  BY <1>6 DEF EndProcess, process, ChildWhereAwaited
<1>7. ASSUME NEW r \in Runs, CrashCli(r) PROVE ChildWhereAwaited'
  BY <1>6, <1>7 DEF CrashCli
<1>8. ASSUME NEW a \in Servers, Process(a) PROVE ChildWhereAwaited'
  <2>1. CASE CrashServer(a) \/ ShutdownIdle(a) \/ JoinTimesOut(a)
    <3>1. EndProcess(ThreadsOf(a)) /\ ThreadsOf(a) \in SUBSET Runs
      BY <2>1 DEF CrashServer, ShutdownIdle, JoinTimesOut, ThreadsOf, Runs
    <3> QED
      BY <1>6, <3>1
  <2>2. CASE RestartServer(a) \/ ShutdownActive(a) \/ RequestStop(a) \/ JoinReturns(a)
    BY <2>2 DEF RestartServer, ShutdownActive, RequestStop, JoinReturns, thread, process,
                ChildWhereAwaited
  <2> QED
    BY <1>8, <2>1, <2>2 DEF Process
<1>9. CASE UNCHANGED vars
  BY <1>9 DEF vars, thread, process, ChildWhereAwaited
<1> QED
  BY <1>1, <1>2, <1>3, <1>4, <1>5, <1>7, <1>8, <1>9 DEF Next

\* No two runs can write the database at once, when no CLI process is sent
\* SIGTERM (with it, the spawn window leaks a child: see OrchStopInSpawn).
THEOREM OneLiveRunWithoutSigterm == SigtermRuns = {} => (Spec => []OneLiveRun)
<1> SUFFICES ASSUME SigtermRuns = {} PROVE Spec => []OneLiveRun
  OBVIOUS
<1>1. Init => ChildWhereAwaited
  BY DEF Init, ChildWhereAwaited
<1>2. Inv /\ ChildWhereAwaited /\ [Next]_vars => ChildWhereAwaited'
  BY ChildAwaitedStep DEF Inv
<1>3. Inv /\ ChildWhereAwaited => OneLiveRun
  BY DEF Inv, LockProtects, ChildWhereAwaited, OneLiveRun, Leaked
<1> QED
  BY <1>1, <1>2, <1>3, InvInvariant, PTL DEF Spec

-----------------------------------------------------------------------------
(* The refinement of RunLedger                                              *)
(*                                                                          *)
(* Each write to orchestrator_step must be one of After's, and a run may be *)
(* closed 'completed' only over settled rows: both follow from what the     *)
(* rows are at each place of a live run's code.                             *)

\* Where the run's row is open: after new_run, before _persist_run.
Recorded == Critical \ {"reconcile", "record", "release"}

\* Where the loop has chosen a step and not yet marked it.
Unmarked == {"register", "stranded", "head", "decide", "check", "mark"}

NothingLeft == {"none", "completed", "skipped"}

RunAsPlaced(r) ==
    /\ pc[r] \in {"idle", "begin", "reconcile", "record"} => run[r] = "none"
    /\ pc[r] = "record" => \A q \in Runs : run[q] # "running"
    /\ pc[r] \in Recorded => run[r] = "running"

\* The row of the step the loop is at.
StepAsPlaced(r) ==
    /\ pc[r] \in Unmarked => row[r][cur[r]] = "pending"
    /\ pc[r] \in {"launch", "run"} => row[r][cur[r]] = "running"
    /\ pc[r] = "failing" => \/ row[r][cur[r]] = "pending"
                            \/ row[r][cur[r]] = "running" /\ prog[r].cause # "prevented"
                            \/ row[r][cur[r]] \in {"completed", "failed"} /\ prog[r].cause = "write"
    /\ pc[r] = "reason" => row[r][cur[r]] \in {"completed", "failed"}
    /\ pc[r] = "settled" => \/ row[r][cur[r]] \in {"completed", "skipped", "failed"}
                            \/ prog[r].failed

\* The rows of the steps still to come, and of those the run has no plan for.
AheadIsPending(r) ==
    /\ pc[r] \in LoopPlaces => \A s \in prog[r].plan : s > cur[r] => row[r][s] = "pending"
    /\ pc[r] = "marking" => \A s \in prog[r].plan : s >= cur[r] => row[r][s] = "pending"
    /\ pc[r] \in LoopPlaces => \A s \in Steps \ prog[r].plan : row[r][s] = "none"

\* The rows of the steps gone through, as long as nothing failed.
BehindIsSettled(r) ==
    /\ pc[r] \in LoopPlaces /\ ~prog[r].failed =>
         \A s \in Steps : row[r][s] \in NothingLeft \/ (s \in prog[r].plan /\ s >= cur[r])
    /\ pc[r] \in {"finish", "persist"} /\ ~prog[r].failed =>
         \A s \in Steps : row[r][s] \in NothingLeft
    /\ pc[r] \in {"failing", "marking"} => prog[r].failed
    /\ pc[r] \in LoopPlaces => prog[r].plan = Steps \/ \E s \in Steps : prog[r].plan = {s}

Placed(r) ==
    RunAsPlaced(r) /\ StepAsPlaced(r) /\ AheadIsPending(r) /\ BehindIsSettled(r)

LedgerInv == Inv /\ ChildWhereAwaited /\ \A r \in Runs : Placed(r)

\* A run past the lock is the only one.
LEMMA OnlyOneInside ==
    ASSUME LedgerInv, NEW r \in Runs, NEW q \in Runs, Live(r), Live(q)
    PROVE  r = q
  BY DEF LedgerInv, Inv, LockProtects, ChildWhereAwaited, Leaked

\* What a run past the lock does leaves every other run where it was.
LEMMA PlacedInside ==
    ASSUME LedgerInv, NEW r \in Runs, pc[r] \in Critical, Placed(r)',
           \A q \in Runs : q # r => /\ pc'[q] = pc[q]
                                    /\ run[q] = "none" => run'[q] = "none"
    PROVE  \A q \in Runs : Placed(q)'
<1> SUFFICES ASSUME NEW q \in Runs, q # r PROVE Placed(q)'
  OBVIOUS
<1>1. pc[q] \notin Critical
  BY OnlyOneInside DEF Live
<1>2. pc'[q] \notin Critical /\ pc'[q] = pc[q]
  BY <1>1
<1>3. pc[q] \in {"idle", "begin"} => run[q] = "none"
  BY DEF LedgerInv, Placed, RunAsPlaced
<1> QED
  BY <1>2, <1>3 DEF Placed, RunAsPlaced, StepAsPlaced, AheadIsPending, BehindIsSettled,
     Critical, InStep, LoopPlaces, Recorded, Unmarked

\* A run that stands still over unchanged tables, or whose process died.
LEMMA PlacedKept ==
    ASSUME NEW r \in Runs, Placed(r), UNCHANGED <<run, row, cur, prog>>,
           pc'[r] \in {pc[r], "dead"}
    PROVE  Placed(r)'
  BY DEF Placed, RunAsPlaced, StepAsPlaced, AheadIsPending, BehindIsSettled,
     Critical, InStep, LoopPlaces, Recorded, Unmarked

\* A move that changes neither the rows nor the index.
LEMMA PlacedMove ==
    ASSUME NEW r \in Runs, Placed(r), UNCHANGED <<run, row, cur>>,
           \/ pc[r] \in Unmarked /\ pc'[r] \in Unmarked
           \/ pc[r] = "launch" /\ pc'[r] = "run"
           \/ pc[r] = "reason" /\ pc'[r] = "settled"
           \/ pc[r] = "finish" /\ pc'[r] = "persist",
           prog'[r].plan = prog[r].plan, prog'[r].failed = prog[r].failed
    PROVE  Placed(r)'
  BY DEF Placed, RunAsPlaced, StepAsPlaced, AheadIsPending, BehindIsSettled,
     Critical, InStep, LoopPlaces, Recorded, Unmarked

LEMMA PlacedFail ==
    ASSUME LedgerInv, NEW r \in Runs, NEW cause \in Causes, Fail(r, cause),
           UNCHANGED <<run, row, cur>>,
           \/ pc[r] \in Unmarked
           \/ pc[r] \in {"launch", "run"} /\ cause # "prevented"
           \/ pc[r] = "reason" /\ cause = "write"
    PROVE  Placed(r)'
<1>1. /\ pc'[r] = "failing"
      /\ prog'[r].plan = prog[r].plan /\ prog'[r].failed /\ prog'[r].cause = cause
  BY DEF Fail, Goto, LedgerInv, Inv, TypeInv, TypeOK, Progress
<1>2. Placed(r)
  BY DEF LedgerInv
<1> QED
  BY <1>1, <1>2 DEF Placed, RunAsPlaced, StepAsPlaced, AheadIsPending, BehindIsSettled,
     Critical, InStep, LoopPlaces, Recorded, Unmarked

\* The row of the current step is written and the run goes on or fails.
LEMMA PlacedSetStatus ==
    ASSUME LedgerInv, NEW r \in Runs, NEW status \in StepStatus,
           NEW next \in {"launch", "reason", "settled"},
           SetStatus(r, status, next), UNCHANGED <<run, cur>>,
           \/ pc[r] \in Unmarked \/ pc[r] \in {"launch", "run"},
           next = "launch" => status = "running",
           next = "reason" => status \in {"completed", "failed"},
           next = "settled" => status \in {"completed", "skipped", "failed"} \/ prog[r].failed
    PROVE  Placed(r)'
<1>1. CASE Fail(r, "write") /\ UNCHANGED row
  BY <1>1, PlacedFail DEF Causes
<1>2. CASE /\ row' = [row EXCEPT ![r][cur[r]] = status]
           /\ Goto(r, next) /\ UNCHANGED prog
  <2>1. /\ pc[r] \in LoopPlaces \ {"failing"} /\ pc'[r] = next
        /\ cur[r] \in Steps /\ cur[r] \in prog[r].plan /\ prog[r].plan \subseteq Steps
    BY <1>2, CursorInSteps DEF Goto, LoopPlaces, InStep, Unmarked, LedgerInv, Inv, TypeInv,
       TypeOK, CursorInPlan, Progress
  <2>2. \A s \in Steps : row'[r][s] = IF s = cur[r] THEN status ELSE row[r][s]
    BY <1>2, <2>1 DEF LedgerInv, Inv, TypeInv, TypeOK
  <2>3. Placed(r)
    BY DEF LedgerInv
  <2>4. RunAsPlaced(r)' /\ StepAsPlaced(r)'
    BY <1>2, <2>1, <2>2, <2>3 DEF Placed, RunAsPlaced, StepAsPlaced, Critical, InStep,
       Recorded, Unmarked, LoopPlaces
  <2>5. AheadIsPending(r)'
    BY <1>2, <2>1, <2>2, <2>3 DEF Placed, AheadIsPending, LoopPlaces, InStep, Steps
  <2>6. BehindIsSettled(r)'
    BY <1>2, <2>1, <2>2, <2>3 DEF Placed, BehindIsSettled, LoopPlaces, InStep, Steps
  <2> QED
    BY <2>4, <2>5, <2>6 DEF Placed
<1> QED
  BY <1>1, <1>2 DEF SetStatus

\* A blocked step has a failed or blocked upstream, so the run has failed.
LEMMA BlockedMeansFailed ==
    ASSUME LedgerInv, NEW r \in Runs, pc[r] = "decide", IsBlocked(r)
    PROVE  prog[r].failed
<1>1. cur[r] \in Steps
  BY CursorInSteps DEF LedgerInv, Inv, LoopPlaces, InStep
<1>2. PICK d \in DependsOn[cur[r]] \cap prog[r].plan : row[r][d] \in {"failed", "blocked"}
  BY DEF IsBlocked
<1>3. d < cur[r] /\ d \in Steps
  BY <1>1, <1>2, PipelineAssumption
<1> QED
  BY <1>1, <1>2, <1>3 DEF LedgerInv, Placed, BehindIsSettled, NothingLeft, LoopPlaces,
     InStep, Steps

LEMMA PlacedBegin ==
    ASSUME LedgerInv, NEW r \in Runs, BeginRun(r)
    PROVE  \A q \in Runs : Placed(q)'
<1>1. \A q \in Runs : Placed(q)
  BY DEF LedgerInv
<1>2. CASE Post(r) \/ StartCli(r) \/ AcquireLock(r) \/ RefusedByLock(r)
  <2>1. /\ UNCHANGED <<run, row, cur, prog>>
        /\ pc[r] \in {"idle", "begin"}
        /\ \E p \in {"begin", "refused", "reconcile"} : pc' = [pc EXCEPT ![r] = p]
    BY <1>2 DEF Post, StartCli, AcquireLock, RefusedByLock, Goto, ledger
  <2>2. /\ pc'[r] \in {"begin", "refused", "reconcile"}
        /\ \A q \in Runs : q # r => pc'[q] = pc[q]
    BY <2>1 DEF LedgerInv, Inv, TypeInv, TypeOK
  <2>3. Placed(r)'
    BY <1>1, <2>1, <2>2 DEF Placed, RunAsPlaced, StepAsPlaced, AheadIsPending,
       BehindIsSettled, Critical, InStep, LoopPlaces, Recorded, Unmarked
  <2> QED
    BY <1>1, <2>1, <2>2, <2>3, PlacedKept
<1>3. CASE ReconcileAbandonedRuns(r)
  <2>1. /\ pc[r] \in Critical /\ pc'[r] = "record"
        /\ \A q \in Runs : q # r => pc'[q] = pc[q]
        /\ \A q \in Runs : run'[q] = IF run[q] = "running" THEN "abandoned" ELSE run[q]
    BY <1>3 DEF ReconcileAbandonedRuns, StaleRuns, Goto, Critical, LedgerInv, Inv, TypeInv,
       TypeOK
  <2>2. run[r] = "none"
    BY <1>1, <1>3 DEF ReconcileAbandonedRuns, Placed, RunAsPlaced
  <2>3. Placed(r)'
    BY <2>1, <2>2 DEF Placed, RunAsPlaced, StepAsPlaced, AheadIsPending, BehindIsSettled,
       InStep, LoopPlaces, Recorded, Unmarked
  <2> QED
    BY <2>1, <2>3, PlacedInside
<1>4. CASE InsertRun(r)
  <2>1. PICK plan \in (IF r \in CliRuns THEN {Steps} ELSE Plans) :
          /\ prog' = [prog EXCEPT ![r].plan = plan]
          /\ row' = [row EXCEPT ![r] = [s \in Steps |-> IF s \in plan THEN "pending" ELSE "none"]]
          /\ \E first \in plan : /\ \A s \in plan : first <= s
                                 /\ cur' = [cur EXCEPT ![r] = first]
    BY <1>4 DEF InsertRun
  <2>2. plan \subseteq Steps /\ (plan = Steps \/ \E s \in Steps : plan = {s})
    BY RunsAssumption
  <2>3. /\ prog'[r].plan = plan
        /\ \A s \in Steps : row'[r][s] = IF s \in plan THEN "pending" ELSE "none"
        /\ cur'[r] \in plan /\ \A s \in plan : cur'[r] <= s
    BY <2>1 DEF LedgerInv, Inv, TypeInv, TypeOK, Progress
  <2>4. /\ pc[r] \in Critical /\ pc'[r] = "register" /\ run'[r] = "running"
        /\ \A q \in Runs : q # r => pc'[q] = pc[q] /\ run'[q] = run[q]
    BY <1>4 DEF InsertRun, Goto, Critical, LedgerInv, Inv, TypeInv, TypeOK
  <2>5. RunAsPlaced(r)' /\ StepAsPlaced(r)' /\ AheadIsPending(r)'
    BY <2>2, <2>3, <2>4 DEF RunAsPlaced, StepAsPlaced, AheadIsPending, Unmarked
  <2>6. BehindIsSettled(r)'
    BY <2>2, <2>3, <2>4 DEF BehindIsSettled, NothingLeft, Steps
  <2> QED
    BY <2>4, <2>5, <2>6, PlacedInside DEF Placed
<1>5. CASE BeginFails(r)
  <2>1. /\ pc[r] \in Critical /\ pc'[r] = "done" /\ UNCHANGED run
        /\ \A q \in Runs : q # r => pc'[q] = pc[q]
    BY <1>5 DEF BeginFails, Goto, ledger, Critical, LedgerInv, Inv, TypeInv, TypeOK
  <2>2. Placed(r)'
    BY <2>1 DEF Placed, RunAsPlaced, StepAsPlaced, AheadIsPending, BehindIsSettled,
       Critical, InStep, LoopPlaces, Recorded, Unmarked
  <2> QED
    BY <2>1, <2>2, PlacedInside
<1>6. CASE Register(r)
  <2>1. /\ UNCHANGED <<run, row, cur, prog>>
        /\ pc[r] \in Critical \cap Unmarked /\ pc'[r] \in Unmarked
        /\ \A q \in Runs : q # r => pc'[q] = pc[q]
    BY <1>6 DEF Register, Goto, ledger, Critical, Unmarked, LedgerInv, Inv, TypeInv, TypeOK
  <2> QED
    BY <1>1, <2>1, PlacedMove, PlacedInside
<1> QED
  BY <1>2, <1>3, <1>4, <1>5, <1>6 DEF BeginRun

\* The steps that write the row of the step the loop is at.
LEMMA PlacedStatusWrites ==
    ASSUME LedgerInv, NEW r \in Runs,
           \/ Blocked(r) \/ SkipMissingNews(r) \/ DecideToSkip(r)
           \/ CheckSaysNotPending(r) \/ MarkRunning(r) \/ LaunchFails(r) \/ StepReturns(r)
    PROVE  Placed(r)'
<1>1. CASE Blocked(r)
  <2>1. SetStatus(r, "blocked", "settled") /\ UNCHANGED <<run, cur>> /\ pc[r] \in Unmarked
    BY <1>1 DEF Blocked, Unmarked
  <2>2. prog[r].failed
    BY <1>1, BlockedMeansFailed DEF Blocked
  <2> QED
    BY <2>1, <2>2, PlacedSetStatus DEF StepStatus
<1>2. CASE SkipMissingNews(r) \/ DecideToSkip(r) \/ CheckSaysNotPending(r)
  <2>1. SetStatus(r, "skipped", "settled") /\ UNCHANGED <<run, cur>> /\ pc[r] \in Unmarked
    BY <1>2 DEF SkipMissingNews, DecideToSkip, CheckSaysNotPending, Unmarked
  <2> QED
    BY <2>1, PlacedSetStatus DEF StepStatus
<1>3. CASE MarkRunning(r)
  <2>1. SetStatus(r, "running", "launch") /\ UNCHANGED <<run, cur>> /\ pc[r] \in Unmarked
    BY <1>3 DEF MarkRunning, Unmarked
  <2> QED
    BY <2>1, PlacedSetStatus DEF StepStatus
<1>4. CASE LaunchFails(r) \/ StepReturns(r)
  <2>1. PICK status \in {"completed", "failed"}, next \in {"reason", "settled"} :
           SetStatus(r, status, next)
    BY <1>4 DEF LaunchFails, StepReturns
  <2>2. UNCHANGED <<run, cur>> /\ pc[r] \in {"launch", "run"}
    BY <1>4 DEF LaunchFails, StepReturns
  <2> QED
    BY <2>1, <2>2, PlacedSetStatus DEF StepStatus
<1> QED
  BY <1>1, <1>2, <1>3, <1>4

\* The steps that write no row: decisions, checks, launches and stops.
LEMMA PlacedMoves ==
    ASSUME LedgerInv, NEW r \in Runs,
           \/ DecideToRun(r) \/ CheckCannotStart(r) \/ CheckTimesOut(r) \/ CheckSaysPending(r)
           \/ Head(r) \/ LaunchCheck(r) \/ StoppedDuringChild(r) \/ Launch(r)
           \/ RecordReason(r)
    PROVE  Placed(r)'
<1>1. Placed(r) /\ UNCHANGED <<run, row, cur>>
  BY DEF LedgerInv, DecideToRun, CheckCannotStart, CheckTimesOut, CheckSaysPending, Head,
     LaunchCheck, StoppedDuringChild, Launch, RecordReason, ledger
<1>2. CASE DecideToRun(r) \/ CheckCannotStart(r) \/ CheckTimesOut(r) \/ CheckSaysPending(r)
  <2>1. \E signal \in BOOLEAN : prog' = [prog EXCEPT ![r].signal = signal]
    BY <1>2 DEF DecideToRun, CheckCannotStart, CheckTimesOut, CheckSaysPending, Incremental,
       PendingUpstream
  <2>2. prog'[r].plan = prog[r].plan /\ prog'[r].failed = prog[r].failed
    BY <2>1 DEF LedgerInv, Inv, TypeInv, TypeOK, Progress
  <2>3. pc[r] \in Unmarked /\ pc'[r] \in Unmarked
    BY <1>2 DEF DecideToRun, CheckCannotStart, CheckTimesOut, CheckSaysPending, NeedsCheck,
       Goto, Unmarked, LedgerInv, Inv, TypeInv, TypeOK
  <2> QED
    BY <1>1, <2>2, <2>3, PlacedMove
<1>3. CASE \/ Head(r) \/ LaunchCheck(r) \/ StoppedDuringChild(r) \/ Launch(r)
           \/ RecordReason(r)
  <2>1. \/ \E cause \in Causes : /\ Fail(r, cause)
                                 /\ \/ pc[r] \in Unmarked
                                    \/ pc[r] \in {"launch", "run"} /\ cause # "prevented"
                                    \/ pc[r] = "reason" /\ cause = "write"
        \/ /\ UNCHANGED prog
           /\ \/ pc[r] \in Unmarked /\ (Goto(r, "decide") \/ Goto(r, "check"))
              \/ pc[r] = "launch" /\ Goto(r, "run")
              \/ pc[r] = "reason" /\ Goto(r, "settled")
    <3>1. CASE Head(r)
      BY <3>1 DEF Head, Unmarked, Causes
    <3>2. CASE LaunchCheck(r)
      BY <3>2 DEF LaunchCheck, NeedsCheck, Unmarked, Causes
    <3>3. CASE StoppedDuringChild(r)
      BY <3>3 DEF StoppedDuringChild, Unmarked, Causes
    <3>4. CASE Launch(r)
      BY <3>4 DEF Launch, Causes
    <3>5. CASE RecordReason(r)
      BY <3>5 DEF RecordReason, Causes
    <3> QED
      BY <1>3, <3>1, <3>2, <3>3, <3>4, <3>5
  <2>2. CASE \E cause \in Causes : /\ Fail(r, cause)
                                   /\ \/ pc[r] \in Unmarked
                                      \/ pc[r] \in {"launch", "run"} /\ cause # "prevented"
                                      \/ pc[r] = "reason" /\ cause = "write"
    BY <1>1, <2>2, PlacedFail
  <2>3. CASE /\ UNCHANGED prog
             /\ \/ pc[r] \in Unmarked /\ (Goto(r, "decide") \/ Goto(r, "check"))
                \/ pc[r] = "launch" /\ Goto(r, "run")
                \/ pc[r] = "reason" /\ Goto(r, "settled")
    <3>1. \/ pc[r] \in Unmarked /\ pc'[r] \in Unmarked
          \/ pc[r] = "launch" /\ pc'[r] = "run"
          \/ pc[r] = "reason" /\ pc'[r] = "settled"
      BY <2>3 DEF Goto, Unmarked, LedgerInv, Inv, TypeInv, TypeOK
    <3> QED
      BY <1>1, <2>3, <3>1, PlacedMove
  <2> QED
    BY <2>1, <2>2, <2>3
<1> QED
  BY <1>2, <1>3

\* The loop goes on only with a step of the plan whose row is pending, and past
\* its end only when the last row is settled.
LEMMA PlacedNextStep ==
    ASSUME LedgerInv, NEW r \in Runs, NextStep(r)
    PROVE  Placed(r)'
<1> DEFINE failed == prog[r].failed \/ row[r][cur[r]] = "failed"
<1>1. /\ pc[r] = "settled" /\ UNCHANGED <<run, row>>
      /\ cur'[r] = cur[r] + 1
      /\ pc'[r] = IF cur[r] + 1 \in prog[r].plan THEN "head" ELSE "finish"
  BY DEF NextStep, Goto, ledger, LedgerInv, Inv, TypeInv, TypeOK
<1>2. prog'[r].plan = prog[r].plan /\ prog'[r].failed = failed
  BY DEF NextStep, RunFailed, LedgerInv, Inv, TypeInv, TypeOK, Progress
<1>3. Placed(r) /\ cur[r] \in prog[r].plan /\ prog[r].plan \subseteq Steps
  BY <1>1 DEF LedgerInv, Inv, TypeInv, TypeOK, CursorInPlan, LoopPlaces, InStep, Progress
<1>4. AheadIsPending(r)'
  BY <1>1, <1>2, <1>3 DEF Placed, AheadIsPending, LoopPlaces, InStep, Steps
<1>5. RunAsPlaced(r)' /\ StepAsPlaced(r)'
  <2>1. cur[r] + 1 \in prog[r].plan => row[r][cur[r] + 1] = "pending"
    BY <1>1, <1>3 DEF Placed, AheadIsPending, LoopPlaces, InStep, Steps
  <2> QED
    BY <1>1, <1>3, <2>1 DEF Placed, RunAsPlaced, StepAsPlaced, Recorded, Critical, Unmarked,
       InStep
<1>6. BehindIsSettled(r)'
  <2>1. ~failed => \A s \in Steps : row[r][s] \in NothingLeft
                                    \/ (s \in prog[r].plan /\ s >= cur[r] + 1)
    BY <1>1, <1>3 DEF Placed, StepAsPlaced, BehindIsSettled, LoopPlaces, InStep, Steps,
       NothingLeft
  <2>2. prog[r].plan = Steps \/ \E s \in Steps : prog[r].plan = {s}
    BY <1>1, <1>3 DEF Placed, BehindIsSettled, LoopPlaces, InStep
  <2>3. cur[r] + 1 \notin prog[r].plan => \A s \in prog[r].plan : ~(s >= cur[r] + 1)
    BY <1>3, <2>2, PipelineAssumption DEF Steps
  <2> HIDE DEF failed
  <2> QED
    BY <1>1, <1>2, <2>1, <2>2, <2>3 DEF BehindIsSettled, LoopPlaces, InStep
<1> QED
  BY <1>4, <1>5, <1>6 DEF Placed

LEMMA PlacedInStep ==
    ASSUME LedgerInv, NEW r \in Runs, ExecuteStep(r)
    PROVE  \A q \in Runs : Placed(q)'
<1>1. Placed(r)'
  BY PlacedStatusWrites, PlacedMoves, PlacedNextStep DEF ExecuteStep
<1>2. UNCHANGED run /\ pc[r] \in Critical
  BY DEF ExecuteStep, Head, Blocked, SkipMissingNews, DecideToRun, DecideToSkip, LaunchCheck,
         CheckCannotStart, CheckTimesOut, CheckSaysPending, CheckSaysNotPending,
         StoppedDuringChild, MarkRunning, Launch, LaunchFails, StepReturns, RecordReason, NextStep,
         NeedsCheck, ledger, Critical, InStep
<1>3. \E p \in Places : pc' = [pc EXCEPT ![r] = p]
  BY DEF ExecuteStep, Head, Blocked, SkipMissingNews, DecideToRun, DecideToSkip, LaunchCheck,
         CheckCannotStart, CheckTimesOut, CheckSaysPending, CheckSaysNotPending,
         StoppedDuringChild, MarkRunning, Launch, LaunchFails, StepReturns, RecordReason, NextStep,
         SetStatus, Fail, Goto, Places, Critical, InStep
<1>4. \A q \in Runs : q # r => pc'[q] = pc[q]
  BY <1>3 DEF LedgerInv, Inv, TypeInv, TypeOK
<1> QED
  BY <1>1, <1>2, <1>4, PlacedInside

LEMMA PlacedAtEnd ==
    ASSUME LedgerInv, NEW r \in Runs, EndRun(r)
    PROVE  \A q \in Runs : Placed(q)'
<1>1. Placed(r)
  BY DEF LedgerInv
<1>2. /\ pc[r] \in Critical
      /\ \A q \in Runs : q # r => pc'[q] = pc[q] /\ run'[q] = run[q]
  BY DEF EndRun, FailStep, MarkNotRun, FinishRun, PersistRun, ReleaseLock, Goto, ledger,
     Critical, LedgerInv, Inv, TypeInv, TypeOK
<1> SUFFICES Placed(r)'
  BY <1>2, PlacedInside
<1>3. CASE FailStep(r)
  <2>1. cur[r] \in prog[r].plan /\ prog[r].plan \subseteq Steps
    BY <1>3 DEF FailStep, LedgerInv, Inv, TypeInv, TypeOK, CursorInPlan, LoopPlaces, Progress
  <2>2. pc[r] = "failing" /\ pc'[r] = "marking" /\ cur'[r] = cur[r] + 1 /\ UNCHANGED <<prog, run>>
    BY <1>3 DEF FailStep, Goto, LedgerInv, Inv, TypeInv, TypeOK
  <2>3. \A s \in Steps : s # cur[r] => row'[r][s] = row[r][s]
    BY <1>3 DEF FailStep, TrySetStatus, LedgerInv, Inv, TypeInv, TypeOK
  <2>4. AheadIsPending(r)'
    BY <1>1, <2>1, <2>2, <2>3 DEF Placed, AheadIsPending, LoopPlaces, InStep, Steps
  <2> QED
    BY <1>1, <2>2, <2>4 DEF Placed, RunAsPlaced, StepAsPlaced, BehindIsSettled, Recorded,
       Critical, Unmarked, LoopPlaces, InStep
<1>4. CASE MarkNotRun(r)
  <2>1. pc[r] = "marking" /\ UNCHANGED <<prog, run>> /\ prog[r].plan \subseteq Steps
    BY <1>4 DEF MarkNotRun, LedgerInv, Inv, TypeInv, TypeOK, Progress
  <2>2. CASE cur[r] \in prog[r].plan
    <3>1. pc'[r] = "marking" /\ cur'[r] = cur[r] + 1
      BY <1>4, <2>1, <2>2 DEF MarkNotRun, LedgerInv, Inv, TypeInv, TypeOK
    <3>2. \A s \in Steps : s # cur[r] => row'[r][s] = row[r][s]
      BY <1>4, <2>2 DEF MarkNotRun, TrySetStatus, LedgerInv, Inv, TypeInv, TypeOK
    <3>3. AheadIsPending(r)'
      BY <1>1, <2>1, <2>2, <3>1, <3>2 DEF Placed, AheadIsPending, LoopPlaces, InStep, Steps
    <3> QED
      BY <1>1, <2>1, <3>1, <3>3 DEF Placed, RunAsPlaced, StepAsPlaced, BehindIsSettled,
         Recorded, Critical, Unmarked, LoopPlaces, InStep
  <2>3. CASE cur[r] \notin prog[r].plan
    <3>1. pc'[r] = "finish"
      BY <1>4, <2>3 DEF MarkNotRun, Goto, LedgerInv, Inv, TypeInv, TypeOK
    <3> QED
      BY <1>1, <2>1, <3>1 DEF Placed, RunAsPlaced, StepAsPlaced, AheadIsPending,
         BehindIsSettled, Recorded, Critical, Unmarked, LoopPlaces, InStep
  <2> QED
    BY <2>2, <2>3
<1>5. CASE FinishRun(r)
  <2>1. UNCHANGED <<run, row, cur, prog>> /\ pc[r] = "finish" /\ pc'[r] = "persist"
    BY <1>5 DEF FinishRun, Goto, ledger, LedgerInv, Inv, TypeInv, TypeOK
  <2> QED
    BY <1>1, <2>1, PlacedMove
<1>6. CASE PersistRun(r) \/ ReleaseLock(r)
  <2>1. pc'[r] \in {"release", "done"}
    BY <1>6 DEF PersistRun, ReleaseLock, Goto, LedgerInv, Inv, TypeInv, TypeOK
  <2> QED
    BY <2>1 DEF Placed, RunAsPlaced, StepAsPlaced, AheadIsPending, BehindIsSettled, Recorded,
       Critical, Unmarked, LoopPlaces, InStep
<1> QED
  BY <1>3, <1>4, <1>5, <1>6 DEF EndRun

LEMMA PlacedStep ==
    ASSUME SigtermRuns = {}, LedgerInv, [Next]_vars
    PROVE  \A q \in Runs : Placed(q)'
<1>1. \A q \in Runs : Placed(q)
  BY DEF LedgerInv
<1>2. ASSUME NEW r \in Runs, BeginRun(r) \/ ExecuteStep(r) \/ EndRun(r)
      PROVE  \A q \in Runs : Placed(q)'
  BY <1>2, PlacedBegin, PlacedInStep, PlacedAtEnd
<1>3. ASSUME UNCHANGED <<run, row, cur, prog>>, \A q \in Runs : pc'[q] \in {pc[q], "dead"}
      PROVE  \A q \in Runs : Placed(q)'
  BY <1>1, <1>3, PlacedKept
<1>4. ASSUME NEW dying \in SUBSET Runs, EndProcess(dying)
      PROVE  \A q \in Runs : Placed(q)'
  BY <1>3, <1>4 DEF EndProcess, ledger
<1>5. ASSUME NEW r \in Runs, ChildExits(r) \/ CrashCli(r)
      PROVE  \A q \in Runs : Placed(q)'
  BY <1>3, <1>4, <1>5 DEF ChildExits, CrashCli, thread, ledger
<1>6. ASSUME NEW r \in Runs, Sigterm(r)
      PROVE  \A q \in Runs : Placed(q)'
  BY <1>6 DEF Sigterm, SigtermOutsideRun, SigtermBetweenSteps, SigtermInStep, SigtermInSpawn,
              SigtermInFailRun, SigtermInFinishRun
<1>7. ASSUME NEW a \in Servers, Process(a)
      PROVE  \A q \in Runs : Placed(q)'
  <2>1. CASE CrashServer(a) \/ ShutdownIdle(a) \/ JoinTimesOut(a)
    <3>1. EndProcess(ThreadsOf(a)) /\ ThreadsOf(a) \in SUBSET Runs
      BY <2>1 DEF CrashServer, ShutdownIdle, JoinTimesOut, ThreadsOf, Runs
    <3> QED
      BY <1>4, <3>1
  <2>2. CASE RestartServer(a) \/ ShutdownActive(a) \/ RequestStop(a) \/ JoinReturns(a)
    BY <1>3, <2>2 DEF RestartServer, ShutdownActive, RequestStop, JoinReturns, thread, ledger
  <2> QED
    BY <1>7, <2>1, <2>2 DEF Process
<1>8. CASE UNCHANGED vars
  BY <1>3, <1>8 DEF vars, thread, ledger
<1> QED
  BY <1>2, <1>5, <1>6, <1>7, <1>8 DEF Next

-----------------------------------------------------------------------------
(* Every step is one of RunLedger's, or none                                *)

Owner == {q \in Runs : Live(q)}

\* A step that writes neither table and brings no run to life is the owner's
\* leave, or nothing the reader can see.
LEMMA OwnerLeaves ==
    ASSUME LedgerInv, UNCHANGED <<run, row>>, \A q \in Runs : Live(q)' => Live(q)
    PROVE  [Ledger!Next]_(Ledger!vars)
<1>1. CASE \A q \in Runs : Live(q) => Live(q)'
  <2>1. Owner' = Owner
    BY <1>1 DEF Owner
  <2> QED
    BY <2>1 DEF Ledger!vars, Owner
<1>2. CASE \E r \in Runs : Live(r) /\ ~Live(r)'
  <2>1. PICK r \in Runs : Live(r) /\ ~Live(r)'
    BY <1>2
  <2>2. Owner = {r} /\ Owner' = {}
    BY <2>1, OnlyOneInside DEF Owner
  <2> QED
    BY <2>1, <2>2 DEF Ledger!Next, Ledger!Leave, Owner
<1> QED
  BY <1>1, <1>2

\* While it is past the lock a run is the owner.
LEMMA OwnerInside ==
    ASSUME LedgerInv, LedgerInv', NEW r \in Runs, pc[r] \in Critical, pc'[r] \in Critical
    PROVE  Owner = {r} /\ Owner' = {r}
<1>1. Live(r) /\ Live(r)'
  BY DEF Live
<1>2. ASSUME NEW q \in Runs, Live(q)' PROVE r = q
  BY <1>1, <1>2 DEF LedgerInv, Inv, LockProtects, ChildWhereAwaited, Leaked
<1> QED
  BY <1>1, <1>2, OnlyOneInside DEF Owner

LEMMA LedgerBegin ==
    ASSUME LedgerInv, LedgerInv', NEW r \in Runs, BeginRun(r)
    PROVE  [Ledger!Next]_(Ledger!vars)
<1>1. CASE Post(r) \/ StartCli(r) \/ RefusedByLock(r) \/ BeginFails(r) \/ Register(r)
  <2>1. /\ UNCHANGED <<run, row, child>>
        /\ \E p \in Places : pc' = [pc EXCEPT ![r] = p]
        /\ pc'[r] \in Critical => pc[r] \in Critical
    BY <1>1 DEF Post, StartCli, RefusedByLock, BeginFails, Register, Goto, ledger, process,
       Places, Critical, InStep, LedgerInv, Inv, TypeInv, TypeOK
  <2>2. \A q \in Runs : Live(q)' => Live(q)
    BY <2>1 DEF Live, LedgerInv, Inv, TypeInv, TypeOK
  <2> QED
    BY <2>1, <2>2, OwnerLeaves
<1>2. CASE AcquireLock(r)
  <2>1. Owner = {}
    BY <1>2, RunsAssumption DEF AcquireLock, Owner, LedgerInv, Inv, LockProtects,
       ChildWhereAwaited, Leaked
  <2>2. run[r] = "none" /\ UNCHANGED <<run, row>> /\ pc'[r] = "reconcile"
    BY <1>2 DEF AcquireLock, Goto, ledger, LedgerInv, Placed, RunAsPlaced, Inv, TypeInv, TypeOK
  <2>3. Live(r)'
    BY <2>2 DEF Live, Critical
  <2>4. ASSUME NEW q \in Runs, Live(q)' PROVE r = q
    BY <2>3, <2>4 DEF LedgerInv, Inv, LockProtects, ChildWhereAwaited, Leaked
  <2>5. Owner' = {r}
    BY <2>3, <2>4 DEF Owner
  <2> QED
    BY <2>1, <2>2, <2>5 DEF Ledger!Next, Ledger!Begin, Owner
<1>3. CASE ReconcileAbandonedRuns(r)
  <2>1. pc[r] = "reconcile" /\ pc'[r] = "record" /\ run[r] = "none"
    BY <1>3 DEF ReconcileAbandonedRuns, Goto, LedgerInv, Placed, RunAsPlaced, Inv, TypeInv,
       TypeOK
  <2>2. Owner = {r} /\ Owner' = {r}
    BY <2>1, OwnerInside DEF Critical
  <2>3. /\ run' = [q \in Runs |-> IF run[q] = "running" THEN "abandoned" ELSE run[q]]
        /\ row' = [q \in Runs |->
                     IF run[q] # "running" THEN row[q]
                     ELSE [s \in Steps |-> CASE row[q][s] = "running" -> "abandoned"
                                             [] row[q][s] = "pending" -> "not_run"
                                             [] OTHER -> row[q][s]]]
    BY <1>3 DEF ReconcileAbandonedRuns, StaleRuns
  <2>4. Ledger!Abandon(r)
    BY <2>1, <2>2, <2>3 DEF Ledger!Abandon, Owner
  <2> QED
    BY <2>4 DEF Ledger!Next
<1>4. CASE InsertRun(r)
  <2>1. /\ pc[r] = "record" /\ pc'[r] = "register" /\ run[r] = "none"
        /\ \A q \in Runs : run[q] # "running"
    BY <1>4 DEF InsertRun, Goto, LedgerInv, Placed, RunAsPlaced, Inv, TypeInv, TypeOK
  <2>2. Owner = {r} /\ Owner' = {r}
    BY <2>1, OwnerInside DEF Critical
  <2>3. PICK plan \in (IF r \in CliRuns THEN {Steps} ELSE Plans) :
          /\ row' = [row EXCEPT ![r] = [s \in Steps |-> IF s \in plan THEN "pending" ELSE "none"]]
          /\ \E first \in plan : TRUE
    BY <1>4 DEF InsertRun
  <2>4. plan \in (SUBSET Steps) \ {{}}
    BY <2>3, RunsAssumption
  <2>5. Ledger!Open(r)
    BY <1>4, <2>1, <2>2, <2>3, <2>4 DEF InsertRun, Ledger!Open, Owner
  <2> QED
    BY <2>5 DEF Ledger!Next
<1> QED
  BY <1>1, <1>2, <1>3, <1>4 DEF BeginRun

\* A status written to the row of the current step, or lost.
LEMMA LedgerRecord ==
    ASSUME LedgerInv, LedgerInv', NEW r \in Runs, pc[r] \in Recorded, pc'[r] \in Critical,
           UNCHANGED <<run, child>>, \A q \in Runs : q # r => pc'[q] = pc[q],
           \/ UNCHANGED row
           \/ \E status \in Ledger!After(row[r][cur[r]]) :
                cur[r] \in Steps /\ row' = [row EXCEPT ![r][cur[r]] = status]
    PROVE  [Ledger!Next]_(Ledger!vars)
<1>1. CASE UNCHANGED row
  <2>1. \A q \in Runs : Live(q)' => Live(q)
    BY DEF Live, Recorded
  <2> QED
    BY <1>1, <2>1, OwnerLeaves
<1>2. CASE \E status \in Ledger!After(row[r][cur[r]]) :
             cur[r] \in Steps /\ row' = [row EXCEPT ![r][cur[r]] = status]
  <2>1. Owner = {r} /\ Owner' = {r}
    BY OwnerInside DEF Recorded
  <2>2. run[r] = "running"
    BY DEF LedgerInv, Placed, RunAsPlaced
  <2>3. Ledger!Record(r)
    BY <1>2, <2>1, <2>2 DEF Ledger!Record, Owner
  <2> QED
    BY <2>3 DEF Ledger!Next
<1> QED
  BY <1>1, <1>2

LEMMA LedgerSetStatus ==
    ASSUME LedgerInv, LedgerInv', NEW r \in Runs, NEW status \in StepStatus,
           NEW next \in {"launch", "reason", "settled"}, SetStatus(r, status, next),
           UNCHANGED <<lock, cur, process, run, server>>,
           \/ /\ pc[r] \in Unmarked \cap InStep
              /\ status \in {"running", "blocked", "skipped"}
           \/ pc[r] \in {"launch", "run"} /\ status \in {"completed", "failed"}
    PROVE  [Ledger!Next]_(Ledger!vars)
<1>1. /\ \E p \in {next, "failing"} : pc' = [pc EXCEPT ![r] = p]
      /\ UNCHANGED row \/ row' = [row EXCEPT ![r][cur[r]] = status]
  BY DEF SetStatus, Fail, Goto
<1>2. /\ pc[r] \in Recorded /\ cur[r] \in Steps /\ pc'[r] \in Critical
      /\ \A q \in Runs : q # r => pc'[q] = pc[q]
  BY <1>1, CursorInSteps DEF Recorded, Critical, InStep, LoopPlaces, LedgerInv, Inv, TypeInv,
     TypeOK
<1>3. status \in Ledger!After(row[r][cur[r]])
  BY DEF LedgerInv, Placed, StepAsPlaced, Ledger!After
<1> QED
  BY <1>1, <1>2, <1>3, LedgerRecord DEF process

LEMMA LedgerInStep ==
    ASSUME LedgerInv, LedgerInv', NEW r \in Runs, ExecuteStep(r)
    PROVE  [Ledger!Next]_(Ledger!vars)
<1>1. CASE \/ Head(r) \/ DecideToRun(r) \/ LaunchCheck(r) \/ CheckCannotStart(r)
           \/ CheckTimesOut(r) \/ CheckSaysPending(r) \/ StoppedDuringChild(r) \/ Launch(r)
           \/ RecordReason(r) \/ NextStep(r)
  <2>1. /\ UNCHANGED <<run, row>> /\ pc[r] \in Critical
        /\ \E p \in Places : pc' = [pc EXCEPT ![r] = p]
    BY <1>1 DEF Head, DecideToRun, LaunchCheck, CheckCannotStart, CheckTimesOut,
       CheckSaysPending, StoppedDuringChild, Launch, RecordReason, NextStep, NeedsCheck, Fail, Goto, ledger,
       Places, Critical, InStep
  <2>2. child' = child \/ \E c \in {"none", "running"} : child' = [child EXCEPT ![r] = c]
    BY <1>1 DEF Head, DecideToRun, LaunchCheck, CheckCannotStart, CheckTimesOut,
       CheckSaysPending, StoppedDuringChild, Launch, RecordReason, NextStep, process
  <2>3. \A q \in Runs : q # r => pc'[q] = pc[q] /\ child'[q] = child[q]
    BY <2>1, <2>2 DEF LedgerInv, Inv, TypeInv, TypeOK
  <2>4. \A q \in Runs : Live(q)' => Live(q)
    BY <2>1, <2>3 DEF Live
  <2> QED
    BY <2>1, <2>4, OwnerLeaves
<1>2. CASE Blocked(r)
  <2>1. /\ SetStatus(r, "blocked", "settled") /\ pc[r] \in Unmarked \cap InStep
        /\ UNCHANGED <<lock, cur, process, run, server>>
    BY <1>2 DEF Blocked, Unmarked, InStep
  <2> QED
    BY <2>1, LedgerSetStatus DEF StepStatus
<1>3. CASE SkipMissingNews(r) \/ DecideToSkip(r) \/ CheckSaysNotPending(r)
  <2>1. /\ SetStatus(r, "skipped", "settled") /\ pc[r] \in Unmarked \cap InStep
        /\ UNCHANGED <<lock, cur, process, run, server>>
    BY <1>3 DEF SkipMissingNews, DecideToSkip, CheckSaysNotPending, Unmarked, InStep
  <2> QED
    BY <2>1, LedgerSetStatus DEF StepStatus
<1>4. CASE MarkRunning(r)
  <2>1. /\ SetStatus(r, "running", "launch") /\ pc[r] \in Unmarked \cap InStep
        /\ UNCHANGED <<lock, cur, process, run, server>>
    BY <1>4 DEF MarkRunning, Unmarked, InStep
  <2> QED
    BY <2>1, LedgerSetStatus DEF StepStatus
<1>5. CASE LaunchFails(r) \/ StepReturns(r)
  <2>1. PICK status \in {"completed", "failed"}, next \in {"reason", "settled"} :
           SetStatus(r, status, next)
    BY <1>5 DEF LaunchFails, StepReturns
  <2>2. pc[r] \in {"launch", "run"} /\ UNCHANGED <<lock, cur, process, run, server>>
    BY <1>5 DEF LaunchFails, StepReturns
  <2> QED
    BY <2>1, <2>2, LedgerSetStatus DEF StepStatus
<1> QED
  BY <1>1, <1>2, <1>3, <1>4, <1>5 DEF ExecuteStep

LEMMA LedgerAtEnd ==
    ASSUME LedgerInv, LedgerInv', NEW r \in Runs, EndRun(r)
    PROVE  [Ledger!Next]_(Ledger!vars)
<1>1. \A q \in Runs : q # r => pc'[q] = pc[q]
  BY DEF EndRun, FailStep, MarkNotRun, FinishRun, PersistRun, ReleaseLock, Goto, LedgerInv,
     Inv, TypeInv, TypeOK
<1>2. Placed(r)
  BY DEF LedgerInv
<1>3. CASE FailStep(r)
  <2>1. /\ pc[r] = "failing" /\ pc'[r] = "marking" /\ UNCHANGED <<run, child>>
        /\ cur[r] \in Steps
    BY <1>3, CursorInSteps DEF FailStep, Goto, process, LoopPlaces, LedgerInv, Inv, TypeInv,
       TypeOK
  <2>2. \/ UNCHANGED row
        \/ row' = [row EXCEPT ![r][cur[r]] =
                     IF prog[r].cause = "prevented" THEN "not_run" ELSE "failed"]
    BY <1>3 DEF FailStep, TrySetStatus
  <2>3. CASE row[r][cur[r]] \in {"pending", "running"}
    <3>1. (IF prog[r].cause = "prevented" THEN "not_run" ELSE "failed")
            \in Ledger!After(row[r][cur[r]])
      BY <1>2, <2>1, <2>3 DEF Placed, StepAsPlaced, Ledger!After
    <3> QED
      BY <1>1, <2>1, <2>2, <3>1, LedgerRecord DEF Recorded, Critical
  <2>4. CASE row[r][cur[r]] \in {"completed", "failed"}
    <3>1. UNCHANGED row \/ row' = [row EXCEPT ![r][cur[r]] = "failed"]
      BY <1>2, <2>1, <2>2, <2>4 DEF Placed, StepAsPlaced
    <3>2. CASE UNCHANGED row
      BY <1>1, <2>1, <3>2, LedgerRecord DEF Recorded, Critical
    <3>3. CASE row' = [row EXCEPT ![r][cur[r]] = "failed"] /\ row[r][cur[r]] = "failed"
      <4>1. UNCHANGED row
        BY <2>1, <3>3 DEF LedgerInv, Inv, TypeInv, TypeOK
      <4> QED
        BY <1>1, <2>1, <4>1, LedgerRecord DEF Recorded, Critical
    <3>4. CASE row' = [row EXCEPT ![r][cur[r]] = "failed"] /\ row[r][cur[r]] = "completed"
      <4>1. Owner = {r} /\ Owner' = {r}
        BY <2>1, OwnerInside DEF Critical
      <4>2. run[r] = "running"
        BY <1>2, <2>1 DEF Placed, RunAsPlaced, Recorded, Critical
      <4>3. \A t \in Steps : t > cur[r] => row[r][t] \in {"pending", "none"}
        BY <1>2, <2>1 DEF Placed, AheadIsPending, LoopPlaces
      <4>4. Ledger!Revoke(r)
        BY <2>1, <3>4, <4>1, <4>2, <4>3 DEF Ledger!Revoke, Owner
      <4> QED
        BY <4>4 DEF Ledger!Next
    <3> QED
      BY <2>4, <3>1, <3>2, <3>3, <3>4
  <2> QED
    BY <1>2, <2>1, <2>3, <2>4 DEF Placed, StepAsPlaced
<1>4. CASE MarkNotRun(r)
  <2>1. /\ pc[r] = "marking" /\ pc'[r] \in {"marking", "finish"} /\ UNCHANGED <<run, child>>
    BY <1>4 DEF MarkNotRun, Goto, process, LedgerInv, Inv, TypeInv, TypeOK
  <2>2. \/ UNCHANGED row
        \/ /\ cur[r] \in prog[r].plan
           /\ row' = [row EXCEPT ![r][cur[r]] = "not_run"]
    BY <1>4 DEF MarkNotRun, TrySetStatus
  <2>3. cur[r] \in prog[r].plan =>
          cur[r] \in Steps /\ "not_run" \in Ledger!After(row[r][cur[r]])
    BY <1>2, <2>1 DEF Placed, AheadIsPending, Ledger!After, LedgerInv, Inv, TypeInv, TypeOK,
       Progress, Steps
  <2> QED
    BY <1>1, <2>1, <2>2, <2>3, LedgerRecord DEF Recorded, Critical
<1>5. CASE FinishRun(r) \/ ReleaseLock(r)
  <2>1. UNCHANGED <<run, row, child>> /\ pc[r] \in Critical
    BY <1>5 DEF FinishRun, ReleaseLock, ledger, process, Critical
  <2>2. \A q \in Runs : Live(q)' => Live(q)
    BY <1>1, <2>1 DEF Live
  <2> QED
    BY <2>1, <2>2, OwnerLeaves
<1>6. CASE PersistRun(r)
  <2>1. pc[r] = "persist" /\ pc'[r] = "release" /\ UNCHANGED <<row, child>>
    BY <1>6 DEF PersistRun, Goto, process, LedgerInv, Inv, TypeInv, TypeOK
  <2>2. CASE UNCHANGED run
    <3>1. \A q \in Runs : Live(q)' => Live(q)
      BY <1>1, <2>1 DEF Live, Critical
    <3> QED
      BY <2>1, <2>2, <3>1, OwnerLeaves
  <2>3. CASE run' = [run EXCEPT ![r] = IF prog[r].failed THEN "failed" ELSE "completed"]
    <3>1. Owner = {r} /\ Owner' = {r}
      BY <2>1, OwnerInside DEF Critical
    <3>2. run[r] = "running"
      BY <1>2, <2>1 DEF Placed, RunAsPlaced, Recorded, Critical
    <3>3. ~prog[r].failed => \A s \in Steps : row[r][s] \in {"none", "completed", "skipped"}
      BY <1>2, <2>1 DEF Placed, BehindIsSettled, NothingLeft
    <3>4. Ledger!Close(r)
      BY <2>1, <2>3, <3>1, <3>2, <3>3 DEF Ledger!Close, Owner
    <3> QED
      BY <3>4 DEF Ledger!Next
  <2> QED
    BY <1>6, <2>2, <2>3 DEF PersistRun
<1> QED
  BY <1>3, <1>4, <1>5, <1>6 DEF EndRun

LEMMA LedgerStep ==
    ASSUME SigtermRuns = {}, LedgerInv, LedgerInv', [Next]_vars
    PROVE  [Ledger!Next]_(Ledger!vars)
<1>1. ASSUME NEW r \in Runs, BeginRun(r) \/ ExecuteStep(r) \/ EndRun(r)
      PROVE  [Ledger!Next]_(Ledger!vars)
  BY <1>1, LedgerBegin, LedgerInStep, LedgerAtEnd
<1>2. ASSUME NEW dying \in SUBSET Runs, EndProcess(dying)
      PROVE  [Ledger!Next]_(Ledger!vars)
  <2>1. UNCHANGED <<run, row>> /\ \A q \in Runs : Live(q)' => Live(q)
    BY <1>2 DEF EndProcess, process, ledger, Live, Critical, InStep
  <2> QED
    BY <2>1, OwnerLeaves
<1>3. ASSUME NEW r \in Runs, ChildExits(r)
      PROVE  [Ledger!Next]_(Ledger!vars)
  <2>1. UNCHANGED <<run, row>> /\ \A q \in Runs : Live(q)' => Live(q)
    BY <1>3 DEF ChildExits, thread, ledger, Live, LedgerInv, Inv, TypeInv, TypeOK
  <2> QED
    BY <2>1, OwnerLeaves
<1>4. ASSUME NEW r \in Runs, CrashCli(r)
      PROVE  [Ledger!Next]_(Ledger!vars)
  BY <1>2, <1>4 DEF CrashCli
<1>5. ASSUME NEW r \in Runs, Sigterm(r)
      PROVE  [Ledger!Next]_(Ledger!vars)
  BY <1>5 DEF Sigterm, SigtermOutsideRun, SigtermBetweenSteps, SigtermInStep, SigtermInSpawn,
              SigtermInFailRun, SigtermInFinishRun
<1>6. ASSUME NEW a \in Servers, Process(a)
      PROVE  [Ledger!Next]_(Ledger!vars)
  <2>1. CASE CrashServer(a) \/ ShutdownIdle(a) \/ JoinTimesOut(a)
    <3>1. EndProcess(ThreadsOf(a)) /\ ThreadsOf(a) \in SUBSET Runs
      BY <2>1 DEF CrashServer, ShutdownIdle, JoinTimesOut, ThreadsOf, Runs
    <3> QED
      BY <1>2, <3>1
  <2>2. CASE RestartServer(a) \/ ShutdownActive(a) \/ RequestStop(a) \/ JoinReturns(a)
    <3>1. /\ UNCHANGED <<run, row, pc>>
          /\ \A q \in Runs : child'[q] = "running" => child[q] = "running"
      BY <2>2 DEF RestartServer, ShutdownActive, RequestStop, JoinReturns, thread, process,
         ledger
    <3>2. \A q \in Runs : Live(q)' => Live(q)
      BY <3>1 DEF Live
    <3> QED
      BY <3>1, <3>2, OwnerLeaves
  <2> QED
    BY <1>6, <2>1, <2>2 DEF Process
<1>7. CASE UNCHANGED vars
  <2>1. UNCHANGED <<run, row>> /\ \A q \in Runs : Live(q)' => Live(q)
    BY <1>7 DEF vars, thread, process, ledger, Live
  <2> QED
    BY <2>1, OwnerLeaves
<1> QED
  BY <1>1, <1>3, <1>4, <1>5, <1>6, <1>7 DEF Next

\* Through crashes, restarts, refused runs, stops and failed writes, what the
\* lock, reconcile_abandoned_runs and execute_run do together is one of the few
\* things RunLedger lets a reader of the two provenance tables see, for every
\* pipeline and any number of servers and runs, when no CLI process is sent
\* SIGTERM.
THEOREM RefinesRunLedger == SigtermRuns = {} => (Spec => ImplementsRunLedger)
<1> SUFFICES ASSUME SigtermRuns = {} PROVE Spec => ImplementsRunLedger
  OBVIOUS
<1>1. Init => ChildWhereAwaited /\ \A r \in Runs : Placed(r)
  BY DEF Init, ChildWhereAwaited, Placed, RunAsPlaced, StepAsPlaced, AheadIsPending,
     BehindIsSettled, Recorded, Critical, InStep, Unmarked, LoopPlaces
<1>2. LedgerInv /\ [Next]_vars =>
        ChildWhereAwaited' /\ \A r \in Runs : Placed(r)'
  BY ChildAwaitedStep, PlacedStep DEF LedgerInv, Inv
<1>3. Spec => []LedgerInv
  <2>1. Init => LedgerInv
    BY <1>1, TypeInit DEF LedgerInv, Inv, Init, LockProtects, Live, Critical, InStep
  <2>2. LedgerInv /\ [Next]_vars => LedgerInv'
    BY <1>2, TypeStep, LockStep DEF LedgerInv, Inv
  <2> QED
    BY <2>1, <2>2, PTL DEF Spec
<1>4. Init => Ledger!Init
  BY DEF Init, Ledger!Init, Live, Critical, InStep
<1>5. LedgerInv /\ LedgerInv' /\ [Next]_vars => [Ledger!Next]_(Ledger!vars)
  BY LedgerStep
<1> QED
  BY <1>3, <1>4, <1>5, PTL DEF Spec, ImplementsRunLedger, Ledger!Spec

-----------------------------------------------------------------------------
(* The stop of a server and the spawn                                       *)

\* A stop begins only when no request is in flight, the reason it sets stays
\* set as long as the run is in its loop, and a child of an API run is one its
\* run waits for or has left by dying: with these StopLeavesNoChild is
\* inductive.
StopPlaced(r) ==
    /\ srv[Home[r]] \in {"stopping", "joining"} =>
         pc[r] \notin {"begin", "reconcile", "record", "register"}
    /\ srv[Home[r]] = "joining" /\ pc[r] \in Critical \ {"persist", "release"} => stop[Home[r]]
    /\ child[r] = "running" => pc[r] \in {"check", "run", "dead"}
    /\ srv[Home[r]] = "joining" /\ pc[r] # "dead" => child[r] # "running"

StopsPlaced == \A r \in ApiRuns : StopPlaced(r)

StopInv == Inv /\ StopsPlaced

\* A run none of whose own state or server's state is touched.
LEMMA StopKept ==
    ASSUME NEW q \in ApiRuns, StopPlaced(q), UNCHANGED <<srv, stop>>,
           pc'[q] \in {pc[q], "dead"}, child'[q] \in {child[q], "none"}
    PROVE  StopPlaced(q)'
  BY DEF StopPlaced, Critical, InStep

LEMMA StopInBegin ==
    ASSUME StopInv, NEW r \in Runs, BeginRun(r), NEW q \in ApiRuns
    PROVE  StopPlaced(q)'
<1>1. /\ UNCHANGED <<child, srv>> /\ StopPlaced(q) /\ q \in Runs
      /\ q # r => pc'[q] = pc[q]
  BY DEF BeginRun, Post, StartCli, AcquireLock, RefusedByLock, ReconcileAbandonedRuns,
     InsertRun, BeginFails, Register, Goto, process, server, StopInv, StopsPlaced, Inv, TypeInv, TypeOK, Runs
<1>2. q = r => /\ pc[q] \in {"idle", "begin", "reconcile", "record", "register"}
               /\ pc[q] = "idle" => srv[Home[q]] = "up"
               /\ pc'[q] # "dead"
  BY RunsAssumption DEF BeginRun, Post, StartCli, AcquireLock, RefusedByLock, ReconcileAbandonedRuns,
     InsertRun, BeginFails, Register, Goto, StopInv, StopsPlaced, Inv, TypeInv, TypeOK, Runs
<1>3. srv[Home[q]] = "joining" => stop'[Home[q]] = stop[Home[q]]
  <2>1. CASE AcquireLock(r) /\ r \in ApiRuns
    <3>1. srv[Home[r]] # "joining"
      BY <2>1 DEF AcquireLock, StopInv, StopsPlaced, StopPlaced
    <3> QED
      BY <2>1, <3>1, RunsAssumption DEF AcquireLock, StopInv, StopsPlaced, Inv, TypeInv, TypeOK
  <2>2. CASE ~(AcquireLock(r) /\ r \in ApiRuns)
    BY <2>2 DEF BeginRun, Post, StartCli, AcquireLock, RefusedByLock, ReconcileAbandonedRuns,
       InsertRun, BeginFails, Register, server
  <2> QED
    BY <2>1, <2>2
<1> QED
  BY <1>1, <1>2, <1>3 DEF StopPlaced

LEMMA StopInStep ==
    ASSUME StopInv, NEW r \in Runs, ExecuteStep(r), NEW q \in ApiRuns
    PROVE  StopPlaced(q)'
<1>1. UNCHANGED <<srv, stop>> /\ pc[r] \in Critical \ {"persist", "release"}
  BY DEF ExecuteStep, Head, Blocked, SkipMissingNews, DecideToRun, DecideToSkip, LaunchCheck,
         CheckCannotStart, CheckTimesOut, CheckSaysPending, CheckSaysNotPending,
         StoppedDuringChild, MarkRunning, Launch, LaunchFails, StepReturns, RecordReason, NextStep,
         NeedsCheck, server, Critical, InStep
<1>2. \E p \in Critical \ {"register", "reconcile", "record", "persist", "release"} :
         pc' = [pc EXCEPT ![r] = p]
  BY DEF ExecuteStep, Head, Blocked, SkipMissingNews, DecideToRun, DecideToSkip, LaunchCheck,
         CheckCannotStart, CheckTimesOut, CheckSaysPending, CheckSaysNotPending,
         StoppedDuringChild, MarkRunning, Launch, LaunchFails, StepReturns, RecordReason, NextStep,
         SetStatus, Fail, Goto, Critical, InStep
<1>3. \/ UNCHANGED child /\ (child[r] = "none" \/ pc[r] \notin {"check", "run", "dead"})
      \/ child' = [child EXCEPT ![r] = "none"]
      \/ /\ child' = [child EXCEPT ![r] = "running"] /\ ~Stopping(r)
         /\ Goto(r, "check") \/ Goto(r, "run")
  BY DEF ExecuteStep, Head, Blocked, SkipMissingNews, DecideToRun, DecideToSkip, LaunchCheck,
         CheckCannotStart, CheckTimesOut, CheckSaysPending, CheckSaysNotPending,
         StoppedDuringChild, MarkRunning, Launch, LaunchFails, StepReturns, RecordReason, NextStep,
         NeedsCheck, process
<1>4. CASE q # r
  BY <1>1, <1>2, <1>3, <1>4, StopKept DEF StopInv, StopsPlaced, Inv, TypeInv, TypeOK, Runs
<1>5. CASE q = r
  <2>1. StopPlaced(r) /\ r \in ApiRuns
    BY <1>5 DEF StopInv, StopsPlaced
  <2>2. /\ pc'[r] \notin {"begin", "reconcile", "record", "register", "dead"}
        /\ srv'[Home[r]] = srv[Home[r]] /\ stop'[Home[r]] = stop[Home[r]]
    BY <1>1, <1>2 DEF Critical, InStep, StopInv, StopsPlaced, Inv, TypeInv, TypeOK
  <2>3. \/ child'[r] # "running"
        \/ /\ child'[r] = "running" /\ ~stop[Home[r]] /\ pc'[r] \in {"check", "run"}
    <3>1. CASE UNCHANGED child /\ (child[r] = "none" \/ pc[r] \notin {"check", "run", "dead"})
      BY <2>1, <3>1 DEF StopPlaced
    <3>2. CASE child' = [child EXCEPT ![r] = "none"]
      BY <3>2 DEF StopInv, StopsPlaced, Inv, TypeInv, TypeOK
    <3>3. CASE /\ child' = [child EXCEPT ![r] = "running"] /\ ~Stopping(r)
               /\ Goto(r, "check") \/ Goto(r, "run")
      BY <2>1, <3>3 DEF Stopping, Goto, StopInv, StopsPlaced, Inv, TypeInv, TypeOK
    <3> QED
      BY <1>3, <3>1, <3>2, <3>3
  <2> QED
    BY <1>1, <1>5, <2>1, <2>2, <2>3 DEF StopPlaced
<1> QED
  BY <1>4, <1>5

\* Only the run that ends clears the reason, and no other run is in its loop.
LEMMA StopAtEnd ==
    ASSUME StopInv, NEW r \in Runs, EndRun(r), NEW q \in ApiRuns
    PROVE  StopPlaced(q)'
<1>1. /\ UNCHANGED <<child, srv>> /\ StopPlaced(q) /\ q \in Runs
      /\ q # r => pc'[q] = pc[q]
  BY DEF EndRun, FailStep, MarkNotRun, FinishRun, PersistRun, ReleaseLock, Goto, process,
     server, StopInv, StopsPlaced, Inv, TypeInv, TypeOK, Runs
<1>2. CASE FinishRun(r)
  <2>1. pc[r] = "finish" /\ pc'[r] = "persist"
    BY <1>2 DEF FinishRun, Goto, StopInv, StopsPlaced, Inv, TypeInv, TypeOK
  <2>2. q # r => pc[q] \notin Critical
    BY <1>1, <2>1 DEF StopInv, StopsPlaced, Inv, LockProtects, Live, Leaked, Critical, InStep
  <2> QED
    BY <1>1, <2>1, <2>2 DEF StopPlaced
<1>3. CASE FailStep(r) \/ MarkNotRun(r) \/ PersistRun(r) \/ ReleaseLock(r)
  <2>1. /\ UNCHANGED stop
        /\ pc[r] \in {"failing", "marking", "persist", "release"}
        /\ pc'[r] \in {"marking", "finish", "release", "done"}
        /\ pc[r] \in {"persist", "release"} => pc'[r] \in {"release", "done"}
    BY <1>3 DEF FailStep, MarkNotRun, PersistRun, ReleaseLock, Goto, server, StopInv, StopsPlaced, Inv,
       TypeInv, TypeOK
  <2>2. CASE q # r
    BY <1>1, <2>1, <2>2, StopKept
  <2>3. CASE q = r
    <3>1. StopPlaced(r) /\ UNCHANGED <<child[r], srv[Home[r]], stop[Home[r]]>>
      BY <1>1, <2>1, <2>3
    <3>2. child[r] # "running"
      BY <2>1, <3>1 DEF StopPlaced
    <3>3. pc'[r] \in Critical \ {"persist", "release"} => pc[r] \in Critical \ {"persist", "release"}
      BY <2>1 DEF Critical, InStep
    <3> QED
      BY <2>1, <2>3, <3>1, <3>2, <3>3 DEF StopPlaced
  <2> QED
    BY <2>2, <2>3
<1> QED
  BY <1>2, <1>3 DEF EndRun

LEMMA StopAtProcess ==
    ASSUME StopInv, NEW a \in Servers, Process(a), NEW q \in ApiRuns
    PROVE  StopPlaced(q)'
<1>1. StopPlaced(q) /\ q \in Runs /\ Home[q] \in Servers
  BY RunsAssumption DEF StopInv, StopsPlaced, Runs
<1>2. CASE CrashServer(a) \/ ShutdownIdle(a) \/ JoinTimesOut(a)
  <2>1. /\ UNCHANGED <<child, stop>> /\ pc'[q] \in {pc[q], "dead"}
        /\ \A b \in Servers : srv'[b] \in {srv[b], "down", "exited"}
    BY <1>1, <1>2 DEF CrashServer, ShutdownIdle, JoinTimesOut, EndProcess, process, StopInv, StopsPlaced, Inv,
       TypeInv, TypeOK
  <2> QED
    BY <1>1, <2>1 DEF StopPlaced, Critical, InStep
<1>3. CASE RestartServer(a) \/ JoinReturns(a)
  <2>1. /\ UNCHANGED <<child, pc>>
        /\ \A b \in Servers : srv'[b] \in {"up", "exited"} \/ (srv'[b] = srv[b] /\ stop'[b] = stop[b])
    BY <1>3 DEF RestartServer, JoinReturns, thread, process, StopInv, StopsPlaced, Inv, TypeInv, TypeOK
  <2> QED
    BY <1>1, <2>1 DEF StopPlaced
<1>4. CASE ShutdownActive(a)
  <2>1. /\ UNCHANGED <<child, pc, stop>>
        /\ \A b \in Servers : srv'[b] = IF b = a THEN "stopping" ELSE srv[b]
        /\ Home[q] = a => pc[q] \notin {"begin", "reconcile", "record", "register"}
    BY <1>4 DEF ShutdownActive, RequestsDrained, thread, process, StopInv, StopsPlaced, Inv, TypeInv, TypeOK
  <2> QED
    BY <1>1, <2>1 DEF StopPlaced
<1>5. CASE RequestStop(a)
  <2>1. /\ UNCHANGED pc /\ srv[a] = "stopping"
        /\ \A b \in Servers : srv'[b] = IF b = a THEN "joining" ELSE srv[b]
        /\ \A b \in Servers : stop'[b] = IF b = a THEN TRUE ELSE stop[b]
        /\ child'[q] = IF Home[q] = a /\ pc[q] \in {"check", "run"} /\ child[q] = "running"
                       THEN "dying" ELSE child[q]
    BY <1>1, <1>5 DEF RequestStop, thread, StopInv, StopsPlaced, Inv, TypeInv, TypeOK
  <2> QED
    BY <1>1, <2>1 DEF StopPlaced
<1> QED
  BY <1>2, <1>3, <1>4, <1>5 DEF Process

LEMMA StopStep ==
    ASSUME StopInv, [Next]_vars, NEW q \in ApiRuns
    PROVE  StopPlaced(q)'
<1>1. StopPlaced(q) /\ q \in Runs
  BY DEF StopInv, StopsPlaced, Runs
<1>2. ASSUME NEW r \in Runs, BeginRun(r) \/ ExecuteStep(r) \/ EndRun(r)
      PROVE  StopPlaced(q)'
  BY <1>2, StopInBegin, StopInStep, StopAtEnd
<1>3. ASSUME NEW r \in Runs, ChildExits(r) \/ CrashCli(r)
      PROVE  StopPlaced(q)'
  <2>1. /\ UNCHANGED <<srv, stop>> /\ pc'[q] \in {pc[q], "dead"}
        /\ child'[q] \in {child[q], "none"}
    BY <1>1, <1>3 DEF ChildExits, CrashCli, EndProcess, thread, process, server, StopInv, StopsPlaced, Inv,
       TypeInv, TypeOK
  <2> QED
    BY <1>1, <2>1, StopKept
<1>4. ASSUME NEW r \in Runs, Sigterm(r)
      PROVE  StopPlaced(q)'
  <2>1. q # r
    BY <1>4, RunsAssumption DEF Sigterm, SigtermOutsideRun, SigtermBetweenSteps, SigtermInStep,
       SigtermInSpawn, SigtermInFailRun, SigtermInFinishRun
  <2>2. UNCHANGED <<srv, stop>> /\ pc'[q] = pc[q] /\ child'[q] = child[q]
    BY <1>1, <1>4, <2>1 DEF Sigterm, SigtermOutsideRun, SigtermBetweenSteps, SigtermInStep,
       SigtermInSpawn, SigtermInFailRun, SigtermInFinishRun, Fail, Goto, process, server,
       StopInv, StopsPlaced, Inv, TypeInv, TypeOK
  <2> QED
    BY <1>1, <2>2, StopKept
<1>5. ASSUME NEW a \in Servers, Process(a)
      PROVE  StopPlaced(q)'
  BY <1>5, StopAtProcess
<1>6. CASE UNCHANGED vars
  BY <1>1, <1>6, StopKept DEF vars, thread, process, server
<1> QED
  BY <1>2, <1>3, <1>4, <1>5, <1>6 DEF Next

\* While a server waits for its runner, that is once request_stop has returned
\* and until the join does, no run of it has a child but a killed one (a run
\* whose process died apart), whatever the interleaving of the stop with the
\* thread that was about to spawn.
THEOREM StopAlwaysLeavesNoChild == Spec => []StopLeavesNoChild
<1>1. Init => StopsPlaced
  BY RunsAssumption DEF Init, StopsPlaced, StopPlaced, Runs
<1>2. Inv /\ StopsPlaced /\ [Next]_vars => StopsPlaced'
  BY StopStep DEF StopInv, StopsPlaced
<1>3. StopsPlaced => StopLeavesNoChild
  BY DEF StopsPlaced, StopPlaced, StopLeavesNoChild
<1> QED
  BY <1>1, <1>2, <1>3, InvInvariant, PTL DEF Spec

-----------------------------------------------------------------------------
(* Blocking and the pending signal                                          *)

\* Before the run has a plan, and where its rows are no longer written.
Fresh == {"idle", "begin", "reconcile", "record"}
Quiet == {"refused", "done", "dead", "finish", "persist", "release"}

\* Where the loop has taken a decision about its step.
Chosen == {"check", "mark", "launch", "run"}

Over == {"completed", "skipped", "failed", "blocked"}

\* The steps that run only on a signal from upstream.
Plain == Steps \ (Checked \cup AlwaysRun \cup {NewsStep})

SoundAt(r, s) ==
    \A d \in DependsOn[s] \cap prog[r].plan : row[r][d] \in {"completed", "skipped"}

SoundRun(r) == \A s \in Steps : s \in started[r] \/ row[r][s] = "skipped" => SoundAt(r, s)

PropagatedRun(r) ==
    Incremental(r) =>
        \A s \in Plain :
            row[r][s] \in {"completed", "skipped"} =>
               (row[r][s] = "completed" <=>
                   \E d \in DependsOn[s] \ AlwaysRun : row[r][d] = "completed")

\* What the loop has not reached has neither run nor a status, and what it has
\* gone through has an outcome.
RowsPlaced(r) ==
    /\ pc[r] \in Fresh => started[r] = {} /\ prog[r].ranPending = {}
    /\ pc[r] \in LoopPlaces =>
         \A s \in prog[r].plan : s > cur[r] => row[r][s] = "pending" /\ s \notin started[r]
    /\ pc[r] = "marking" =>
         \A s \in prog[r].plan : s >= cur[r] => row[r][s] = "pending" /\ s \notin started[r]
    /\ pc[r] \in LoopPlaces \cup {"marking"} =>
         \A s \in Steps \ prog[r].plan : row[r][s] = "none" /\ s \notin started[r]
    /\ pc[r] \in LoopPlaces \ {"failing"} =>
         \A s \in prog[r].plan :
            s < cur[r] \/ (s = cur[r] /\ pc[r] \in {"reason", "settled"}) => row[r][s] \in Over

\* ran_pending is what completed on a signal, and a step is marked only over
\* sound upstreams and, without a check, on a signal.
SignalsPlaced(r) ==
    /\ pc[r] \in Chosen => SoundAt(r, cur[r])
    /\ pc[r] = "check" => cur[r] \in Checked
    /\ pc[r] \in LoopPlaces \ {"failing"} /\ Incremental(r) =>
         \A d \in Steps : d \in prog[r].ranPending
                            <=> d < cur[r] /\ d \notin AlwaysRun /\ row[r][d] = "completed"
    /\ pc[r] \in {"mark", "launch", "run"} /\ Incremental(r) =>
         /\ cur[r] \notin AlwaysRun => prog[r].signal
         /\ cur[r] \in Plain => PendingUpstream(r)
    /\ pc[r] \in {"reason", "settled"} /\ Incremental(r) /\ row[r][cur[r]] = "completed" =>
         cur[r] \in AlwaysRun \/ prog[r].signal

StepsOf(r) == SoundRun(r) /\ PropagatedRun(r) /\ RowsPlaced(r) /\ SignalsPlaced(r)

StepsInv == Inv /\ \A r \in Runs : StepsOf(r)

\* A run that stands still.
LEMMA StepsKept ==
    ASSUME NEW q \in Runs, StepsOf(q),
           pc'[q] = pc[q], cur'[q] = cur[q], prog'[q] = prog[q], row'[q] = row[q],
           started'[q] = started[q]
    PROVE  StepsOf(q)'
  BY DEF StepsOf, SoundRun, SoundAt, PropagatedRun, Incremental, RowsPlaced, SignalsPlaced,
     PendingUpstream

\* A run outside its loop, whatever happens to rows that are not outcomes.
LEMMA StepsQuiet ==
    ASSUME NEW q \in Runs, StepsOf(q),
           pc'[q] \in Quiet \/ (pc[q] \in Fresh /\ pc'[q] \in Fresh),
           prog'[q] = prog[q], started'[q] = started[q],
           \A s \in Steps : \/ row'[q][s] = row[q][s]
                            \/ /\ row[q][s] \notin {"completed", "skipped"}
                               /\ row'[q][s] \notin {"completed", "skipped"}
    PROVE  StepsOf(q)'
<1>1. pc'[q] \notin LoopPlaces \cup {"marking"} \cup Chosen
  BY DEF Quiet, Fresh, LoopPlaces, InStep, Chosen
<1>2. RowsPlaced(q)' /\ SignalsPlaced(q)'
  BY <1>1 DEF StepsOf, RowsPlaced, SignalsPlaced, LoopPlaces, InStep, Chosen, Fresh, Quiet
<1>3. \A s \in Steps : DependsOn[s] \subseteq Steps
  BY PipelineAssumption
<1>4. SoundRun(q)'
  BY <1>3 DEF StepsOf, SoundRun, SoundAt
<1>5. PropagatedRun(q)'
  BY <1>3 DEF StepsOf, PropagatedRun, Incremental, Plain
<1> QED
  BY <1>2, <1>4, <1>5 DEF StepsOf

\* A failure leaves the loop with the rows as they are, even in the spawn.
LEMMA StepsFail ==
    ASSUME StepsInv, NEW r \in Runs, NEW cause \in Causes, Fail(r, cause),
           pc[r] \in LoopPlaces, cur'[r] = cur[r], row'[r] = row[r],
           \/ started'[r] = started[r]
           \/ pc[r] \in Chosen /\ started'[r] = started[r] \cup {cur[r]}
    PROVE  StepsOf(r)'
<1>1. /\ pc'[r] = "failing" /\ prog'[r].plan = prog[r].plan
      /\ cur[r] \in prog[r].plan /\ prog[r].plan \subseteq Steps
  BY DEF Fail, Goto, StepsInv, Inv, TypeInv, TypeOK, CursorInPlan, Progress
<1>2. StepsOf(r)
  BY DEF StepsInv
<1>3. RowsPlaced(r)'
  BY <1>1, <1>2 DEF StepsOf, RowsPlaced, LoopPlaces, Fresh, Steps
<1>4. SignalsPlaced(r)'
  BY <1>1 DEF SignalsPlaced, LoopPlaces, Chosen
<1>5. SoundRun(r)'
  BY <1>1, <1>2 DEF StepsOf, SoundRun, SoundAt, SignalsPlaced
<1>6. PropagatedRun(r)'
  BY <1>1, <1>2 DEF StepsOf, PropagatedRun, Incremental
<1> QED
  BY <1>3, <1>4, <1>5, <1>6 DEF StepsOf

\* An unblocked step has sound upstreams: every one of them has an outcome.
LEMMA UnblockedIsSound ==
    ASSUME StepsInv, NEW r \in Runs, pc[r] = "decide", ~IsBlocked(r)
    PROVE  SoundAt(r, cur[r])
<1>1. cur[r] \in Steps
  BY CursorInSteps DEF StepsInv, Inv, LoopPlaces, InStep
<1> SUFFICES ASSUME NEW d \in DependsOn[cur[r]] \cap prog[r].plan
             PROVE  row[r][d] \in {"completed", "skipped"}
  BY DEF SoundAt
<1>2. d < cur[r]
  BY <1>1, PipelineAssumption
<1>3. row[r][d] \in Over
  BY <1>2 DEF StepsInv, StepsOf, RowsPlaced, LoopPlaces, InStep
<1>4. row[r][d] \notin {"failed", "blocked"}
  BY DEF IsBlocked
<1> QED
  BY <1>3, <1>4 DEF Over

\* The signal a step sees is that of its direct upstreams.
LEMMA SignalIsUpstream ==
    ASSUME StepsInv, NEW r \in Runs, pc[r] \in LoopPlaces \ {"failing"}, Incremental(r)
    PROVE  PendingUpstream(r)
             <=> \E d \in DependsOn[cur[r]] \ AlwaysRun : row[r][d] = "completed"
<1>1. cur[r] \in Steps
  BY CursorInSteps DEF StepsInv, Inv
<1>2. \A d \in DependsOn[cur[r]] : d \in Steps /\ d < cur[r]
  BY <1>1, PipelineAssumption
<1>3. \A d \in DependsOn[cur[r]] :
         d \in prog[r].ranPending <=> d \notin AlwaysRun /\ row[r][d] = "completed"
  BY <1>2 DEF StepsInv, StepsOf, SignalsPlaced
<1> QED
  BY <1>3 DEF PendingUpstream

\* The row of the current step is written, and no row the others depend on.
LEMMA StepsWrite ==
    ASSUME StepsInv, NEW r \in Runs, NEW status \in StepStatus,
           NEW next \in {"launch", "reason", "settled"},
           SetStatus(r, status, next), cur'[r] = cur[r], started'[r] = started[r],
           pc[r] \in InStep \ {"reason", "settled"},
           next = "launch" => pc[r] = "mark" /\ status = "running",
           next # "launch" => status \in Over,
           status = "skipped" => SoundAt(r, cur[r]),
           status = "skipped" /\ cur[r] \in Plain /\ Incremental(r) => ~PendingUpstream(r),
           status = "completed" => pc[r] = "run"
    PROVE  StepsOf(r)'
<1>1. CASE Fail(r, "write") /\ UNCHANGED row
  BY <1>1, StepsFail DEF Causes, LoopPlaces
<1>2. CASE /\ row' = [row EXCEPT ![r][cur[r]] = status]
           /\ Goto(r, next) /\ UNCHANGED prog
  <2>1. /\ pc[r] \in LoopPlaces \ {"failing"} /\ pc'[r] = next
        /\ cur[r] \in Steps /\ cur[r] \in prog[r].plan /\ prog[r].plan \subseteq Steps
    BY <1>2, CursorInSteps DEF Goto, LoopPlaces, InStep, StepsInv, Inv, TypeInv, TypeOK,
       CursorInPlan, Progress
  <2>2. \A s \in Steps : row'[r][s] = IF s = cur[r] THEN status ELSE row[r][s]
    BY <1>2, <2>1 DEF StepsInv, Inv, TypeInv, TypeOK
  <2>3. StepsOf(r)
    BY DEF StepsInv
  <2>4. \A s \in Steps : \A d \in DependsOn[s] : d \in Steps /\ d < s
    BY PipelineAssumption
  <2>5. \A s \in Steps : s > cur[r] =>
          /\ s \notin started[r]
          /\ row[r][s] \in {"pending", "none"}
    BY <2>1, <2>3 DEF StepsOf, RowsPlaced
  <2>6. \A s \in Steps : s <= cur[r] => (SoundAt(r, s)' <=> SoundAt(r, s))
    <3> SUFFICES ASSUME NEW s \in Steps, s <= cur[r]
                 PROVE  \A d \in DependsOn[s] : row'[r][d] = row[r][d]
      BY <1>2 DEF SoundAt
    <3> QED
      BY <2>1, <2>2, <2>4 DEF Steps
  <2>7. SoundRun(r)'
    <3> SUFFICES ASSUME NEW s \in Steps, s \in started'[r] \/ row'[r][s] = "skipped"
                 PROVE  SoundAt(r, s)'
      BY DEF SoundRun
    <3>1. s <= cur[r]
      BY <2>1, <2>2, <2>5 DEF Steps
    <3>2. SoundAt(r, s)
      BY <2>2, <2>3 DEF StepsOf, SoundRun
    <3> QED
      BY <2>6, <3>1, <3>2
  <2>8. PropagatedRun(r)'
    <3> SUFFICES ASSUME Incremental(r), NEW s \in Plain, row'[r][s] \in {"completed", "skipped"}
                 PROVE  row'[r][s] = "completed" <=>
                          \E d \in DependsOn[s] \ AlwaysRun : row'[r][d] = "completed"
      BY <1>2 DEF PropagatedRun, Incremental
    <3>1. s \in Steps
      BY DEF Plain
    <3>2. s <= cur[r]
      BY <2>1, <2>2, <2>5, <3>1 DEF Steps
    <3>3. \A d \in DependsOn[s] : row'[r][d] = row[r][d]
      BY <2>1, <2>2, <2>4, <3>1, <3>2 DEF Steps
    <3>4. CASE s # cur[r]
      BY <2>2, <2>3, <3>1, <3>3, <3>4 DEF StepsOf, PropagatedRun
    <3>5. CASE s = cur[r]
      <4>1. row'[r][s] = status
        BY <2>2, <3>1, <3>5
      <4>2. PendingUpstream(r) <=> \E d \in DependsOn[s] \ AlwaysRun : row[r][d] = "completed"
        BY <2>1, <3>5, SignalIsUpstream
      <4>3. status = "completed" => PendingUpstream(r)
        BY <2>3, <3>5 DEF StepsOf, SignalsPlaced
      <4>4. status = "skipped" => ~PendingUpstream(r)
        BY <3>5
      <4> QED
        BY <3>3, <4>1, <4>2, <4>3, <4>4
    <3> QED
      BY <3>4, <3>5
  <2>9. RowsPlaced(r)'
    BY <1>2, <2>1, <2>2, <2>3 DEF StepsOf, RowsPlaced, LoopPlaces, InStep, Fresh, Steps
  <2>10. SignalsPlaced(r)'
    <3>1. next = "launch" => SoundAt(r, cur[r])'
      BY <2>1, <2>3, <2>6 DEF StepsOf, SignalsPlaced, Chosen, Steps
    <3>2. Incremental(r) => \A d \in Steps :
             d \in prog[r].ranPending <=> d < cur[r] /\ d \notin AlwaysRun /\ row'[r][d] = "completed"
      BY <2>1, <2>2, <2>3 DEF StepsOf, SignalsPlaced, Steps
    <3>3. next = "launch" /\ Incremental(r) => /\ cur[r] \notin AlwaysRun => prog[r].signal
                                               /\ cur[r] \in Plain => PendingUpstream(r)
      BY <2>3 DEF StepsOf, SignalsPlaced
    <3>4. status = "completed" /\ Incremental(r) => cur[r] \in AlwaysRun \/ prog[r].signal
      BY <2>3 DEF StepsOf, SignalsPlaced
    <3>5. row'[r][cur[r]] = status
      BY <2>1, <2>2
    <3> QED
      BY <1>2, <2>1, <3>1, <3>2, <3>3, <3>4, <3>5 DEF SignalsPlaced, Chosen, Incremental,
         PendingUpstream
  <2> QED
    BY <2>7, <2>8, <2>9, <2>10 DEF StepsOf
<1> QED
  BY <1>1, <1>2 DEF SetStatus

LEMMA StepsStatusWrites ==
    ASSUME StepsInv, NEW r \in Runs,
           \/ Blocked(r) \/ SkipMissingNews(r) \/ DecideToSkip(r)
           \/ CheckSaysNotPending(r) \/ MarkRunning(r) \/ LaunchFails(r) \/ StepReturns(r)
    PROVE  StepsOf(r)'
<1>1. /\ cur'[r] = cur[r] /\ started'[r] = started[r]
      /\ pc[r] \in InStep \ {"reason", "settled"}
  BY DEF Blocked, SkipMissingNews, DecideToSkip, CheckSaysNotPending, MarkRunning, LaunchFails,
     StepReturns, process, InStep
<1>2. StepsOf(r)
  BY DEF StepsInv
<1>3. CASE Blocked(r)
  <2>1. SetStatus(r, "blocked", "settled")
    BY <1>3 DEF Blocked
  <2> QED
    BY <1>1, <2>1, StepsWrite DEF StepStatus, Over
<1>4. CASE SkipMissingNews(r) \/ DecideToSkip(r)
  <2>1. SetStatus(r, "skipped", "settled") /\ pc[r] = "decide" /\ ~IsBlocked(r)
    BY <1>4 DEF SkipMissingNews, DecideToSkip
  <2>2. cur[r] \in Plain => ~PendingUpstream(r)
    BY <1>4 DEF SkipMissingNews, DecideToSkip, Plain
  <2> QED
    BY <1>1, <2>1, <2>2, UnblockedIsSound, StepsWrite DEF StepStatus, Over
<1>5. CASE CheckSaysNotPending(r)
  <2>1. SetStatus(r, "skipped", "settled") /\ pc[r] = "check"
    BY <1>5 DEF CheckSaysNotPending
  <2>2. SoundAt(r, cur[r]) /\ cur[r] \notin Plain
    BY <1>2, <2>1 DEF StepsOf, SignalsPlaced, Chosen, Plain
  <2> QED
    BY <1>1, <2>1, <2>2, StepsWrite DEF StepStatus, Over
<1>6. CASE MarkRunning(r)
  <2>1. SetStatus(r, "running", "launch") /\ pc[r] = "mark"
    BY <1>6 DEF MarkRunning
  <2> QED
    BY <1>1, <2>1, StepsWrite DEF StepStatus
<1>7. CASE LaunchFails(r)
  <2>1. SetStatus(r, "failed", "settled")
    BY <1>7 DEF LaunchFails
  <2> QED
    BY <1>1, <2>1, StepsWrite DEF StepStatus, Over
<1>8. CASE StepReturns(r)
  <2>1. PICK status \in {"completed", "failed"} : SetStatus(r, status, "reason")
    BY <1>8 DEF StepReturns
  <2>2. pc[r] = "run"
    BY <1>8 DEF StepReturns
  <2> QED
    BY <1>1, <2>1, <2>2, StepsWrite DEF StepStatus, Over
<1> QED
  BY <1>3, <1>4, <1>5, <1>6, <1>7, <1>8

\* A move inside the loop that writes no row.
LEMMA StepsMove ==
    ASSUME StepsInv, NEW r \in Runs,
           \/ /\ pc[r] \in LoopPlaces \ {"failing", "reason", "settled"}
              /\ pc'[r] \in {"head", "stranded", "decide", "check", "mark", "run"}
           \/ /\ pc[r] = "reason" /\ pc'[r] = "settled"
              /\ prog'[r].signal = prog[r].signal,
           cur'[r] = cur[r], row'[r] = row[r], prog'[r].plan = prog[r].plan,
           prog'[r].ranPending = prog[r].ranPending,
           \/ started'[r] = started[r]
           \/ pc'[r] = "run" /\ started'[r] = started[r] \cup {cur[r]},
           pc'[r] \in Chosen => SoundAt(r, cur[r]),
           pc'[r] = "check" => cur[r] \in Checked,
           pc'[r] \in {"mark", "run"} /\ Incremental(r) =>
              /\ cur[r] \notin AlwaysRun => prog'[r].signal
              /\ cur[r] \in Plain => PendingUpstream(r)
    PROVE  StepsOf(r)'
<1>1. StepsOf(r) /\ cur[r] \in prog[r].plan /\ prog[r].plan \subseteq Steps
  BY DEF StepsInv, Inv, TypeInv, TypeOK, CursorInPlan, Progress, LoopPlaces, InStep
<1>2. RowsPlaced(r)'
  BY <1>1 DEF StepsOf, RowsPlaced, LoopPlaces, InStep, Fresh, Steps
<1>3. \A s : SoundAt(r, s)' <=> SoundAt(r, s)
  BY DEF SoundAt
<1>4. SoundRun(r)'
  BY <1>1, <1>3 DEF StepsOf, SoundRun, Chosen
<1>5. Incremental(r)' <=> Incremental(r)
  BY DEF Incremental
<1>6. PropagatedRun(r)'
  BY <1>1, <1>5 DEF StepsOf, PropagatedRun
<1>7. SignalsPlaced(r)'
  <2>1. Incremental(r) => \A d \in Steps : d \in prog[r].ranPending
                            <=> d < cur[r] /\ d \notin AlwaysRun /\ row[r][d] = "completed"
    BY <1>1 DEF StepsOf, SignalsPlaced, LoopPlaces, InStep
  <2>2. PendingUpstream(r)' <=> PendingUpstream(r)
    BY DEF PendingUpstream
  <2>3. pc[r] = "reason" /\ Incremental(r) /\ row[r][cur[r]] = "completed" =>
          cur[r] \in AlwaysRun \/ prog[r].signal
    BY <1>1 DEF StepsOf, SignalsPlaced
  <2> QED
    BY <1>3, <1>5, <2>1, <2>2, <2>3 DEF SignalsPlaced, Chosen
<1> QED
  BY <1>2, <1>4, <1>6, <1>7 DEF StepsOf

LEMMA StepsMoves ==
    ASSUME StepsInv, NEW r \in Runs,
           \/ Register(r) \/ Head(r) \/ DecideToRun(r) \/ LaunchCheck(r) \/ CheckCannotStart(r)
           \/ CheckTimesOut(r) \/ CheckSaysPending(r) \/ StoppedDuringChild(r) \/ Launch(r)
           \/ RecordReason(r)
    PROVE  StepsOf(r)'
<1>1. /\ cur'[r] = cur[r] /\ row'[r] = row[r] /\ pc \in [Runs -> Places]
      /\ StepsOf(r)
  BY DEF Register, Head, DecideToRun, LaunchCheck, CheckCannotStart, CheckTimesOut,
     CheckSaysPending, StoppedDuringChild, Launch, RecordReason, ledger, StepsInv, Inv, TypeInv, TypeOK
<1> DEFINE Signalled(signal) == prog' = [prog EXCEPT ![r].signal = signal]
<1>2. ASSUME NEW signal \in BOOLEAN, Signalled(signal)
      PROVE  /\ prog'[r].plan = prog[r].plan /\ prog'[r].ranPending = prog[r].ranPending
             /\ prog'[r].signal = signal
  BY <1>2 DEF StepsInv, Inv, TypeInv, TypeOK, Progress
<1>3. CASE \E cause \in Causes : Fail(r, cause)
  <2>1. pc[r] \in LoopPlaces /\ started'[r] = started[r]
    BY <1>3 DEF Register, Head, DecideToRun, LaunchCheck, CheckCannotStart, CheckTimesOut,
       CheckSaysPending, StoppedDuringChild, Launch, RecordReason, NeedsCheck, process, Fail, Goto,
       LoopPlaces, InStep, StepsInv, Inv, TypeInv, TypeOK
  <2> QED
    BY <1>1, <1>3, <2>1, StepsFail
<1>4. CASE Register(r) \/ (Head(r) /\ ~Stopping(r))
  <2>1. /\ pc[r] \in {"register", "head"} /\ pc'[r] \in {"head", "stranded", "decide"}
        /\ UNCHANGED <<prog, started>>
    BY <1>1, <1>4 DEF Register, Head, Goto, process
  <2> QED
    BY <1>1, <2>1, StepsMove DEF LoopPlaces, InStep, Chosen
<1>5. CASE DecideToRun(r)
  <2>1. /\ pc[r] = "decide" /\ pc'[r] = "mark" /\ UNCHANGED started /\ ~IsBlocked(r)
        /\ Incremental(r) => PendingUpstream(r) \/ cur[r] \in AlwaysRun \ Checked
    BY <1>1, <1>5 DEF DecideToRun, Goto, process
  <2>2. PICK signal \in BOOLEAN : /\ Signalled(signal)
                                  /\ signal <=> Incremental(r) /\ PendingUpstream(r)
    BY <1>5 DEF DecideToRun, Incremental, PendingUpstream
  <2>3. Incremental(r) => /\ cur[r] \notin AlwaysRun => signal
                          /\ cur[r] \in Plain => PendingUpstream(r)
    BY <2>1, <2>2 DEF Plain
  <2>4. SoundAt(r, cur[r])
    BY <2>1, UnblockedIsSound
  <2> QED
    BY <1>1, <1>2, <2>1, <2>2, <2>3, <2>4, StepsMove DEF LoopPlaces, InStep
<1>6. CASE LaunchCheck(r) /\ ~\E cause \in Causes : Fail(r, cause)
  <2>1. /\ pc[r] = "decide" /\ pc'[r] = "check" /\ UNCHANGED <<prog, started>>
        /\ ~IsBlocked(r) /\ cur[r] \in Checked
    BY <1>1, <1>6 DEF LaunchCheck, NeedsCheck, Goto, Causes
  <2>2. SoundAt(r, cur[r])
    BY <2>1, UnblockedIsSound
  <2> QED
    BY <1>1, <2>1, <2>2, StepsMove DEF LoopPlaces, InStep
<1>7. CASE CheckCannotStart(r) \/ CheckTimesOut(r) \/ CheckSaysPending(r)
  <2>1. /\ pc[r] \in {"decide", "check"} /\ pc'[r] = "mark" /\ UNCHANGED started
        /\ Signalled(TRUE)
    BY <1>1, <1>7 DEF CheckCannotStart, CheckTimesOut, CheckSaysPending, NeedsCheck, Goto, process
  <2>2. SoundAt(r, cur[r]) /\ cur[r] \in Checked
    <3>1. CASE CheckCannotStart(r)
      BY <3>1, UnblockedIsSound DEF CheckCannotStart, NeedsCheck
    <3>2. CASE CheckTimesOut(r) \/ CheckSaysPending(r)
      BY <1>1, <3>2 DEF CheckTimesOut, CheckSaysPending, StepsOf, SignalsPlaced, Chosen
    <3> QED
      BY <1>7, <3>1, <3>2
  <2> QED
    BY <1>1, <1>2, <2>1, <2>2, StepsMove DEF LoopPlaces, InStep, Plain
<1>8. CASE Launch(r) /\ ~Stopping(r)
  <2>1. /\ pc[r] = "launch" /\ pc'[r] = "run" /\ UNCHANGED prog
        /\ started'[r] = started[r] \cup {cur[r]}
    BY <1>1, <1>8 DEF Launch, Goto, StepsInv, Inv, TypeInv, TypeOK
  <2>2. /\ SoundAt(r, cur[r])
        /\ Incremental(r) => /\ cur[r] \notin AlwaysRun => prog[r].signal
                             /\ cur[r] \in Plain => PendingUpstream(r)
    BY <1>1, <2>1 DEF StepsOf, SignalsPlaced, Chosen
  <2> QED
    BY <1>1, <2>1, <2>2, StepsMove DEF LoopPlaces, InStep
<1>9. CASE RecordReason(r) /\ ~\E cause \in Causes : Fail(r, cause)
  <2>1. pc[r] = "reason" /\ pc'[r] = "settled" /\ UNCHANGED <<prog, started>>
    BY <1>1, <1>9 DEF RecordReason, Goto, process, Causes
  <2> QED
    BY <1>1, <2>1, StepsMove DEF LoopPlaces, InStep, Chosen
<1> QED
  BY <1>3, <1>4, <1>5, <1>6, <1>7, <1>8, <1>9 DEF Head, StoppedDuringChild, Launch, Causes

LEMMA StepsNextStep ==
    ASSUME StepsInv, NEW r \in Runs, NextStep(r)
    PROVE  StepsOf(r)'
<1> DEFINE ran == prog[r].ranPending \cup {d \in {cur[r]} : RanPending(r)}
<1>1. /\ pc[r] = "settled" /\ row'[r] = row[r] /\ started'[r] = started[r]
      /\ cur'[r] = cur[r] + 1
      /\ pc'[r] = IF cur[r] + 1 \in prog[r].plan THEN "head" ELSE "finish"
  BY DEF NextStep, Goto, ledger, process, StepsInv, Inv, TypeInv, TypeOK
<1>2. prog'[r].plan = prog[r].plan /\ prog'[r].ranPending = ran
  BY DEF NextStep, StepsInv, Inv, TypeInv, TypeOK, Progress
<1>3. /\ StepsOf(r) /\ cur[r] \in prog[r].plan /\ prog[r].plan \subseteq Steps
      /\ prog[r].ranPending \subseteq Steps
  BY <1>1 DEF StepsInv, Inv, TypeInv, TypeOK, CursorInPlan, LoopPlaces, InStep, Progress
<1>4. SoundRun(r)' /\ PropagatedRun(r)'
  BY <1>1, <1>2, <1>3 DEF StepsOf, SoundRun, SoundAt, PropagatedRun, Incremental
<1>5. RowsPlaced(r)'
  BY <1>1, <1>2, <1>3 DEF StepsOf, RowsPlaced, LoopPlaces, InStep, Fresh, Steps
<1>6. SignalsPlaced(r)'
  <2>1. RanPending(r) <=> prog[r].signal /\ cur[r] \notin AlwaysRun /\ row[r][cur[r]] = "completed"
    BY DEF RanPending
  <2>2. Incremental(r) => \A d \in Steps :
          d \in ran <=> d < cur[r] + 1 /\ d \notin AlwaysRun /\ row[r][d] = "completed"
    <3> SUFFICES ASSUME Incremental(r), NEW d \in Steps
                 PROVE  d \in ran <=> d < cur[r] + 1 /\ d \notin AlwaysRun /\ row[r][d] = "completed"
      OBVIOUS
    <3>1. d \in prog[r].ranPending <=> d < cur[r] /\ d \notin AlwaysRun /\ row[r][d] = "completed"
      BY <1>1, <1>3 DEF StepsOf, SignalsPlaced, LoopPlaces, InStep
    <3>2. row[r][cur[r]] = "completed" => cur[r] \in AlwaysRun \/ prog[r].signal
      BY <1>1, <1>3 DEF StepsOf, SignalsPlaced
    <3>3. CASE d = cur[r]
      BY <1>3, <2>1, <3>1, <3>2, <3>3 DEF Steps
    <3>4. CASE d # cur[r]
      BY <1>3, <3>1, <3>4 DEF Steps
    <3> QED
      BY <3>3, <3>4
  <2> HIDE DEF ran
  <2> QED
    BY <1>1, <1>2, <2>2 DEF SignalsPlaced, Incremental, Chosen, LoopPlaces, InStep
<1> QED
  BY <1>4, <1>5, <1>6 DEF StepsOf

\* What the failure path writes is the row of a step nothing after it has used.
LEMMA StepsFailRun ==
    ASSUME StepsInv, NEW r \in Runs, FailStep(r) \/ MarkNotRun(r)
    PROVE  StepsOf(r)'
<1>1. CASE MarkNotRun(r) /\ cur[r] \notin prog[r].plan
  <2>1. pc'[r] = "finish" /\ UNCHANGED <<row, prog, started>>
    BY <1>1 DEF MarkNotRun, Goto, process, StepsInv, Inv, TypeInv, TypeOK
  <2> QED
    BY <2>1, StepsQuiet DEF StepsInv, Quiet
<1>2. CASE FailStep(r) \/ (MarkNotRun(r) /\ cur[r] \in prog[r].plan)
  <2>1. /\ pc[r] \in {"failing", "marking"} /\ pc'[r] = "marking" /\ UNCHANGED <<prog, started>>
        /\ cur'[r] = cur[r] + 1 /\ cur[r] \in prog[r].plan /\ prog[r].plan \subseteq Steps
    BY <1>2 DEF FailStep, MarkNotRun, Goto, process, StepsInv, Inv, TypeInv, TypeOK,
       CursorInPlan, LoopPlaces, Progress
  <2>2. \A s \in Steps : s # cur[r] => row'[r][s] = row[r][s]
    BY <1>2 DEF FailStep, MarkNotRun, TrySetStatus, StepsInv, Inv, TypeInv, TypeOK
  <2>3. row'[r][cur[r]] \in {row[r][cur[r]], "failed", "not_run"}
    BY <1>2, <2>1 DEF FailStep, MarkNotRun, TrySetStatus, StepsInv, Inv, TypeInv, TypeOK
  <2>4. StepsOf(r)
    BY DEF StepsInv
  <2>5. \A s \in Steps : \A d \in DependsOn[s] : d \in Steps /\ d < s
    BY PipelineAssumption
  <2>6. \A s \in Steps : s > cur[r] =>
          s \notin started[r] /\ row[r][s] \in {"pending", "none"}
    BY <2>1, <2>4 DEF StepsOf, RowsPlaced, LoopPlaces, Steps
  <2>7. ASSUME NEW s \in Steps, s <= cur[r], NEW d \in DependsOn[s]
        PROVE  row'[r][d] = row[r][d]
    BY <2>1, <2>2, <2>5, <2>7 DEF Steps
  <2>8. ASSUME NEW s \in Steps, s \in started[r] \/ row'[r][s] \in {"completed", "skipped"}
        PROVE  s <= cur[r] /\ (row'[r][s] \in {"completed", "skipped"} => row'[r][s] = row[r][s])
    BY <2>1, <2>2, <2>3, <2>6, <2>8 DEF Steps
  <2>9. SoundRun(r)'
    <3> SUFFICES ASSUME NEW s \in Steps, s \in started'[r] \/ row'[r][s] = "skipped",
                        NEW d \in DependsOn[s] \cap prog'[r].plan
                 PROVE  row'[r][d] \in {"completed", "skipped"}
      BY DEF SoundRun, SoundAt
    <3>1. s \in started[r] \/ row[r][s] = "skipped"
      BY <2>1, <2>8
    <3>2. row[r][d] \in {"completed", "skipped"}
      BY <2>1, <2>4, <3>1 DEF StepsOf, SoundRun, SoundAt
    <3> QED
      BY <2>1, <2>7, <2>8, <3>2
  <2>10. PropagatedRun(r)'
    <3> SUFFICES ASSUME Incremental(r), NEW s \in Plain, row'[r][s] \in {"completed", "skipped"}
                 PROVE  row'[r][s] = "completed" <=>
                          \E d \in DependsOn[s] \ AlwaysRun : row'[r][d] = "completed"
      BY <2>1 DEF PropagatedRun, Incremental
    <3>1. s \in Steps /\ s <= cur[r] /\ row'[r][s] = row[r][s]
      BY <2>8 DEF Plain
    <3>2. \A d \in DependsOn[s] : row'[r][d] = row[r][d]
      BY <2>7, <3>1
    <3> QED
      BY <2>4, <3>1, <3>2 DEF StepsOf, PropagatedRun
  <2>11. RowsPlaced(r)'
    <3>1. \A s \in prog[r].plan : s >= cur[r] + 1 => row'[r][s] = "pending" /\ s \notin started[r]
      BY <2>1, <2>2, <2>4 DEF StepsOf, RowsPlaced, LoopPlaces, Steps
    <3>2. \A s \in Steps \ prog[r].plan : row'[r][s] = "none" /\ s \notin started[r]
      BY <2>1, <2>2, <2>4 DEF StepsOf, RowsPlaced, LoopPlaces
    <3> QED
      BY <2>1, <3>1, <3>2 DEF RowsPlaced, LoopPlaces, InStep, Fresh
  <2>12. SignalsPlaced(r)'
    BY <2>1 DEF SignalsPlaced, LoopPlaces, InStep, Chosen
  <2> QED
    BY <2>9, <2>10, <2>11, <2>12 DEF StepsOf
<1> QED
  BY <1>1, <1>2

LEMMA StepsInsertRun ==
    ASSUME StepsInv, NEW r \in Runs, InsertRun(r)
    PROVE  StepsOf(r)'
<1>1. PICK plan \in (IF r \in CliRuns THEN {Steps} ELSE Plans) :
        /\ prog' = [prog EXCEPT ![r].plan = plan]
        /\ row' = [row EXCEPT ![r] = [s \in Steps |-> IF s \in plan THEN "pending" ELSE "none"]]
        /\ \E first \in plan : /\ \A s \in plan : first <= s
                               /\ cur' = [cur EXCEPT ![r] = first]
  BY DEF InsertRun
<1>2. plan \subseteq Steps
  BY RunsAssumption
<1>3. /\ prog'[r].plan = plan /\ prog'[r].ranPending = prog[r].ranPending
      /\ \A s \in Steps : row'[r][s] = IF s \in plan THEN "pending" ELSE "none"
      /\ cur'[r] \in plan /\ \A s \in plan : cur'[r] <= s
  BY <1>1 DEF StepsInv, Inv, TypeInv, TypeOK, Progress
<1>4. /\ pc[r] = "record" /\ pc'[r] = "register" /\ started'[r] = started[r]
  BY DEF InsertRun, Goto, process, StepsInv, Inv, TypeInv, TypeOK
<1>5. started[r] = {} /\ prog[r].ranPending = {}
  BY <1>4 DEF StepsInv, StepsOf, RowsPlaced, Fresh
<1>6. RowsPlaced(r)'
  <2>1. started'[r] = {} /\ pc'[r] \notin {"marking", "reason", "settled"}
    BY <1>4, <1>5
  <2>2. \A s \in plan : row'[r][s] = "pending"
    BY <1>2, <1>3
  <2>3. \A s \in Steps \ plan : row'[r][s] = "none"
    BY <1>3
  <2>4. \A s \in plan : ~(s < cur'[r])
    <3>1. plan \subseteq Nat
      BY <1>2, PipelineAssumption DEF Steps
    <3>2. \A x, y \in Nat : x <= y => ~(y < x)
      OBVIOUS
    <3> QED
      BY <1>3, <3>1, <3>2
  <2> QED
    BY <1>3, <1>5, <2>1, <2>2, <2>3, <2>4 DEF RowsPlaced
<1>7. SignalsPlaced(r)'
  BY <1>3, <1>4, <1>5 DEF SignalsPlaced, Chosen
<1>8. SoundRun(r)' /\ PropagatedRun(r)'
  BY <1>3, <1>4, <1>5 DEF SoundRun, PropagatedRun, Plain
<1> QED
  BY <1>6, <1>7, <1>8 DEF StepsOf

\* What run r does to its own state, the state of the others apart.
LEMMA StepsOfOwn ==
    ASSUME StepsInv, NEW r \in Runs,
           \/ BeginRun(r) /\ ~ReconcileAbandonedRuns(r)
           \/ ExecuteStep(r) \/ EndRun(r) \/ Sigterm(r)
    PROVE  StepsOf(r)'
<1>1. StepsOf(r) /\ pc \in [Runs -> Places]
  BY DEF StepsInv, Inv, TypeInv, TypeOK
<1>2. CASE \/ Post(r) \/ StartCli(r) \/ AcquireLock(r) \/ RefusedByLock(r) \/ BeginFails(r)
           \/ FinishRun(r) \/ PersistRun(r) \/ ReleaseLock(r)
           \/ SigtermOutsideRun(r) \/ SigtermBetweenSteps(r)
           \/ SigtermInFailRun(r) \/ SigtermInFinishRun(r)
  <2>1. /\ UNCHANGED <<prog, row, started>>
        /\ pc'[r] \in Quiet \/ (pc[r] \in Fresh /\ pc'[r] \in Fresh)
    BY <1>1, <1>2 DEF Post, StartCli, AcquireLock, RefusedByLock, BeginFails, FinishRun,
       PersistRun, ReleaseLock, SigtermOutsideRun, SigtermBetweenSteps, SigtermInFailRun,
       SigtermInFinishRun, Goto, process, ledger, Fresh, Quiet
  <2> QED
    BY <1>1, <2>1, StepsQuiet
<1>3. CASE InsertRun(r)
  BY <1>3, StepsInsertRun
<1>4. CASE Register(r) \/ ExecuteStep(r)
  BY <1>4, StepsMoves, StepsStatusWrites, StepsNextStep DEF ExecuteStep
<1>5. CASE FailStep(r) \/ MarkNotRun(r)
  BY <1>5, StepsFailRun
<1>6. CASE SigtermInStep(r) \/ SigtermInSpawn(r)
  <2>1. \E cause \in Causes : Fail(r, cause)
    BY <1>6 DEF SigtermInStep, SigtermInSpawn, StopCause, Causes
  <2>2. pc[r] \in LoopPlaces /\ cur'[r] = cur[r] /\ row'[r] = row[r]
    BY <1>6 DEF SigtermInStep, SigtermInSpawn, NeedsCheck, ledger, LoopPlaces, InStep
  <2>3. \/ started'[r] = started[r]
        \/ pc[r] \in Chosen /\ started'[r] = started[r] \cup {cur[r]}
    BY <1>6 DEF SigtermInStep, SigtermInSpawn, Chosen, StepsInv, Inv, TypeInv, TypeOK
  <2> QED
    BY <2>1, <2>2, <2>3, StepsFail
<1> QED
  BY <1>2, <1>3, <1>4, <1>5, <1>6 DEF BeginRun, EndRun, Sigterm

\* The state of a run is its own: no other run's step touches it.
LEMMA StepsOfOthers ==
    ASSUME StepsInv, NEW r \in Runs, NEW q \in Runs, q # r,
           \/ BeginRun(r) /\ ~ReconcileAbandonedRuns(r)
           \/ ExecuteStep(r) \/ EndRun(r) \/ Sigterm(r)
    PROVE  StepsOf(q)'
<1> USE DEF StepsInv, Inv, TypeInv, TypeOK
<1> DEFINE Kept == /\ pc'[q] = pc[q] /\ cur'[q] = cur[q] /\ prog'[q] = prog[q]
                   /\ row'[q] = row[q] /\ started'[q] = started[q]
<1>1. CASE BeginRun(r) /\ ~ReconcileAbandonedRuns(r)
  <2>1. Kept
    BY <1>1 DEF BeginRun, Post, StartCli, AcquireLock, RefusedByLock, InsertRun, BeginFails,
       Register, Goto, process, ledger
  <2> QED
    BY <2>1, StepsKept
<1>2. CASE ExecuteStep(r)
  <2>1. Kept
    BY <1>2 DEF ExecuteStep, Head, Blocked, SkipMissingNews, DecideToRun, DecideToSkip,
       LaunchCheck, CheckCannotStart, CheckTimesOut, CheckSaysPending, CheckSaysNotPending,
       StoppedDuringChild, MarkRunning, Launch, LaunchFails, StepReturns, RecordReason, NextStep,
       SetStatus, Fail, Goto, process, ledger
  <2> QED
    BY <2>1, StepsKept
<1>3. CASE EndRun(r)
  <2>1. Kept
    BY <1>3 DEF EndRun, FailStep, MarkNotRun, FinishRun, PersistRun, ReleaseLock, TrySetStatus,
       Goto, process, ledger
  <2> QED
    BY <2>1, StepsKept
<1>4. CASE Sigterm(r)
  <2>1. Kept
    BY <1>4 DEF Sigterm, SigtermOutsideRun, SigtermBetweenSteps, SigtermInStep, SigtermInSpawn,
       SigtermInFailRun, SigtermInFinishRun, Fail, Goto, process, ledger
  <2> QED
    BY <2>1, StepsKept
<1> QED
  BY <1>1, <1>2, <1>3, <1>4

\* The reconciliation rewrites rows of runs whose code is gone, and of them
\* only those that are no outcome.
LEMMA StepsReconciled ==
    ASSUME StepsInv, NEW r \in Runs, ReconcileAbandonedRuns(r), NEW q \in Runs
    PROVE  StepsOf(q)'
<1>1. StepsOf(q) /\ prog'[q] = prog[q] /\ started'[q] = started[q]
  BY DEF ReconcileAbandonedRuns, process, StepsInv
<1>2. pc'[q] \in Quiet \/ (pc[q] \in Fresh /\ pc'[q] \in Fresh)
  <2>1. CASE q = r
    BY <2>1 DEF ReconcileAbandonedRuns, Goto, Fresh, StepsInv, Inv, TypeInv, TypeOK
  <2>2. CASE q # r
    <3>1. pc[q] \notin Critical
      BY <2>2 DEF ReconcileAbandonedRuns, StepsInv, Inv, LockProtects, Live, Leaked, Critical,
         InStep
    <3> QED
      BY <2>2, <3>1 DEF ReconcileAbandonedRuns, Goto, Fresh, Quiet, Places, StepsInv, Inv,
         TypeInv, TypeOK
  <2> QED
    BY <2>1, <2>2
<1>3. \A s \in Steps : \/ row'[q][s] = row[q][s]
                       \/ /\ row[q][s] \notin {"completed", "skipped"}
                          /\ row'[q][s] \notin {"completed", "skipped"}
  BY DEF ReconcileAbandonedRuns
<1> QED
  BY <1>1, <1>2, <1>3, StepsQuiet

LEMMA StepsStep ==
    ASSUME StepsInv, [Next]_vars, NEW q \in Runs
    PROVE  StepsOf(q)'
<1>1. StepsOf(q) /\ pc \in [Runs -> Places]
  BY DEF StepsInv, Inv, TypeInv, TypeOK
<1>2. ASSUME UNCHANGED <<cur, prog, row, started>>, pc'[q] \in {pc[q], "dead"}
      PROVE  StepsOf(q)'
  <2>1. CASE pc'[q] = pc[q]
    BY <1>1, <1>2, <2>1, StepsKept
  <2>2. CASE pc'[q] = "dead"
    BY <1>1, <1>2, <2>2, StepsQuiet DEF Quiet
  <2> QED
    BY <1>2, <2>1, <2>2
<1>3. ASSUME NEW r \in Runs, BeginRun(r) \/ ExecuteStep(r) \/ EndRun(r) \/ Sigterm(r)
      PROVE  StepsOf(q)'
  BY <1>3, StepsReconciled, StepsOfOwn, StepsOfOthers
<1>4. ASSUME NEW r \in Runs, ChildExits(r) \/ CrashCli(r)
      PROVE  StepsOf(q)'
  BY <1>2, <1>4 DEF ChildExits, CrashCli, EndProcess, thread, process, ledger
<1>5. ASSUME NEW a \in Servers, Process(a)
      PROVE  StepsOf(q)'
  BY <1>2, <1>5 DEF Process, CrashServer, RestartServer, ShutdownIdle, ShutdownActive,
     RequestStop, JoinReturns, JoinTimesOut, EndProcess, thread, process, ledger
<1>6. CASE UNCHANGED vars
  BY <1>2, <1>6 DEF vars, thread, process, ledger
<1> QED
  BY <1>3, <1>4, <1>5, <1>6 DEF Next

LEMMA StepsInvariant == Spec => []StepsInv
<1>1. Init => StepsInv
  BY TypeInit DEF Init, StepsInv, Inv, LockProtects, Live, StepsOf, SoundRun, PropagatedRun, Plain,
     RowsPlaced, SignalsPlaced, Critical, InStep, LoopPlaces, Chosen, Fresh
<1>2. StepsInv /\ [Next]_vars => StepsInv'
  <2> SUFFICES ASSUME StepsInv, [Next]_vars PROVE StepsInv'
    OBVIOUS
  <2>1. Inv'
    BY TypeStep, LockStep DEF StepsInv, Inv
  <2> QED
    BY <2>1, StepsStep DEF StepsInv
<1> QED
  BY <1>1, <1>2, PTL DEF Spec

\* No step starts, or is skipped as not pending, over an upstream of its plan
\* that failed, was blocked or has not been decided, and nothing the run, the
\* failure path or a later reconciliation writes makes it so afterwards; for
\* every pipeline whose dependencies point backwards.
THEOREM UpstreamsAreSound == Spec => []SoundUpstream
<1>1. StepsInv => SoundUpstream
  BY DEF StepsInv, StepsOf, SoundRun, SoundAt, SoundUpstream
<1> QED
  BY <1>1, StepsInvariant, PTL

\* In every incremental run a step without a check of its own runs exactly when
\* one of its direct upstreams completed on a pending signal.
THEOREM SignalPropagates == Spec => []PendingPropagates
<1>1. StepsInv => PendingPropagates
  BY DEF StepsInv, StepsOf, PropagatedRun, Plain, PendingPropagates
<1> QED
  BY <1>1, StepsInvariant, PTL
=============================================================================

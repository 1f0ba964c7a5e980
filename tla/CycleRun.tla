------------------------------ MODULE CycleRun ------------------------------
(***************************************************************************)
(* The checkpointed runner of the cycle: SELECTION, MONITORING and REPLAY  *)
(* runs of several dates on one database, each step under a checkpoint,    *)
(* every step committing by itself, a crash or an exception between any    *)
(* two commits, resumes under other settings, and `backfill --force`.      *)
(*                                                                         *)
(* src/src/cycle/orchestrator.py (_run), state.py, writers.write_scores    *)
(* and apply_normalized.  The cycle assumes one writer: at most one        *)
(* attempt is in progress.  The input data of a date do not change; what   *)
(* changes under a run is what other runs write in the shared score rows.  *)
(* The steps that only read (universe, fundamental without its hook,       *)
(* semantic_read) or whose rows no step reads (sector) are left out, and   *)
(* so is veto, whose table is VetoStints; the write of positions is        *)
(* PositionBook, here it is a step that may refuse.                        *)
(***************************************************************************)
EXTENDS Integers, Sequences, FiniteSets

CONSTANTS
    LastDate,     \* cycle dates are 1..LastDate
    Types,        \* of "SELECTION", "MONITORING", "REPLAY"
    Filings,      \* FUNDAMENTAL rows, keyed by filing
    FilingOf,     \* the newest filing public on a date
    ScoreOrder,   \* the score types a run writes, each by a step of its own
    Settings,     \* records [manifest, weights, cut, book]
    MaxRuns,      \* bound: cycle_run rows at once
    NoSetting

Dates  == 1..LastDate
Runs   == [type : Types, date : Dates]
Scores == {ScoreOrder[i] : i \in 1..Len(ScoreOrder)}

ASSUME CycleAssumption ==
    /\ LastDate \in Nat \ {0}
    /\ Types \subseteq {"SELECTION", "MONITORING", "REPLAY"}
    /\ FilingOf \in [Dates -> Filings]
    /\ ScoreOrder \in Seq({"TECHNICAL", "VALORIZATION"})
    /\ \A i, j \in 1..Len(ScoreOrder) : ScoreOrder[i] = ScoreOrder[j] => i = j
    /\ NoSetting \notin Settings

VARIABLES
    status,    \* cycle_run.status
    opened,    \* params_json as open_cycle wrote it
    built,     \* params_json.construction, merged by the positions step
    cp,        \* cycle_checkpoint
    score,     \* score_snapshot rows keyed by score type and cycle date
    filing,    \* the date whose cohort a FUNDAMENTAL row was last normalized over
    ranking,   \* cycle_ranking: what its blended scores were made of
    attempt,   \* the process
    emptied    \* history: dates one run normalized and another emptied again

table == <<status, opened, built>>
vars  == <<table, cp, score, filing, ranking, attempt, emptied>>

-----------------------------------------------------------------------------
(* Types *)

\* _SELECTION_STEPS and _MONITORING_STEPS; technical and valorization carry the
\* name of the scores they write.
StepOrder == ScoreOrder \o <<"normalize", "rank", "positions">>
Steps     == {StepOrder[i] : i \in 1..Len(StepOrder)}
LastStep(r) == Len(StepOrder) - (IF r.type = "MONITORING" THEN 1 ELSE 0)

\* The TECHNICAL and VALORIZATION parts are there or silently absent; the
\* FUNDAMENTAL part is a normalization over some date's cohort.
Blends  == [setting : Settings, parts : SUBSET Scores, fundamental : 0..LastDate]
NoBlend == [setting |-> NoSetting, parts |-> {}, fundamental |-> 0]

Places   == {"mark", "work", "checkpoint", "failed", "close", "finish"}
Attempts == [at : Places, run : Runs, setting : Settings,
             step : 1..Len(StepOrder), commit : 1..(Len(ScoreOrder) + 2)]
Idle     == [at |-> "idle"]

TypeOK ==
    /\ status \in [Runs -> {"none", "running", "completed", "failed"}]
    /\ opened \in [Runs -> Settings \cup {NoSetting}]
    /\ built \in [Runs -> Settings \cup {NoSetting}]
    /\ cp \in [Runs -> [Steps -> {"none", "running", "done", "failed"}]]
    /\ score \in [Scores -> [Dates -> {"none", "raw", "normalized"}]]
    /\ filing \in [Filings -> 0..LastDate]
    /\ ranking \in [Runs -> Blends \cup {NoBlend}]
    /\ attempt \in Attempts \cup {Idle}
    /\ emptied \subseteq Dates

NoSteps == [s \in Steps |-> "none"]

Init ==
    /\ status = [r \in Runs |-> "none"]
    /\ opened = [r \in Runs |-> NoSetting]
    /\ built = [r \in Runs |-> NoSetting]
    /\ cp = [r \in Runs |-> NoSteps]
    /\ score = [t \in Scores |-> [d \in Dates |-> "none"]]
    /\ filing = [f \in Filings |-> 0]
    /\ ranking = [r \in Runs |-> NoBlend]
    /\ attempt = Idle
    /\ emptied = {}

-----------------------------------------------------------------------------
(* Refusals and open_cycle *)

\* Mutant: the guards look only at runs that completed.
RecordedWhenCompleted(r, s) ==
    status[r] = "completed" =>
        /\ s.manifest = opened[r].manifest
        /\ s.weights = opened[r].weights
        /\ s.cut = opened[r].cut

\* check_manifest, check_score_weights and check_replay_inputs, each against
\* what the first attempt recorded.
AsOpened(r, s) ==
    opened[r] # NoSetting =>
        /\ s.manifest = opened[r].manifest
        /\ s.weights = opened[r].weights
        /\ s.cut = opened[r].cut

\* check_construction, only for runs with a positions step.
AsBuilt(r, s) ==
    r.type # "MONITORING" /\ built[r] # NoSetting => s.book = built[r].book

\* The cut is part of the backtest's replay only.
Permitted(r, s) == s.cut # "T-1" => r.type = "REPLAY"

\* Mutant: a step that was begun is skipped like one that is done.
StepsBegun(r) == {i \in 1..LastStep(r) : cp[r][StepOrder[i]] = "none"}

\* done_steps: what is left of a run's sequence.
StepsLeft(r) == {i \in 1..LastStep(r) : cp[r][StepOrder[i]] # "done"}

\* Where _do goes next: the first step that is not done, or the end.
Resume(r, s, after) ==
    LET left == {i \in StepsLeft(r) : i > after}
    IN  IF left = {}
        THEN [at |-> "finish", run |-> r, setting |-> s, step |-> 1, commit |-> 1]
        ELSE [at |-> "mark", run |-> r, setting |-> s, commit |-> 1,
              step |-> CHOOSE i \in left : \A j \in left : i <= j]

\* A refused run writes nothing, so only an accepted one is a step here.
OpenCycle(r, s) ==
    /\ attempt = Idle
    /\ Cardinality({q \in Runs : q = r \/ status[q] # "none"}) <= MaxRuns
    /\ Permitted(r, s) /\ AsOpened(r, s) /\ AsBuilt(r, s)
    /\ status' = [status EXCEPT ![r] = "running"]
    /\ opened' = [opened EXCEPT ![r] = IF @ = NoSetting THEN s ELSE @]
    /\ attempt' = Resume(r, s, 0)
    /\ UNCHANGED <<built, cp, score, filing, ranking, emptied>>

-----------------------------------------------------------------------------
(* The steps of the attempt *)

Goto(place) == attempt' = [attempt EXCEPT !.at = place]

\* A step of several commits: the next one, or its checkpoint after the last.
Committed(last) ==
    attempt' = IF attempt.commit = last
               THEN [attempt EXCEPT !.at = "checkpoint", !.commit = 1]
               ELSE [attempt EXCEPT !.commit = @ + 1]

Working(step) == attempt # Idle /\ attempt.at = "work" /\ StepOrder[attempt.step] = step
Date == attempt.run.date

SetCheckpoint(state) ==
    cp' = [cp EXCEPT ![attempt.run][StepOrder[attempt.step]] = state]

MarkRunning ==
    /\ attempt # Idle /\ attempt.at = "mark"
    /\ SetCheckpoint("running")
    /\ Goto("work")
    /\ UNCHANGED <<table, score, filing, ranking, emptied>>

\* write_scores: an upsert that sets the raw score and empties the normalized.
WriteScores(type) ==
    /\ Working(type)
    /\ score' = [score EXCEPT ![type][Date] = "raw"]
    /\ emptied' = IF \E q \in Runs \ {attempt.run} :
                        q.date = Date /\ cp[q]["normalize"] = "done"
                  THEN emptied \cup {Date} ELSE emptied
    /\ Goto("checkpoint")
    /\ UNCHANGED <<table, cp, filing, ranking>>

\* normalize: one commit per score type, over the rows of the date.
NormalizeScores(type) ==
    /\ Working("normalize")
    /\ attempt.commit <= Len(ScoreOrder) /\ ScoreOrder[attempt.commit] = type
    /\ score' = [score EXCEPT ![type][Date] = IF @ = "none" THEN @ ELSE "normalized"]
    /\ Committed(Len(ScoreOrder) + 1)
    /\ UNCHANGED <<table, cp, filing, ranking, emptied>>

\* FUNDAMENTAL has no row of the date: the value lands on the filing's own row,
\* which other dates share.
NormalizeFundamental ==
    /\ Working("normalize") /\ attempt.commit = Len(ScoreOrder) + 1
    /\ filing' = [filing EXCEPT ![FilingOf[Date]] = Date]
    /\ emptied' = emptied \ {Date}
    /\ Committed(Len(ScoreOrder) + 1)
    /\ UNCHANGED <<table, cp, score, ranking>>

\* Mutant: the ranking reads the shared row's normalized score.
FundamentalOfRow(d) == filing[FilingOf[d]]

\* _fundamental_normalization, recomputed over the date's own cohort.
FundamentalOf(d) == d

\* _norm_map: a row whose normalized score is empty has no part in the blend.
PartsOf(d) == {t \in Scores : score[t][d] = "normalized"}

Rank ==
    /\ Working("rank")
    /\ ranking' = [ranking EXCEPT ![attempt.run] =
                     [setting |-> attempt.setting, parts |-> PartsOf(Date),
                      fundamental |-> FundamentalOf(Date)]]
    /\ Goto("checkpoint")
    /\ UNCHANGED <<table, cp, score, filing, emptied>>

\* merge_params, then the write of the book (PositionBook), which may refuse.
RecordConstruction ==
    /\ Working("positions") /\ attempt.commit = 1
    /\ built' = [built EXCEPT ![attempt.run] = attempt.setting]
    /\ Committed(2)
    /\ UNCHANGED <<status, opened, cp, score, filing, ranking, emptied>>

WriteBook ==
    /\ Working("positions") /\ attempt.commit = 2
    /\ Committed(2)
    /\ UNCHANGED <<table, cp, score, filing, ranking, emptied>>

MarkDone ==
    /\ attempt # Idle /\ attempt.at = "checkpoint"
    /\ SetCheckpoint("done")
    /\ attempt' = Resume(attempt.run, attempt.setting, attempt.step)
    /\ UNCHANGED <<table, score, filing, ranking, emptied>>

\* Mutant: the run takes the checkpoint's word for its status.
FinishDone ==
    /\ attempt # Idle /\ attempt.at = "finish"
    /\ status' = [status EXCEPT ![attempt.run] = "done"]
    /\ attempt' = Idle
    /\ UNCHANGED <<opened, built, cp, score, filing, ranking, emptied>>

FinishCycle ==
    /\ attempt # Idle /\ attempt.at = "finish"
    /\ status' = [status EXCEPT ![attempt.run] = "completed"]
    /\ attempt' = Idle
    /\ UNCHANGED <<opened, built, cp, score, filing, ranking, emptied>>

-----------------------------------------------------------------------------
(* Failures *)

\* A step raises: refused by a guard, too many unscored, no data.
StepRaises ==
    /\ attempt # Idle /\ attempt.at = "work"
    /\ Goto("failed")
    /\ UNCHANGED <<table, cp, score, filing, ranking, emptied>>

\* _do's handler: what was not committed is rolled back, the checkpoint fails.
MarkFailed ==
    /\ attempt # Idle /\ attempt.at = "failed"
    /\ SetCheckpoint("failed")
    /\ Goto("close")
    /\ UNCHANGED <<table, score, filing, ranking, emptied>>

\* Outside the steps: the inputs cannot be read, a checkpoint cannot be written.
RunRaises ==
    /\ attempt # Idle /\ attempt.at \in {"mark", "checkpoint"}
    /\ Goto("close")
    /\ UNCHANGED <<table, cp, score, filing, ranking, emptied>>

CloseFailed ==
    /\ attempt # Idle /\ attempt.at = "close"
    /\ status' = [status EXCEPT ![attempt.run] = "failed"]
    /\ attempt' = Idle
    /\ UNCHANGED <<opened, built, cp, score, filing, ranking, emptied>>

\* The process is killed between two commits.
Crash ==
    /\ attempt # Idle
    /\ attempt' = Idle
    /\ UNCHANGED <<table, cp, score, filing, ranking, emptied>>

\* reset_replay_range: the REPLAY runs from a date on and, by ON DELETE
\* CASCADE, their checkpoints and rankings; the score rows stay.
ResetReplayRange(from) ==
    LET gone == {r \in Runs : r.type = "REPLAY" /\ r.date >= from}
    IN  /\ attempt = Idle
        /\ status' = [r \in Runs |-> IF r \in gone THEN "none" ELSE status[r]]
        /\ opened' = [r \in Runs |-> IF r \in gone THEN NoSetting ELSE opened[r]]
        /\ built' = [r \in Runs |-> IF r \in gone THEN NoSetting ELSE built[r]]
        /\ cp' = [r \in Runs |-> IF r \in gone THEN NoSteps ELSE cp[r]]
        /\ ranking' = [r \in Runs |-> IF r \in gone THEN NoBlend ELSE ranking[r]]
        /\ UNCHANGED <<score, filing, attempt, emptied>>

-----------------------------------------------------------------------------
Step ==
    \/ MarkRunning
    \/ \E type \in Scores : WriteScores(type) \/ NormalizeScores(type)
    \/ NormalizeFundamental \/ Rank
    \/ RecordConstruction \/ WriteBook \/ MarkDone \/ FinishCycle

Failure == StepRaises \/ MarkFailed \/ RunRaises \/ CloseFailed \/ Crash

Next ==
    \/ \E r \in Runs, s \in Settings : OpenCycle(r, s)
    \/ Step \/ Failure
    \/ \E from \in Dates : ResetReplayRange(from)

Spec == Init /\ [][Next]_vars

-----------------------------------------------------------------------------
(* Properties *)

\* "every ranking of this run must use those weights": what a ranking was made
\* under is what the run's row says, after any number of failed attempts,
\* crashes and resumes under other settings.
RankedAsRecorded ==
    \A r \in Runs : ranking[r] # NoBlend =>
        /\ ranking[r].setting.manifest = opened[r].manifest
        /\ ranking[r].setting.weights = opened[r].weights
        /\ ranking[r].setting.cut = opened[r].cut

\* A run that says 'completed' did every step of its sequence: no attempt that
\* died in a step left it to be skipped.
CompletedMeansDone ==
    \A r \in Runs : status[r] = "completed" =>
        \A i \in 1..LastStep(r) : cp[r][StepOrder[i]] = "done"

\* A resumed run ranks on what a run in one go would have ranked on, whatever
\* ran in between: every part of its own date, and the FUNDAMENTAL normalization
\* of its own date although the row holds another's.  The exception is a date
\* that another run scored again and died on before it normalized.
Whole(blend, d) == blend.parts = Scores /\ blend.fundamental = d

RankingIsOneGo ==
    [][\A r \in Runs :
          /\ ranking'[r] # ranking[r] /\ ranking'[r] # NoBlend
          /\ r.date \notin emptied
          => Whole(ranking'[r], r.date)]_vars

\* The steps ahead of positions "are idempotent per (cycle_type, cycle_date) and
\* safe to have run": the same without the exception.
RankingIsAlwaysWhole ==
    \A r \in Runs : ranking[r] # NoBlend => Whole(ranking[r], r.date)
=============================================================================

--------------------------- MODULE CycleRunProofs ---------------------------
(***************************************************************************)
(* Type correctness of CycleRun, its two invariants and its action         *)
(* property, for any dates, filings, score types, settings and bound.      *)
(***************************************************************************)
EXTENDS CycleRun, WellFoundedInduction, TLAPS

Size == Len(StepOrder)
Runnable == {"mark", "work", "checkpoint", "failed"}

Done(r, i)  == cp[r][StepOrder[i]] = "done"
Inputs(s, t) == s.manifest = t.manifest /\ s.weights = t.weights /\ s.cut = t.cut

-----------------------------------------------------------------------------
(* The inductive invariant *)

\* What the attempt works under is what its run's row records.
AttemptAsRecorded ==
    /\ \A r \in Runs : ranking[r] # NoBlend => opened[r] # NoSetting
    /\ attempt # Idle =>
          /\ opened[attempt.run] # NoSetting
          /\ status[attempt.run] = "running"
          /\ Inputs(attempt.setting, opened[attempt.run])

\* The done steps of a run are a prefix of its sequence.
DonePrefix ==
    \A r \in Runs : \A i, j \in 1..LastStep(r) : i < j /\ Done(r, j) => Done(r, i)

\* The attempt is at the first step that is not done, or all are done.
AttemptAtFirst ==
    attempt # Idle =>
        /\ attempt.at \in Runnable =>
              /\ attempt.step <= LastStep(attempt.run)
              /\ ~Done(attempt.run, attempt.step)
              /\ \A i \in 1..LastStep(attempt.run) : i < attempt.step => Done(attempt.run, i)
        /\ attempt.at = "finish" =>
              \A i \in 1..LastStep(attempt.run) : Done(attempt.run, i)

AllNormalized(d) == \A t \in Scores : score[t][d] = "normalized"

\* A score step that is done left a row, and so did one that awaits its checkpoint.
Scored ==
    /\ \A r \in Runs, i \in 1..Len(ScoreOrder) :
          Done(r, i) => score[ScoreOrder[i]][r.date] # "none"
    /\ attempt # Idle /\ attempt.at = "checkpoint" /\ attempt.step <= Len(ScoreOrder)
          => score[ScoreOrder[attempt.step]][Date] # "none"

\* The score types that the attempt's normalize step has passed are normalized,
\* all of them when it awaits its checkpoint.
NormalizeProgress ==
    attempt # Idle /\ attempt.step = Len(ScoreOrder) + 1 =>
        /\ attempt.at \in {"mark", "work"} =>
              \A i \in 1..Len(ScoreOrder) :
                 i < attempt.commit => score[ScoreOrder[i]][Date] = "normalized"
        /\ attempt.at = "mark" => attempt.commit = 1
        /\ attempt.at = "checkpoint" => AllNormalized(Date)

\* A date some run normalized is normalized, unless another emptied it again.
Normalized ==
    \A r \in Runs :
        Done(r, Len(ScoreOrder) + 1) /\ r.date \notin emptied => AllNormalized(r.date)

-----------------------------------------------------------------------------
(* The sequence of steps *)

\* The score steps come first, then normalize, rank and positions, each once.
LEMMA StepFacts ==
    /\ Len(ScoreOrder) \in Nat /\ Size = Len(ScoreOrder) + 3
    /\ \A i \in 1..Len(ScoreOrder) : StepOrder[i] = ScoreOrder[i] /\ ScoreOrder[i] \in Scores
    /\ StepOrder[Len(ScoreOrder) + 1] = "normalize"
    /\ StepOrder[Len(ScoreOrder) + 2] = "rank"
    /\ StepOrder[Len(ScoreOrder) + 3] = "positions"
    /\ Scores \subseteq {"TECHNICAL", "VALORIZATION"}
    /\ \A i, j \in 1..Size : StepOrder[i] = StepOrder[j] => i = j
<1> DEFINE n == Len(ScoreOrder)
<1>1. ScoreOrder \in Seq({"TECHNICAL", "VALORIZATION"})
  BY CycleAssumption
<1>2. n \in Nat /\ \A i \in 1..n : ScoreOrder[i] \in {"TECHNICAL", "VALORIZATION"}
  BY <1>1
<1>3. Size = n + 3 /\ \A i \in 1..n + 3 :
         StepOrder[i] = IF i <= n THEN ScoreOrder[i]
                        ELSE <<"normalize", "rank", "positions">>[i - n]
  BY <1>1, <1>2 DEF Size, StepOrder
<1>4. \A i \in 1..n : StepOrder[i] = ScoreOrder[i]
  BY <1>2, <1>3
<1>5. /\ StepOrder[n + 1] = "normalize" /\ StepOrder[n + 2] = "rank"
      /\ StepOrder[n + 3] = "positions"
  BY <1>2, <1>3
<1>6. Scores \subseteq {"TECHNICAL", "VALORIZATION"} /\ \A i \in 1..n : ScoreOrder[i] \in Scores
  BY <1>2 DEF Scores
<1>7. \A i, j \in 1..n : ScoreOrder[i] = ScoreOrder[j] => i = j
  BY CycleAssumption
<1>8. ASSUME NEW i \in 1..n + 3, NEW j \in 1..n + 3, StepOrder[i] = StepOrder[j] PROVE i = j
  <2> HIDE DEF n
  <2>1. \A k \in 1..n + 3 : k \in 1..n \/ k = n + 1 \/ k = n + 2 \/ k = n + 3
    BY <1>2
  <2>2. \A k \in 1..n : StepOrder[k] \in {"TECHNICAL", "VALORIZATION"}
    BY <1>2, <1>4
  <2>3. CASE i \in 1..n /\ j \in 1..n
    BY <1>4, <1>7, <1>8, <2>3
  <2> QED BY <1>5, <1>8, <2>1, <2>2, <2>3
<1> QED BY <1>2, <1>3, <1>4, <1>5, <1>6, <1>8

\* The sets the steps and a run's last step range over.
LEMMA Positions ==
    /\ Size \in Nat /\ Steps = {StepOrder[i] : i \in 1..Size}
    /\ \A r \in Runs : /\ LastStep(r) \in Nat /\ LastStep(r) <= Size
                       /\ Len(ScoreOrder) + 2 <= LastStep(r)
    /\ \A t \in Scores : \E i \in 1..Len(ScoreOrder) : StepOrder[i] = t
<1>1. \A t \in Scores : \E i \in 1..Len(ScoreOrder) : StepOrder[i] = t
  BY StepFacts DEF Scores
<1> QED BY <1>1, StepFacts DEF Steps, Size, LastStep

\* A set of positions has a first.
LEMMA FirstLeft ==
    ASSUME NEW left, left \subseteq Nat, left # {}
    PROVE  \E i \in left : \A j \in left : i <= j
<1>1. PICK i \in left : \A j \in left : ~(<<j, i>> \in OpToRel(<, Nat))
  BY WFMin, NatLessThanWellFounded
<1>2. ASSUME NEW j \in left PROVE i <= j
  <2>1. i \in Nat /\ j \in Nat /\ ~(j < i)
    BY <1>1, <1>2 DEF OpToRel
  <2> QED BY <2>1
<1> QED BY <1>2

-----------------------------------------------------------------------------
(* Where an attempt starts or goes on *)

\* What Resume returns: the first step after a position that is not done, if any.
ResumesAt(a, r, s, after) ==
    /\ a \in Attempts /\ a.run = r /\ a.setting = s /\ a.commit = 1
    /\ a.at \in {"mark", "finish"}
    /\ a.at = "mark" =>
          /\ a.step \in 1..LastStep(r) /\ after < a.step /\ ~Done(r, a.step)
          /\ \A i \in 1..LastStep(r) : after < i /\ i < a.step => Done(r, i)
    /\ a.at = "finish" => \A i \in 1..LastStep(r) : after < i => Done(r, i)

\* Resume is what _do does with the done steps it read.
LEMMA ResumeFacts ==
    ASSUME NEW r \in Runs, NEW s \in Settings, NEW after \in Nat
    PROVE  ResumesAt(Resume(r, s, after), r, s, after)
<1> DEFINE left == {i \in StepsLeft(r) : i > after}
           first == CHOOSE i \in left : \A j \in left : i <= j
           n == Len(ScoreOrder)
<1>1. /\ Size \in Nat /\ LastStep(r) \in Nat /\ LastStep(r) <= Size
      /\ n \in Nat /\ Size = n + 3 /\ Len(StepOrder) = Size
  BY StepFacts, Positions DEF Size
<1>2. left \subseteq Nat /\ \A i \in Nat :
         i \in left <=> i \in 1..LastStep(r) /\ ~Done(r, i) /\ after < i
  BY <1>1 DEF StepsLeft, Done
<1>3. CASE left = {}
  <2>1. Resume(r, s, after) =
          [at |-> "finish", run |-> r, setting |-> s, step |-> 1, commit |-> 1]
    BY <1>3 DEF Resume
  <2>2. \A i \in 1..LastStep(r) : after < i => Done(r, i)
    <3> HIDE DEF left
    <3> QED BY <1>1, <1>2, <1>3
  <2>3. 1 \in 1..Len(StepOrder) /\ 1 \in 1..(n + 2)
    BY <1>1
  <2> QED BY <2>1, <2>2, <2>3 DEF ResumesAt, Attempts, Places
<1>4. CASE left # {}
  <2>1. Resume(r, s, after) =
          [at |-> "mark", run |-> r, setting |-> s, commit |-> 1, step |-> first]
    BY <1>4 DEF Resume
  <2>2. first \in left /\ \A j \in left : first <= j
    BY <1>2, <1>4, FirstLeft
  <2> HIDE DEF first, left
  <2>3. first \in 1..LastStep(r) /\ ~Done(r, first) /\ after < first
    BY <1>2, <2>2
  <2>4. ASSUME NEW i \in 1..LastStep(r), after < i, i < first PROVE Done(r, i)
    <3>1. i \in Nat /\ ~(first <= i)
      BY <1>1, <2>3, <2>4
    <3> QED BY <1>2, <2>2, <2>4, <3>1
  <2>5. first \in 1..Len(StepOrder) /\ 1 \in 1..(n + 2)
    BY <1>1, <2>3
  <2> QED BY <2>1, <2>3, <2>4, <2>5 DEF ResumesAt, Attempts, Places
<1> QED BY <1>3, <1>4

-----------------------------------------------------------------------------
(* Type correctness *)

\* The parts of an attempt that is under way, and of one that moved on.
LEMMA AttemptFacts ==
    ASSUME TypeOK, attempt # Idle
    PROVE  /\ attempt \in Attempts /\ attempt.run \in Runs /\ Date \in Dates
           /\ attempt.setting \in Settings /\ attempt.setting # NoSetting
           /\ attempt.step \in 1..Size /\ attempt.step \in Nat
           /\ StepOrder[attempt.step] \in Steps
           /\ attempt.commit \in 1..(Len(ScoreOrder) + 2)
           /\ attempt.at \in Places
BY CycleAssumption, Positions DEF TypeOK, Attempts, Date, Runs, Size

\* Goto changes the place only.
LEMMA GotoFacts ==
    ASSUME TypeOK, attempt # Idle, NEW place \in Places, Goto(place)
    PROVE  /\ attempt' \in Attempts /\ attempt'.at = place
           /\ attempt'.run = attempt.run /\ attempt'.setting = attempt.setting
           /\ attempt'.step = attempt.step /\ attempt'.commit = attempt.commit
<1>1. attempt \in Attempts
  BY AttemptFacts
<1>2. attempt' = [attempt EXCEPT !.at = place]
  BY DEF Goto
<1> QED BY <1>1, <1>2 DEF Attempts

\* Committed goes to the step's next commit, or to its checkpoint after the last.
LEMMA CommittedFacts ==
    ASSUME TypeOK, attempt # Idle, attempt.at = "work",
           NEW last \in 1..(Len(ScoreOrder) + 2), Committed(last),
           attempt.commit <= last
    PROVE  /\ attempt' \in Attempts
           /\ attempt'.run = attempt.run /\ attempt'.setting = attempt.setting
           /\ attempt'.step = attempt.step
           /\ \/ attempt.commit = last /\ attempt'.at = "checkpoint" /\ attempt'.commit = 1
              \/ /\ attempt.commit < last /\ attempt'.at = "work"
                 /\ attempt'.commit = attempt.commit + 1
<1> DEFINE n == Len(ScoreOrder)
<1>1. attempt \in Attempts /\ n \in Nat /\ attempt.commit \in 1..(n + 2)
  BY AttemptFacts, StepFacts
<1>2. CASE attempt.commit = last
  <2>1. attempt' = [attempt EXCEPT !.at = "checkpoint", !.commit = 1]
    BY <1>2 DEF Committed
  <2>2. 1 \in 1..(n + 2)
    BY <1>1
  <2> QED BY <1>1, <1>2, <2>1, <2>2 DEF Attempts, Places
<1>3. CASE attempt.commit # last
  <2>1. attempt' = [attempt EXCEPT !.commit = attempt.commit + 1]
    BY <1>3 DEF Committed
  <2>2. attempt.commit + 1 \in 1..(n + 2) /\ attempt.commit < last
    <3> HIDE DEF n
    <3>1. last \in 1..(n + 2)
      BY DEF n
    <3> QED BY <1>1, <1>3, <3>1
  <2> QED BY <1>1, <1>3, <2>1, <2>2 DEF Attempts
<1> QED BY <1>2, <1>3

\* What every step but OpenCycle, MarkDone and those that end it leave of the
\* attempt: its run, setting and step.
SameAttempt ==
    /\ attempt' \in Attempts /\ attempt'.run = attempt.run
    /\ attempt'.setting = attempt.setting /\ attempt'.step = attempt.step

\* The steps of an attempt after which it goes on with the same step.
Moves ==
    \/ MarkRunning \/ NormalizeFundamental \/ Rank \/ RecordConstruction \/ WriteBook
    \/ \E type \in Scores : WriteScores(type) \/ NormalizeScores(type)
    \/ StepRaises \/ MarkFailed \/ RunRaises

\* These steps keep the attempt's run, setting and step.
LEMMA MovesFacts ==
    ASSUME TypeOK, Moves PROVE attempt # Idle /\ SameAttempt
<1> DEFINE n == Len(ScoreOrder)
<1>0. attempt # Idle
  BY DEF Moves, MarkRunning, NormalizeFundamental, Rank, RecordConstruction, WriteBook,
         WriteScores, NormalizeScores, StepRaises, MarkFailed, RunRaises, Working
<1>1. n \in Nat /\ attempt.commit \in 1..(n + 2)
  BY <1>0, AttemptFacts, StepFacts
<1>2. n + 1 \in 1..(n + 2) /\ 2 \in 1..(n + 2) /\ \A c \in 1..(n + 2) : c <= n => c <= n + 1
  BY <1>1
<1>3. ASSUME NEW place \in Places, Goto(place) PROVE SameAttempt
  BY <1>0, <1>3, GotoFacts DEF SameAttempt
<1>4. ASSUME NEW last \in 1..(n + 2), Committed(last), attempt.commit <= last, attempt.at = "work"
      PROVE  SameAttempt
  BY <1>0, <1>4, CommittedFacts DEF SameAttempt
<1>5. CASE MarkRunning
  BY <1>3, <1>5 DEF MarkRunning, Places
<1>6. CASE NormalizeFundamental
  BY <1>1, <1>2, <1>4, <1>6 DEF NormalizeFundamental, Working
<1>7. CASE Rank
  <2>1. Goto("checkpoint") /\ "checkpoint" \in Places
    BY <1>7 DEF Rank, Places
  <2> QED BY <1>0, <1>3, <2>1
<1>8. CASE RecordConstruction
  BY <1>1, <1>2, <1>4, <1>8 DEF RecordConstruction, Working
<1>9. CASE WriteBook
  BY <1>1, <1>2, <1>4, <1>9 DEF WriteBook, Working
<1>10. ASSUME NEW type \in Scores, WriteScores(type) PROVE SameAttempt
  BY <1>3, <1>10 DEF WriteScores, Places
<1>11. ASSUME NEW type \in Scores, NormalizeScores(type) PROVE SameAttempt
  BY <1>1, <1>2, <1>4, <1>11 DEF NormalizeScores, Working
<1>12. CASE StepRaises
  BY <1>3, <1>12 DEF StepRaises, Places
<1>13. CASE MarkFailed
  BY <1>3, <1>13 DEF MarkFailed, Places
<1>14. CASE RunRaises
  BY <1>3, <1>14 DEF RunRaises, Places
<1> QED
  BY <1>0, <1>5, <1>6, <1>7, <1>8, <1>9, <1>10, <1>11, <1>12, <1>13, <1>14 DEF Moves

\* The steps that end an attempt.
Ends == FinishCycle \/ CloseFailed \/ Crash

\* Every step is an opening, a move within a step, a checkpoint, an end or a reset.
LEMMA Split ==
    ASSUME [Next]_vars
    PROVE  \/ \E r \in Runs, s \in Settings : OpenCycle(r, s)
           \/ Moves \/ MarkDone \/ Ends
           \/ \E from \in Dates : ResetReplayRange(from)
           \/ UNCHANGED vars
BY DEF Next, Step, Failure, Moves, Ends

\* The attempt a run opens with, and the one a checkpoint goes on with.
LEMMA OpenFacts ==
    ASSUME TypeOK, NEW r \in Runs, NEW s \in Settings, OpenCycle(r, s)
    PROVE  ResumesAt(attempt', r, s, 0) /\ attempt' # Idle
<1>1. ResumesAt(attempt', r, s, 0)
  BY ResumeFacts DEF OpenCycle
<1> QED BY <1>1 DEF ResumesAt, Idle

LEMMA MarkDoneFacts ==
    ASSUME TypeOK, MarkDone
    PROVE  /\ attempt # Idle /\ attempt' # Idle
           /\ ResumesAt(attempt', attempt.run, attempt.setting, attempt.step)
<1>1. attempt # Idle /\ attempt' = Resume(attempt.run, attempt.setting, attempt.step)
  BY DEF MarkDone
<1>2. ResumesAt(attempt', attempt.run, attempt.setting, attempt.step)
  BY <1>1, AttemptFacts, ResumeFacts
<1> QED BY <1>1, <1>2 DEF ResumesAt, Idle

\* A step that moves writes tables of their types.
LEMMA MovesType == ASSUME TypeOK, Moves PROVE TypeOK'
<1>0. /\ attempt # Idle /\ attempt' \in Attempts /\ attempt.run \in Runs /\ Date \in Dates
      /\ attempt.setting \in Settings /\ StepOrder[attempt.step] \in Steps
  BY MovesFacts, AttemptFacts DEF SameAttempt
<1>1. ASSUME NEW state \in {"none", "running", "done", "failed"}, SetCheckpoint(state)
      PROVE  cp' \in [Runs -> [Steps -> {"none", "running", "done", "failed"}]]
  BY <1>0, <1>1 DEF SetCheckpoint, TypeOK
<1>2. CASE MarkRunning
  BY <1>0, <1>1, <1>2 DEF MarkRunning, TypeOK, table
<1>3. CASE NormalizeFundamental
  <2>1. Date \in 0..LastDate /\ FilingOf[Date] \in Filings
    BY <1>0, CycleAssumption DEF Dates
  <2>2. filing' \in [Filings -> 0..LastDate] /\ emptied' \subseteq Dates
    BY <1>3, <2>1 DEF NormalizeFundamental, TypeOK
  <2> QED BY <1>0, <1>3, <2>2 DEF NormalizeFundamental, TypeOK, table
<1>4. CASE Rank
  <2>1. Date \in 0..LastDate
    BY <1>0, CycleAssumption DEF Dates
  <2>2. [setting |-> attempt.setting, parts |-> PartsOf(Date),
         fundamental |-> FundamentalOf(Date)] \in Blends
    BY <1>0, <2>1 DEF Blends, PartsOf, FundamentalOf
  <2> QED BY <1>0, <1>4, <2>2 DEF Rank, TypeOK, table
<1>5. CASE RecordConstruction
  BY <1>0, <1>5 DEF RecordConstruction, TypeOK
<1>6. CASE WriteBook
  BY <1>0, <1>6 DEF WriteBook, TypeOK, table
<1>7. ASSUME NEW type \in Scores, WriteScores(type) PROVE TypeOK'
  <2>1. score' \in [Scores -> [Dates -> {"none", "raw", "normalized"}]]
    BY <1>0, <1>7 DEF WriteScores, TypeOK
  <2>2. emptied' \subseteq Dates
    BY <1>0, <1>7 DEF WriteScores, TypeOK
  <2> QED BY <1>0, <1>7, <2>1, <2>2 DEF WriteScores, TypeOK, table
<1>8. ASSUME NEW type \in Scores, NormalizeScores(type) PROVE TypeOK'
  <2>1. score' \in [Scores -> [Dates -> {"none", "raw", "normalized"}]]
    BY <1>0, <1>8 DEF NormalizeScores, TypeOK
  <2> QED BY <1>0, <1>8, <2>1 DEF NormalizeScores, TypeOK, table
<1>9. CASE StepRaises
  BY <1>0, <1>9 DEF StepRaises, TypeOK, table
<1>10. CASE MarkFailed
  BY <1>0, <1>1, <1>10 DEF MarkFailed, TypeOK, table
<1>11. CASE RunRaises
  BY <1>0, <1>11 DEF RunRaises, TypeOK, table
<1> QED
  BY <1>2, <1>3, <1>4, <1>5, <1>6, <1>7, <1>8, <1>9, <1>10, <1>11 DEF Moves

\* Every variable keeps its type.
LEMMA TypeStep == TypeOK /\ [Next]_vars => TypeOK'
<1> SUFFICES ASSUME TypeOK, [Next]_vars PROVE TypeOK'
  OBVIOUS
<1>1. ASSUME NEW r \in Runs, NEW s \in Settings, OpenCycle(r, s) PROVE TypeOK'
  <2>1. attempt' \in Attempts
    BY <1>1, OpenFacts DEF ResumesAt
  <2> QED BY <1>1, <2>1 DEF OpenCycle, TypeOK
<1>2. CASE Moves
  BY <1>2, MovesType
<1>3. CASE MarkDone
  <2>1. attempt' \in Attempts /\ attempt.run \in Runs /\ StepOrder[attempt.step] \in Steps
    BY <1>3, MarkDoneFacts, AttemptFacts DEF ResumesAt
  <2>2. cp' \in [Runs -> [Steps -> {"none", "running", "done", "failed"}]]
    BY <1>3, <2>1 DEF MarkDone, SetCheckpoint, TypeOK
  <2> QED BY <1>3, <2>1, <2>2 DEF MarkDone, TypeOK, table
<1>4. CASE Ends
  <2>1. attempt # Idle /\ attempt.run \in Runs
    BY <1>4, AttemptFacts DEF Ends, FinishCycle, CloseFailed, Crash
  <2> QED BY <1>4, <2>1 DEF Ends, FinishCycle, CloseFailed, Crash, TypeOK, table
<1>5. ASSUME NEW from \in Dates, ResetReplayRange(from) PROVE TypeOK'
  <2>1. NoSteps \in [Steps -> {"none", "running", "done", "failed"}]
    BY DEF NoSteps
  <2> QED BY <1>5, <2>1 DEF ResetReplayRange, TypeOK
<1>6. CASE UNCHANGED vars
  BY <1>6 DEF vars, table, TypeOK
<1> QED BY <1>1, <1>2, <1>3, <1>4, <1>5, <1>6, Split

\* The variables keep their types in every behaviour.
THEOREM TypeCorrect == Spec => []TypeOK
<1>1. Init => TypeOK
  <2> SUFFICES ASSUME Init PROVE TypeOK
    OBVIOUS
  <2>1. NoSteps \in [Steps -> {"none", "running", "done", "failed"}]
    BY DEF NoSteps
  <2>2. \A f \in Filings : 0 \in 0..LastDate
    BY CycleAssumption
  <2> QED BY <2>1, <2>2 DEF Init, TypeOK
<1> QED BY <1>1, TypeStep, PTL DEF Spec

-----------------------------------------------------------------------------
(* Rankings are made under what the row records *)

\* What the moves of a step leave alone.
LEMMA MovesKeep ==
    ASSUME TypeOK, Moves
    PROVE  /\ UNCHANGED <<status, opened>>
           /\ \/ UNCHANGED ranking
              \/ /\ Working("rank")
                 /\ ranking' = [ranking EXCEPT ![attempt.run] =
                                  [setting |-> attempt.setting, parts |-> PartsOf(Date),
                                   fundamental |-> FundamentalOf(Date)]]
<1>1. CASE Rank
  BY <1>1 DEF Rank, table
<1>2. CASE ~Rank
  BY <1>2 DEF Moves, MarkRunning, NormalizeFundamental, RecordConstruction, WriteBook,
              WriteScores, NormalizeScores, StepRaises, MarkFailed, RunRaises, table
<1> QED BY <1>1, <1>2

\* Both parts of the invariant on what was recorded survive every step.
LEMMA RecordedStep ==
    TypeOK /\ RankedAsRecorded /\ AttemptAsRecorded /\ [Next]_vars
    => RankedAsRecorded' /\ AttemptAsRecorded'
<1> SUFFICES ASSUME TypeOK, RankedAsRecorded, AttemptAsRecorded, [Next]_vars
             PROVE  RankedAsRecorded' /\ AttemptAsRecorded'
  OBVIOUS
<1>1. ASSUME NEW r \in Runs, NEW s \in Settings, OpenCycle(r, s)
      PROVE  RankedAsRecorded' /\ AttemptAsRecorded'
  <2>1. attempt' # Idle /\ attempt'.run = r /\ attempt'.setting = s
    BY <1>1, OpenFacts DEF ResumesAt
  <2>2. ranking' = ranking /\ status'[r] = "running"
    BY <1>1 DEF OpenCycle, TypeOK
  <2>3. \A q \in Runs : opened[q] # NoSetting => opened'[q] = opened[q]
    BY <1>1 DEF OpenCycle, TypeOK
  <2>4. opened'[r] # NoSetting /\ Inputs(s, opened'[r])
    <3>1. CASE opened[r] = NoSetting
      <4>1. opened'[r] = s
        BY <1>1, <3>1 DEF OpenCycle, TypeOK
      <4> QED BY <4>1, CycleAssumption DEF Inputs
    <3>2. CASE opened[r] # NoSetting
      BY <1>1, <2>3, <3>2 DEF OpenCycle, AsOpened, Inputs
    <3> QED BY <3>1, <3>2
  <2>5. RankedAsRecorded'
    BY <2>2, <2>3 DEF RankedAsRecorded, AttemptAsRecorded
  <2>6. AttemptAsRecorded'
    BY <2>1, <2>2, <2>3, <2>4 DEF AttemptAsRecorded
  <2> QED BY <2>5, <2>6
<1>2. CASE Moves
  <2>1. attempt # Idle /\ attempt.run \in Runs /\ attempt.setting \in Settings
    BY <1>2, MovesFacts, AttemptFacts
  <2>2. /\ opened' = opened /\ status' = status
        /\ attempt'.run = attempt.run /\ attempt'.setting = attempt.setting
    BY <1>2, MovesKeep, MovesFacts DEF SameAttempt
  <2>3. opened[attempt.run] # NoSetting /\ Inputs(attempt.setting, opened[attempt.run])
    BY <2>1 DEF AttemptAsRecorded
  <2>4. \A q \in Runs : \/ ranking'[q] = ranking[q]
                        \/ q = attempt.run /\ ranking'[q].setting = attempt.setting
    <3>1. ranking \in [Runs -> Blends \cup {NoBlend}]
      BY DEF TypeOK
    <3> QED BY <1>2, <2>1, <3>1, MovesKeep
  <2> QED BY <2>1, <2>2, <2>3, <2>4 DEF RankedAsRecorded, AttemptAsRecorded, Inputs
<1>3. CASE MarkDone
  <2>1. attempt # Idle /\ attempt'.run = attempt.run /\ attempt'.setting = attempt.setting
    BY <1>3, MarkDoneFacts DEF ResumesAt
  <2> QED BY <1>3, <2>1 DEF MarkDone, RankedAsRecorded, AttemptAsRecorded, table
<1>4. CASE Ends
  BY <1>4 DEF Ends, FinishCycle, CloseFailed, Crash, RankedAsRecorded, AttemptAsRecorded, table
<1>5. ASSUME NEW from \in Dates, ResetReplayRange(from)
      PROVE  RankedAsRecorded' /\ AttemptAsRecorded'
  <2>1. \A q \in Runs : \/ ranking'[q] = NoBlend
                        \/ ranking'[q] = ranking[q] /\ opened'[q] = opened[q]
    <3> DEFINE gone == {r \in Runs : r.type = "REPLAY" /\ r.date >= from}
    <3>1. /\ ranking' = [r \in Runs |-> IF r \in gone THEN NoBlend ELSE ranking[r]]
          /\ opened' = [r \in Runs |-> IF r \in gone THEN NoSetting ELSE opened[r]]
      BY <1>5 DEF ResetReplayRange
    <3> HIDE DEF gone
    <3> QED BY <3>1
  <2>2. attempt' = Idle
    BY <1>5 DEF ResetReplayRange
  <2> QED BY <2>1, <2>2 DEF RankedAsRecorded, AttemptAsRecorded
<1>6. CASE UNCHANGED vars
  BY <1>6 DEF vars, table, RankedAsRecorded, AttemptAsRecorded
<1> QED BY <1>1, <1>2, <1>3, <1>4, <1>5, <1>6, Split

\* Every ranking was made under the manifest, weights and cut that the run's row
\* records, after any failures and resumes: the refusals of _run suffice.
THEOREM RankingsAreRecorded == Spec => []RankedAsRecorded
<1>1. Init => RankedAsRecorded /\ AttemptAsRecorded
  BY DEF Init, RankedAsRecorded, AttemptAsRecorded
<1> QED BY <1>1, RecordedStep, TypeCorrect, PTL DEF Spec

-----------------------------------------------------------------------------
(* Checkpoints *)

Checkpoints == CompletedMeansDone /\ DonePrefix /\ AttemptAtFirst

\* What a move writes in the checkpoints: the step it is at, never done.
LEMMA MovesCheckpoints ==
    ASSUME TypeOK, Moves, AttemptAtFirst
    PROVE  /\ \A r \in Runs, i \in 1..Size : Done(r, i)' <=> Done(r, i)
           /\ attempt'.at \in {"work", "checkpoint", "failed", "close"}
           /\ attempt'.at # "close" => attempt.at \in Runnable
<1> DEFINE n == Len(ScoreOrder)
<1>0. /\ attempt # Idle /\ attempt.run \in Runs /\ attempt.step \in 1..Size
      /\ StepOrder[attempt.step] \in Steps /\ attempt.commit \in 1..(n + 2)
      /\ n \in Nat /\ n + 1 \in 1..(n + 2) /\ 2 \in 1..(n + 2)
      /\ \A c \in 1..(n + 2) : c <= n => c <= n + 1
  BY MovesFacts, AttemptFacts, StepFacts
<1>1. /\ attempt.at \in {"mark", "work", "failed", "checkpoint"}
      /\ \/ cp' = cp
         \/ /\ attempt.at \in {"mark", "failed"}
            /\ \E state \in {"running", "failed"} : SetCheckpoint(state)
  BY DEF Moves, MarkRunning, NormalizeFundamental, Rank, RecordConstruction, WriteBook,
         WriteScores, NormalizeScores, StepRaises, MarkFailed, RunRaises, Working
<1>2. \A r \in Runs, i \in 1..Size : Done(r, i)' <=> Done(r, i)
  <2>1. CASE cp' = cp
    BY <2>1 DEF Done
  <2>2. CASE /\ attempt.at \in {"mark", "failed"}
             /\ \E state \in {"running", "failed"} : SetCheckpoint(state)
    <3>1. PICK state \in {"running", "failed"} : SetCheckpoint(state)
      BY <2>2
    <3>2. ~Done(attempt.run, attempt.step)
      BY <1>0, <2>2 DEF AttemptAtFirst, Runnable
    <3>3. ASSUME NEW r \in Runs, NEW i \in 1..Size PROVE Done(r, i)' <=> Done(r, i)
      <4>1. StepOrder[i] \in Steps
        BY Positions
      <4>2. CASE r = attempt.run /\ StepOrder[i] = StepOrder[attempt.step]
        BY <1>0, <3>1, <3>2, <4>2 DEF SetCheckpoint, TypeOK, Done
      <4>3. CASE ~(r = attempt.run /\ StepOrder[i] = StepOrder[attempt.step])
        BY <1>0, <3>1, <4>1, <4>3 DEF SetCheckpoint, TypeOK, Done
      <4> QED BY <4>2, <4>3
    <3> QED BY <3>3
  <2> QED BY <1>1, <2>1, <2>2
<1>3. attempt'.at \in {"work", "checkpoint", "failed", "close"}
  <2>1. ASSUME NEW place \in {"work", "checkpoint", "failed", "close"}, Goto(place)
        PROVE  attempt'.at = place
    BY <1>0, <2>1, GotoFacts DEF Places
  <2>2. ASSUME NEW last \in 1..(n + 2), Committed(last), attempt.commit <= last, attempt.at = "work"
        PROVE  attempt'.at \in {"work", "checkpoint"}
    BY <1>0, <2>2, CommittedFacts
  <2> HIDE DEF n
  <2>3. \/ \E place \in {"work", "checkpoint", "failed", "close"} : Goto(place)
        \/ \E last \in {2, n + 1} : Committed(last) /\ attempt.commit <= last /\ attempt.at = "work"
    BY <1>0 DEF Moves, MarkRunning, NormalizeFundamental, Rank, RecordConstruction, WriteBook,
           WriteScores, NormalizeScores, StepRaises, MarkFailed, RunRaises, Working, n
  <2> QED BY <1>0, <2>1, <2>2, <2>3
<1> QED BY <1>1, <1>2, <1>3 DEF Runnable

\* The checkpoints' part of the invariant survives every step.
LEMMA CheckpointsStep ==
    TypeOK /\ AttemptAsRecorded /\ Checkpoints /\ [Next]_vars => Checkpoints'
<1> SUFFICES ASSUME TypeOK, AttemptAsRecorded, Checkpoints, [Next]_vars PROVE Checkpoints'
  OBVIOUS
<1> USE DEF Checkpoints
<1>0. \A r \in Runs : \A i \in 1..LastStep(r) : i \in 1..Size
  BY Positions
<1>1. ASSUME NEW r \in Runs, NEW s \in Settings, OpenCycle(r, s) PROVE Checkpoints'
  <2>1. ResumesAt(attempt', r, s, 0)
    BY <1>1, OpenFacts
  <2>2. cp' = cp /\ status' = [status EXCEPT ![r] = "running"]
    BY <1>1 DEF OpenCycle
  <2>3. CompletedMeansDone' /\ DonePrefix'
    BY <2>2 DEF TypeOK, CompletedMeansDone, DonePrefix, Done
  <2>4. AttemptAtFirst'
    BY <2>1, <2>2, Positions DEF ResumesAt, AttemptAtFirst, Done, Runnable
  <2> QED BY <2>3, <2>4
<1>2. CASE Moves
  <2>1. /\ attempt # Idle /\ attempt.run \in Runs /\ attempt.step \in 1..Size
        /\ attempt'.run = attempt.run /\ attempt'.step = attempt.step
    BY <1>2, MovesFacts, AttemptFacts DEF SameAttempt
  <2>2. /\ \A r \in Runs, i \in 1..Size : Done(r, i)' <=> Done(r, i)
        /\ attempt'.at \in {"work", "checkpoint", "failed", "close"}
        /\ attempt'.at # "close" => attempt.at \in Runnable
    BY <1>2, MovesCheckpoints
  <2>3. status' = status
    BY <1>2, MovesKeep
  <2>4. CompletedMeansDone' /\ DonePrefix'
    BY <1>0, <2>2, <2>3 DEF CompletedMeansDone, DonePrefix, Done
  <2>5. attempt'.at \in Runnable => attempt.at \in Runnable
    BY <2>2 DEF Runnable
  <2>6. AttemptAtFirst'
    BY <1>0, <2>1, <2>2, <2>5 DEF AttemptAtFirst
  <2> QED BY <2>4, <2>6
<1>3. CASE MarkDone
  <2>1. ResumesAt(attempt', attempt.run, attempt.setting, attempt.step)
    BY <1>3, MarkDoneFacts
  <2>2. /\ attempt # Idle /\ attempt.run \in Runs /\ attempt.step \in 1..Size
        /\ attempt.step \in Nat /\ StepOrder[attempt.step] \in Steps
    BY <1>3, MarkDoneFacts, AttemptFacts
  <2>3. /\ status' = status /\ attempt.at \in Runnable
        /\ cp' = [cp EXCEPT ![attempt.run][StepOrder[attempt.step]] = "done"]
    BY <1>3 DEF MarkDone, SetCheckpoint, table, Runnable
  <2>4. \A r \in Runs, i \in 1..Size :
           Done(r, i)' <=> Done(r, i) \/ (r = attempt.run /\ i = attempt.step)
    <3>1. ASSUME NEW r \in Runs, NEW i \in 1..Size
          PROVE  Done(r, i)' <=> Done(r, i) \/ (r = attempt.run /\ i = attempt.step)
      <4>1. StepOrder[i] \in Steps
        BY Positions
      <4>2. StepOrder[i] = StepOrder[attempt.step] <=> i = attempt.step
        BY <2>2, StepFacts
      <4> QED BY <2>2, <2>3, <4>1, <4>2 DEF TypeOK, Done
    <3> QED BY <3>1
  <2>5. /\ attempt.step <= LastStep(attempt.run)
        /\ \A i \in 1..LastStep(attempt.run) : i < attempt.step => Done(attempt.run, i)
    BY <2>2, <2>3 DEF AttemptAtFirst
  <2>6. CompletedMeansDone'
    BY <1>0, <2>2, <2>3, <2>4 DEF CompletedMeansDone, AttemptAsRecorded, Done
  <2>7. DonePrefix'
    <3> SUFFICES ASSUME NEW r \in Runs, NEW i \in 1..LastStep(r), NEW j \in 1..LastStep(r),
                        i < j, Done(r, j)'
                 PROVE  Done(r, i)'
      BY DEF DonePrefix
    <3>1. i \in 1..Size /\ j \in 1..Size
      BY <1>0
    <3>2. Done(r, j) => Done(r, i)
      BY DEF DonePrefix
    <3>3. r = attempt.run /\ j = attempt.step => Done(r, i)
      BY <2>5
    <3> QED BY <2>4, <3>1, <3>2, <3>3
  <2>8. AttemptAtFirst'
    <3> DEFINE Now(i) == cp'[attempt.run][StepOrder[i]] = "done"
    <3>0. \A i \in 1..Size : Now(i) <=> Done(attempt.run, i) \/ i = attempt.step
      BY <2>2, <2>4 DEF Done
    <3> HIDE DEF Now
    <3>1. attempt'.run = attempt.run
      BY <2>1 DEF ResumesAt
    <3>2. ASSUME NEW i \in 1..LastStep(attempt.run), i <= attempt.step PROVE Now(i)
      BY <1>0, <2>2, <2>5, <3>0, <3>2, Positions
    <3>3. ASSUME NEW i \in 1..LastStep(attempt.run), Done(attempt.run, i)
          PROVE  Now(i)
      BY <1>0, <2>2, <3>0, <3>3
    <3>4. CASE attempt'.at = "finish"
      <4>1. ASSUME NEW i \in 1..LastStep(attempt.run) PROVE Now(i)
        <5>1. i <= attempt.step \/ attempt.step < i
          BY <2>2, Positions
        <5>2. attempt.step < i => Done(attempt.run, i)
          BY <2>1, <3>4 DEF ResumesAt
        <5> QED BY <3>2, <3>3, <5>1, <5>2
      <4> QED BY <3>1, <3>4, <4>1 DEF AttemptAtFirst, Runnable, Done, Now
    <3>5. CASE attempt'.at = "mark"
      <4>1. /\ attempt'.step \in 1..LastStep(attempt.run) /\ attempt.step < attempt'.step
            /\ ~Done(attempt.run, attempt'.step)
            /\ \A i \in 1..LastStep(attempt.run) :
                  attempt.step < i /\ i < attempt'.step => Done(attempt.run, i)
        BY <2>1, <3>5 DEF ResumesAt
      <4>2. ASSUME NEW i \in 1..LastStep(attempt.run), i < attempt'.step
            PROVE  Now(i)
        <5>1. i <= attempt.step \/ attempt.step < i
          BY <2>2, Positions
        <5> QED BY <3>2, <3>3, <4>1, <4>2, <5>1
      <4>3. attempt'.step \in 1..Size /\ attempt'.step # attempt.step
        BY <1>0, <2>2, <4>1, Positions
      <4>4. ~Now(attempt'.step)
        BY <3>0, <4>1, <4>3
      <4>5. attempt'.step <= LastStep(attempt.run)
        BY <2>2, <4>1, Positions
      <4> QED BY <3>1, <3>5, <4>2, <4>4, <4>5 DEF AttemptAtFirst, Done, Now
    <3> QED BY <2>1, <3>4, <3>5 DEF ResumesAt
  <2> QED BY <2>6, <2>7, <2>8
<1>4. CASE Ends
  <2>1. attempt # Idle /\ attempt.run \in Runs /\ attempt' = Idle /\ cp' = cp
    BY <1>4, AttemptFacts DEF Ends, FinishCycle, CloseFailed, Crash
  <2>2. \/ status' = status
        \/ status' = [status EXCEPT ![attempt.run] = "failed"]
        \/ attempt.at = "finish" /\ status' = [status EXCEPT ![attempt.run] = "completed"]
    BY <1>4 DEF Ends, FinishCycle, CloseFailed, Crash, table
  <2>3. attempt.at = "finish" => \A i \in 1..LastStep(attempt.run) : Done(attempt.run, i)
    BY <2>1 DEF AttemptAtFirst
  <2>4. CompletedMeansDone'
    BY <2>1, <2>2, <2>3 DEF CompletedMeansDone, TypeOK, Done
  <2> QED BY <2>1, <2>4 DEF DonePrefix, AttemptAtFirst, Done
<1>5. ASSUME NEW from \in Dates, ResetReplayRange(from) PROVE Checkpoints'
  <2> DEFINE gone == {r \in Runs : r.type = "REPLAY" /\ r.date >= from}
  <2>1. /\ status' = [r \in Runs |-> IF r \in gone THEN "none" ELSE status[r]]
        /\ cp' = [r \in Runs |-> IF r \in gone THEN NoSteps ELSE cp[r]]
        /\ attempt' = Idle
    BY <1>5 DEF ResetReplayRange
  <2>2. \A r \in Runs, i \in 1..Size : r \in gone => ~Done(r, i)'
    <3> HIDE DEF gone
    <3> QED BY <2>1, Positions DEF Done, NoSteps
  <2> HIDE DEF gone
  <2>3. CompletedMeansDone'
    BY <2>1 DEF CompletedMeansDone
  <2>4. \A r \in Runs : r \notin gone => cp'[r] = cp[r]
    BY <2>1
  <2>5. DonePrefix'
    BY <1>0, <2>2, <2>4 DEF DonePrefix, Done
  <2> QED BY <2>1, <2>3, <2>5 DEF AttemptAtFirst
<1>6. CASE UNCHANGED vars
  BY <1>6 DEF vars, table, CompletedMeansDone, DonePrefix, AttemptAtFirst, Done
<1> QED BY <1>1, <1>2, <1>3, <1>4, <1>5, <1>6, Split

\* No run starts with anything done.
LEMMA CheckpointsInit == Init => Checkpoints
<1> SUFFICES ASSUME Init PROVE Checkpoints
  OBVIOUS
<1>1. \A r \in Runs : \A i \in 1..LastStep(r) : ~Done(r, i)
  BY Positions DEF Init, Done, NoSteps
<1> QED BY <1>1 DEF Init, Checkpoints, CompletedMeansDone, DonePrefix, AttemptAtFirst

\* A completed run did every step of its sequence, whatever attempts of it died
\* or raised on the way.
THEOREM CompletedIsDone == Spec => []CompletedMeansDone
<1>1. Init => RankedAsRecorded /\ AttemptAsRecorded
  BY DEF Init, RankedAsRecorded, AttemptAsRecorded
<1>2. Checkpoints => CompletedMeansDone
  BY DEF Checkpoints
<1> QED BY <1>1, <1>2, RecordedStep, CheckpointsInit, CheckpointsStep, TypeCorrect, PTL DEF Spec

-----------------------------------------------------------------------------
(* Rankings read the scores of their own date, normalized *)

OneGo == Scored /\ NormalizeProgress /\ Normalized

\* Every score type is that of one position, and positions are told apart by name.
LEMMA ScorePositions ==
    /\ Len(ScoreOrder) \in Nat
    /\ \A t \in Scores : \E i \in 1..Len(ScoreOrder) : ScoreOrder[i] = t
    /\ \A i \in 1..Len(ScoreOrder) : ScoreOrder[i] \in Scores /\ i \in 1..Size
    /\ \A k \in 1..Size, i \in 1..Len(ScoreOrder) :
          StepOrder[k] = ScoreOrder[i] => k = i
    /\ \A k \in 1..Size :
          /\ StepOrder[k] = "normalize" <=> k = Len(ScoreOrder) + 1
          /\ StepOrder[k] = "rank" <=> k = Len(ScoreOrder) + 2
          /\ StepOrder[k] = "positions" <=> k = Len(ScoreOrder) + 3
<1> DEFINE n == Len(ScoreOrder)
<1>1. /\ n \in Nat /\ Size = n + 3
      /\ \A i \in 1..n : i \in 1..Size /\ StepOrder[i] = ScoreOrder[i] /\ ScoreOrder[i] \in Scores
      /\ n + 1 \in 1..Size /\ n + 2 \in 1..Size /\ n + 3 \in 1..Size
  BY StepFacts
<1>2. \A t \in Scores : \E i \in 1..n : ScoreOrder[i] = t
  BY DEF Scores
<1>3. \A k \in 1..Size, i \in 1..n : StepOrder[k] = ScoreOrder[i] => k = i
  BY <1>1, StepFacts
<1>4. \A k \in 1..Size : /\ StepOrder[k] = "normalize" <=> k = n + 1
                         /\ StepOrder[k] = "rank" <=> k = n + 2
                         /\ StepOrder[k] = "positions" <=> k = n + 3
  BY <1>1, StepFacts
<1> QED BY <1>1, <1>2, <1>3, <1>4

\* The moves that touch no score: where they leave the attempt.
Untouched ==
    /\ score' = score /\ emptied' = emptied
    /\ \/ attempt.step \in {Len(ScoreOrder) + 2, Len(ScoreOrder) + 3}
       \/ attempt'.at \in {"failed", "close"}
       \/ attempt.at = "mark" /\ attempt'.at = "work" /\ attempt'.commit = attempt.commit

LEMMA MovesScores ==
    ASSUME TypeOK, Moves
    PROVE  \/ Untouched \/ NormalizeFundamental
           \/ \E type \in Scores : WriteScores(type) \/ NormalizeScores(type)
<1>1. attempt # Idle /\ attempt.step \in 1..Size
  BY MovesFacts, AttemptFacts
<1>2. CASE MarkRunning
  <2>1. Goto("work") /\ "work" \in Places
    BY <1>2 DEF MarkRunning, Places
  <2> QED BY <1>1, <1>2, <2>1, GotoFacts DEF MarkRunning, Untouched
<1>3. CASE Rank \/ RecordConstruction \/ WriteBook
  BY <1>1, <1>3, ScorePositions DEF Rank, RecordConstruction, WriteBook, Working, Untouched
<1>4. CASE StepRaises
  <2>1. Goto("failed") /\ "failed" \in Places
    BY <1>4 DEF StepRaises, Places
  <2> QED BY <1>1, <1>4, <2>1, GotoFacts DEF StepRaises, Untouched
<1>5. CASE MarkFailed \/ RunRaises
  <2>1. Goto("close") /\ "close" \in Places
    BY <1>5 DEF MarkFailed, RunRaises, Places
  <2> QED BY <1>1, <1>5, <2>1, GotoFacts DEF MarkFailed, RunRaises, Untouched
<1> QED BY <1>2, <1>3, <1>4, <1>5 DEF Moves

\* The scores' part of the invariant survives the moves of a step.
LEMMA OneGoMoves ==
    ASSUME TypeOK, DonePrefix, AttemptAtFirst, OneGo, Moves PROVE OneGo'
<1> DEFINE n == Len(ScoreOrder)
<1> USE DEF OneGo
<1>1. /\ attempt # Idle /\ attempt.run \in Runs /\ Date \in Dates
      /\ attempt.step \in 1..Size /\ attempt.step \in Nat /\ attempt.commit \in 1..(n + 2)
      /\ attempt'.run = attempt.run /\ attempt'.step = attempt.step /\ Date' = Date
      /\ n \in Nat /\ Size = n + 3
  BY MovesFacts, AttemptFacts, StepFacts DEF SameAttempt, Date
<1>2. \A r \in Runs, i \in 1..Size : Done(r, i)' <=> Done(r, i)
  BY MovesCheckpoints
<1>3. \A i \in 1..n : i \in 1..Size /\ ScoreOrder[i] \in Scores
  BY ScorePositions
<1>4. n + 1 \in 1..Size
  BY <1>1
<1>5. \A r \in Runs : n + 2 <= LastStep(r) /\ LastStep(r) \in Nat /\ r.date \in Dates
  BY Positions DEF Runs
<1>6. CASE Untouched
  <2>1. Scored'
    BY <1>1, <1>2, <1>3, <1>6 DEF Untouched, Scored
  <2>2. NormalizeProgress'
    BY <1>1, <1>6 DEF Untouched, NormalizeProgress, AllNormalized
  <2>3. Normalized'
    BY <1>2, <1>4, <1>6 DEF Untouched, Normalized, AllNormalized
  <2> QED BY <2>1, <2>2, <2>3
<1>7. ASSUME NEW type \in Scores, WriteScores(type) PROVE OneGo'
  <2>1. PICK i \in 1..n : ScoreOrder[i] = type
    BY ScorePositions
  <2>2. attempt.step = i /\ attempt.at = "work"
    BY <1>1, <1>7, <2>1, ScorePositions DEF WriteScores, Working
  <2>3. \A t \in Scores, d \in Dates :
           score'[t][d] = IF t = type /\ d = Date THEN "raw" ELSE score[t][d]
    BY <1>1, <1>7 DEF WriteScores, TypeOK
  <2>4. emptied \subseteq emptied'
    BY <1>7 DEF WriteScores
  <2>5. ASSUME NEW r \in Runs, Done(r, n + 1), r.date = Date PROVE Date \in emptied'
    <3>1. r # attempt.run
      <4>1. ~Done(attempt.run, i)
        BY <1>1, <2>2 DEF AttemptAtFirst, Runnable
      <4>2. i \in 1..LastStep(attempt.run) /\ n + 1 \in 1..LastStep(attempt.run) /\ i < n + 1
        BY <1>1, <1>5
      <4> QED BY <1>1, <2>5, <4>1, <4>2 DEF DonePrefix
    <3>2. cp[r]["normalize"] = "done"
      BY <2>5, StepFacts DEF Done
    <3> QED BY <1>7, <2>5, <3>1, <3>2 DEF WriteScores
  <2>6. Scored'
    BY <1>1, <1>2, <1>3, <1>5, <2>1, <2>2, <2>3 DEF Scored
  <2>7. NormalizeProgress'
    BY <1>1, <2>2 DEF NormalizeProgress
  <2>8. Normalized'
    BY <1>2, <1>4, <1>5, <2>3, <2>4, <2>5 DEF Normalized, AllNormalized
  <2> QED BY <2>6, <2>7, <2>8
<1>8. ASSUME NEW type \in Scores, NormalizeScores(type) PROVE OneGo'
  <2>1. attempt.step = n + 1 /\ attempt.at = "work" /\ attempt.commit <= n
        /\ ScoreOrder[attempt.commit] = type /\ emptied' = emptied
    BY <1>1, <1>8, ScorePositions DEF NormalizeScores, Working
  <2>2. attempt.commit \in 1..n /\ attempt.commit # n + 1
    BY <1>1, <2>1
  <2>3. attempt'.at = "work" /\ attempt'.commit = attempt.commit + 1
    BY <1>1, <1>8, <2>1, <2>2, CommittedFacts DEF NormalizeScores
  <2>4. score[type][Date] # "none"
    <3>1. attempt.commit \in 1..LastStep(attempt.run) /\ attempt.commit < attempt.step
      BY <1>1, <1>5, <2>1, <2>2
    <3>2. Done(attempt.run, attempt.commit)
      BY <1>1, <2>1, <3>1 DEF AttemptAtFirst, Runnable
    <3> QED BY <1>1, <2>1, <2>2, <3>2 DEF Scored, Date
  <2>5. \A t \in Scores, d \in Dates :
           score'[t][d] = IF t = type /\ d = Date THEN "normalized" ELSE score[t][d]
    BY <1>1, <1>8, <2>4 DEF NormalizeScores, TypeOK
  <2>6. Scored'
    BY <1>1, <1>2, <1>3, <1>5, <2>1, <2>3, <2>5 DEF Scored
  <2>7. NormalizeProgress'
    <3>1. ASSUME NEW i \in 1..n, i < attempt.commit + 1
          PROVE  score'[ScoreOrder[i]][Date] = "normalized"
      <4>1. i < attempt.commit \/ i = attempt.commit
        BY <1>1, <2>2, <3>1
      <4>2. i < attempt.commit => score[ScoreOrder[i]][Date] = "normalized"
        BY <1>1, <2>1 DEF NormalizeProgress
      <4> QED BY <1>1, <1>3, <2>1, <2>5, <4>1, <4>2
    <3> QED BY <1>1, <2>3, <3>1 DEF NormalizeProgress
  <2>8. Normalized'
    BY <1>2, <1>4, <1>5, <2>1, <2>5 DEF Normalized, AllNormalized
  <2> QED BY <2>6, <2>7, <2>8
<1>9. CASE NormalizeFundamental
  <2>1. attempt.step = n + 1 /\ attempt.at = "work" /\ attempt.commit = n + 1
        /\ score' = score /\ emptied' = emptied \ {Date}
    BY <1>1, <1>9, ScorePositions DEF NormalizeFundamental, Working
  <2>2. attempt'.at = "checkpoint"
    <3>1. n + 1 \in 1..(n + 2) /\ attempt.commit <= n + 1
      BY <1>1, <2>1
    <3> QED BY <1>1, <1>9, <2>1, <3>1, CommittedFacts DEF NormalizeFundamental
  <2>3. AllNormalized(Date)
    <3> SUFFICES ASSUME NEW t \in Scores PROVE score[t][Date] = "normalized"
      BY DEF AllNormalized
    <3>1. PICK i \in 1..n : ScoreOrder[i] = t
      BY ScorePositions
    <3>2. i < attempt.commit
      BY <1>1, <2>1
    <3> QED BY <1>1, <2>1, <3>1, <3>2 DEF NormalizeProgress
  <2>4. Scored'
    BY <1>1, <1>2, <1>3, <2>1 DEF Scored
  <2>5. NormalizeProgress'
    BY <1>1, <2>1, <2>2, <2>3 DEF NormalizeProgress, AllNormalized
  <2>6. Normalized'
    BY <1>2, <1>4, <2>1, <2>3 DEF Normalized, AllNormalized
  <2> QED BY <2>4, <2>5, <2>6
<1> QED BY <1>6, <1>7, <1>8, <1>9, MovesScores

\* The scores' part of the invariant survives every step.
LEMMA OneGoStep ==
    TypeOK /\ Checkpoints /\ OneGo /\ [Next]_vars => OneGo'
<1> SUFFICES ASSUME TypeOK, Checkpoints, OneGo, [Next]_vars PROVE OneGo'
  OBVIOUS
<1> DEFINE n == Len(ScoreOrder)
<1> USE DEF OneGo, Checkpoints
<1>0. n \in Nat /\ n + 1 \in 1..Size /\ \A i \in 1..n : i \in 1..Size /\ ScoreOrder[i] \in Scores
  BY StepFacts, ScorePositions
<1>1. ASSUME NEW r \in Runs, NEW s \in Settings, OpenCycle(r, s) PROVE OneGo'
  <2>1. ResumesAt(attempt', r, s, 0)
    BY <1>1, OpenFacts
  <2>2. cp' = cp /\ score' = score /\ emptied' = emptied
    BY <1>1 DEF OpenCycle
  <2>3. Scored'
    BY <2>1, <2>2 DEF ResumesAt, Scored, Done
  <2>4. NormalizeProgress'
    BY <1>0, <2>1, <2>2 DEF ResumesAt, NormalizeProgress
  <2> QED BY <2>2, <2>3, <2>4 DEF Normalized, AllNormalized, Done
<1>2. CASE Moves
  BY <1>2, OneGoMoves
<1>3. CASE MarkDone
  <2>1. ResumesAt(attempt', attempt.run, attempt.setting, attempt.step)
    BY <1>3, MarkDoneFacts
  <2>2. /\ attempt # Idle /\ attempt.run \in Runs /\ attempt.step \in 1..Size
        /\ StepOrder[attempt.step] \in Steps
    BY <1>3, MarkDoneFacts, AttemptFacts
  <2>3. /\ score' = score /\ emptied' = emptied /\ attempt.at = "checkpoint"
        /\ cp' = [cp EXCEPT ![attempt.run][StepOrder[attempt.step]] = "done"]
    BY <1>3 DEF MarkDone, SetCheckpoint
  <2>4. \A r \in Runs, i \in 1..Size : Done(r, i)' => Done(r, i) \/ (r = attempt.run /\ i = attempt.step)
    <3>1. ASSUME NEW r \in Runs, NEW i \in 1..Size, Done(r, i)'
          PROVE  Done(r, i) \/ (r = attempt.run /\ i = attempt.step)
      <4>1. StepOrder[i] \in Steps
        BY Positions
      <4>2. StepOrder[i] = StepOrder[attempt.step] => i = attempt.step
        BY <2>2, StepFacts
      <4> QED BY <2>2, <2>3, <3>1, <4>1, <4>2 DEF TypeOK, Done
    <3> QED BY <3>1
  <2>5. Scored'
    <3>1. attempt'.at # "checkpoint"
      BY <2>1 DEF ResumesAt
    <3>2. ASSUME NEW r \in Runs, NEW i \in 1..n, Done(r, i)' PROVE score'[ScoreOrder[i]][r.date] # "none"
      <4>1. CASE Done(r, i)
        BY <2>3, <4>1 DEF Scored
      <4>2. CASE r = attempt.run /\ i = attempt.step
        <5>1. i <= n
          BY <1>0
        <5> QED BY <2>2, <2>3, <4>2, <5>1 DEF Scored, Date
      <4> QED BY <1>0, <2>4, <3>2, <4>1, <4>2
    <3> QED BY <3>1, <3>2 DEF Scored
  <2>6. NormalizeProgress'
    BY <1>0, <2>1, <2>3 DEF ResumesAt, NormalizeProgress
  <2>7. Normalized'
    <3> SUFFICES ASSUME NEW r \in Runs, Done(r, n + 1)', r.date \notin emptied
                 PROVE  AllNormalized(r.date)
      BY <2>3 DEF Normalized, AllNormalized
    <3>1. CASE Done(r, n + 1)
      BY <3>1 DEF Normalized
    <3>2. CASE r = attempt.run /\ n + 1 = attempt.step
      BY <2>2, <2>3, <3>2 DEF NormalizeProgress, Date
    <3> QED BY <1>0, <2>4, <3>1, <3>2
  <2> QED BY <2>5, <2>6, <2>7
<1>4. CASE Ends
  BY <1>4 DEF Ends, FinishCycle, CloseFailed, Crash, Scored, NormalizeProgress, Normalized,
              AllNormalized, Done
<1>5. ASSUME NEW from \in Dates, ResetReplayRange(from) PROVE OneGo'
  <2> DEFINE gone == {r \in Runs : r.type = "REPLAY" /\ r.date >= from}
  <2>1. /\ cp' = [r \in Runs |-> IF r \in gone THEN NoSteps ELSE cp[r]]
        /\ attempt' = Idle /\ score' = score /\ emptied' = emptied
    BY <1>5 DEF ResetReplayRange
  <2> HIDE DEF gone
  <2>2. \A r \in Runs, i \in 1..Size : Done(r, i)' => Done(r, i)
    BY <2>1, Positions DEF Done, NoSteps
  <2> QED BY <1>0, <2>1, <2>2 DEF Scored, NormalizeProgress, Normalized, AllNormalized
<1>6. CASE UNCHANGED vars
  BY <1>6 DEF vars, table, Scored, NormalizeProgress, Normalized, AllNormalized, Done, Date
<1> QED BY <1>1, <1>2, <1>3, <1>4, <1>5, <1>6, Split

\* No run starts with a score.
LEMMA OneGoInit == Init => OneGo
<1> SUFFICES ASSUME Init PROVE OneGo
  OBVIOUS
<1>1. \A r \in Runs, i \in 1..Size : ~Done(r, i)
  BY Positions DEF Init, Done, NoSteps
<1>2. \A i \in 1..Len(ScoreOrder) : i \in 1..Size
  BY ScorePositions
<1>3. Len(ScoreOrder) + 1 \in 1..Size
  BY StepFacts
<1> QED BY <1>1, <1>2, <1>3 DEF Init, OneGo, Scored, NormalizeProgress, Normalized

\* A step that writes a ranking writes a whole one of the run's own date, unless
\* another run emptied the date.
LEMMA RankWhole ==
    ASSUME TypeOK, Checkpoints, OneGo, [Next]_vars,
           NEW r \in Runs, ranking'[r] # ranking[r], ranking'[r] # NoBlend, r.date \notin emptied
    PROVE  Whole(ranking'[r], r.date)
<1> DEFINE n == Len(ScoreOrder)
<1> USE DEF OneGo, Checkpoints
<1>1. Moves
  <2>1. ASSUME NEW q \in Runs, NEW s \in Settings, OpenCycle(q, s) PROVE FALSE
    BY <2>1 DEF OpenCycle
  <2>2. ASSUME NEW from \in Dates, ResetReplayRange(from) PROVE FALSE
    <3> DEFINE gone == {q \in Runs : q.type = "REPLAY" /\ q.date >= from}
    <3>1. ranking' = [q \in Runs |-> IF q \in gone THEN NoBlend ELSE ranking[q]]
      BY <2>2 DEF ResetReplayRange
    <3> HIDE DEF gone
    <3> QED BY <3>1
  <2> QED
    BY <2>1, <2>2, Split DEF MarkDone, Ends, FinishCycle, CloseFailed, Crash, vars
<1>2. /\ Working("rank")
      /\ ranking' = [ranking EXCEPT ![attempt.run] =
                       [setting |-> attempt.setting, parts |-> PartsOf(Date),
                        fundamental |-> FundamentalOf(Date)]]
  BY <1>1, MovesKeep
<1>3. attempt # Idle /\ attempt.run \in Runs /\ attempt.step \in 1..Size
  BY <1>1, MovesFacts, AttemptFacts
<1>4. r = attempt.run
  BY <1>2 DEF TypeOK
<1>5. attempt.at = "work" /\ attempt.step = n + 2
  BY <1>2, <1>3, ScorePositions DEF Working
<1>6. Done(r, n + 1)
  <2>1. n \in Nat /\ LastStep(r) \in Nat /\ n + 2 <= LastStep(r)
    BY StepFacts, Positions
  <2>2. n + 1 \in 1..LastStep(r) /\ n + 1 < attempt.step
    BY <1>5, <2>1
  <2> QED BY <1>3, <1>4, <1>5, <2>2 DEF AttemptAtFirst, Runnable
<1>7. AllNormalized(r.date)
  BY <1>6 DEF Normalized
<1>8. PartsOf(Date) = Scores /\ FundamentalOf(Date) = r.date
  BY <1>4, <1>7 DEF PartsOf, FundamentalOf, AllNormalized, Date
<1>9. ranking'[r] = [setting |-> attempt.setting, parts |-> Scores, fundamental |-> r.date]
  BY <1>2, <1>3, <1>4, <1>8 DEF TypeOK
<1> QED BY <1>9 DEF Whole

\* A ranking is what one go of its run would have ranked on, after any failures
\* and whatever ran in between: whole, and of its own date.
THEOREM RankingsAreOneGo == Spec => RankingIsOneGo
<1> DEFINE OneGoNow ==
      \A r \in Runs :
          /\ ranking'[r] # ranking[r] /\ ranking'[r] # NoBlend
          /\ r.date \notin emptied
          => Whole(ranking'[r], r.date)
<1>1. Init => RankedAsRecorded /\ AttemptAsRecorded
  BY DEF Init, RankedAsRecorded, AttemptAsRecorded
<1>2. TypeOK /\ Checkpoints /\ OneGo /\ [Next]_vars => [OneGoNow]_vars
  BY RankWhole
<1>3. Spec => [][OneGoNow]_vars
  <2> HIDE DEF OneGoNow
  <2> QED BY <1>1, <1>2, RecordedStep, CheckpointsInit, CheckpointsStep, OneGoInit, OneGoStep,
             TypeCorrect, PTL DEF Spec
<1> QED BY <1>3 DEF RankingIsOneGo
=============================================================================

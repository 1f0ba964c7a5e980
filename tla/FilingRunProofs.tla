-------------------------- MODULE FilingRunProofs --------------------------
(***************************************************************************)
(* Type correctness of FilingRun and its three invariants, for any filings *)
(* of a company, any modes and any number of runs and faults.              *)
(***************************************************************************)
EXTENDS FilingRun, SequenceTheorems, WellFoundedInduction, TLAPS

InHand   == {"store", "metrics", "inputs", "gates", "score"}
Recording == {"metrics", "inputs", "gates", "score"}

-----------------------------------------------------------------------------
(* The inductive invariant *)

\* A filing that is analysed is the oldest of the queue, nothing is left to be
\* listed, and once it is stored its period's row is its own.
FilingInHand ==
    proc # Idle =>
        /\ Now # 0
        /\ proc.at \in InHand => proc.queue # {} /\ proc.units = {}
        /\ proc.at \in Recording => row[Ours].filing = Filing

\* What the places of _analyze_one have behind them.
Behind ==
    proc # Idle =>
        /\ proc.at \in {"inputs", "gates", "score"} => metrics[Ours] # None
        /\ proc.at \in {"gates", "score"} => inputs[Ours] # None
        /\ proc.at = "score" => Ours \in gated

\* The earlier periods a filing is computed from are those that are there when its
\* metrics are recorded.
ReadIsCurrent ==
    proc # Idle /\ proc.at = "metrics" =>
        proc.read = {q \in Periods : q < Ours /\ metrics[q] # None}

\* What a run recorded, it recorded of the filings up to the one in hand, and not
\* before it listed them all.
RecordedInOrder ==
    \A p \in Periods : metrics[p] # None =>
        /\ metrics[p].run <= Now
        /\ proc # Idle /\ metrics[p].run = Now =>
              proc.units = {} /\ \A g \in proc.queue : metrics[p].filing <= g

-----------------------------------------------------------------------------
(* Facts about the constants and the filing in hand *)

\* Filings, dates and periods are natural numbers.
LEMMA Constants ==
    /\ N \in Nat /\ MaxRuns \in Nat /\ Retries \in Nat /\ Faults \in Nat
    /\ Filings \subseteq Nat \ {0}
    /\ Periods \subseteq Nat
    /\ \A f \in Filings : Period[f] \in Periods
BY FilingAssumption DEF Filings, Periods

\* A queue that is not empty has an oldest filing.
LEMMA OldestInQueue ==
    ASSUME NEW Q \in SUBSET Filings, Q # {}
    PROVE  /\ (CHOOSE f \in Q : \A g \in Q : f <= g) \in Q
           /\ \A g \in Q : (CHOOSE f \in Q : \A h \in Q : f <= h) <= g
<1>1. Q \subseteq Nat
  BY Constants
<1>2. PICK f \in Q : \A g \in Q : ~(<<g, f>> \in OpToRel(<, Nat))
  BY <1>1, WFMin, NatLessThanWellFounded
<1>3. \A g \in Q : f <= g
  <2> SUFFICES ASSUME NEW g \in Q PROVE f <= g
    OBVIOUS
  <2>1. ~(g < f)
    BY <1>1, <1>2 DEF OpToRel
  <2>2. g \in Nat /\ f \in Nat
    BY <1>1
  <2> QED BY <2>1, <2>2
<1> QED BY <1>3

\* The filing in hand is of the queue, the oldest of it, and its period a period.
LEMMA FilingOfQueue ==
    ASSUME TypeOK, proc # Idle, proc.queue # {}
    PROVE  /\ Filing \in proc.queue /\ Filing \in Filings
           /\ \A g \in proc.queue : Filing <= g
           /\ Ours \in Periods
<1>1. proc.queue \in SUBSET Filings
  BY DEF TypeOK, Procs
<1>2. Filing \in proc.queue /\ \A g \in proc.queue : Filing <= g
  BY <1>1, OldestInQueue DEF Filing, OldestFirst
<1> QED BY <1>1, <1>2, Constants DEF Ours

\* The filing in hand is a function of the queue.
LEMMA FilingStays ==
    ASSUME proc'.queue = proc.queue
    PROVE  Filing' = Filing /\ Ours' = Ours
BY DEF Filing, OldestFirst, Ours

\* The run in progress has a number, and its row.
LEMMA RunOfNow ==
    ASSUME TypeOK, FilingInHand, proc # Idle
    PROVE  /\ Now \in RunIds /\ Now \in DOMAIN runs
           /\ proc \in Procs
           /\ Mode \in Modes \cup {Scored} /\ Today \in Dates
<1>1. Now \in Nat /\ Now <= MaxRuns /\ Now # 0
  BY LenProperties DEF TypeOK, FilingInHand, Now
<1>2. Now \in RunIds /\ Now \in DOMAIN runs
  BY <1>1, Constants, LenProperties DEF TypeOK, RunIds, Now
<1>3. runs[Now] \in [status : {"running", "completed", "failed"},
                     mode : Modes \cup {Scored}, date : Dates]
  BY <1>2, ElementOfSeq, LenProperties DEF TypeOK
<1> QED BY <1>2, <1>3 DEF TypeOK, Mode, Today

-----------------------------------------------------------------------------
(* Types *)

\* The loop goes on with a process of the same type.
LEMMA NextFilingType ==
    ASSUME TypeOK, FilingInHand, proc # Idle, proc.queue # {}
    PROVE  /\ NextFiling \in Procs
           /\ Analysed \in Procs
           /\ NextFiling.queue = proc.queue \ {Filing} /\ NextFiling.at = "list"
           /\ NextFiling.units = proc.units /\ NextFiling # Idle
           /\ Analysed.queue = proc.queue \ {Filing} /\ Analysed.at = "list"
           /\ Analysed.units = proc.units /\ Analysed # Idle
<1>1. proc \in Procs
  BY DEF TypeOK
<1>2. Filing \in Filings /\ Ours \in Periods
  BY FilingOfQueue
<1>3. 0 \in 0..Retries
  BY Constants
<1>4. /\ NextFiling \in Procs
      /\ NextFiling.queue = proc.queue \ {Filing} /\ NextFiling.at = "list"
      /\ NextFiling.units = proc.units
  BY <1>1, <1>3 DEF NextFiling, Procs
<1>5. /\ Analysed \in Procs
      /\ Analysed.queue = proc.queue \ {Filing} /\ Analysed.at = "list"
      /\ Analysed.units = proc.units
  BY <1>2, <1>4 DEF Analysed, Procs
<1>6. \A q \in Procs : q # Idle
  BY DEF Procs, Idle
<1> QED BY <1>4, <1>5, <1>6

\* A place further on.
LEMMA PlaceType ==
    ASSUME TypeOK, proc # Idle,
           NEW place \in InHand \cup {"list"}, proc' = [proc EXCEPT !.at = place]
    PROVE  /\ proc' \in Procs /\ proc' # Idle
           /\ proc'.at = place /\ proc'.queue = proc.queue /\ proc'.units = proc.units
           /\ proc'.read = proc.read
BY DEF TypeOK, Procs, Idle, InHand

\* A failure adds a typed row.
LEMMA FailsType ==
    ASSUME TypeOK, FilingInHand, proc # Idle, proc.queue # {},
           NEW class \in Classes, Fails(class)
    PROVE  /\ errors' \subseteq [run : RunIds, filing : Filings, class : Classes]
           /\ proc' = NextFiling /\ proc' \in Procs
<1>1. Now \in RunIds /\ Filing \in Filings
  BY RunOfNow, FilingOfQueue
<1> QED BY <1>1, NextFilingType DEF Fails, TypeOK

\* The tables that a step of _analyze_one writes are typed.
LEMMA KeptType ==
    ASSUME TypeOK, FilingInHand, proc # Idle, proc.queue # {},
           NEW table \in [Periods -> Results \cup {None}]
    PROVE  /\ Result \in Results
           /\ Kept(table) \in [Periods -> Results \cup {None}]
<1>1. Filing \in Filings /\ Now \in RunIds /\ proc.read \in SUBSET Periods
  BY RunOfNow, FilingOfQueue DEF Procs
<1>2. Result \in Results
  BY <1>1 DEF Result, Results
<1> QED BY <1>2 DEF Kept

\* start_run.
LEMMA BeginType ==
    ASSUME TypeOK, NEW mode \in Modes \cup {Scored}, NEW date \in Dates, Begin(mode, date)
    PROVE  TypeOK'
<1>1. /\ runs' = Append(runs, [status |-> "running", mode |-> mode, date |-> date])
      /\ proc' = [at |-> "list", units |-> Units, queue |-> {}, tries |-> 0, read |-> {},
                  done |-> IF mode.fresh THEN {} ELSE Done(mode.metrics),
                  periods |-> IF mode.fresh THEN {} ELSE ScoredPeriods]
      /\ UNCHANGED <<errors, row, metrics, inputs, gated, score, faults, rescued>>
      /\ Len(runs) < MaxRuns
  BY DEF Begin, stored, Now
<1>2. /\ runs' \in Seq([status : {"running", "completed", "failed"},
                        mode : Modes \cup {Scored}, date : Dates])
      /\ Len(runs') <= MaxRuns
  BY <1>1, AppendProperties, LenProperties, Constants DEF TypeOK
<1>3. Done(mode.metrics) \subseteq Filings /\ ScoredPeriods \subseteq Periods
  BY DEF Done, ScoredFilings, MetricsOnlyFilings, ScoredPeriods
<1>4. proc' \in Procs
  BY <1>1, <1>3, Constants DEF Procs
<1> QED BY <1>1, <1>2, <1>4 DEF TypeOK

\* The run ends: its row keeps its type.
LEMMA EndsType ==
    ASSUME TypeOK, FilingInHand, proc # Idle,
           NEW status \in {"completed", "failed"}, Ends(status)
    PROVE  /\ runs' \in Seq([status : {"running", "completed", "failed"},
                             mode : Modes \cup {Scored}, date : Dates])
           /\ Len(runs') = Len(runs) /\ proc' = Idle
<1>1. Now \in DOMAIN runs /\ Now \in 1..Len(runs)
  BY RunOfNow, LenProperties DEF TypeOK
<1>2. runs[Now] \in [status : {"running", "completed", "failed"},
                     mode : Modes \cup {Scored}, date : Dates]
  BY <1>1, ElementOfSeq DEF TypeOK
<1>3. [runs[Now] EXCEPT !.status = status]
        \in [status : {"running", "completed", "failed"},
             mode : Modes \cup {Scored}, date : Dates]
  BY <1>2
<1>4. runs' = [runs EXCEPT ![Now] = [runs[Now] EXCEPT !.status = status]]
  BY DEF Ends
<1> QED BY <1>1, <1>3, <1>4, ExceptSeq DEF TypeOK, Ends

\* Every step keeps the types.
LEMMA TypeStep == TypeOK /\ FilingInHand /\ [Next]_vars => TypeOK'
<1> SUFFICES ASSUME TypeOK, FilingInHand, [Next]_vars PROVE TypeOK'
  OBVIOUS
<1> USE DEF stored
<1>1. CASE RunByHand
  BY <1>1, BeginType DEF RunByHand
<1>2. CASE RunOnYes
  <2>1. LastDate \in Dates
    BY FilingAssumption DEF Dates
  <2> QED BY <1>2, <2>1, BeginType DEF RunOnYes
<1>3. CASE proc # Idle /\ Work
  <2>0. proc \in Procs
    BY <1>3 DEF TypeOK
  <2>1. CASE List
    <3>1. PICK u \in Units : Lists(u, {f \in Filings : Unit[f] = u}) /\ UNCHANGED faults
      BY <2>1 DEF List
    <3>2. proc' = [proc EXCEPT !.units = @ \ {u}, !.queue = @ \cup {f \in Filings : Unit[f] = u}]
      BY <3>1 DEF Lists
    <3>3. proc' \in Procs
      BY <2>0, <3>2 DEF Procs
    <3> QED BY <3>1, <3>3 DEF Lists, TypeOK
  <2>2. CASE Skip
    BY <1>3, <2>2, NextFilingType DEF Skip, Fetching, TypeOK
  <2>3. CASE Fetch
    <3>1. CASE Ours \in proc.periods /\ ~Mode.fresh
      BY <1>3, <2>3, <3>1, NextFilingType DEF Fetch, Fetching, TypeOK
    <3>2. CASE ~(Ours \in proc.periods /\ ~Mode.fresh)
      <4>1. proc' = [proc EXCEPT !.at = "store"]
        BY <2>3, <3>2 DEF Fetch
      <4>2. proc' \in Procs
        BY <1>3, <4>1, PlaceType DEF InHand
      <4> QED BY <2>3, <4>2 DEF Fetch, TypeOK
    <3> QED BY <3>1, <3>2
  <2>4. CASE StoreRefused
    <3>1. proc.queue # {} /\ "data" \in Classes
      BY <1>3, <2>4 DEF StoreRefused, FilingInHand, InHand, Classes
    <3> QED BY <1>3, <2>4, <3>1, FailsType DEF StoreRefused, Fails, TypeOK
  <2>5. CASE Store
    <3>1. proc.queue # {}
      BY <1>3, <2>5 DEF Store, FilingInHand, InHand
    <3>2. Filing \in Filings /\ Now \in RunIds /\ Ours \in Periods
      BY <1>3, <3>1, FilingOfQueue, RunOfNow
    <3>3. row' \in [Periods -> [filing : Filings \cup {0}, run : RunIds \cup {0}]]
      BY <2>5, <3>2 DEF Store, TypeOK
    <3>4. proc' \in Procs
      <4>1. {q \in Periods : q < Ours /\ metrics[q] # None} \in SUBSET Periods
        OBVIOUS
      <4>2. proc' = [proc EXCEPT !.at = "metrics",
                       !.read = {q \in Periods : q < Ours /\ metrics[q] # None}]
        BY <2>5 DEF Store
      <4> HIDE DEF Ours
      <4> QED BY <2>0, <4>1, <4>2 DEF Procs
    <3> QED BY <2>5, <3>3, <3>4 DEF Store, TypeOK
  <2>6. CASE RecordMetrics
    <3>1. proc.queue # {}
      BY <1>3, <2>6 DEF RecordMetrics, FilingInHand, InHand
    <3>2. metrics' \in [Periods -> Results \cup {None}]
      BY <1>3, <2>6, <3>1, KeptType DEF RecordMetrics, TypeOK
    <3>3. proc' \in Procs
      BY <1>3, <2>6, PlaceType DEF RecordMetrics, InHand
    <3> QED BY <2>6, <3>2, <3>3 DEF RecordMetrics, TypeOK
  <2>7. CASE WriteInputs
    <3>1. proc.queue # {}
      BY <1>3, <2>7 DEF WriteInputs, FilingInHand, InHand
    <3>2. inputs' \in [Periods -> Results \cup {None}]
      BY <1>3, <2>7, <3>1, KeptType DEF WriteInputs, TypeOK
    <3>3. proc' \in Procs
      BY <1>3, <2>7, PlaceType DEF WriteInputs, InHand
    <3> QED BY <2>7, <3>2, <3>3 DEF WriteInputs, TypeOK
  <2>8. CASE Gate
    <3>1. proc.queue # {}
      BY <1>3, <2>8 DEF Gate, FilingInHand, InHand
    <3>2. gated' \subseteq Periods
      BY <1>3, <2>8, <3>1, FilingOfQueue DEF Gate, Gates, TypeOK
    <3>3. proc' \in Procs
      <4>1. CASE Mode.metrics
        BY <1>3, <2>8, <3>1, <4>1, NextFilingType DEF Gate
      <4>2. CASE ~Mode.metrics
        BY <1>3, <2>8, <4>2, PlaceType DEF Gate, InHand
      <4> QED BY <4>1, <4>2
    <3> QED BY <2>8, <3>2, <3>3 DEF Gate, TypeOK
  <2>9. CASE StoreScore
    <3>1. proc.queue # {}
      BY <1>3, <2>9 DEF StoreScore, FilingInHand, InHand
    <3>2. score' \in [Periods -> Results \cup {None}]
      BY <1>3, <2>9, <3>1, KeptType DEF StoreScore, TypeOK
    <3> QED BY <1>3, <2>9, <3>1, <3>2, NextFilingType DEF StoreScore, TypeOK
  <2>10. CASE Finish
    <3>1. Ends("completed") /\ UNCHANGED <<errors, row, metrics, inputs, gated, score, faults, rescued>>
      BY <2>10 DEF Finish
    <3>2. runs' \in Seq([status : {"running", "completed", "failed"},
                         mode : Modes \cup {Scored}, date : Dates])
          /\ Len(runs') = Len(runs) /\ proc' = Idle
      BY <1>3, <3>1, EndsType
    <3> QED BY <3>1, <3>2 DEF TypeOK
  <2> QED BY <1>3, <2>1, <2>2, <2>3, <2>4, <2>5, <2>6, <2>7, <2>8, <2>9, <2>10 DEF Work
<1>4. CASE proc # Idle /\ Trouble
  <2>0. proc \in Procs
    BY <1>4 DEF TypeOK
  <2>f. Fault => faults' \in 0..Faults
    BY Constants DEF Fault, TypeOK
  <2>1. CASE ListFails
    <3>1. PICK u \in Units : Lists(u, {})
      BY <2>1 DEF ListFails
    <3>2. proc' = [proc EXCEPT !.units = @ \ {u}, !.queue = @ \cup {}]
      BY <3>1 DEF Lists
    <3>3. proc' \in Procs
      BY <2>0, <3>2 DEF Procs
    <3> QED BY <2>1, <2>f, <3>1, <3>3 DEF ListFails, Lists, TypeOK
  <2>2. CASE NotFound
    BY <1>4, <2>2, <2>f, NextFilingType DEF NotFound, Fetching, TypeOK
  <2>3. CASE Retry
    <3>1. proc.tries + 1 \in 0..Retries
      BY <2>0, <2>3, Constants DEF Retry, WaitsLeft, Procs
    <3>2. proc' \in Procs
      BY <2>0, <2>3, <3>1 DEF Retry, Procs
    <3> QED BY <2>3, <3>2 DEF Retry, TypeOK
  <2>4. CASE Refused
    <3>1. Fails("data") /\ "data" \in Classes /\ proc.queue # {}
      BY <2>4 DEF Refused, Fetching, Classes
    <3> QED BY <1>4, <2>4, <2>f, <3>1, FailsType DEF Refused, Fails, TypeOK
  <2>5. CASE GatewayFails
    <3>1. Fails("service") /\ "service" \in Classes /\ proc.queue # {}
      BY <2>5 DEF GatewayFails, Fetching, Classes
    <3> QED BY <1>4, <2>5, <2>f, <3>1, FailsType DEF GatewayFails, Fails, TypeOK
  <2>6. CASE CodeFails
    <3>1. Fails("service") /\ "service" \in Classes /\ proc.queue # {}
      BY <1>4, <2>6 DEF CodeFails, FilingInHand, InHand, Classes
    <3> QED BY <1>4, <2>6, <2>f, <3>1, FailsType DEF CodeFails, Fails, TypeOK
  <2>7. CASE Interrupt
    <3>1. Ends("failed") /\ UNCHANGED <<errors, row, metrics, inputs, gated, score, rescued>>
      BY <2>7 DEF Interrupt
    <3>2. runs' \in Seq([status : {"running", "completed", "failed"},
                         mode : Modes \cup {Scored}, date : Dates])
          /\ Len(runs') = Len(runs) /\ proc' = Idle
      BY <1>4, <3>1, EndsType
    <3> QED BY <2>7, <2>f, <3>1, <3>2 DEF Interrupt, TypeOK
  <2>8. CASE Kill
    BY <2>8, <2>f DEF Kill, TypeOK
  <2> QED BY <1>4, <2>1, <2>2, <2>3, <2>4, <2>5, <2>6, <2>7, <2>8 DEF Trouble
<1>5. ASSUME NEW p \in Periods, ScoreStored(p) PROVE TypeOK'
  <2>1. metrics[p] \in Results
    BY <1>5 DEF ScoreStored, TypeOK
  <2> QED BY <1>5, <2>1 DEF ScoreStored, TypeOK
<1>6. CASE UNCHANGED vars
  BY <1>6 DEF vars, TypeOK
<1> QED BY <1>1, <1>2, <1>3, <1>4, <1>5, <1>6 DEF Next

-----------------------------------------------------------------------------
(* What a step does *)

Unwritten == UNCHANGED <<row, metrics, inputs, gated, score, rescued>>

\* A run starts.
Starts ==
    /\ proc = Idle /\ proc' # Idle
    /\ proc'.at = "list" /\ proc'.queue = {} /\ Now' = Now + 1
    /\ Unwritten

\* It lists a unit, and has not fetched anything yet.
ListsOne ==
    /\ proc # Idle /\ proc' # Idle
    /\ proc.at = "list" /\ proc.units # {} /\ proc'.at = "list" /\ Now' = Now
    /\ Unwritten

\* It takes a filing from one place to another.
Goes(from, to) ==
    /\ proc # Idle /\ proc' # Idle
    /\ proc.at = from /\ proc'.at = to
    /\ proc.queue # {} /\ proc.units = {}
    /\ proc'.queue = proc.queue /\ proc'.units = proc.units /\ Now' = Now

\* It is done with the filing.
Leaves ==
    /\ proc # Idle /\ proc' # Idle
    /\ proc.queue # {} /\ proc.units = {}
    /\ proc'.at = "list" /\ proc'.queue = proc.queue \ {Filing}
    /\ proc'.units = {} /\ Now' = Now

\* It ends or dies.
Stops == proc # Idle /\ proc' = Idle /\ Now' = Now /\ Unwritten

\* No run is concerned.
Rests == proc' = proc /\ Now' = Now /\ UNCHANGED <<row, metrics, inputs, gated>>

\* What the steps of _analyze_one write.
Stores ==
    /\ Goes("store", "metrics") /\ ~Second(Filing)
    /\ row' = [row EXCEPT ![Ours] = [filing |-> Filing, run |-> Now]]
    /\ proc'.read = {q \in Periods : q < Ours /\ metrics[q] # None}
    /\ UNCHANGED <<metrics, inputs, gated, score, rescued>>

Records ==
    /\ Goes("metrics", "inputs")
    /\ metrics' = Kept(metrics)
    /\ UNCHANGED <<row, inputs, gated, score, rescued>>

Writes ==
    /\ Goes("inputs", "gates")
    /\ inputs' = Kept(inputs)
    /\ UNCHANGED <<row, metrics, gated, score, rescued>>

PassesGates ==
    /\ proc # Idle /\ proc.at = "gates"
    /\ Leaves \/ Goes("gates", "score")
    /\ gated' = gated \cup {Ours}
    /\ UNCHANGED <<row, metrics, inputs, score, rescued>>

ScoresIt ==
    /\ Leaves /\ proc.at = "score"
    /\ score' = Kept(score)
    /\ UNCHANGED <<row, metrics, inputs, gated, rescued>>

StepKinds ==
    \/ Starts \/ ListsOne \/ Stops
    \/ Goes("list", "list") /\ Unwritten
    \/ Goes("list", "store") /\ Unwritten
    \/ Leaves /\ Unwritten
    \/ Stores \/ Records \/ Writes \/ PassesGates \/ ScoresIt
    \/ Rests /\ UNCHANGED <<score, rescued>>
    \/ Rests /\ \E p \in Periods : ScoreStored(p)

\* A start takes the next number.
LEMMA StartKind ==
    ASSUME TypeOK, NEW mode, NEW date, Begin(mode, date)
    PROVE  Starts
<1>1. runs \in Seq([status : {"running", "completed", "failed"},
                    mode : Modes \cup {Scored}, date : Dates])
  BY DEF TypeOK
<1>2. Len(Append(runs, [status |-> "running", mode |-> mode, date |-> date])) = Len(runs) + 1
  BY <1>1
<1>3. Now' = Now + 1
  BY <1>2 DEF Begin, Now
<1>4. proc'.at = "list" /\ proc'.queue = {} /\ proc' # Idle
  BY DEF Begin, Idle
<1> QED BY <1>3, <1>4 DEF Begin, Starts, Unwritten, stored

\* A filing that fails is left.
LEMMA FailKind ==
    ASSUME TypeOK, FilingInHand, proc # Idle, proc.queue # {}, proc.units = {},
           NEW class, Fails(class)
    PROVE  Leaves /\ Unwritten
<1>1. proc' = NextFiling /\ runs' = runs /\ Unwritten
  BY DEF Fails, Unwritten, stored
<1>2. Now' = Now
  BY <1>1 DEF Now
<1> QED BY <1>1, <1>2, NextFilingType DEF Leaves

\* Every step is one of these.
LEMMA StepKind == TypeOK /\ FilingInHand /\ [Next]_vars => StepKinds
<1> SUFFICES ASSUME TypeOK, FilingInHand, [Next]_vars PROVE StepKinds
  OBVIOUS
<1> USE DEF stored
<1>n. runs' = runs => Now' = Now
  BY DEF Now
<1>1. CASE RunByHand
  BY <1>1, StartKind DEF RunByHand, StepKinds
<1>2. CASE RunOnYes
  BY <1>2, StartKind DEF RunOnYes, StepKinds
<1>3. CASE proc # Idle /\ Work
  <2>0. proc \in Procs
    BY <1>3 DEF TypeOK
  <2>h. proc.at \in InHand => proc.queue # {} /\ proc.units = {}
    BY <1>3 DEF FilingInHand
  <2>1. CASE List
    <3>1. PICK u \in Units : Lists(u, {f \in Filings : Unit[f] = u})
      BY <2>1 DEF List
    <3>2. proc' = [proc EXCEPT !.units = @ \ {u}, !.queue = @ \cup {f \in Filings : Unit[f] = u}]
      BY <3>1 DEF Lists
    <3>3. proc'.at = "list" /\ proc' # Idle
      BY <2>0, <3>1, <3>2 DEF Procs, Idle, Lists
    <3>4. ListsOne
      BY <1>3, <1>n, <3>1, <3>3 DEF Lists, ListsOne, Unwritten
    <3> QED BY <3>4 DEF StepKinds
  <2>2. CASE Skip
    <3>1. Leaves /\ Unwritten
      BY <1>3, <1>n, <2>2, NextFilingType DEF Skip, Fetching, Leaves, Unwritten
    <3> QED BY <3>1 DEF StepKinds
  <2>3. CASE Fetch
    <3>1. CASE Ours \in proc.periods /\ ~Mode.fresh
      <4>1. Leaves /\ Unwritten
        BY <1>3, <1>n, <2>3, <3>1, NextFilingType DEF Fetch, Fetching, Leaves, Unwritten
      <4> QED BY <4>1 DEF StepKinds
    <3>2. CASE ~(Ours \in proc.periods /\ ~Mode.fresh)
      <4>1. Goes("list", "store") /\ Unwritten
        BY <1>3, <1>n, <2>3, <3>2, PlaceType DEF Fetch, Fetching, Goes, Unwritten, InHand
      <4> QED BY <4>1 DEF StepKinds
    <3> QED BY <3>1, <3>2
  <2>4. CASE StoreRefused
    <3>1. proc.queue # {} /\ proc.units = {} /\ Fails("data")
      BY <2>h, <2>4 DEF StoreRefused, InHand
    <3>2. Leaves /\ Unwritten
      BY <1>3, <3>1, FailKind
    <3> QED BY <3>2 DEF StepKinds
  <2>5. CASE Store
    <3>1. proc.queue # {} /\ proc.units = {}
      BY <2>h, <2>5 DEF Store, InHand
    <3>2. proc' = [proc EXCEPT !.at = "metrics",
                     !.read = {q \in Periods : q < Ours /\ metrics[q] # None}]
      BY <2>5 DEF Store
    <3>3. /\ proc'.at = "metrics" /\ proc' # Idle
          /\ proc'.queue = proc.queue /\ proc'.units = proc.units
          /\ proc'.read = {q \in Periods : q < Ours /\ metrics[q] # None}
      BY <2>0, <3>2 DEF Procs, Idle
    <3>4. Stores
      BY <1>3, <1>n, <2>5, <3>1, <3>3 DEF Store, Taken, Stores, Goes
    <3> QED BY <3>4 DEF StepKinds
  <2>6. CASE RecordMetrics
    <3>1. Records
      BY <1>3, <1>n, <2>h, <2>6, PlaceType DEF RecordMetrics, InHand, Records, Goes
    <3> QED BY <3>1 DEF StepKinds
  <2>7. CASE WriteInputs
    <3>1. Writes
      BY <1>3, <1>n, <2>h, <2>7, PlaceType DEF WriteInputs, InHand, Writes, Goes
    <3> QED BY <3>1 DEF StepKinds
  <2>8. CASE Gate
    <3>1. proc.queue # {} /\ proc.units = {}
      BY <2>h, <2>8 DEF Gate, InHand
    <3>2. Leaves \/ Goes("gates", "score")
      <4>1. CASE Mode.metrics
        BY <1>3, <1>n, <2>8, <3>1, <4>1, NextFilingType DEF Gate, Leaves
      <4>2. CASE ~Mode.metrics
        BY <1>3, <1>n, <2>8, <3>1, <4>2, PlaceType DEF Gate, InHand, Goes
      <4> QED BY <4>1, <4>2
    <3>3. PassesGates
      BY <1>3, <2>8, <3>2 DEF Gate, Gates, PassesGates
    <3> QED BY <3>3 DEF StepKinds
  <2>9. CASE StoreScore
    <3>1. proc.queue # {} /\ proc.units = {}
      BY <2>h, <2>9 DEF StoreScore, InHand
    <3>2. ScoresIt
      BY <1>3, <1>n, <2>9, <3>1, NextFilingType DEF StoreScore, Leaves, ScoresIt
    <3> QED BY <3>2 DEF StepKinds
  <2>10. CASE Finish
    <3>1. Stops
      BY <1>3, <2>10, EndsType DEF Finish, Stops, Unwritten, Now
    <3> QED BY <3>1 DEF StepKinds
  <2> QED BY <1>3, <2>1, <2>2, <2>3, <2>4, <2>5, <2>6, <2>7, <2>8, <2>9, <2>10 DEF Work
<1>4. CASE proc # Idle /\ Trouble
  <2>0. proc \in Procs
    BY <1>4 DEF TypeOK
  <2>1. CASE ListFails
    <3>1. PICK u \in Units : Lists(u, {})
      BY <2>1 DEF ListFails
    <3>2. proc' = [proc EXCEPT !.units = @ \ {u}, !.queue = @ \cup {}]
      BY <3>1 DEF Lists
    <3>3. proc'.at = "list" /\ proc' # Idle
      BY <2>0, <3>1, <3>2 DEF Procs, Idle, Lists
    <3>4. ListsOne
      BY <1>4, <1>n, <3>1, <3>3 DEF Lists, ListsOne, Unwritten
    <3> QED BY <3>4 DEF StepKinds
  <2>2. CASE NotFound
    <3>1. Leaves /\ Unwritten
      BY <1>4, <1>n, <2>2, NextFilingType DEF NotFound, Fetching, Leaves, Unwritten
    <3> QED BY <3>1 DEF StepKinds
  <2>3. CASE Retry
    <3>1. proc' = [proc EXCEPT !.tries = @ + 1] /\ proc.at = "list"
      BY <2>3 DEF Retry, Fetching
    <3>2. /\ proc'.at = "list" /\ proc' # Idle
          /\ proc'.queue = proc.queue /\ proc'.units = proc.units
      BY <2>0, <3>1 DEF Procs, Idle
    <3>3. Goes("list", "list") /\ Unwritten
      BY <1>4, <1>n, <2>3, <3>1, <3>2 DEF Retry, Fetching, Goes, Unwritten
    <3> QED BY <3>3 DEF StepKinds
  <2>4. CASE Refused
    <3>1. Leaves /\ Unwritten
      BY <1>4, <2>4, FailKind DEF Refused, Fetching
    <3> QED BY <3>1 DEF StepKinds
  <2>5. CASE GatewayFails
    <3>1. Leaves /\ Unwritten
      BY <1>4, <2>5, FailKind DEF GatewayFails, Fetching
    <3> QED BY <3>1 DEF StepKinds
  <2>6. CASE CodeFails
    <3>1. proc.queue # {} /\ proc.units = {} /\ Fails("service")
      BY <1>4, <2>6 DEF CodeFails, FilingInHand, InHand
    <3>2. Leaves /\ Unwritten
      BY <1>4, <3>1, FailKind
    <3> QED BY <3>2 DEF StepKinds
  <2>7. CASE Interrupt
    <3>1. Stops
      BY <1>4, <2>7, EndsType DEF Interrupt, Stops, Unwritten, Now
    <3> QED BY <3>1 DEF StepKinds
  <2>8. CASE Kill
    <3>1. Stops
      BY <1>4, <1>n, <2>8 DEF Kill, Stops, Unwritten
    <3> QED BY <3>1 DEF StepKinds
  <2> QED BY <1>4, <2>1, <2>2, <2>3, <2>4, <2>5, <2>6, <2>7, <2>8 DEF Trouble
<1>5. ASSUME NEW p \in Periods, ScoreStored(p) PROVE StepKinds
  BY <1>5, <1>n DEF ScoreStored, Rests, StepKinds
<1>6. CASE UNCHANGED vars
  BY <1>6, <1>n DEF vars, Rests, StepKinds
<1> QED BY <1>1, <1>2, <1>3, <1>4, <1>5, <1>6 DEF Next

-----------------------------------------------------------------------------
(* The invariants *)

\* Where the process is, it has a filing in hand, whose row is its own.
LEMMA FilingInHandStep == TypeOK /\ FilingInHand /\ [Next]_vars => FilingInHand'
<1> SUFFICES ASSUME TypeOK, FilingInHand, [Next]_vars PROVE FilingInHand'
  OBVIOUS
<1>0. Now \in Nat
  BY LenProperties DEF TypeOK, Now
<1>1. StepKinds
  BY StepKind
<1>2. CASE Starts
  BY <1>0, <1>2 DEF Starts, FilingInHand, InHand, Recording
<1>3. CASE ListsOne
  BY <1>3 DEF ListsOne, FilingInHand, InHand, Recording
<1>4. CASE Stops
  BY <1>4 DEF Stops, FilingInHand
<1>5. CASE Leaves
  BY <1>5 DEF Leaves, FilingInHand, InHand, Recording
<1>6. CASE Goes("list", "list") \/ Goes("list", "store")
  BY <1>6 DEF Goes, FilingInHand, InHand, Recording
<1>7. CASE Stores
  <2>1. Filing' = Filing /\ Ours' = Ours
    BY <1>7, FilingStays DEF Stores, Goes
  <2>2. Ours \in Periods
    BY <1>7, FilingOfQueue DEF Stores, Goes
  <2>3. row'[Ours].filing = Filing
    BY <1>7, <2>2 DEF Stores, TypeOK
  <2> QED BY <1>7, <2>1, <2>3 DEF Stores, Goes, FilingInHand, InHand
<1>8. CASE Records \/ Writes \/ (PassesGates /\ Goes("gates", "score"))
  <2>1. Filing' = Filing /\ Ours' = Ours /\ row' = row
    BY <1>8, FilingStays DEF Records, Writes, PassesGates, Goes
  <2>2. row[Ours].filing = Filing
    BY <1>8 DEF Records, Writes, PassesGates, Goes, FilingInHand, Recording
  <2> QED BY <1>8, <2>1, <2>2 DEF Records, Writes, PassesGates, Goes, FilingInHand, InHand
<1>9. CASE Rests
  <2>1. Filing' = Filing /\ Ours' = Ours
    BY <1>9, FilingStays DEF Rests
  <2> QED BY <1>9, <2>1 DEF Rests, FilingInHand
<1> QED BY <1>1, <1>2, <1>3, <1>4, <1>5, <1>6, <1>7, <1>8, <1>9 DEF StepKinds, PassesGates, ScoresIt

\* What a table keeps of a filing's result.
LEMMA KeptRow ==
    ASSUME TypeOK, FilingInHand, proc # Idle, proc.queue # {},
           NEW table \in [Periods -> Results \cup {None}]
    PROVE  /\ \A p \in Periods : p # Ours => Kept(table)[p] = table[p]
           /\ Kept(table)[Ours] # None
           /\ table[Ours] # None => Kept(table)[Ours] = table[Ours]
           /\ table[Ours] = None => Kept(table)[Ours] = Result
<1>1. Result \in Results /\ Ours \in Periods
  BY KeptType, FilingOfQueue
<1>2. Result # None
  BY <1>1, NoneAssumption
<1> QED BY <1>1, <1>2 DEF Kept

\* Kept adds a result of the filing whose row the period is.
LEMMA KeptIsOurs ==
    ASSUME TypeOK, FilingInHand, proc # Idle, proc.queue # {}, row[Ours].filing = Filing,
           NEW table \in [Periods -> Results \cup {None}],
           \A p \in Periods : table[p] # None => table[p].filing = row[p].filing
    PROVE  \A p \in Periods : Kept(table)[p] # None => Kept(table)[p].filing = row[p].filing
<1>1. Result.filing = Filing
  BY DEF Result
<1> QED BY <1>1, KeptRow

\* A period stays one filing's.
LEMMA PeriodStep ==
    TypeOK /\ FilingInHand /\ PeriodIsOneFiling /\ [Next]_vars => PeriodIsOneFiling'
<1> SUFFICES ASSUME TypeOK, FilingInHand, PeriodIsOneFiling, [Next]_vars
             PROVE  PeriodIsOneFiling'
  OBVIOUS
<1> DEFINE One(t, r) == \A p \in Periods : t[p] # None => t[p].filing = r[p].filing
<1>1. One(metrics, row) /\ One(inputs, row) /\ One(score, row)
  BY DEF PeriodIsOneFiling
<1>2. SUFFICES One(metrics', row') /\ One(inputs', row') /\ One(score', row')
  BY DEF PeriodIsOneFiling
<1>3. StepKinds
  BY StepKind
<1>4. CASE UNCHANGED <<row, metrics, inputs, score>>
  BY <1>1, <1>4
<1>5. CASE Stores
  <2>1. Ours \in Periods /\ Filing \in Filings /\ row[Ours].filing \in {0, Filing}
    BY <1>5, FilingOfQueue DEF Stores, Goes, Second, Ours
  <2>2. ASSUME NEW t \in [Periods -> Results \cup {None}], One(t, row) PROVE One(t, row')
    <3>1. ASSUME NEW p \in Periods, t[p] # None PROVE t[p].filing = row'[p].filing
      <4>1. t[p].filing = row[p].filing /\ t[p].filing \in Filings
        BY <2>2, <3>1 DEF Results
      <4>2. CASE p # Ours
        BY <1>5, <4>1, <4>2 DEF Stores, TypeOK
      <4>3. CASE p = Ours
        <5>1. row'[p].filing = Filing
          BY <1>5, <2>1, <4>3 DEF Stores, TypeOK
        <5>2. row[p].filing = Filing
          BY <2>1, <4>1, <4>3, Constants
        <5> QED BY <4>1, <5>1, <5>2
      <4> QED BY <4>2, <4>3
    <3> QED BY <3>1
  <2>3. One(metrics, row') /\ One(inputs, row') /\ One(score, row')
    BY <1>1, <2>2 DEF TypeOK
  <2> QED BY <1>5, <2>3 DEF Stores
<1>6. ASSUME proc # Idle, proc.queue # {}, proc.at \in Recording,
             NEW t \in [Periods -> Results \cup {None}], One(t, row)
      PROVE  One(Kept(t), row)
  <2>1. row[Ours].filing = Filing
    BY <1>6 DEF FilingInHand
  <2> QED BY <1>6, <2>1, KeptIsOurs
<1>7. CASE Records
  <2>1. One(Kept(metrics), row)
    BY <1>1, <1>6, <1>7 DEF Records, Goes, Recording, TypeOK
  <2> QED BY <1>1, <1>7, <2>1 DEF Records
<1>8. CASE Writes
  <2>1. One(Kept(inputs), row)
    BY <1>1, <1>6, <1>8 DEF Writes, Goes, Recording, TypeOK
  <2> QED BY <1>1, <1>8, <2>1 DEF Writes
<1>9. CASE ScoresIt
  <2>1. One(Kept(score), row)
    BY <1>1, <1>6, <1>9 DEF ScoresIt, Leaves, Recording, TypeOK
  <2> QED BY <1>1, <1>9, <2>1 DEF ScoresIt
<1>10. CASE Rests /\ \E p \in Periods : ScoreStored(p)
  <2>1. PICK p \in Periods : ScoreStored(p)
    BY <1>10
  <2>2. score' = [score EXCEPT ![p] = metrics[p]] /\ UNCHANGED <<row, metrics, inputs>>
    BY <2>1 DEF ScoreStored
  <2>3. One(score', row)
    BY <1>1, <2>2 DEF TypeOK
  <2> QED BY <1>1, <2>2, <2>3
<1> HIDE DEF One
<1> QED BY <1>3, <1>4, <1>5, <1>7, <1>8, <1>9, <1>10
        DEF StepKinds, Starts, ListsOne, Stops, Unwritten, PassesGates, Rests

\* What the places of _analyze_one have behind them stays there.
LEMMA BehindStep == TypeOK /\ FilingInHand /\ Behind /\ [Next]_vars => Behind'
<1> SUFFICES ASSUME TypeOK, FilingInHand, Behind, [Next]_vars PROVE Behind'
  OBVIOUS
<1>1. StepKinds
  BY StepKind
<1>2. CASE Starts
  BY <1>2 DEF Starts, Behind
<1>3. CASE ListsOne
  BY <1>3 DEF ListsOne, Behind
<1>4. CASE Stops
  BY <1>4 DEF Stops, Behind
<1>5. CASE Leaves
  BY <1>5 DEF Leaves, Behind
<1>6. CASE Goes("list", "list") \/ Goes("list", "store")
  BY <1>6 DEF Goes, Behind
<1>7. CASE Stores
  BY <1>7 DEF Stores, Goes, Behind
<1>8. CASE Records
  <2>1. Ours' = Ours /\ metrics'[Ours] # None
    BY <1>8, FilingStays, KeptRow DEF Records, Goes, TypeOK
  <2> QED BY <1>8, <2>1 DEF Records, Goes, Behind
<1>9. CASE Writes
  <2>1. Ours' = Ours /\ inputs'[Ours] # None
    BY <1>9, FilingStays, KeptRow DEF Writes, Goes, TypeOK
  <2> QED BY <1>9, <2>1 DEF Writes, Goes, Behind
<1>10. CASE PassesGates /\ Goes("gates", "score")
  <2>1. Ours' = Ours /\ Ours \in gated'
    BY <1>10, FilingStays DEF PassesGates, Goes
  <2> QED BY <1>10, <2>1 DEF PassesGates, Goes, Behind
<1>11. CASE Rests
  <2>1. Ours' = Ours
    BY <1>11, FilingStays DEF Rests
  <2> QED BY <1>11, <2>1 DEF Rests, Behind
<1> QED BY <1>1, <1>2, <1>3, <1>4, <1>5, <1>6, <1>7, <1>8, <1>9, <1>10, <1>11
        DEF StepKinds, PassesGates, ScoresIt

\* What is scored stays whole.
LEMMA WholeStep ==
    TypeOK /\ FilingInHand /\ Behind /\ ScoredIsWhole /\ [Next]_vars => ScoredIsWhole'
<1> SUFFICES ASSUME TypeOK, FilingInHand, Behind, ScoredIsWhole, [Next]_vars
             PROVE  ScoredIsWhole'
  OBVIOUS
<1>1. StepKinds
  BY StepKind
<1>2. CASE UNCHANGED <<metrics, inputs, gated, score, rescued>>
  BY <1>2 DEF ScoredIsWhole
<1>3. CASE Records
  <2>1. \A p \in Periods : metrics[p] # None => metrics'[p] # None
    BY <1>3, KeptRow DEF Records, Goes, TypeOK
  <2> QED BY <1>3, <2>1 DEF Records, ScoredIsWhole
<1>4. CASE Writes
  <2>1. \A p \in Periods : inputs[p] # None => inputs'[p] # None
    BY <1>4, KeptRow DEF Writes, Goes, TypeOK
  <2> QED BY <1>4, <2>1 DEF Writes, ScoredIsWhole
<1>5. CASE PassesGates
  BY <1>5 DEF PassesGates, ScoredIsWhole
<1>6. CASE ScoresIt
  <2>1. metrics[Ours] # None /\ inputs[Ours] # None /\ Ours \in gated
    BY <1>6 DEF ScoresIt, Leaves, Behind
  <2>2. \A p \in Periods : p # Ours => score'[p] = score[p]
    BY <1>6, KeptRow DEF ScoresIt, Leaves, TypeOK
  <2> QED BY <1>6, <2>1, <2>2 DEF ScoresIt, ScoredIsWhole
<1>7. CASE Rests /\ \E p \in Periods : ScoreStored(p)
  <2>1. PICK p \in Periods : ScoreStored(p)
    BY <1>7
  <2>2. /\ metrics[p] # None /\ rescued' = rescued \cup {p}
        /\ \A q \in Periods : q # p => score'[q] = score[q]
        /\ UNCHANGED <<metrics, inputs, gated>>
    BY <2>1 DEF ScoreStored, TypeOK
  <2> QED BY <2>2 DEF ScoredIsWhole
<1> QED BY <1>1, <1>2, <1>3, <1>4, <1>5, <1>6, <1>7
        DEF StepKinds, Starts, ListsOne, Stops, Unwritten, Stores, Rests

\* What the filing in hand has read stays current.
LEMMA ReadStep == TypeOK /\ FilingInHand /\ ReadIsCurrent /\ [Next]_vars => ReadIsCurrent'
<1> SUFFICES ASSUME TypeOK, FilingInHand, ReadIsCurrent, [Next]_vars PROVE ReadIsCurrent'
  OBVIOUS
<1>1. StepKinds
  BY StepKind
<1>2. CASE Stores
  <2>1. Ours' = Ours /\ metrics' = metrics
    BY <1>2, FilingStays DEF Stores, Goes
  <2>2. proc'.read = {q \in Periods : q < Ours /\ metrics[q] # None}
    BY <1>2 DEF Stores
  <2> HIDE DEF Ours
  <2> QED BY <2>1, <2>2 DEF ReadIsCurrent
<1>3. CASE Rests
  <2>1. Ours' = Ours /\ metrics' = metrics /\ proc' = proc
    BY <1>3, FilingStays DEF Rests
  <2> HIDE DEF Ours
  <2> QED BY <2>1 DEF ReadIsCurrent
<1>4. CASE ~Stores /\ ~Rests
  <2>1. proc' = Idle \/ proc'.at # "metrics"
    BY <1>1, <1>4 DEF StepKinds, Starts, ListsOne, Stops, Leaves, Goes, Records, Writes,
                      PassesGates, ScoresIt
  <2> QED BY <2>1 DEF ReadIsCurrent
<1> QED BY <1>2, <1>3, <1>4

\* What this run recorded it recorded in order.
LEMMA OrderStep ==
    TypeOK /\ FilingInHand /\ RecordedInOrder /\ [Next]_vars => RecordedInOrder'
<1> SUFFICES ASSUME TypeOK, FilingInHand, RecordedInOrder, [Next]_vars
             PROVE  RecordedInOrder'
  OBVIOUS
<1>0. Now \in Nat /\ \A p \in Periods : metrics[p] # None =>
                        metrics[p].run \in Nat /\ metrics[p].filing \in Nat
  <2>1. Now \in Nat
    BY LenProperties DEF TypeOK, Now
  <2>2. \A p \in Periods : metrics[p] # None =>
          metrics[p].run \in RunIds \cup {0} /\ metrics[p].filing \in Filings
    BY DEF TypeOK, Results
  <2>3. RunIds \cup {0} \subseteq Nat /\ Filings \subseteq Nat
    BY Constants DEF RunIds
  <2> QED BY <2>1, <2>2, <2>3
<1>1. StepKinds
  BY StepKind
<1>2. CASE Starts
  <2>1. metrics' = metrics /\ Now' = Now + 1
    BY <1>2 DEF Starts, Unwritten
  <2> HIDE DEF Now
  <2> QED BY <1>0, <2>1 DEF RecordedInOrder
<1>3. CASE ListsOne
  <2>1. metrics' = metrics /\ Now' = Now
    BY <1>3 DEF ListsOne, Unwritten
  <2>2. \A p \in Periods : metrics[p] # None => metrics[p].run # Now
    BY <1>3 DEF ListsOne, RecordedInOrder
  <2> HIDE DEF Now
  <2> QED BY <2>1, <2>2 DEF RecordedInOrder
<1>4. CASE Stops
  BY <1>4 DEF Stops, Unwritten, RecordedInOrder
<1>5. CASE Rests
  BY <1>5 DEF Rests, RecordedInOrder
<1>6. CASE Leaves /\ metrics' = metrics
  <2>1. proc'.units = {} /\ proc'.queue \subseteq proc.queue /\ Now' = Now /\ proc # Idle
    BY <1>6 DEF Leaves
  <2> HIDE DEF Now
  <2> QED BY <1>6, <2>1 DEF RecordedInOrder
<1>7. CASE /\ metrics' = metrics /\ Now' = Now /\ proc # Idle
           /\ proc'.queue = proc.queue /\ proc'.units = proc.units
  <2> HIDE DEF Now
  <2> QED BY <1>7 DEF RecordedInOrder
<1>8. CASE Records
  <2>1. /\ proc # Idle /\ proc.queue # {} /\ proc.units = {} /\ Now' = Now
        /\ proc'.queue = proc.queue /\ proc'.units = proc.units
    BY <1>8 DEF Records, Goes
  <2>2. \A g \in proc.queue : Filing <= g
    BY <2>1, FilingOfQueue
  <2>3. Result.run = Now /\ Result.filing = Filing
    BY DEF Result
  <2>4. \A p \in Periods : metrics'[p] = metrics[p] \/ metrics'[p] = Result
    BY <1>8, <2>1, KeptRow DEF Records, TypeOK
  <2> HIDE DEF Now, Filing
  <2> QED BY <1>0, <2>1, <2>2, <2>3, <2>4 DEF RecordedInOrder
<1> QED BY <1>1, <1>2, <1>3, <1>4, <1>5, <1>6, <1>7, <1>8
        DEF StepKinds, Unwritten, Goes, Stores, Writes, PassesGates, ScoresIt

\* A filing reads the earlier ones.
LEMMA EarlierStep ==
    TypeOK /\ FilingInHand /\ ReadIsCurrent /\ RecordedInOrder /\ ReadsEarlierFilings
      /\ [Next]_vars
    => ReadsEarlierFilings'
<1> SUFFICES ASSUME TypeOK, FilingInHand, ReadIsCurrent, RecordedInOrder,
                    ReadsEarlierFilings, [Next]_vars
             PROVE  ReadsEarlierFilings'
  OBVIOUS
<1>1. StepKinds
  BY StepKind
<1>2. CASE metrics' = metrics
  BY <1>2 DEF ReadsEarlierFilings
<1>3. CASE Records /\ metrics[Ours] # None
  <2>1. Kept(metrics) = metrics
    BY <1>3 DEF Kept
  <2> QED BY <1>2, <1>3, <2>1 DEF Records
<1>4. CASE Records /\ metrics[Ours] = None
  <2>1. /\ proc # Idle /\ proc.queue # {} /\ proc.at = "metrics"
        /\ metrics' = Kept(metrics)
    BY <1>4 DEF Records, Goes
  <2>2. /\ Ours \in Periods /\ Filing \in proc.queue /\ Filing \in Nat
        /\ proc.read = {q \in Periods : q < Ours /\ metrics[q] # None}
    BY <2>1, FilingOfQueue, Constants DEF ReadIsCurrent
  <2>3. /\ Result.run = Now /\ Result.filing = Filing /\ Result.from = proc.read
        /\ metrics'[Ours] = Result /\ \A p \in Periods : p # Ours => metrics'[p] = metrics[p]
    BY <1>4, <2>1, KeptRow DEF Result, TypeOK
  <2>4. Now \in Nat /\ \A p \in Periods : metrics[p] # None =>
                          metrics[p].run \in Nat /\ metrics[p].filing \in Nat
    <3>1. Now \in Nat
      BY LenProperties DEF TypeOK, Now
    <3>2. \A p \in Periods : metrics[p] # None =>
            metrics[p].run \in RunIds \cup {0} /\ metrics[p].filing \in Filings
      BY DEF TypeOK, Results
    <3>3. RunIds \cup {0} \subseteq Nat /\ Filings \subseteq Nat
      BY Constants DEF RunIds
    <3> QED BY <3>1, <3>2, <3>3
  <2>5. ASSUME NEW p \in Periods, NEW q \in Periods,
               metrics'[p] # None, metrics'[q] # None, q < p,
               metrics'[q].filing < metrics'[p].filing,
               metrics'[q].run <= metrics'[p].run
        PROVE  q \in metrics'[p].from
    <3>0. q # p
      BY <2>5, Constants
    <3>1. CASE p = Ours
      BY <2>2, <2>3, <2>5, <3>0, <3>1
    <3>2. CASE q = Ours
      <4>1. metrics[p] = metrics'[p] /\ metrics[p] # None /\ Filing < metrics[p].filing
        BY <2>3, <2>5, <3>0, <3>2
      <4>2. Now <= metrics[p].run /\ metrics[p].run <= Now
        BY <2>3, <2>5, <3>2, <4>1 DEF RecordedInOrder
      <4>3. metrics[p].run = Now
        BY <2>4, <4>1, <4>2
      <4>4. metrics[p].filing <= Filing
        BY <2>1, <2>2, <4>1, <4>3 DEF RecordedInOrder
      <4> QED BY <2>2, <2>4, <4>1, <4>4
    <3>3. CASE p # Ours /\ q # Ours
      BY <2>3, <2>5, <3>3 DEF ReadsEarlierFilings
    <3> QED BY <3>1, <3>2, <3>3
  <2> QED BY <2>5 DEF ReadsEarlierFilings
<1> QED BY <1>1, <1>2, <1>3, <1>4
        DEF StepKinds, Starts, ListsOne, Stops, Unwritten, Stores, Writes, PassesGates,
            ScoresIt, Rests

-----------------------------------------------------------------------------
(* Theorems *)

IInv ==
    /\ TypeOK /\ FilingInHand /\ Behind /\ ReadIsCurrent /\ RecordedInOrder
    /\ PeriodIsOneFiling /\ ScoredIsWhole /\ ReadsEarlierFilings

\* It holds of an empty database.
LEMMA InvInit == Init => IInv
<1> SUFFICES ASSUME Init PROVE IInv
  OBVIOUS
<1>1. runs \in Seq([status : {"running", "completed", "failed"},
                    mode : Modes \cup {Scored}, date : Dates]) /\ Len(runs) = 0
  BY EmptySeq DEF Init
<1>2. TypeOK
  BY <1>1, Constants DEF Init, TypeOK, Empty
<1>3. \A p \in Periods : metrics[p] = None /\ inputs[p] = None /\ score[p] = None
  BY DEF Init
<1> QED BY <1>2, <1>3 DEF Init, IInv, FilingInHand, Behind, ReadIsCurrent, RecordedInOrder,
                          PeriodIsOneFiling, ScoredIsWhole, ReadsEarlierFilings

\* Every step keeps it.
LEMMA InvStep == IInv /\ [Next]_vars => IInv'
BY TypeStep, FilingInHandStep, BehindStep, ReadStep, OrderStep, PeriodStep, WholeStep,
   EarlierStep DEF IInv

\* The variables keep their types in every behaviour: the tries stay within the
\* waits, and a filing in hand is one the run listed.
THEOREM TypeCorrect == Spec => []TypeOK
<1>1. IInv => TypeOK
  BY DEF IInv
<1> QED BY <1>1, InvInit, InvStep, PTL DEF Spec

\* A period's row, metrics, inputs and score are one filing's, however many second
\* originals, faults and reruns there are: what INSERT OR IGNORE keeps was the
\* row's own filing's, as its refusal comes first.
THEOREM PeriodsAreOneFiling == Spec => []PeriodIsOneFiling
<1>1. IInv => PeriodIsOneFiling
  BY DEF IInv
<1> QED BY <1>1, InvInit, InvStep, PTL DEF Spec

\* A filing's metrics were computed from every earlier period that an earlier
\* filing had recorded by then, in any order of listings, reruns and kills.
THEOREM EarlierAreRead == Spec => []ReadsEarlierFilings
<1>1. IInv => ReadsEarlierFilings
  BY DEF IInv
<1> QED BY <1>1, InvInit, InvStep, PTL DEF Spec

\* What is scored by a run has metrics, rule inputs and gates behind it, wherever
\* earlier runs died.
THEOREM ScoresAreWhole == Spec => []ScoredIsWhole
<1>1. IInv => ScoredIsWhole
  BY DEF IInv
<1> QED BY <1>1, InvInit, InvStep, PTL DEF Spec

-----------------------------------------------------------------------------
(* The pending check *)

\* The log knows no run to come, the run in progress is open, and of the filings
\* it has still to try it recorded no failure.
Logged ==
    /\ \A e \in errors : e.run \in Nat /\ e.run <= Now
    /\ proc # Idle =>
          /\ runs[Now].status = "running"
          /\ \A e \in errors : e.run = Now => proc.units = {} /\ e.filing \notin proc.queue

\* What a step does to the log.
LogKinds ==
    \/ runs' = runs /\ errors' = errors
    \/ \E mode \in Modes \cup {Scored}, date \in Dates : Begin(mode, date)
    \/ /\ proc # Idle /\ proc.queue # {} /\ proc.units = {}
       /\ \E class \in Classes : Fails(class)
    \/ /\ proc # Idle /\ errors' = errors
       /\ \E status \in {"completed", "failed"} : Ends(status)

\* Every step does one of these.
LEMMA LogKind == TypeOK /\ FilingInHand /\ [Next]_vars => LogKinds
<1> SUFFICES ASSUME TypeOK, FilingInHand, [Next]_vars PROVE LogKinds
  OBVIOUS
<1>1. CASE RunByHand
  BY <1>1 DEF RunByHand, LogKinds
<1>2. CASE RunOnYes
  <2>1. LastDate \in Dates
    BY FilingAssumption DEF Dates
  <2> QED BY <1>2, <2>1 DEF RunOnYes, LogKinds
<1>3. CASE proc # Idle /\ Work
  <2>1. CASE StoreRefused
    BY <1>3, <2>1 DEF StoreRefused, FilingInHand, InHand, Classes, LogKinds
  <2>2. CASE Finish
    BY <1>3, <2>2 DEF Finish, LogKinds
  <2>3. CASE ~StoreRefused /\ ~Finish
    <3>1. runs' = runs /\ errors' = errors
      BY <1>3, <2>3 DEF Work, List, Lists, Skip, Fetch, Store, RecordMetrics, WriteInputs,
                        Gate, StoreScore
    <3> QED BY <3>1 DEF LogKinds
  <2> QED BY <2>1, <2>2, <2>3
<1>4. CASE proc # Idle /\ Trouble
  <2>1. CASE Refused \/ GatewayFails
    BY <1>4, <2>1 DEF Refused, GatewayFails, Fetching, Classes, LogKinds
  <2>2. CASE CodeFails
    BY <1>4, <2>2 DEF CodeFails, FilingInHand, InHand, Classes, LogKinds
  <2>3. CASE Interrupt
    BY <1>4, <2>3 DEF Interrupt, LogKinds
  <2>4. CASE ListFails \/ NotFound \/ Retry \/ Kill
    <3>1. runs' = runs /\ errors' = errors
      BY <2>4 DEF ListFails, Lists, NotFound, Retry, Kill
    <3> QED BY <3>1 DEF LogKinds
  <2> QED BY <1>4, <2>1, <2>2, <2>3, <2>4 DEF Trouble
<1>5. ASSUME NEW p \in Periods, ScoreStored(p) PROVE LogKinds
  BY <1>5 DEF ScoreStored, LogKinds
<1>6. CASE UNCHANGED vars
  BY <1>6 DEF vars, LogKinds
<1> QED BY <1>1, <1>2, <1>3, <1>4, <1>5, <1>6 DEF Next

\* A start leaves the rows of the log as they are.
LEMMA BeginLog ==
    ASSUME TypeOK, NEW mode, NEW date, Begin(mode, date)
    PROVE  /\ Now \in Nat /\ Now' = Now + 1 /\ DOMAIN runs' = 1..(Now + 1)
           /\ DOMAIN runs = 1..Now
           /\ \A r \in 1..Now : runs'[r] = runs[r]
           /\ runs'[Now + 1].status = "running"
           /\ errors' = errors /\ proc' # Idle
<1> DEFINE T == [status : {"running", "completed", "failed"},
                 mode : Modes \cup {Scored}, date : Dates]
           new == [status |-> "running", mode |-> mode, date |-> date]
<1>1. runs \in Seq(T) /\ runs' = Append(runs, new) /\ errors' = errors
  BY DEF TypeOK, Begin
<1>2. Len(runs) \in Nat /\ DOMAIN runs = 1..Len(runs)
  BY <1>1, LenProperties
<1>3. /\ Len(runs') = Len(runs) + 1
      /\ DOMAIN runs' = 1..(Len(runs) + 1)
      /\ \A r \in 1..Len(runs) : runs'[r] = runs[r]
      /\ runs'[Len(runs) + 1] = new
  <2> HIDE DEF T, new
  <2> QED BY <1>1, <1>2
<1>4. proc' # Idle
  BY DEF Begin, Idle
<1> QED BY <1>1, <1>2, <1>3, <1>4 DEF Now

\* The end of a run changes its status only.
LEMMA EndsLog ==
    ASSUME TypeOK, FilingInHand, proc # Idle, NEW status \in {"completed", "failed"},
           Ends(status)
    PROVE  /\ Now' = Now /\ DOMAIN runs' = DOMAIN runs /\ Now \in DOMAIN runs
           /\ \A r \in DOMAIN runs : r # Now => runs'[r] = runs[r]
           /\ \A r \in DOMAIN runs : runs'[r].date = runs[r].date
                                     /\ runs'[r].mode = runs[r].mode
           /\ runs'[Now].status = status
<1>1. Now \in DOMAIN runs
  BY RunOfNow
<1>2. runs[Now] \in [status : {"running", "completed", "failed"},
                     mode : Modes \cup {Scored}, date : Dates]
  BY <1>1, ElementOfSeq, LenProperties DEF TypeOK
<1>3. runs' = [runs EXCEPT ![Now] = [runs[Now] EXCEPT !.status = status]]
  BY DEF Ends
<1>4. Now' = Now
  BY EndsType DEF Now
<1> QED BY <1>1, <1>2, <1>3, <1>4

\* The log stays that way.
LEMMA LoggedStep == TypeOK /\ FilingInHand /\ Logged /\ [Next]_vars => Logged'
<1> SUFFICES ASSUME TypeOK, FilingInHand, Logged, [Next]_vars PROVE Logged'
  OBVIOUS
<1>1. StepKinds /\ LogKinds
  BY StepKind, LogKind
<1>2. CASE runs' = runs /\ errors' = errors
  <2>1. Now' = Now
    BY <1>2 DEF Now
  <2>2. CASE Starts
    <3>1. Now \in Nat
      BY LenProperties DEF TypeOK, Now
    <3> QED BY <2>1, <2>2, <3>1 DEF Starts
  <2>3. CASE ListsOne
    <3>1. \A e \in errors : e.run # Now
      BY <2>3 DEF ListsOne, Logged
    <3> HIDE DEF Now
    <3> QED BY <1>2, <2>1, <2>3, <3>1 DEF ListsOne, Logged
  <2>4. CASE proc' = Idle
    BY <1>2, <2>1, <2>4 DEF Logged
  <2>5. CASE proc # Idle /\ proc'.queue \subseteq proc.queue /\ (proc.units = {} => proc'.units = {})
    <3> HIDE DEF Now
    <3> QED BY <1>2, <2>1, <2>5 DEF Logged
  <2>6. CASE proc' = proc
    <3> HIDE DEF Now
    <3> QED BY <1>2, <2>1, <2>6 DEF Logged
  <2> QED BY <1>1, <2>2, <2>3, <2>4, <2>5, <2>6
          DEF StepKinds, Stops, Leaves, Goes, Stores, Records, Writes, PassesGates,
              ScoresIt, Rests
<1>3. ASSUME NEW mode \in Modes \cup {Scored}, NEW date \in Dates, Begin(mode, date)
      PROVE  Logged'
  <2>1. /\ Now \in Nat /\ Now' = Now + 1 /\ runs'[Now + 1].status = "running"
        /\ errors' = errors
    BY <1>3, BeginLog
  <2>2. \A e \in errors : e.run \in Nat /\ e.run <= Now
    BY DEF Logged
  <2> HIDE DEF Now
  <2> QED BY <2>1, <2>2 DEF Logged
<1>4. ASSUME proc # Idle, proc.queue # {}, proc.units = {},
             NEW class \in Classes, Fails(class)
      PROVE  Logged'
  <2>1. /\ runs' = runs /\ Now' = Now
        /\ errors' = errors \cup {[run |-> Now, filing |-> Filing, class |-> class]}
        /\ proc'.queue = proc.queue \ {Filing} /\ proc'.units = {}
    BY <1>4, NextFilingType DEF Fails, Now
  <2>2. Now \in Nat
    BY LenProperties DEF TypeOK, Now
  <2> HIDE DEF Now
  <2> QED BY <1>4, <2>1, <2>2 DEF Logged
<1>5. ASSUME proc # Idle, errors' = errors, NEW status \in {"completed", "failed"},
             Ends(status)
      PROVE  Logged'
  <2>1. Now' = Now /\ proc' = Idle
    BY <1>5, EndsLog DEF Ends
  <2> QED BY <1>5, <2>1 DEF Logged
<1> QED BY <1>1, <1>2, <1>3, <1>4, <1>5 DEF LogKinds

\* There is a last failure if there is one.
LEMMA LastOfSome ==
    ASSUME TypeOK, NEW f, NEW d, FailuresBy(f, d) # {}
    PROVE  /\ LastFailure(f, d) \in FailuresBy(f, d)
           /\ \A o \in FailuresBy(f, d) : o.run <= LastFailure(f, d).run
<1> DEFINE F == FailuresBy(f, d)
           Away == {MaxRuns - e.run : e \in F}
<1>1. \A e \in F : e.run \in 1..MaxRuns
  BY DEF FailuresBy, TypeOK, RunIds
<1>2. MaxRuns \in Nat
  BY Constants
<1> HIDE DEF F
<1>3. Away \subseteq Nat /\ Away # {}
  <2>1. F # {}
    BY DEF F
  <2> QED BY <1>1, <1>2, <2>1
<1>4. PICK a \in Away : \A b \in Away : ~(<<b, a>> \in OpToRel(<, Nat))
  BY <1>3, WFMin, NatLessThanWellFounded
<1>5. PICK e \in F : a = MaxRuns - e.run
  BY <1>4
<1>6. \A o \in F : o.run <= e.run
  <2> SUFFICES ASSUME NEW o \in F PROVE o.run <= e.run
    OBVIOUS
  <2>1. MaxRuns - o.run \in Away
    OBVIOUS
  <2>2. ~(MaxRuns - o.run < a)
    BY <1>3, <1>4, <2>1 DEF OpToRel
  <2> QED BY <1>1, <1>2, <1>5, <2>2
<1> QED BY <1>6 DEF LastFailure, F

\* The pending check lets go of a filing only for a reason.
LEMMA LeavesStep ==
    ASSUME TypeOK, FilingInHand, Logged, [Next]_vars,
           NEW d \in Dates, NEW m \in BOOLEAN, NEW f \in Pending(d, m) \ Pending(d, m)'
    PROVE  \/ f \in Done(m)'
           \/ \E e \in errors' \ errors : e.filing = f /\ e.class = "data"
           \/ /\ runs[Now].status = "running" /\ runs'[Now].status = "completed"
              /\ runs[Now].date <= d =>
                   ~\E e \in errors : e.run = Now /\ e.filing = f
<1>1. SUFFICES ASSUME f \notin Done(m)' PROVE
           \/ \E e \in errors' \ errors : e.filing = f /\ e.class = "data"
           \/ /\ runs[Now].status = "running" /\ runs'[Now].status = "completed"
              /\ runs[Now].date <= d =>
                   ~\E e \in errors : e.run = Now /\ e.filing = f
  OBVIOUS
<1>2. StillPending(f, d) /\ ~StillPending(f, d)'
  BY <1>1 DEF Pending
<1>3. DOMAIN runs = 1..Now /\ Now \in Nat
  BY LenProperties DEF TypeOK, Now
<1>4. \A e \in errors : e.run \in DOMAIN runs
  BY <1>3, Constants DEF Logged, TypeOK, RunIds
<1>5. \A e \in FailuresBy(f, d) : e \in errors /\ e.run \in DOMAIN runs
  BY <1>4 DEF FailuresBy
\* If the failures are the same and nothing new covers the last, it is still pending.
<1>6. ASSUME FailuresBy(f, d)' = FailuresBy(f, d),
             \A e \in errors : CoveredSince(e)' /\ e \in FailuresBy(f, d)
                  /\ (\A o \in FailuresBy(f, d) : o.run <= e.run) => CoveredSince(e)
      PROVE  FALSE
  <2>1. LastFailure(f, d)' = LastFailure(f, d)
    BY <1>6 DEF LastFailure
  <2>2. FailuresBy(f, d) # {}
    BY <1>2, <1>6 DEF StillPending
  <2>3. PICK e \in errors : /\ e = LastFailure(f, d) /\ e \in FailuresBy(f, d)
                            /\ \A o \in FailuresBy(f, d) : o.run <= e.run
    BY <1>5, <2>2, LastOfSome
  <2>4. e.class = "service" /\ ~CoveredSince(e)
    BY <1>2, <2>2, <2>3 DEF StillPending
  <2>5. ~CoveredSince(e)'
    BY <1>6, <2>3, <2>4
  <2>6. CoveredSince(LastFailure(f, d))' = CoveredSince(e)'
    BY <2>1, <2>3 DEF CoveredSince
  <2> QED BY <1>2, <2>1, <2>3, <2>4, <2>5, <2>6 DEF StillPending
<1>7. LogKinds
  BY LogKind
<1>8. CASE runs' = runs /\ errors' = errors
  <2>1. FailuresBy(f, d)' = FailuresBy(f, d)
    BY <1>8 DEF FailuresBy
  <2>2. ASSUME NEW e \in errors, CoveredSince(e)' PROVE CoveredSince(e)
    BY <1>8, <2>2 DEF CoveredSince
  <2> QED BY <1>6, <2>1, <2>2
<1>9. ASSUME NEW mode \in Modes \cup {Scored}, NEW date \in Dates, Begin(mode, date)
      PROVE  FALSE
  <2>1. /\ DOMAIN runs' = 1..(Now + 1) /\ runs'[Now + 1].status = "running"
        /\ \A r \in 1..Now : runs'[r] = runs[r]
        /\ errors' = errors
    BY <1>9, BeginLog
  <2>2. FailuresBy(f, d)' = FailuresBy(f, d)
    BY <1>3, <1>4, <2>1 DEF FailuresBy
  <2>3. ASSUME NEW e \in errors, CoveredSince(e)' PROVE CoveredSince(e)
    <3>1. PICK r \in DOMAIN runs' :
             /\ r > e.run /\ runs'[r].status = "completed"
             /\ runs'[r].date >= runs'[e.run].date /\ ~runs'[r].mode.limited
      BY <2>3 DEF CoveredSince
    <3>2. r \in 1..Now
      <4>1. r # Now + 1
        BY <2>1, <3>1
      <4> HIDE DEF Now
      <4> QED BY <1>3, <2>1, <3>1, <4>1
    <3> QED BY <1>3, <1>4, <2>1, <3>1, <3>2 DEF CoveredSince
  <2> QED BY <1>6, <2>2, <2>3
<1>10. ASSUME proc # Idle, proc.queue # {}, proc.units = {},
              NEW class \in Classes, Fails(class)
       PROVE  \E e \in errors' \ errors : e.filing = f /\ e.class = "data"
  <2>0. PICK e0 : e0 = [run |-> Now, filing |-> Filing, class |-> class]
    OBVIOUS
  <2>1. runs' = runs /\ errors' = errors \cup {e0}
    BY <1>10, <2>0 DEF Fails
  <2>2. Filing \in proc.queue /\ e0 \notin errors
    BY <1>10, <2>0, FilingOfQueue DEF Logged
  <2>3. \A e \in errors : CoveredSince(e)' => CoveredSince(e)
    BY <2>1 DEF CoveredSince
  <2>4. CASE Filing = f /\ class = "data"
    BY <2>0, <2>1, <2>2, <2>4
  <2>5. CASE ~(Filing = f /\ runs[Now].date <= d)
    <3>1. FailuresBy(f, d)' = FailuresBy(f, d)
      BY <2>0, <2>1, <2>5 DEF FailuresBy
    <3> QED BY <1>6, <2>3, <3>1
  <2>6. CASE Filing = f /\ runs[Now].date <= d /\ class # "data"
    <3>1. FailuresBy(f, d)' = FailuresBy(f, d) \cup {e0}
      BY <2>0, <2>1, <2>6 DEF FailuresBy
    <3>2. \A e \in FailuresBy(f, d) : e.run \in Nat /\ e.run <= Now /\ e.run # Now
      BY <1>10, <2>2, <2>6 DEF FailuresBy, Logged
    <3>3. e0.run = Now /\ e0.class = "service"
      BY <2>0, <2>6 DEF Classes
    <3>4. /\ e0 \in FailuresBy(f, d)'
          /\ \A o \in FailuresBy(f, d)' : o.run <= e0.run
          /\ \A e \in FailuresBy(f, d)' :
                (\A o \in FailuresBy(f, d)' : o.run <= e.run) => e = e0
      <4> HIDE DEF Now
      <4>1. ASSUME NEW e \in FailuresBy(f, d)', e # e0 PROVE ~(e0.run <= e.run)
        BY <1>3, <3>1, <3>2, <3>3, <4>1
      <4> QED BY <1>3, <3>1, <3>2, <3>3, <4>1
    <3>5. LastFailure(f, d)' = e0
      BY <3>4 DEF LastFailure
    <3>6. ~CoveredSince(e0)'
      <4>1. DOMAIN runs' = 1..Now
        BY <1>3, <2>1
      <4> HIDE DEF Now
      <4> QED BY <1>3, <3>3, <4>1 DEF CoveredSince
    <3>7. CoveredSince(LastFailure(f, d))' = CoveredSince(e0)'
      BY <3>5 DEF CoveredSince
    <3> QED BY <1>2, <3>3, <3>5, <3>6, <3>7 DEF StillPending
  <2> QED BY <2>4, <2>5, <2>6
<1>11. ASSUME proc # Idle, errors' = errors, NEW status \in {"completed", "failed"},
              Ends(status)
       PROVE  /\ runs[Now].status = "running" /\ runs'[Now].status = "completed"
              /\ runs[Now].date <= d =>
                   ~\E e \in errors : e.run = Now /\ e.filing = f
  <2>1. /\ DOMAIN runs' = DOMAIN runs /\ runs'[Now].status = status
        /\ \A r \in DOMAIN runs : r # Now => runs'[r] = runs[r]
        /\ \A r \in DOMAIN runs : runs'[r].date = runs[r].date /\ runs'[r].mode = runs[r].mode
    BY <1>11, EndsLog
  <2>2. FailuresBy(f, d)' = FailuresBy(f, d)
    BY <1>4, <1>11, <2>1 DEF FailuresBy
  <2>3. ASSUME NEW e \in errors, CoveredSince(e)', status = "failed" \/ e.run = Now
        PROVE  CoveredSince(e)
    <3>1. PICK r \in DOMAIN runs' :
             /\ r > e.run /\ runs'[r].status = "completed"
             /\ runs'[r].date >= runs'[e.run].date /\ ~runs'[r].mode.limited
      BY <2>3 DEF CoveredSince
    <3>2. r # Now
      <4>1. CASE status = "failed"
        BY <2>1, <3>1, <4>1
      <4>2. CASE e.run = Now
        BY <1>3, <3>1, <4>2
      <4> QED BY <2>3, <4>1, <4>2
    <3> QED BY <1>4, <2>1, <3>1, <3>2 DEF CoveredSince
  <2>4. status = "completed"
    BY <1>6, <2>2, <2>3
  <2>5. ASSUME runs[Now].date <= d, NEW e \in errors, e.run = Now, e.filing = f
        PROVE  FALSE
    <3>1. e \in FailuresBy(f, d)
      BY <2>5 DEF FailuresBy
    <3>2. ASSUME NEW l \in errors, CoveredSince(l)', l \in FailuresBy(f, d),
                 \A o \in FailuresBy(f, d) : o.run <= l.run
          PROVE  CoveredSince(l)
      <4>1. l.run \in Nat /\ l.run <= Now /\ Now <= l.run
        BY <2>5, <3>1, <3>2 DEF Logged
      <4>2. l.run = Now
        BY <1>3, <4>1
      <4> QED BY <2>3, <3>2, <4>2
    <3> QED BY <1>6, <2>2, <3>2
  <2> QED BY <1>11, <2>1, <2>4, <2>5 DEF Logged
<1> QED BY <1>7, <1>8, <1>9, <1>10, <1>11 DEF LogKinds

\* A filing leaves the pending check when it is done, fails as a filing, or a run
\* that covers it completes without an error of it, be it that its listing failed
\* and it never came to the filing; never for a run that dies or for a failed
\* fetch, whatever the windows, modes and dates of the runs.
THEOREM PendingLeavesOnlyForAReason == Spec => PendingLeavesForAReason
<1> DEFINE Body == \A d \in Dates, m \in BOOLEAN : \A f \in Pending(d, m) \ Pending(d, m)' :
                     \/ f \in Done(m)'
                     \/ \E e \in errors' \ errors : e.filing = f /\ e.class = "data"
                     \/ /\ runs[Now].status = "running" /\ runs'[Now].status = "completed"
                        /\ runs[Now].date <= d =>
                             ~\E e \in errors : e.run = Now /\ e.filing = f
           LInv == IInv /\ Logged
<1>1. Init => LInv
  BY InvInit DEF Init, Logged
<1>2. LInv /\ [Next]_vars => LInv'
  BY InvStep, LoggedStep DEF IInv
<1>3. LInv /\ [Next]_vars => [Body]_vars
  BY LeavesStep DEF IInv
<1>4. PendingLeavesForAReason <=> [][Body]_vars
  BY DEF PendingLeavesForAReason
<1> HIDE DEF LInv, Body
<1> QED BY <1>1, <1>2, <1>3, <1>4, PTL DEF Spec
=============================================================================

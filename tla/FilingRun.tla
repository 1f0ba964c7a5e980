----------------------------- MODULE FilingRun -----------------------------
(***************************************************************************)
(* The filings of one company: the runs of `fundamental_agent run`, which  *)
(* list, fetch, store and score them, the command `score` over what a run  *)
(* stored, and the read-only check `pending`, which says whether a filing  *)
(* is left.  The gateway fails for a while, refuses a filing or answers; a *)
(* run is interrupted or killed between two commits.                       *)
(*                                                                         *)
(* src/src/fundamental_agent/pipeline.py, db.py, pending.py, failures.py   *)
(* and scoring.py.  One process at a time.  Filings are numbered in the    *)
(* order the run takes them (filing date, accession); every unit (a form   *)
(* and a year) is in the window of the check.  A number on record is       *)
(* written here as the earlier periods it was computed from.               *)
(***************************************************************************)
EXTENDS Integers, FiniteSets, Sequences

CONSTANTS
    N,          \* how many original filings the company makes
    Unit,       \* the (form, year) a filing is listed under
    Period,     \* the period a filing reports; a second original shares it
    Filed,      \* the filing date
    LastDate,
    Modes,      \* how the operator runs: metrics-only, fresh, limited
    Retries,    \* RETRY_WAITS_SECONDS
    Faults,     \* bound: outages, refusals, kills and errors of the code
    ByHand,     \* bound: runs the operator starts without the check
    MaxRuns,    \* bound: all runs
    None

Filings == 1..N
Dates   == 1..LastDate
Units   == {Unit[f] : f \in Filings}
Periods == {Period[f] : f \in Filings}
RunIds  == 1..MaxRuns

ASSUME FilingAssumption ==
    /\ N \in Nat \ {0} /\ LastDate \in Nat \ {0} /\ MaxRuns \in Nat
    /\ Retries \in Nat /\ Faults \in Nat /\ ByHand \in Nat
    /\ Unit \in [Filings -> Nat] /\ Period \in [Filings -> Nat \ {0}]
    /\ Filed \in [Filings -> Dates]
    /\ Modes \subseteq [metrics : BOOLEAN, fresh : BOOLEAN, limited : BOOLEAN]

VARIABLES
    runs,      \* analysis_run
    errors,    \* analysis_run_error, of a filing and by its class
    row,       \* sec_filings, by period: whose it is and who wrote it last
    metrics,   \* fundamental_metrics, by period
    inputs,    \* the rule inputs, by period
    gated,     \* the periods whose metrics went through the gates
    score,     \* FUNDAMENTAL score_snapshot, by period
    proc,      \* the run in progress
    faults,    \* how many faults there were
    rescued    \* history: the periods that `score` scored

stored == <<row, metrics, inputs, gated, score>>
vars == <<runs, errors, stored, proc, faults, rescued>>

Scored == [metrics |-> FALSE, fresh |-> FALSE, limited |-> FALSE]

Idle  == [at |-> "idle"]
Empty == [filing |-> 0, run |-> 0]

Classes == {"data", "service"}
Results == [filing : Filings, run : RunIds \cup {0}, from : SUBSET Periods]
Procs   == [at : {"list", "store", "metrics", "inputs", "gates", "score"},
            units : SUBSET Units, queue : SUBSET Filings, tries : 0..Retries,
            read : SUBSET Periods, done : SUBSET Filings, periods : SUBSET Periods]

ASSUME NoneAssumption == None \notin Results

TypeOK ==
    /\ runs \in Seq([status : {"running", "completed", "failed"},
                     mode : Modes \cup {Scored}, date : Dates])
    /\ Len(runs) <= MaxRuns
    /\ errors \subseteq [run : RunIds, filing : Filings, class : Classes]
    /\ row \in [Periods -> [filing : Filings \cup {0}, run : RunIds \cup {0}]]
    /\ metrics \in [Periods -> Results \cup {None}]
    /\ inputs \in [Periods -> Results \cup {None}]
    /\ score \in [Periods -> Results \cup {None}]
    /\ gated \subseteq Periods /\ rescued \subseteq Periods
    /\ proc \in Procs \cup {Idle}
    /\ faults \in 0..Faults

Init ==
    /\ runs = <<>> /\ errors = {} /\ faults = 0
    /\ row = [p \in Periods |-> Empty]
    /\ metrics = [p \in Periods |-> None]
    /\ inputs = [p \in Periods |-> None]
    /\ score = [p \in Periods |-> None]
    /\ gated = {} /\ rescued = {}
    /\ proc = Idle

-----------------------------------------------------------------------------
(* What is done, and what is pending *)

StoredAs(f) == row[Period[f]].filing = f

\* completed_accessions and completed_units.
ScoredFilings == {f \in Filings : StoredAs(f) /\ score[Period[f]] # None}
ScoredPeriods == {p \in Periods : score[p] # None}

\* metrics_only_accessions: the row's last writer ran metrics-only, and the value
\* inputs are there.
MetricsOnlyFilings ==
    {f \in Filings : /\ StoredAs(f) /\ inputs[Period[f]] # None
                     /\ runs[row[Period[f]].run].mode.metrics}

Done(metricsOnly) ==
    ScoredFilings \cup IF metricsOnly THEN MetricsOnlyFilings ELSE {}

\* _latest_errors: the filing's last failure, of the runs dated on or before d.
FailuresBy(f, d) == {e \in errors : e.filing = f /\ runs[e.run].date <= d}
LastFailure(f, d) ==
    CHOOSE e \in FailuresBy(f, d) : \A o \in FailuresBy(f, d) : o.run <= e.run

\* Mutant: the run that failed on the filing covers it.
CoveredBySelf(e) ==
    \E r \in DOMAIN runs :
        /\ r >= e.run /\ runs[r].status = "completed"
        /\ runs[r].date >= runs[e.run].date /\ ~runs[r].mode.limited

\* _covered_since: a later completed run had the unit among its parameters.
CoveredSince(e) ==
    \E r \in DOMAIN runs :
        /\ r > e.run /\ runs[r].status = "completed"
        /\ runs[r].date >= runs[e.run].date /\ ~runs[r].mode.limited

\* _Judge.verdict is "pending".
StillPending(f, d) ==
    FailuresBy(f, d) # {} =>
        /\ LastFailure(f, d).class = "service"
        /\ ~CoveredSince(LastFailure(f, d))

\* `pending` on date d: the stored, the errored and the listed filings alike.
Pending(d, metricsOnly) ==
    {f \in Filings \ Done(metricsOnly) : Filed[f] <= d /\ StillPending(f, d)}

\* A filing whose period another filing holds.
Second(f) == row[Period[f]].filing \notin {0, f}

-----------------------------------------------------------------------------
(* A run *)

Now   == Len(runs)
Mode  == runs[Now].mode
Today == runs[Now].date

\* start_run, with what is done as the database has it.
Begin(mode, date) ==
    /\ proc = Idle /\ Now < MaxRuns
    /\ runs' = Append(runs, [status |-> "running", mode |-> mode, date |-> date])
    /\ proc' = [at |-> "list", units |-> Units, queue |-> {}, tries |-> 0, read |-> {},
                done |-> IF mode.fresh THEN {} ELSE Done(mode.metrics),
                periods |-> IF mode.fresh THEN {} ELSE ScoredPeriods]
    /\ UNCHANGED <<errors, stored, faults, rescued>>

\* The operator runs it, whatever the check says.
RunByHand == Now < ByHand /\ \E mode \in Modes, d \in Dates : Begin(mode, d)

\* The orchestrator runs it on a yes.  Bound: not for second originals alone,
\* which the run skips.
RunOnYes ==
    /\ \E f \in Pending(LastDate, FALSE) : ~Second(f)
    /\ Begin(Scored, LastDate)

\* Mutant: the listing stops at the first unit.
ListsOnlyFirst(u, listed) ==
    /\ proc.at = "list"
    /\ u \in proc.units /\ \A v \in proc.units : u <= v
    /\ proc' = [proc EXCEPT !.units = {}, !.queue = @ \cup listed]
    /\ UNCHANGED <<runs, errors, stored, rescued>>

\* One (form, year): its filings are listed, or the listing fails, which leaves
\* an error row that names no filing.
Lists(u, listed) ==
    /\ proc.at = "list"
    /\ u \in proc.units /\ \A v \in proc.units : u <= v
    /\ proc' = [proc EXCEPT !.units = @ \ {u}, !.queue = @ \cup listed]
    /\ UNCHANGED <<runs, errors, stored, rescued>>

List == \E u \in Units : Lists(u, {f \in Filings : Unit[f] = u}) /\ UNCHANGED faults

Fault == faults < Faults /\ faults' = faults + 1

ListFails == Fault /\ \E u \in Units : Lists(u, {})

\* Mutant: the most recent first, as the gateway lists them.
LatestFirst == CHOOSE f \in proc.queue : \A g \in proc.queue : g <= f

\* Every listed filing of the company, the oldest first.
OldestFirst == CHOOSE f \in proc.queue : \A g \in proc.queue : f <= g

\* The filing in hand.
Filing == OldestFirst

Fetching == proc.at = "list" /\ proc.units = {} /\ proc.queue # {}

\* _run_filing's loop goes on with the next filing.
NextFiling == [proc EXCEPT !.at = "list", !.queue = @ \ {Filing}, !.tries = 0, !.read = {}]

\* The filing's period.
Ours == Period[Filing]

\* Filed after the date of the run, or done before.
Skipped == Filed[Filing] > Today \/ (Filing \in proc.done /\ ~Mode.fresh)

Skip ==
    /\ Fetching /\ Skipped
    /\ proc' = NextFiling
    /\ UNCHANGED <<runs, errors, stored, faults, rescued>>

\* The payload is there; a period that has its score is skipped without a row.
Fetch ==
    /\ Fetching /\ ~Skipped
    /\ proc' = IF Ours \in proc.periods /\ ~Mode.fresh THEN NextFiling
               ELSE [proc EXCEPT !.at = "store"]
    /\ UNCHANGED <<runs, errors, stored, faults, rescued>>

\* EdgarNotFoundError: counted as skipped, without a row.
NotFound ==
    /\ Fetching /\ ~Skipped /\ Fault
    /\ proc' = NextFiling
    /\ UNCHANGED <<runs, errors, stored, rescued>>

\* Mutant: one wait too many.
WaitsLeftAfter(tries) == tries <= Retries

WaitsLeft(tries) == tries < Retries

\* The gateway's failure is tried again in place.
Retry ==
    /\ Fetching /\ ~Skipped
    /\ WaitsLeft(proc.tries)
    /\ proc' = [proc EXCEPT !.tries = @ + 1]
    /\ UNCHANGED <<runs, errors, stored, faults, rescued>>

\* _record_failure and _record_unusable.
Fails(class) ==
    /\ errors' = errors \cup {[run |-> Now, filing |-> Filing, class |-> class]}
    /\ proc' = NextFiling
    /\ UNCHANGED <<runs, stored, rescued>>

\* Another company's filing, which is looked at first, a payload without a period
\* of its own, a defect of the extraction.
Refused == Fetching /\ Fault /\ Fails("data")

\* The retries ran out.
GatewayFails ==
    /\ Fetching /\ ~Skipped /\ Fault
    /\ ~WaitsLeft(proc.tries)
    /\ Fails("service")

\* An error of the code or of the database while the filing is stored: nobody
\* listed it, so it is a service failure.
CodeFails ==
    /\ proc.at \in {"store", "metrics", "inputs", "gates", "score"} /\ Fault
    /\ Fails("service")

-----------------------------------------------------------------------------
(* _analyze_one: one commit after the other *)

\* Mutant: the row goes to whoever comes last.
NeverTaken(f) == FALSE

\* _refuse_label_collision and _refuse_replacement.
Taken(f) == Second(f)

StoreRefused ==
    /\ proc.at = "store" /\ Taken(Filing)
    /\ Fails("data") /\ UNCHANGED faults

\* upsert_filing and the facts.
Store ==
    /\ proc.at = "store" /\ ~Taken(Filing)
    /\ row' = [row EXCEPT ![Ours] = [filing |-> Filing, run |-> Now]]
    /\ proc' = [proc EXCEPT !.at = "metrics",
                            !.read = {q \in Periods : q < Ours /\ metrics[q] # None}]
    /\ UNCHANGED <<runs, errors, metrics, inputs, gated, score, faults, rescued>>

Result == [filing |-> Filing, run |-> Now, from |-> proc.read]

\* INSERT OR IGNORE and ON CONFLICT DO NOTHING: what is there stays.
Kept(table) == IF table[Ours] = None THEN [table EXCEPT ![Ours] = Result] ELSE table

RecordMetrics ==
    /\ proc.at = "metrics"
    /\ metrics' = Kept(metrics)
    /\ proc' = [proc EXCEPT !.at = "inputs"]
    /\ UNCHANGED <<runs, errors, row, inputs, gated, score, faults, rescued>>

\* utility_coverage.write and value_inputs.write.
WriteInputs ==
    /\ proc.at = "inputs"
    /\ inputs' = Kept(inputs)
    /\ proc' = [proc EXCEPT !.at = "gates"]
    /\ UNCHANGED <<runs, errors, row, metrics, gated, score, faults, rescued>>

Analysed ==
    [NextFiling EXCEPT !.done = @ \cup {Filing}, !.periods = @ \cup {Ours}]

\* Mutant: the gates are over what this run recorded.
GatesOfThisRun == IF metrics[Ours].run = Now THEN gated \cup {Ours} ELSE gated

Gates == gated \cup {Ours}

\* gate_version and record_ttm_crosscheck; metrics-only ends here.
Gate ==
    /\ proc.at = "gates"
    /\ gated' = Gates
    /\ proc' = IF Mode.metrics THEN Analysed ELSE [proc EXCEPT !.at = "score"]
    /\ UNCHANGED <<runs, errors, row, metrics, inputs, score, faults, rescued>>

\* store_score.
StoreScore ==
    /\ proc.at = "score"
    /\ score' = Kept(score)
    /\ proc' = Analysed
    /\ UNCHANGED <<runs, errors, row, metrics, inputs, gated, faults, rescued>>

Ends(status) == runs' = [runs EXCEPT ![Now].status = status] /\ proc' = Idle

\* Every filing was tried: completed, with whatever failed.
Finish ==
    /\ proc.at = "list" /\ proc.units = {} /\ proc.queue = {}
    /\ Ends("completed")
    /\ UNCHANGED <<errors, stored, faults, rescued>>

\* An interrupt: the run is recorded as failed.
Interrupt ==
    /\ proc # Idle /\ Fault
    /\ Ends("failed")
    /\ UNCHANGED <<errors, stored, rescued>>

\* The process dies: its run stays 'running'.
Kill ==
    /\ proc # Idle /\ Fault
    /\ proc' = Idle
    /\ UNCHANGED <<runs, errors, stored, rescued>>

-----------------------------------------------------------------------------
(* The commands over what is stored *)

\* `score`: a stored filing with metrics and no score, from the stored metrics.
ScoreStored(p) ==
    /\ proc = Idle
    /\ metrics[p] # None /\ score[p] = None
    /\ score' = [score EXCEPT ![p] = metrics[p]]
    /\ rescued' = rescued \cup {p}
    /\ UNCHANGED <<runs, errors, row, metrics, inputs, gated, proc, faults>>

Work ==
    \/ List \/ Skip \/ Fetch \/ StoreRefused \/ Store
    \/ RecordMetrics \/ WriteInputs \/ Gate \/ StoreScore \/ Finish

Trouble ==
    \/ ListFails \/ NotFound \/ Retry \/ Refused \/ GatewayFails \/ CodeFails
    \/ Interrupt \/ Kill

Next ==
    \/ RunByHand \/ RunOnYes
    \/ proc # Idle /\ (Work \/ Trouble)
    \/ \E p \in Periods : ScoreStored(p)

Fairness == WF_vars(RunOnYes) /\ WF_vars(proc # Idle /\ Work)

Spec == Init /\ [][Next]_vars /\ Fairness

-----------------------------------------------------------------------------
(* Properties *)

\* A period is one filing's: its row, metrics, inputs and score never mix two,
\* whichever of them failed, was interrupted or came first (the refusals of
\* upsert_filing before INSERT OR IGNORE).
PeriodIsOneFiling ==
    \A p \in Periods, table \in {metrics, inputs, score} :
        table[p] # None => table[p].filing = row[p].filing

\* A filing is analysed after the earlier filings of its company: its trailing
\* twelve months and growth read every earlier period an earlier filing recorded
\* in the same run or before.
ReadsEarlierFilings ==
    \A p, q \in Periods :
        /\ metrics[p] # None /\ metrics[q] # None /\ q < p
        /\ metrics[q].filing < metrics[p].filing
        /\ metrics[q].run <= metrics[p].run
        => q \in metrics[p].from

\* The score is the last thing written: what is scored has its metrics and rule
\* inputs and went through the gates, wherever a run died and whatever a later
\* one kept, unless it was `score` that scored it.
ScoredIsWhole ==
    \A p \in Periods :
        score[p] # None =>
            /\ metrics[p] # None
            /\ p \notin rescued => inputs[p] # None /\ p \in gated

\* A filing stops being pending when it is done, fails as a filing, or a run
\* that covers it completes without an error of it; a run that dies makes none
\* less pending, and an outage of the fetch neither.  An outage of the listing
\* does: the run completes all the same, without an error of the filing it never
\* came to, and excuses it (_covered_since asks for the run's parameters, not for
\* what it listed).  A run dated after the check is not read for its errors,
\* only for its coverage.
PendingLeavesForAReason ==
    [][\A d \in Dates, m \in BOOLEAN : \A f \in Pending(d, m) \ Pending(d, m)' :
         \/ f \in Done(m)'
         \/ \E e \in errors' \ errors : e.filing = f /\ e.class = "data"
         \/ /\ runs[Now].status = "running" /\ runs'[Now].status = "completed"
            /\ runs[Now].date <= d =>
                 ~\E e \in errors : e.run = Now /\ e.filing = f]_vars

\* Once the gateway answers and no run dies, the checked runs leave nothing
\* pending but second originals.
PendingSettles == <>[](\A f \in Pending(LastDate, FALSE) : Second(f))
=============================================================================

---------------------------- MODULE PriceHistory ----------------------------
(***************************************************************************)
(* The daily bars of one line: `pricing_agent run --store-daily`, its      *)
(* check `pending`, and the observations derived from the stored bars.     *)
(* The gateway adjusts history for a split as of the day it is asked, some *)
(* time after the ex-date; quant records the split when it hears of it.    *)
(* Whoever overwrites a part of the stored history may leave it on two     *)
(* bases.                                                                  *)
(*                                                                         *)
(* src/src/pricing_agent/pipeline.py, integrity.py, pending.py, db.py.     *)
(* One run at a time, within a day.  Every split is 2-for-1, and a price   *)
(* is written as its level: how many splits it is adjusted for.  Two bars  *)
(* are on one basis when their levels are the same, and d levels make a    *)
(* close ratio of 2^d.                                                     *)
(***************************************************************************)
EXTENDS Integers, FiniteSets

CONSTANTS
    LastDay,    \* the sessions are 1..LastDay; DEFAULT_START_DATE is 1
    Splits,     \* the ex-dates
    Modes,      \* how the operator runs: with observations, accepting jumps
    Faults,     \* bound: outages, empty answers, kills, before the last session
    ByHand      \* bound: runs the operator starts, before the last session

Days == 1..LastDay

ASSUME PriceAssumption ==
    /\ LastDay \in Nat \ {0} /\ Splits \subseteq Days
    /\ Faults \in Nat /\ ByHand \in Nat
    /\ Modes \subseteq [observe : BOOLEAN, allow : BOOLEAN]

VARIABLES
    today,     \* the day of the clock
    final,     \* the last session that is closed and settled
    applied,   \* the splits the gateway adjusts for
    recorded,  \* the SPLIT rows of corporate_action
    bars,      \* price_daily: the stored sessions' bars
    waived,    \* history: the seams last written by a run that accepted jumps, or
               \* ended in between and wrote the earlier bar alone
    obs,       \* price_observation: the stored sessions' inputs
    refused,   \* the line's last pricing_run_error is a split_jump
    proc,      \* the run in progress
    got,       \* its candles
    faults, byhand

clock  == <<today, final>>
world  == <<clock, applied, recorded>>
stored == <<bars, waived>>
vars   == <<world, stored, obs, refused, proc, got, faults, byhand>>

Levels == 0..Cardinality(Splits)

\* f is about some of the sessions, and each has a T.
IsPartial(f, T) == DOMAIN f \subseteq Days /\ f \in [DOMAIN f -> T]

\* A bar: its level, the day of its ingested_at.
Bars == [level : Levels, stamp : Days]

\* Consecutive bars: a seam.
Neighbours(D) ==
    {p \in D \X D : p[1] < p[2] /\ \A d \in D : d <= p[1] \/ p[2] <= d}

Idle    == [at |-> "idle"]
Checked == [observe |-> TRUE, allow |-> FALSE]  \* --store-daily --observations
Places  == {"fetch", "check", "refetch", "judge", "derive", "rederive", "record"}
Procs   == [at : Places,
            start : Days, end : Days, mode : Modes \cup {Checked}, full : BOOLEAN]

TypeOK ==
    /\ today \in Days /\ final \in {today - 1, today}
    /\ applied \subseteq Splits /\ recorded \subseteq Splits
    /\ IsPartial(bars, Bars) /\ waived \subseteq Neighbours(DOMAIN bars)
    /\ DOMAIN obs \subseteq Days /\ \A d \in DOMAIN obs : IsPartial(obs[d], Levels)
    /\ IsPartial(got, Levels)
    /\ refused \in BOOLEAN
    /\ proc \in Procs \cup {Idle}
    /\ faults \in 0..Faults /\ byhand \in 0..ByHand

Nothing == [d \in {} |-> 0]

Init ==
    /\ today = 1 /\ final = 0
    /\ applied = {} /\ recorded = {}
    /\ bars = Nothing /\ waived = {} /\ obs = Nothing
    /\ refused = FALSE
    /\ proc = Idle /\ got = Nothing
    /\ faults = 0 /\ byhand = 0

-----------------------------------------------------------------------------
(* The exchange, the gateway and quant *)

\* The session of the day closes and settles.
Close ==
    /\ proc = Idle /\ final < today
    /\ final' = today
    /\ UNCHANGED <<today, applied, recorded, stored, obs, refused, proc, got, faults, byhand>>

NextDay ==
    /\ proc = Idle /\ final = today /\ today < LastDay
    /\ today' = today + 1
    /\ UNCHANGED <<final, applied, recorded, stored, obs, refused, proc, got, faults, byhand>>

Adjust(s) ==
    /\ s \in Splits \ applied /\ s <= today
    /\ applied' = applied \cup {s}
    /\ UNCHANGED <<clock, recorded, stored, obs, refused, proc, got, faults, byhand>>

\* `quant backfill-actions`, before the ex-date or long after it.
RecordSplit(s) ==
    /\ s \in Splits \ recorded
    /\ recorded' = recorded \cup {s}
    /\ UNCHANGED <<clock, applied, stored, obs, refused, proc, got, faults, byhand>>

\* The gateway's candles of the sessions from a to b.
Served(a, b) ==
    [d \in a..b |-> Cardinality({s \in Splits : s <= d \/ s \in applied})]

-----------------------------------------------------------------------------
(* The stored series *)

\* f laid over g.
Over(f, g) ==
    [d \in DOMAIN f \cup DOMAIN g |-> IF d \in DOMAIN f THEN f[d] ELSE g[d]]

\* The stored closes up to a session: load_daily_candles.
History(e) == [d \in {d \in DOMAIN bars : d <= e} |-> bars[d].level]

\* SPLIT_RATIOS has 2 and 4, either way round, and not 8.
IsSplitShaped(levels) == levels \in {-2, -1, 1, 2}

\* Mutant: the fetched candles alone are looked at.
JumpsOfFetched(fetched, end) ==
    {p \in Neighbours(DOMAIN fetched) : IsSplitShaped(fetched[p[2]] - fetched[p[1]])}

\* _seam_jumps: of the stored series with the fetched candles laid over it, those
\* this run's bars take part in.
SeamJumps(fetched, end) ==
    LET merged == Over(fetched, History(end))
    IN  {p \in Neighbours(DOMAIN merged) :
           /\ IsSplitShaped(merged[p[2]] - merged[p[1]])
           /\ p[1] \in DOMAIN fetched \/ p[2] \in DOMAIN fetched}

\* matches_recorded_split: some jump is 2-for-1, and one is on record.
SomeMatches(fetched, end) ==
    /\ \E s \in recorded : s <= end
    /\ \E p \in SeamJumps(fetched, end) :
         LET merged == Over(fetched, History(end))
         IN  merged[p[2]] - merged[p[1]] \in {-1, 1}

\* has_pre_split_rows: a bar from before a recorded split, last written before it.
PreSplit(end) ==
    \E s \in recorded : s <= end /\ \E d \in DOMAIN bars : d < s /\ bars[d].stamp < s

-----------------------------------------------------------------------------
(* A run *)

\* _require_closed_session: the end is a final session.
Begin(start, end, mode) ==
    /\ proc = Idle /\ end <= final
    /\ proc' = [at |-> "fetch", start |-> start, end |-> end, mode |-> mode,
                full |-> FALSE]
    /\ UNCHANGED <<world, stored, obs, refused, got, faults>>

RunByHand ==
    /\ byhand < ByHand /\ byhand' = byhand + 1
    /\ today < LastDay
    /\ \E start, end \in Days, mode \in Modes : start <= end /\ Begin(start, end, mode)

\* Mutant: a refused line is never pending.
PendingUnlessRefused ==
    /\ final # 0 /\ ~refused
    /\ final \notin DOMAIN bars \/ final \notin DOMAIN obs \/ PreSplit(final)

\* check, at the last final session: no bar there, which the gateway has; or no
\* observation; or bars from before a split, unless the step refuses them.
Pending ==
    /\ final # 0
    /\ \/ final \notin DOMAIN bars
       \/ final \notin DOMAIN obs
       \/ PreSplit(final) /\ ~refused

RunOnYes ==
    /\ Pending /\ Begin(1, final, Checked)
    /\ UNCHANGED byhand

Fault == faults < Faults /\ faults' = faults + 1 /\ today < LastDay

Fetch ==
    /\ proc.at = "fetch"
    /\ got' = Served(proc.start, proc.end)
    /\ proc' = [proc EXCEPT !.at = "check"]
    /\ UNCHANGED <<world, stored, obs, refused, faults, byhand>>

\* An outage: recorded, and the next line's turn.
FetchFails ==
    /\ proc.at = "fetch" /\ Fault
    /\ refused' = FALSE
    /\ proc' = Idle
    /\ UNCHANGED <<world, stored, obs, got, byhand>>

\* No candle: the observations follow what is stored, and then it is recorded.
NoData ==
    /\ proc.at = "fetch" /\ Fault
    /\ proc' = [proc EXCEPT !.at = IF proc.mode.observe THEN "rederive" ELSE "record"]
    /\ UNCHANGED <<world, stored, obs, refused, got, byhand>>

RecordNoData ==
    /\ proc.at = "record"
    /\ refused' = FALSE
    /\ proc' = Idle
    /\ UNCHANGED <<world, stored, obs, got, faults, byhand>>

NeedsRefetch == PreSplit(proc.end) \/ SomeMatches(got, proc.end)

\* _reconcile_history, up to the second call.
Reconcile ==
    /\ proc.at = "check"
    /\ proc' = [proc EXCEPT !.at = IF NeedsRefetch THEN "refetch" ELSE "judge"]
    /\ UNCHANGED <<world, stored, obs, refused, got, faults, byhand>>

\* Mutant: the refetch starts where the run does.
RefetchOwnWindow == proc.start

\* Mutant: the refetch starts a day before the first stored bar.
RefetchADayEarlier ==
    (CHOOSE a \in {proc.start} \cup DOMAIN History(proc.end) :
        \A b \in {proc.start} \cup DOMAIN History(proc.end) : a <= b) - 1

\* _refetch_full: from the first stored bar, or the run's start if earlier.
RefetchFrom ==
    CHOOSE a \in {proc.start} \cup DOMAIN History(proc.end) :
        \A b \in {proc.start} \cup DOMAIN History(proc.end) : a <= b

\* The gateway may have adjusted for another split by now.
Refetch ==
    /\ proc.at = "refetch"
    /\ got' = Served(RefetchFrom, proc.end)
    /\ proc' = [proc EXCEPT !.at = "judge", !.full = TRUE]
    /\ UNCHANGED <<world, stored, obs, refused, faults, byhand>>

\* The gateway has nothing: what was fetched first is judged.
RefetchEmpty ==
    /\ proc.at = "refetch" /\ Fault
    /\ proc' = [proc EXCEPT !.at = "judge"]
    /\ UNCHANGED <<world, stored, obs, refused, got, byhand>>

Clean == SeamJumps(got, proc.end) = {}

\* _SplitJumpRefused: nothing is written.
Refuse ==
    /\ proc.at = "judge" /\ ~Clean /\ ~proc.mode.allow
    /\ refused' = TRUE
    /\ proc' = Idle /\ got' = Nothing
    /\ UNCHANGED <<world, stored, obs, faults, byhand>>

\* The run's candles as bars.
Written ==
    [d \in DOMAIN got |-> [level |-> got[d], stamp |-> today]]

\* The last run to write one of its two bars answers for a seam: the run at hand
\* if it wrote either, and then it is waived only if it accepts jumps or, ending
\* before the later bar, does not read it; an earlier run otherwise.
IsWaived(p) ==
    IF p[1] \in DOMAIN got \/ p[2] \in DOMAIN got
    THEN proc.mode.allow \/ p[2] > proc.end
    ELSE p \in waived

\* replace_daily_prices.
Store ==
    /\ proc.at = "judge" /\ (Clean \/ proc.mode.allow)
    /\ bars' = Over(Written, bars)
    /\ waived' = {p \in Neighbours(DOMAIN got \cup DOMAIN bars) : IsWaived(p)}
    /\ got' = Nothing
    /\ proc' = IF proc.mode.observe THEN [proc EXCEPT !.at = "derive"] ELSE Idle
    /\ UNCHANGED <<world, obs, refused, faults, byhand>>

\* _derive_observations: from the whole stored history up to the run's end.
Derive ==
    /\ proc.at \in {"derive", "rederive"}
    /\ obs' = Over([d \in DOMAIN History(proc.end) |-> History(d)], obs)
    /\ proc' = IF proc.at = "derive" THEN Idle ELSE [proc EXCEPT !.at = "record"]
    /\ UNCHANGED <<world, stored, refused, got, faults, byhand>>

\* Killed, interrupted, or the second call to the gateway fails, which nothing
\* catches.
Dies ==
    /\ proc # Idle /\ Fault
    /\ proc' = Idle /\ got' = Nothing
    /\ UNCHANGED <<world, stored, obs, refused, byhand>>

Work == Fetch \/ Reconcile \/ Refetch \/ Refuse \/ Store \/ Derive \/ RecordNoData

Next ==
    \/ Close \/ NextDay
    \/ \E s \in Splits : Adjust(s) \/ RecordSplit(s)
    \/ RunByHand \/ RunOnYes
    \/ proc # Idle /\ (Work \/ FetchFails \/ NoData \/ RefetchEmpty)
    \/ Dies

Fairness ==
    /\ WF_vars(Close) /\ WF_vars(NextDay)
    /\ \A s \in Splits : WF_vars(Adjust(s))
    /\ WF_vars(RunOnYes) /\ WF_vars(proc # Idle /\ Work)

Spec == Init /\ [][Next]_vars /\ Fairness

-----------------------------------------------------------------------------
(* Properties *)

\* The stored series has no split-shaped jump, whatever windows were fetched in
\* which order, before or after the gateway adjusted and quant recorded: the
\* seam is seen by the run that makes it, which is the last to write one of its
\* two bars.  But for what that run was asked for: to accept jumps, or to end
\* before the later of the two bars, which it then neither reads nor writes.
OneBasis ==
    \A p \in Neighbours(DOMAIN bars) :
        IsSplitShaped(bars[p[2]].level - bars[p[1]].level) => p \in waived

\* "The re-fetch is triggered once, not on every run": when the whole history was
\* refetched and stored, no bar is from before a recorded split any more.
RefetchedOnce ==
    [][proc # Idle => \A e \in Days :
         e = proc.end /\ proc.full /\ bars' # bars => ~PreSplit(e)']_vars

\* Whatever the runs of the operator, the outages, refusals and kills of the days
\* before left, the checked runs of the last session end with every session stored
\* on one basis, and observed from what is stored.
Settled ==
    /\ DOMAIN bars = Days /\ DOMAIN obs = Days
    /\ \A d \in Days : bars[d].level = bars[1].level /\ obs[d] = History(d)

SeriesSettles == <>[]Settled
=============================================================================

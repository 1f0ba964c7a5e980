# A verification project for portfolio-financial-analysis

The repository ingests SEC filings and prices for the S&P 500, scores and
ranks the companies, selects a portfolio on cycle dates, builds benchmark
portfolios beside it and publishes everything as views of one SQLite
database. Each part is a command line (`python -m pricing_agent`, `cycle`,
`quant`, ...) and one runner, `python -m api orchestrate` or `POST /run/...`,
sequences them. The parts never call one another: they meet in the database.

The hard part is therefore in the tables. Programs die between two commits,
are run again for the same date, for an older date, under other settings, or
side by side, and the tables must still say something true about every date.
This project models the components where that question is sharpest, checks
them with TLC on small instances and proves the main results with TLAPS.

| module | what it is | lines of source |
|---|---|---|
| `Orchestrator` | the run lock, the reconciliation, the step runner, stops, crashes | `api/orchestrator.py` |
| `RunLedger` | what the orchestrator promises to a reader of its two tables | the same, seen from the tables |
| `PositionBook` | the live and the replay position book, their guards, resume, undo, reset | `cycle/writers.py`, `replay.py`, `repair.py`, `state.py`, the positions step of `cycle/orchestrator.py` |
| `VetoStints` | the veto table, its holds, guard, rewrites and reset | `cycle/writers.py`, `replay.py`, `kg_schema/queries.py`, the veto step |
| `CycleRun` | the checkpointed runner over the shared score rows | `cycle/orchestrator.py`, `cycle/state.py`, `write_scores` and `apply_normalized` of `cycle/writers.py` |
| `Migrations` | the version floor, the rebuilds and their guards | `kg_schema/migrations.py`, `__init__.py`, `availability.py`, `identity.py` |
| `FilingRun` | one company's filings through runs, scores and the pending check | `fundamental_agent/pipeline.py`, `db.py`, `pending.py`, `failures.py`, `scoring.py` |
| `PriceHistory` | one line's daily bars through splits, refetches and refusals | `pricing_agent/pipeline.py`, `integrity.py`, `pending.py`, `db.py` |
| `BasingPoints` | one satellite name's stop machine, from entry to re-entry | `cycle/guard/basing.py`, layer 1 of `guard/core.py`, what `backtest/engine.py` and `driver.py` feed it |
| `MC*` | the instances TLC checks | |
| `*Proofs` | the theorems | |

Paths below are relative to `src/src/` unless they start with `docs/`.


## 1. Inventory

`PROJECT.json` lists every component with its status. The ones that keep
state of their own:

**Run orchestrator** (`api/orchestrator.py`). State: the flock on
`<db>.orchestrator.lock`; the tables `orchestrator_run` and
`orchestrator_step`; in an API process the active slot (`_REGISTRY`) and the
stop flag and current child (`_LOCK_STATE`). Operations: begin a run (take the
lock, reconcile what dead runs left open, insert the rows), execute its steps
(each may be blocked, skipped, checked for pending work, run), stop it (API
shutdown, SIGTERM), finish it, release the lock. It talks to its children
through processes that inherit the lock's descriptor, and to other runners
through the lock only. Hard: a kill -9 that orphans a child, a signal raised
between any two bytecodes, a stop racing a spawn, a failing provenance write.
Correct: one live run per database; a live run is never taken for dead;
an outcome stays unless the very next write fails; 'completed' means nothing was left undone; pending work
reaches exactly the steps downstream of it; a stop ends the run.

**Cycle runner** (`cycle/orchestrator.py`, `cycle/state.py`). State:
`cycle_run` (one row per type and date), `cycle_checkpoint`. Operations:
refuse (stale prices, dirty tree, other recorded settings), open or resume,
run ten steps each under a checkpoint, finish. Hard: every step commits by
itself; a resume skips steps that are done and repeats the one that was not.

**Position books** (`cycle/writers.py`, `replay.py`, `repair.py`). State:
`portfolio_position`, `portfolio_position_replay`, `cycle_ranking`. Rows are
stints `valid_from .. valid_to` of a weight. Operations: sync to a target
book, undo a backdated run, reset the replay from a date. Hard: dates out of
order, a date written twice, a crash between the sync and the ranking, undo
after later runs. Correct: stints of an asset are disjoint, history before a
run's date stands, the book of a done run is what its ranking selected.

**Veto stints** (`cycle/writers.py`, `kg_schema/queries.py`). State: `veto`,
stints under a rule, with an expiry and the history of its extensions for a
temporal rule. Operations: apply a date's verdicts, reset from a date, read as
of a date. Shared by live and replay runs, so more orders are possible than
for the books. Correct: one open stint per key, a hold is kept, reads of past
dates are reproducible.

**kg_schema** (`ddl.py`, `migrations.py`, `queries.py`, `views.py`,
`identity.py`, `ticker_history.py`). State: the schema itself, its version
floor, guard triggers. Hard: rebuilds that commit before their version is
recorded, triggers dropped meanwhile.

**fundamental_agent** (`pipeline.py`, `db.py`, `pending.py`, `quality.py`).
State: filings, facts, metrics, scores, `analysis_run` and its error ledger,
data-quality issues per gate version. Hard: what a failed filing means for the
next run and for the pending check; re-gating.

**pricing_agent** (`pipeline.py`, `db.py`). State: windows, daily bars,
observations, run log. Hard: bars on two bases after a split.

**quant** (`persist.py`, `state.py`, `actions.py`, `returns.py`). State:
actions, return series, risk models, books, run log. Hard: immutable models
under versions, the chain of previous books.

**entity_resolution**. One edge table, replaced as a whole.

**backtest and GUARD** (`cycle/backtest`, `cycle/guard`). A deterministic
daily simulation with a four-layer risk throttle whose layers have memory.
Hard: the stop machine of layer 1 has four rules whose order within a session
matters, written once for the scan of a window at entry and once for a session
at a time. Correct: both are the same machine, whenever a name enters and
whatever bars are missing.

Everything else (scores, rules, parsing, optimizers, statistics, reports,
read routers) computes without state of its own; it enters the models as an
input or not at all.


## 2. Orchestrator

### State and actions

`pc[r]` is the place a run's code has reached: the thread of an API server or
the main thread of a CLI process. An action is one stretch of that code between
two points at which another process, another thread or a signal can be seen:
the flock, one transaction, a critical section under `_LOCK`, a spawn, the end
of a child. The file lock is `lock`, the run whose open file holds it; a child
shares that open file, so it keeps the lock when its parent dies
(`LockSurvives`) and loses it when the parent unlocks explicitly
(`ReleaseLock`). `run` and `row` are the two tables. `prog` gathers the locals
of `execute_run`: the plan, the set of steps that ran on a pending signal, the
failed flag and what made the run fail. `started` is a history variable.

`begin_run` is `AcquireLock` or `RefusedByLock`, then `ReconcileAbandonedRuns`
and `InsertRun`, each its own transaction, with `BeginFails` for an error in
between; `start_run` adds `Post` and `Register` around it. `execute_run` is
`Head`, then one of `Blocked`, `SkipMissingNews`, `DecideToSkip`,
`DecideToRun` or the pending check, `MarkRunning`, `Launch`, `StepReturns`,
`RecordReason` (a write of its own, after the status), `NextStep`; a stop or a failed write goes to `FailStep` and `MarkNotRun`;
every path ends in `FinishRun`, `PersistRun`, `ReleaseLock`. A graceful stop of
a server is `ShutdownActive`, `RequestStop`, `JoinReturns`, or `JoinTimesOut`
after the ten seconds the code waits. SIGTERM to a CLI process is one action
per region of the code with its own handler.

Faults: `CrashCli` and `CrashServer` at any place, `RestartServer`; every
provenance write of a run in `FaultyRuns` may fail, its failure record too;
`thread.start()` may fail (`stranded`); a child may fail, be killed, never end.

`RunLedger` is the abstract specification: one owner, which alone writes, may
abandon what is open, open its run, move its steps forward to an outcome and
close the run, 'completed' only if nothing was left undone. An outcome stays,
with one exception the code makes necessary (`Revoke`): a step recorded
'completed' becomes 'failed' when the write right after it fails.
`ImplementsRunLedger` is the refinement with `owner` the set of live runs.

### Runs

`MCOrchestrator`; two steps, the first with a pending check, the second
without: the two kinds of decision, and an upstream.

- **OrchServer** (333 811 states): one API server, two runs posted, stop, kill
  and restart anywhere, the second run's provenance writes allowed to fail.
  `StopLeavesNoChild`, the refinement `ImplementsRunLedger`, and
  under `StopSpec` the liveness properties `StopEndsRun` and `LockIsFreed`.
  The refinement contains the simpler statements one would make of the two
  tables: one run is live (its one `owner`; `OneLiveRun` on its own is what
  OrchStopInSpawn refutes), at most one is open beside what dead runs left, an
  outcome that is written stays but for `Revoke`, a step that ran is never `not_run`, only what a dead run
  left is abandoned, and a run is 'completed' only if no step of it was left
  undone.
- **OrchFaults** (2 150 232): an API run and a CLI run on one database, both
  killed anywhere, the API run's writes allowed to fail, the CLI run under any
  number of SIGTERMs, single-step runs too. `TypeOK`, and `LockProtects` with
  the leaked child as its one exception.
- **OrchPipeline** (14 606): the real nine-step table and dependencies, one
  run, every verdict and outcome: `SoundUpstream`, `PendingPropagates`.

Two runs are enough to interfere (the properties are about pairs), and a third
could only wait at the same lock; two steps give the runner every transition
of its loop, and the dependency logic, which needs more, has the full table in
a run of its own.

One run ends in a violation, a place where the code does not do what a comment
says (`findings`):

- **OrchStopInSpawn**: SIGTERM inside `Popen` leaks a child past the unlock,
  and the next run starts beside it.

### Fairness

`RunnerFairness` is weak fairness of each run's own thread (begin, execute,
end) and of the death of a child that was sent SIGKILL: threads are scheduled,
and a killed process goes. `RequestStop` is the next statement of the shutdown
hook. Nothing is assumed of a step that runs: the code gives steps no timeout,
so `StopEndsRun` must hold although no child ends by itself, and `LockIsFreed`
says that only a child that runs for ever holds the lock for ever. `StopEndsRun`
is stated of the runs whose writes do not fail: a run whose final write fails
is over but its row stays open for the next run's reconciliation.
`LockIsFreed` excepts a run whose thread could not be started (`stranded`,
`orchestrator.py:1277`): nothing before the end of its process unlocks for it.

### Proofs (`OrchestratorProofs`)

For every pipeline, any number of runs, servers and faults:

- `TypeCorrect`. `TypeOK` alone is not inductive: the step actions index `row`
  by `cur[r]`, which may be `N + 1`. The invariant `TypeInv` adds that while a
  run is in a step, `cur[r]` is a step of its plan.
- `LockProtectsLiveRuns`: `LockProtects` is inductive with `TypeInv`. The case
  that carries it is the end of a process (`LockAtEndOfProcess`): a run that
  dies with a child passes the lock to the child, a run that dies without one
  is no longer live.
- `OneLiveRunWithoutSigterm`: if no CLI run is sent SIGTERM, a child is only
  there while its run waits for it or is dead, so no child is leaked and the
  lock excludes. The hypothesis is needed: OrchStopInSpawn refutes the
  statement without it.

- `RefinesRunLedger`: `ImplementsRunLedger`, under the same hypothesis (the run
  OrchServer gives `SigtermRuns` no member either). Each write must be one that
  RunLedger allows, so `LedgerInv` says what the rows are at each place of the
  loop (`Placed`): the step at hand is pending until it is marked
  (`StepAsPlaced`), those ahead are pending (`AheadIsPending`), those behind are
  completed or skipped as long as nothing failed (`BehindIsSettled`), the run's
  row is open from its insert to its final write (`RunAsPlaced`). A run that dies
  leaves its row open, and RunLedger's `Abandon` is the next run's
  reconciliation. A write that fails after a step is 'completed' is `Revoke`, which
  needs the rows ahead of the step untouched.
- `StopAlwaysLeavesNoChild`: `StopLeavesNoChild` holds because of an order that
  no single action shows (`StopPlaced`): a stop begins with no request in
  flight, the reason stays set as long as the run is in its loop, and a child
  of an API run is one its run waits for, unless the run died.
- `UpstreamsAreSound` and `SignalPropagates`: `SoundUpstream` and
  `PendingPropagates` speak of rows, the loop decides on its local
  `ran_pending`. `StepsInv` ties the two: before the loop no row has an outcome,
  behind the index all have one (`RowsPlaced`), and `ran_pending` is what
  completed behind the index (`SignalsPlaced`).

Only the liveness properties, `StopEndsRun` and `LockIsFreed`, stay with TLC.


## 3. PositionBook

### State and actions

`book[k][a][f]` is the stint of asset `a` with `valid_from = f` in table `k`;
`to = Open` is a NULL `valid_to`. A run is known by its kind and date, as in
the code (`UNIQUE (cycle_type, cycle_date)`). `attempt` is the process in the
positions step: the cycle assumes one writer (`docs/model_fixes.md:1558-1567`),
and under the orchestrator the run lock guarantees it. The step commits five
times: the recorded construction, the sync, the ranking, the checkpoint, the
finish. `Crash` and `Abort` may come before each, and a later `Begin` resumes
with targets that may have changed since: prices move.

`Sync` is both `sync_positions` and `sync_replay_positions`: keep, update in
place on the stint's own first day, close, or open. The guards
`OutOfOrder`/`Refused` (in `_positions`) and `Newer` (in the writer) are
separate, as `--allow-backdated` overrides only the first. `Undo` is `undo-run
--apply` and `ResetReplayRange` is `backfill --force`. Three variables are
history: `synced`, what a run last wrote; `reweighted`, whether an undo ever gave
an open stint another weight than it had (`Reweighs`); `late`, whether a table
was written at a date before one that a run had emptied (`Emptied`), until a
`--force` from the first date starts it anew. The book a date builds is an
input, `Targets[d][s]`: it depends on scores, prices and settings, none of which
the book's properties look at. It may be empty (`construction.py:427-441`).

### Runs

`MCPositionBook`; three assets, three dates, two settings, six units of weight.

- **Books** (394 835 states): everything on the live book and on the replay
  book. `TypeOK`, `StintsNeverOverlap`, `AsOfBookIsSelected`,
  `HistoryIsImmutable`, and `BookIsReplayOfRuns`, which compares the replay
  table with the one a single clean backfill would write. `OneTableSpec` leaves
  out the behaviours in which both kinds run: they write tables of their own
  and read nothing of each other's, so a run beside them only multiplies states.

Three dates give a run one before and one after it, which is what the guards,
the undo and the reset look at; three assets let a book change some names and
keep one. On date 2 a resume can find other prices, and so other weights. The
settings "excluding" leave no name eligible on dates 2 and 3: the book is
emptied, or stays as empty as it is; a resume under the other settings must be
refused, or the book recorded would not be of the settings recorded
(`OfRecordedSettings`).

Three conditions in the properties are the code's own limits. On this instance
each of them is necessary: without it TLC finds the property violated.

- `late`, in `StintsNeverOverlap`: the guards read `MAX(valid_from)`, and a run
  that empties the book closes stints without opening one. After a book at date
  1 and an empty one at date 3, a run of date 2 is accepted without an override
  and opens a stint of a name whose closed one lasts until 3. `writers.py:61-62`
  counts on a row to mark the date.
- `Marked`: a run that changes nothing is a date the guards do not know either.
  After empty books, or one book twice, at dates 1 and 3, a run of date 2 with
  another book is accepted without an override, and date 3 then holds that book
  where its ranking says the first. `writers.py:46-47` and `replay.py:27-30` speak of any date already
  written.
- `reweighted`, in `Sound` for the live book: `undo-run` gives every open stint
  the weight of its run's ranking (`repair.py:85-99`), and a run that died
  between `sync_positions` and `write_ranking` still has the ranking of an
  earlier attempt. An undo of another run then writes those older weights, and
  the open stints are a mixture of two books. `StintsNeverOverlap` needs no such
  condition.

`NothingUndone` in `AsOfBookIsSelected` is not a limit: an undo that voids a
name of a date's book leaves, and should leave, another book on that date.

### Proofs (`PositionBookProofs`)

For every set of assets, dates, settings and books:

- `TypeCorrect`.
- `HistoryStands`: `HistoryIsImmutable` with no hypothesis at all. A sync at
  `d` passes the writer's own refusal, so open stints start by `d`
  (`NoNewerRow`); it then changes only ends that become `d` and rows that
  start at `d` (`SyncBefore`).
- `ForceClearsTheWay` (`ResetClearsTheWay`): the reset keeps what was held before its date and
  removes every row from it on.
- `NoOverlap`: `StintsNeverOverlap`, for any books. `InOrder` is not inductive.
  The strengthening `TableOK` adds `NewestIsHeld`: on the dates of `HeldOn` no
  row is newer than all those that are held, unless the book was emptied between
  the two. That is every date of the replay table; of the live one, where an
  undo may leave a date with nothing, the last date only, which is enough for the
  guards. So `MAX(valid_from)` is the latest date the book moved on, which is
  what the guard takes it for, or a later run emptied the book, and a write
  before that run is `late`.
  What the other theorems need beside it is `BookOK`. `RowsWritten`: a row starts
  and ends on dates that were written, and weighs what its last sync chose unless
  it is void. `VoidIsPast`: where a chosen row is void there is a newer row, so a
  backfill takes its date no more. `ReadsAsWritten`: a written date that left a
  trace, and of whose book nothing is void, reads what it wrote. `UndoneIsVoided`
  then reduces an undo that reweights nothing to `Voided`, which ends the rows of
  its date on the day they began and changes nothing else.
- `UndoTakesItsRun` (`UndoTakesOneRun`): such an undo takes the stints of its run
  off every date and changes no other reading.
- `BookOfItsDate`: `AsOfBookIsSelected`. The invariant `SelectedInv` adds where
  the attempt is (`AsAttempted`): from its sync to its checkpoint its targets are
  what its date last wrote, and it does not sync a date that is done; and that a
  done run recorded what it last wrote (`Recorded`). `SettingsInv` says the same
  of the settings: what is written or ranked is of the construction that the row
  records, because `Record` commits before the sync and `Begin` compares. What
  covers `d` after a sync at `d` is what is open (`SyncHolds`), because every
  closed stint ended by `d`; and a trace at `d` keeps every sync of an earlier
  date out, `--allow-backdated` or not, or makes it `late`.
- `ReplayIsRebuilt`: `BookIsReplayOfRuns`, the comparison with a recursion over
  dates. Rows start and end on dates that were written, and on each of those the
  table holds its last write, so on any date it holds the write of the latest
  written date up to it (`TableHoldsLast`). That the recursion is what its
  equations say is shown by induction over an explicit set of dates
  (`DatesInduction`, `StepsDefine`), and an induction along it gives the clean
  backfill the same reading (`RebuiltHoldsLast`): each of its syncs is in order.

None of them has a hypothesis on the constants. A name that one attempt of a date
opens, a second drops (a stint held for no day) and a third takes again would be
a second row of one asset and `valid_from`, which `ddl.py:194` refuses:
`SyncRefused` has that case, and the run fails without a change.


## 4. VetoStints

`veto[k][f]` is the stint of a key (an asset under a rule) raised on `f`, with
its end, last sighting, expiry and the extensions that moved it. `WriteVetoes`
is the whole veto step: the guard, the undoing of the date's own earlier
transitions (`Undone`), then what the rules say (`Applied`). A rule says of a
key `hit`, `gone`, `unknown` (it could not resolve the asset) or `disabled`.
The step is one transaction, so a crash loses all or nothing of it; a crash
after it is the same date written again, which the model may do at any time
and with other verdicts. `--allow-backdated-veto` writes nothing. Dates count
cycles: the hold in trading days is `Hold[k]` cycle dates.

**VetoStints** (28 986 states), three dates, a rule with a hold of two dates
and one without, stints from before the expiries existed: `StintsAreDisjoint`,
`HeldToExpiry`, `PastReadsStand`, `ForceClearsTheWay`, and `VetoesAreMeant`,
which compares every point-in-time read with a definition by recursion over
dates that knows no table. A hold of two over three dates meets a cycle
inside the hold, one on the expiry, an extension and its undoing.

`VetoesAreMeant` is stated while no date was written after a later one
(`~late`). The guard looks at transitions, so a date on which nothing was
raised, seen or cleared leaves no trace and an earlier date is accepted after
it; the table is then well formed, but an earlier verdict was judged without
the later one.

### Proofs (`VetoStintsProofs`)

For every set of keys, holds, opinions and dates:

- `TypeCorrect`.
- `DisjointAlways` (`StintsAreDisjoint`) and `PastReads` (`PastReadsStand`).
  Both rest on what a write that passes the guard makes of one row
  (`WrittenRows`): a row of another date ends before `d`, where it stays as it
  is, or on `d` or never, where it is reopened and then judged. A row of `d`
  exists only if nothing is open (`RaisedAlone`). Types are all the second
  needs; disjointness is inductive by itself.
- `HeldAlways` (`HeldToExpiry`). Not inductive: a closed row with an extension
  after its end would get its older expiry back from a later write.
  `MovedBeforeEnd`, every extension of a closed stint came before its end,
  rules it out: what ended before `d` is then not touched by
  `restore_expiries_from` (`Restored`).
- `ForceClears` (`ForceClearsTheWay`).

That the earliest dropped extension exists, which `restore_expiries_from`
takes the expiry from, is the well-ordering of dates (`EarliestMove`).

- `MeantAlways` (`VetoesAreMeant`). The reads are not inductive: a rewrite of `d`
  starts from the table as it stood before `d`, its expiries included, which no
  read shows. `AsMeant` adds the expiry every stint had on every date
  (`ExpiryOn`), which the extensions must be able to tell: two of one stint are
  never of one date (`AllMovedOnce`). Reads before `d` stand as nothing before `d`
  changes (`AsMeantBefore`); on `d` the write is one step of the recursion; after
  `d` nothing was written, as `late` is false, so the reads of `d` stand
  (`AsMeantAfter`).


## 5. CycleRun

### State and actions

`status`, `opened` and `built` are the columns of `cycle_run` (its status, what
`open_cycle` recorded, what the positions step merged in), `cp` is
`cycle_checkpoint`, `score` the TECHNICAL and VALORIZATION rows of
`score_snapshot`, `filing` the cohort a FUNDAMENTAL row was last normalized
over, `ranking` what a blend was made of. `attempt` is the process: its place
in `_do`, its step and the commit inside the step. `OpenCycle` is the part of
`_run` before the first step: the refusals against the recorded row, the open
or resumed row, the first step that is not done. Each step is `MarkRunning`,
its commits, `MarkDone`; `StepRaises`, `MarkFailed`, `RunRaises` and
`CloseFailed` are the handlers, `Crash` is possible before every commit, and
`ResetReplayRange` is the `cycle_run` part of `backfill --force`.

The hard point is that the score rows are keyed by asset, type and date, not
by run: every run of a date writes the same rows, and a FUNDAMENTAL row, keyed
by its filing, is shared by dates.

The steps that only read, and those whose rows no other step reads, are left
out, the veto and the positions step are their own modules. The code compares
neither the universe, `soft_veto_penalty`, `defensive_tilt`, the pillar weights
of FUNDAMENTAL nor the engine version of the observations on a resume, so
neither does the model: `RankedAsRecorded` is about the manifest, the weights
and the cut. The refusals before `open_cycle` that look at the data (stale
prices, a dirty tree) write nothing.

### Runs

- **CycleRun** (1 327 877 states): any two of the REPLAY and MONITORING runs of
  two dates that share their newest filing, three settings that differ in
  weights, cut and book, all faults. `TypeOK`, `RankedAsRecorded`,
  `CompletedMeansDone`, `RankingIsOneGo`. A SELECTION behaves as a REPLAY that
  is never reset, so REPLAY covers it. Two runs are one that ranks and one that
  disturbs it, on the same date or on the other date of the shared filing; one
  score type is enough, as the types are written and read alike.
- **CycleSharedScores** (violation): `RankingIsAlwaysWhole` without the
  exception of `RankingIsOneGo`. A MONITORING run that dies between `technical`
  and `normalize` empties the normalized scores a resumed SELECTION ranks on.

### Proofs (`CycleRunProofs`)

For every set of dates, types, filings, score types and settings: `TypeCorrect`;
`RankingsAreRecorded` (`RankedAsRecorded`), for which the setting of the
attempt in progress must agree with its row (`AttemptAsRecorded`);
`CompletedIsDone` (`CompletedMeansDone`), which rests on the steps done being a
prefix of the sequence and the attempt being at its end (`DonePrefix`,
`AttemptAtFirst`); `RankingsAreOneGo` (`RankingIsOneGo`): if the scores of the
date were scored and normalized by this run's own steps and nobody emptied them
since, all parts are there when `rank` reads them.


## 6. Migrations

### State and actions

`recorded` is `schema_version`, `shape` whether a table is in the form its
rebuild gives it, and the data is reduced to what a later reader could miss:
the compatibility view, the veto hits, the recorded blends, the id sequences,
`available_at`, filings that break the identity invariant. `Ensure` and `Stamp`
are what every agent runs before it writes; `Open`, the migrations and `Record`
are `apply_migrations`, `Finally` its `finally`. A migration's commits are
separate actions: the script that replaces a table commits by itself
(`executescript`), and what comes after it commits with the record.
`create_schema` is external (`portfolio_common`) and one commit. `AgentWrites`
stands for the writers the triggers guard. `Kill` is possible everywhere; `cut`
is the history of what it took. One process at a time, as the module's docs
ask. `stamp_current_shape` records its versions one by one, and a kill in
between leaves a floor that is low but honest.

### Runs

**Migrations** (162 302 states): from every floor, every mix of tables in old
and new form, with every fault. `TypeOK`, `FloorIsHonest`, `GuardsGoBack`,
`MigrateCompletes`. `Last` is 15: all migrations that do something, and one
marker above them; those that follow are markers too.

`FloorIsHonest` has three exceptions, all of the same shape: a kill between the
commit of a rebuilt table and the rest of its migration loses the compatibility
view (m005, m006, m014), the renamed blends (m006) or the veto hits (m009),
since the migration that runs again finds its table at the target and skips.
The property says these are the only ones.

Fairness: a process that runs goes on; `migrate` and the fix of refused rows
are strongly fair, as agents may hold the database again and again.
`MigrateCompletes` supposes that kills stop.

### Proofs (`MigrationsProofs`)

For every number of markers: `TypeCorrect`, `FloorCorrect` (`FloorIsHonest`),
`GuardsAreBack` (`GuardsGoBack`). The inductive invariant is `Prefix` (the
recorded versions are `1..Floor`, and the process is at the version above it),
`InPlace` (what each place of the process supposes), `Accounted` (where each
piece of data is: in a table, owed by the process, or in `cut`), `BelowFloor`
(every version up to the floor holds). `MigrateCompletes` is model-checked.


## 7. FilingRun

### State and actions

One company. `row`, `metrics`, `inputs`, `gated` and `score` are what a period
has in `sec_filings`, `fundamental_metrics`, the rule inputs, the gates and
`score_snapshot`, each with the filing and the run that wrote it; `runs` and
`errors` are `analysis_run` and `analysis_run_error`. `proc` is the run: what
it has listed, the filing in hand (`Filing`, always the oldest of the queue:
the loop sorts by date and accession), the done sets it read at its start.

`Lists` and `ListFails` are the listing of a (form, year), `Skip`, `Fetch`,
`NotFound`, `Retry`, `GatewayFails` and `Refused` the loop of `_run_filing`,
`StoreRefused`, `Store`, `RecordMetrics`, `WriteInputs`, `Gate` and
`StoreScore` the commits of `_analyze_one`, `CodeFails` an exception in any of
them, `Interrupt` and `Kill` the two ways a run stops. `ScoreStored` is the
command `score`; its own run row has no date, so it never covers anything, and
is left out. `Pending` is the read-only check, with `CoveredSince` and the
class of the last error.

### Runs

**FilingRun** (1 036 607 states): an annual report, a quarter and a second
original of the same quarter a day later; two runs by hand in metrics-only or
fresh, limited mode; two faults; the checked runs they call for, six at most.
`TypeOK`, `PeriodIsOneFiling`, `ReadsEarlierFilings`, `ScoredIsWhole`,
`PendingLeavesForAReason`, `PendingSettles`. Two periods are needed for one to
read the other; the second original needs a period of its own to collide with;
two faults are one that breaks a run and one that breaks its repetition.

`PendingLeavesForAReason` states the reasons as the code has them, one of which
is no good one: a run whose listing fails in an outage completes, covers the
units it was asked for, and so excuses a filing that failed for the service and
that it never came to (see "Met on the way").

Fairness: the run goes on, and the orchestrator runs it on a yes. Faults are
bounded, so an outage ends. `RunOnYes` is not asked to run for second originals
alone: the run skips them without a row (see "Met on the way").

### Proofs (`FilingRunProofs`)

For any filings, forms, years, modes, waits and faults: `TypeCorrect`;
`PeriodsAreOneFiling`, `EarlierAreRead`, `ScoresAreWhole` and
`PendingLeavesOnlyForAReason`, which state `PeriodIsOneFiling`,
`ReadsEarlierFilings`, `ScoredIsWhole` and `PendingLeavesForAReason`. The
invariant they rest on says where a run is: a filing in hand is the oldest of a
queue that is listed to its end (`FilingInHand`), what the places of
`_analyze_one` have behind them (`Behind`), that the earlier periods a filing
read are still all there are when its metrics are recorded (`ReadIsCurrent`),
and that a run records its filings in the order of the queue
(`RecordedInOrder`). `PendingLeavesForAReason` compares two states, so it also
needs what the log says of a run in progress (`Logged`). `PendingSettles` is
model-checked.


## 8. PriceHistory

### State and actions

One line. A price is its level: for how many splits it is adjusted. Every split
is 2-for-1, so the close ratio of two bars is two to the difference of their
levels, and a split-shaped jump is a difference `SPLIT_RATIOS` knows. The
gateway adjusts its history for a split at some time after the ex-date
(`Adjust`), quant records it at any time (`RecordSplit`), and neither waits for
the other. A run is `Begin`, `Fetch`, `Reconcile`, perhaps `Refetch`, then
`Refuse` or `Store`, then `Derive`; `FetchFails`, `NoData` (with `Derive` and
`RecordNoData` after it), `RefetchEmpty` and `Dies` are its faults. `Pending` is
the check. `waived` is a history of the seams: it says of each two consecutive
bars whether the last run to write one of them was told to leave what it made.

### Runs

**PriceHistory** (898 499 states): four sessions, splits on the second and
the third, two runs by hand with any window, a fault, the checked runs beside
them. `TypeOK`, `OneBasis`, `RefetchedOnce`, `SeriesSettles`. Two splits make
it possible that the gateway has adjusted for one only, that quant knows the
other only, and that a refetch meets a second one in between. Runs by hand and
faults stop before the last session, a bound that stands for "no more of them"
in `SeriesSettles`.

`OneBasis` excepts what the operator asked the last writer of a seam for
(`IsWaived`): jumps accepted by `--allow-split-jumps`, or an `--end` before the
later bar, stored already, which `load_daily_candles` then does not read. A run
that adds bars after the stored ones is never excused: it reads both sides of
the seam it makes. Fairness: sessions close,
the gateway adjusts at last, the checked run runs and goes on.

### Proofs (`PriceHistoryProofs`)

For any sessions, splits, modes and bounds: `TypeCorrect`, `SeriesOnOneBasis`
(`OneBasis`), `RefetchIsOnce` (`RefetchedOnce`). The invariant adds what a run
looks at (`RunInv`): its end is a closed session, its candles lie before it,
and after a refetch they cover every stored bar up to it. Neighbours in the
stored series after a write are then neighbours in the series that was judged,
or lie on both sides of the run's end (waived), or were neighbours before, with
the answer they had. `OneBasis`
needs no fact about the gateway: it holds for any candles. `SeriesSettles` is
model-checked.


## 9. BasingPoints

### State and actions

One name of the satellite, under `stop_rule` bp3 or bp4. `bars` are its
sessions so far, `held` says whether it is in the weights the overlay is given
(the NOGUARD twin's), `distance` is the stop distance in force, `due` that a
session closed and the overlay has not looked at it yet. `machine` is the
`BasingPointState`; what the code stores of the candidate's bar is read from
`bars` here, at the session the machine keeps.

`Close` is a session: a bar or none, the reference, and at a decision date a
new distance. Then one branch of `_layer1_bp`: `Establish` or `Reseed`, `Scan`
for each session of the window and `Enter`; `FailOpen`, `StaysOut`, `Drop`,
`Miss`, `Advance`. `TakeIn` is the body of the loop of `_initial_machine` and
of `advance`: the two are the same rules in the same order. Prices are whole
numbers and a stop is in hundredths, so 1.03 and `1 - d` are exact; the code
computes in floating point.

### Runs

**BasingPoints** (2 705 249 states): six sessions, five shapes of bar and none,
decisions at the third and the fifth, two distances, a window of four sessions,
two away days. `TypeOK`, `MachineAsDefined`, `EntersUnderTheMarket`. Six
sessions are enough for a Basing Point before an entry, one after it, a stop,
and a re-entry whose window starts later than the first one's. A behaviour ends
with its sessions, so deadlock is not checked.

`MachineAsDefined` says what the rules mean, without an order of steps: the
running high is the highest high since the window's start, the candidate the
first of the lowest lows, after the last Basing Point, of the sessions without a
new high, its away days those sessions that lie above its bar, the peak the
running high as of the last session without a new one, used once a close is 3%
above it; a Basing Point has its three away days or is the low of a session
rule 4 saw. Two defects of this code that backtests brought to light
(`docs/backtest_v4_experiments_plan.md:173,178`, another order of the rules and
one date for all sessions of the window) were violations of it.

`EntersUnderTheMarket`: the fallback is there so that no name enters stopped.

### Proofs (`BasingPointsProofs`)

For any bars, windows, decision dates, distances and away days: `TypeCorrect`,
`MachineIsAsDefined` (`MachineAsDefined`), `EntryUnderTheMarket`
(`EntersUnderTheMarket`) and `StopsRise` (`StopsOnlyMoveUp`). The invariant is
`Bounded` (what a machine points at it has taken in) and `InStep` (a machine is
built within its session; a live one took in every bar but the one of a session
that is due). `Taken` says what a session does to each field, and
`MachineAsDefined` then follows part by part (`HighGoesOn`, `PeakGoesOn`,
`PointsGoOn`) for one session more, wherever it is taken in.


## 10. What the models leave out

- Text: command lines, output tails, evidence, reasons, timestamps. The run id
  captured from a step's output is not modelled.
- The interrupt by Ctrl-C of a CLI run of the orchestrator: `execute_run`
  treats it as it treats a stop, without the handler that can be re-entered.
- uvicorn: `RequestsDrained` is how the code relies on it.
- The two immutability triggers on the position tables refuse what `Newer`
  refuses before them. Weight equality up to `WEIGHT_EPS` is equality.
- Rows written before stints existed, except vetoes without an expiry.
- Two cycle processes at once, two migrates at once, two runs of one agent at
  once: excluded by the run lock for the runs it starts, and by the
  documentation for the ones started by hand.
- FilingRun: units outside the check's window, successions, the exit of a
  company, label overrides, counters, the quality backfill.
- PriceHistory: `price_window` and its resume set (nothing reads the table),
  exits, imported (Tiingo) lines, renames, the run log.
- BasingPoints: the kl rule, the table of stop distances and the price it is
  read at, events and alerts; layers 2 to 4 of GUARD and the engine's orders.
- Migrations: the foreign-key check by which m014 may refuse, columns, the
  contents of views.

Not modelled at all, with the reason for each in `PROJECT.json`: what computes
without state (rules, scores, statements and metrics, optimizers, statistics,
reports), read-only routers, calls to a language model, one-off repairs, and
the parts of the plan below that are not built yet.


## 11. Met on the way

Disagreements with a comment or a doc, and behaviours a reader may not expect,
that are not runs of their own.

Orchestrator:

- SIGTERM at the head of the loop, outside the inner `try`, finishes the run as
  'completed' with its remaining steps still pending
  (`api/orchestrator.py:1198`; `docs/api.md:222-224` promises `not_run`).
- A graceful exit between the clearing of the active slot (`:924`) and the
  final write leaves the row 'running' until the next run reconciles it
  (`api/app.py:26-27` says a stop ends the run).
- A step is recorded 'completed' in one commit and the reason why no run id was
  captured in the next (`:1005-1007`). When the second fails, the handler of the
  failed write (`:1221-1225`) rewrites the step to 'failed' and ends the run.
- A SIGTERM after a step's outcome was recorded and before the loop moves on
  rewrites the outcome to `not_run` (`:1233`): the handler asks whether the row
  says 'running'.
- An API stop between the 'running' row and the spawn records `failed` on a
  step that never started, where `docs/api.md:222-224` says `not_run`.

Cycle:

- A selection refused by the writer has already committed its construction
  (`cycle/orchestrator.py:917-919` says it records nothing).
- A run that leaves the book unchanged leaves no `valid_from`: an earlier date
  is accepted after it, and the book as of the later date is then not what its
  ranking selected (`Marked` in PositionBook).
- An undo writes weights of an earlier attempt when the run that opened a stint
  died before its ranking was written: the open stints are then a mixture of two
  books (`Sound` in PositionBook).
- A date that empties the book leaves nothing for the guard to see
  (`cycle/writers.py:64`; its docstring at 61-62 counts on a trace): a run of an
  earlier date is accepted, and its stints overlap those the empty book closed
  (`late` in PositionBook).
- `undo-run` accepts runs that were in order (`cycle/repair.py:62`;
  `repair.py:18-19` and `docs/cycle.md:408-409` are about backdated ones).
- A resume of a reverted run skips every step and reports 'completed'.
- `last_seen_on` is not taken back by a same-date rewrite that no longer hits
  (`kg_schema/ddl.py:171` calls it the date last confirmed); and the reset
  puts it back to `raised_on`, so dates before `--from` may be accepted that
  the guard refused before.
- The help of `--allow-backdated-veto` (`cycle/cli.py:67-72`) speaks of a
  write; the code evaluates and writes nothing.
- With no cut in force and `s = 1`, the GUARD arm of the backtest is said to
  hold what NOGUARD holds and never to rebalance on its own
  (`docs/backtest.md:149-152`, `cycle/backtest/engine.py:16-18`). After an
  alert clears, its order executes a session later at the twin's older
  weights, so the arm trades every session until the next decision executes.

- A new high does not discard a pending candidate low
  (`cycle/guard/basing.py:222-227`; its docstring, 11-12, takes the lowest low
  strictly after the running high). The experiments plan declares the reading.
- A stopped name that is wanted again without a bar in its window gets a
  machine with a stop of zero, where a first entry waits without one
  (`cycle/guard/core.py:461-471` and 496-499; `basing.py:402` says "exactly as a
  first entry"). So does an entry whose last bar is older than 21 sessions.

Migrations:

- A kill after m009's script and before its record loses the veto hits, and
  the next migrate records version 9 over the empty table
  (`kg_schema/migrations.py:714`; its docstring, 7-8, says that each migration
  runs inside one transaction and records its version on success).

Filings:

- A run dated after the check's date, whose newer error the check does not
  read (`pending.py:137-138`), still counts as coverage, so a filing that run
  failed on is stale, not pending (`docs/api.md:278`).
- `_covers` does not know whether the later run listed the unit ("A later
  completed run listed this unit"): one whose listing failed still excuses it.
- A filing that failed once and was then completed by a metrics-only run is
  stale for the plain check, though `pending.py:10-12` calls it pending.
- After a kill between the metrics and the rule inputs, a later run keeps the
  metric rows and may write inputs and a score computed from newer values.
- The metrics-only done set is keyed on the rule inputs, which are written
  before the gates; a filing killed in between is done without its gates, and
  `score` scores it.
- A second original of a period that is scored is skipped without a row and
  stays pending for ever.

Prices:

- `_refetch_full` does not catch the gateway's failure: a second call that
  fails ends the whole batch (`pricing_agent/pipeline.py:440`; 274 says that a
  dead ticker must not stop the batch).
- A kill between the bars and the observations of a session already observed,
  or a run that stores without `--observations`, leaves stale observations the
  check does not see until the next session.
- A `split_jump` error is not cleared by a later success, so a refused line may
  hide a later split from the check until the next session; missing earlier
  sessions are not looked for.
- `SPLIT_RATIOS` lacks 3:2, 5:1 and 20:1: for those only
  `has_pre_split_rows` sees the change of basis.


## 12. Plan

Done: the orchestrator and its abstract ledger, the position books, the veto
stints, the checkpointed runner, the migrations, one company's filings, one
line's prices, one name's stop machine; type correctness and the main safety
results of each of them.

Next, in this order:

1. The rest of GUARD: layer 2's trims and cooldowns, the drawdown throttle, and
   the arm beside its NOGUARD twin (`cycle/guard/core.py`,
   `cycle/backtest/engine.py`).
2. Book construction as operators, against a reference definition of "fully
   invested within caps where the caps allow it".
3. `QuantRuns`: immutable models under versions, books chained to their
   predecessors; the quality gates and their re-gating.
4. `CycleRun` composed with `PositionBook` and `VetoStints` over their tables.
5. Proofs about what item 4 composes.


## 13. What stays with TLC

Every invariant and every action property of the runs is stated by a theorem,
some under a hypothesis on the constants that the section of the module names
and justifies. Left to TLC:

- The five liveness properties: `StopEndsRun`, `LockIsFreed`,
  `MigrateCompletes`, `PendingSettles` and `SeriesSettles`. They rest on
  fairness, and so on ENABLED, which the proof system installed here does not
  reason about.
- What a violation run refutes: a counterexample is TLC's to find.

Comparisons with a recursion over dates (`VetoesAreMeant`,
`BookIsReplayOfRuns`) are proved although the library's induction theorems
cannot be instantiated here: the recursions are functions of a date, and
the induction is over an explicit set of dates, by well-ordering.

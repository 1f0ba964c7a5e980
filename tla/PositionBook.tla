---------------------------- MODULE PositionBook ----------------------------
(***************************************************************************)
(* The position books of the selection cycle: portfolio_position, written  *)
(* by `cycle select`, and portfolio_position_replay, written by `cycle     *)
(* backfill`, with what surrounds a write: the out-of-order guards, the    *)
(* recorded construction, cycle_ranking, the positions checkpoint, crashes *)
(* between any two commits, `undo-run` and `backfill --force`.             *)
(*                                                                         *)
(* src/src/cycle/writers.py, replay.py, repair.py, state.py and the        *)
(* positions step of orchestrator.py.  A run is known by its kind and its  *)
(* date (cycle_run is UNIQUE on the two), so a stint's opening run is the  *)
(* run of its valid_from.  The cycle assumes one writer at a time: at most *)
(* one attempt is in progress, and it may die at every commit.             *)
(***************************************************************************)
EXTENDS Integers, FiniteSets

CONSTANTS
    Assets,
    LastDate,     \* cycle dates are 1..LastDate
    MaxWeight,    \* weights are units of the invested total
    Kinds,        \* of {"live", "replay"}
    Settings,     \* construction settings (N, scheme, caps, preferences)
    Targets,      \* Targets[d][s]: the books build_book may return at d under s
    Overrides,    \* values --allow-backdated, which select alone has, may take
    Undoable      \* dates whose live run the operator may ask to undo

Dates == 1..LastDate
Open  == LastDate + 1                    \* valid_to IS NULL
Book  == [Assets -> 0..MaxWeight]        \* 0: not held

ASSUME BookAssumption ==
    /\ LastDate \in Nat \ {0} /\ MaxWeight \in Nat \ {0}
    /\ Kinds \subseteq {"live", "replay"}
    /\ Targets \in [Dates -> [Settings -> SUBSET Book]]
    /\ Overrides \subseteq BOOLEAN
    /\ Undoable \subseteq Dates
    /\ "none" \notin Settings

VARIABLES
    book,       \* the two tables: book[k][a][f] is the stint of a with valid_from f
    run,        \* cycle_run, its positions checkpoint and its cycle_ranking
    attempt,    \* the process running the positions step
    synced,     \* history: the book a run last wrote
    late,       \* history: a table was written at a date before one that was emptied
    reweighted  \* history: an undo gave an open stint another weight than it had

history == <<synced, late, reweighted>>
vars == <<book, run, attempt, history>>

-----------------------------------------------------------------------------
(* Types *)

\* A row; to = 0 says that (a, f) has none.
Stints  == [to : 0..Open, weight : 0..MaxWeight, cost : 0..LastDate]
NoStint == [to |-> 0, weight |-> 0, cost |-> 0]
Nothing == [a \in Assets |-> 0]

Statuses == {"none", "running", "completed", "failed", "reverted"}
Runs == [status : Statuses, construction : Settings \cup {"none"},
         done : BOOLEAN, ranking : Book]
NoRun == [status |-> "none", construction |-> "none", done |-> FALSE, ranking |-> Nothing]

Places == {"check", "record", "sync", "rank", "checkpoint", "finish"}
Idle == [at |-> "idle", kind |-> "live", date |-> 1, setting |-> "none",
         targets |-> Nothing, override |-> FALSE]
Attempts == [at : Places, kind : Kinds, date : Dates, setting : Settings,
             targets : Book, override : BOOLEAN]

Rows == [Assets -> [Dates -> Stints]]

Writes  == [wrote : BOOLEAN, targets : Book]
NoWrite == [wrote |-> FALSE, targets |-> Nothing]

TypeOK ==
    /\ book \in [Kinds -> Rows]
    /\ run \in [Kinds -> [Dates -> Runs]]
    /\ attempt \in Attempts \cup {Idle}
    /\ synced \in [Kinds -> [Dates -> Writes]]
    /\ late \in [Kinds -> BOOLEAN]
    /\ reweighted \in BOOLEAN

Init ==
    /\ book = [k \in Kinds |-> [a \in Assets |-> [f \in Dates |-> NoStint]]]
    /\ run = [k \in Kinds |-> [d \in Dates |-> NoRun]]
    /\ attempt = Idle
    /\ synced = [k \in Kinds |-> [d \in Dates |-> NoWrite]]
    /\ late = [k \in Kinds |-> FALSE]
    /\ reweighted = FALSE

-----------------------------------------------------------------------------
(* Reading and writing one table *)

Exists(b, a, f) == b[a][f].to # 0
IsOpen(b, a, f) == b[a][f].to = Open
Covers(b, a, f, e) == Exists(b, a, f) /\ f <= e /\ e < b[a][f].to

\* The point-in-time view: what the book holds of a on date e.
Held(b, a, e) ==
    LET rows  == {f \in Dates : Covers(b, a, f, e)}
        stint == IF rows = {} THEN NoStint ELSE b[a][CHOOSE f \in rows : TRUE]
    IN  [weight |-> stint.weight, cost |-> stint.cost]
HeldWeight(b, a, e) == Held(b, a, e).weight

\* Older than the latest valid_from, over every row, open or closed.
OutOfOrder(b, d) == \E a \in Assets, f \in Dates : Exists(b, a, f) /\ f > d

\* open_rows is a dictionary by asset: of two open rows of one it keeps one.
Current(b, a, f) == IsOpen(b, a, f) /\ f = CHOOSE g \in Dates : IsOpen(b, a, g)

\* An open position started later: refused even with --allow-backdated.
Newer(b, d) == \E a \in Assets, f \in Dates : Current(b, a, f) /\ f > d

\* A target that needs a new row from d: a name not held, or one held since
\* before d under another weight.
Opens(b, d, t, a) ==
    /\ t[a] # 0
    /\ \A f \in Dates : Current(b, a, f) => f # d /\ b[a][f].weight # t[a]

\* UNIQUE (asset_id, valid_from).
Collides(b, d, t) == \E a \in Assets : Opens(b, d, t, a) /\ Exists(b, a, d)

\* A held name keeps its cost basis; a new one costs the close of d.
CostBasis(b, d, a) ==
    IF \E f \in Dates : IsOpen(b, a, f)
    THEN b[a][CHOOSE f \in Dates : IsOpen(b, a, f)].cost
    ELSE d

\* Mutant: the update in place of any held stint, as before new stints were opened.
ContinuedInPlace(stint, f, d, t) ==
    IF t = 0 THEN [stint EXCEPT !.to = d] ELSE [stint EXCEPT !.weight = t]

\* What happens to an open stint: closed, or kept (in place on its own first day).
Continued(stint, f, d, t) ==
    IF t = stint.weight /\ t # 0 THEN stint
    ELSE IF f = d /\ t # 0 THEN [stint EXCEPT !.weight = t]
    ELSE [stint EXCEPT !.to = d]

\* sync_positions and sync_replay_positions: one transaction on one table.
Sync(b, d, t) ==
    [a \in Assets |-> [f \in Dates |->
        IF Current(b, a, f) THEN Continued(b[a][f], f, d, t[a])
        ELSE IF f = d /\ Opens(b, d, t, a)
             THEN [to |-> Open, weight |-> t[a], cost |-> CostBasis(b, d, a)]
             ELSE b[a][f]]]

\* Mutant: reopens every stint closed on d.
UndoneReopensAll(b, d, chosen) ==
    [a \in Assets |-> [f \in Dates |->
        IF Exists(b, a, f) /\ b[a][f].to = d /\ f < d THEN [b[a][f] EXCEPT !.to = Open]
        ELSE IF Exists(b, a, f) /\ f = d THEN [b[a][f] EXCEPT !.to = d]
        ELSE b[a][f]]]

\* plan_undo and apply_undo of the run of d: void what it opened, reopen what it
\* closed before its start, and give every other open stint the weight its own
\* run chose.
Undone(b, d, chosen) ==
    [a \in Assets |-> [f \in Dates |->
        LET stint    == b[a][f]
            reopened == stint.to = d /\ f > d
        IN  IF ~Exists(b, a, f) THEN stint
            ELSE IF f = d THEN [stint EXCEPT !.to = d]
            ELSE IF stint.to # Open /\ ~reopened THEN stint
            ELSE [stint EXCEPT !.to = Open,
                               !.weight = IF chosen[f][a] # 0 THEN chosen[f][a] ELSE @]]]

\* Stints end on d and none that lasts starts: its run emptied the book.  Nothing
\* open tells a later sync that d has been written, and MAX(valid_from) does only
\* if a stint both started and ended on d.
Emptied(b, d) ==
    /\ \E a \in Assets, f \in Dates : Exists(b, a, f) /\ b[a][f].to = d
    /\ \A a \in Assets : Exists(b, a, d) => b[a][d].to = d

\* Mutant: stints closed from d on stay closed.
ResetKeepsClosed(b, d) ==
    [a \in Assets |-> [f \in Dates |-> IF f >= d THEN NoStint ELSE b[a][f]]]

\* reset_replay_range on the replay table.
ResetFrom(b, d) ==
    [a \in Assets |-> [f \in Dates |->
        IF f >= d THEN NoStint
        ELSE IF Exists(b, a, f) /\ b[a][f].to >= d THEN [b[a][f] EXCEPT !.to = Open]
        ELSE b[a][f]]]

-----------------------------------------------------------------------------
(* The positions step of a run *)

Row   == run[attempt.kind][attempt.date]
Table   == book[attempt.kind]

SetRow(k, d, row) == run' = [run EXCEPT ![k] = [@ EXCEPT ![d] = row]]
SetRun(row) == SetRow(attempt.kind, attempt.date, row)
SetStatus(k, d, status) == SetRow(k, d, [run[k][d] EXCEPT !.status = status])

Goto(place) == attempt' = [attempt EXCEPT !.at = place]

\* The exception reaches _run: the checkpoint and the run are marked failed.
Fail ==
    /\ SetRun([Row EXCEPT !.status = "failed"])
    /\ attempt' = Idle
    /\ UNCHANGED <<book, history>>

\* check_construction, before open_cycle.
SameConstruction(k, d, s) == run[k][d].construction \in {"none", s}

\* _run up to the positions step: the run row is opened or resumed, and the book
\* is built.  The targets may differ from an earlier attempt's: prices move.
Begin(k, d, s) ==
    /\ attempt = Idle
    /\ SameConstruction(k, d, s)
    /\ ~run[k][d].done
    /\ SetStatus(k, d, "running")
    /\ \E t \in Targets[d][s], o \in IF k = "live" THEN Overrides ELSE {FALSE} :
         attempt' = [at |-> "check", kind |-> k, date |-> d, setting |-> s,
                     targets |-> t, override |-> o]
    /\ UNCHANGED <<book, history>>

\* A run whose checkpoints are all done: every step is skipped.
BeginDone(k, d, s) ==
    /\ attempt = Idle
    /\ SameConstruction(k, d, s)
    /\ run[k][d].done
    /\ SetStatus(k, d, "completed")
    /\ UNCHANGED <<book, attempt, history>>

\* The replay guard is never overridden.
Refused ==
    /\ OutOfOrder(Table, attempt.date)
    /\ attempt.kind = "live" => ~attempt.override

GuardPasses ==
    /\ attempt.at = "check" /\ ~Refused
    /\ Goto("record")
    /\ UNCHANGED <<book, run, history>>

GuardRefuses ==
    /\ attempt.at = "check" /\ Refused
    /\ Fail

\* merge_params(_book_record), committed before the write.
Record ==
    /\ attempt.at = "record"
    /\ SetRun([Row EXCEPT !.construction = attempt.setting])
    /\ Goto("sync")
    /\ UNCHANGED <<book, history>>

SyncRefused ==
    \/ Newer(Table, attempt.date)
    \/ Collides(Table, attempt.date, attempt.targets)

SyncRaises ==
    /\ attempt.at = "sync" /\ SyncRefused
    /\ Fail

SyncPositions ==
    /\ attempt.at = "sync" /\ ~SyncRefused
    /\ book' = [book EXCEPT ![attempt.kind] = Sync(Table, attempt.date, attempt.targets)]
    /\ synced' = [synced EXCEPT ![attempt.kind] =
                    [@ EXCEPT ![attempt.date] =
                       [wrote |-> TRUE, targets |-> attempt.targets]]]
    /\ late' = [late EXCEPT ![attempt.kind] =
                  @ \/ \E e \in Dates : e > attempt.date /\ Emptied(Table, e)]
    /\ Goto("rank")
    /\ UNCHANGED <<run, reweighted>>

\* Mutant: the selection is not reflected back.
RankUnwritten ==
    /\ attempt.at = "rank"
    /\ Goto("checkpoint")
    /\ UNCHANGED <<book, run, history>>

\* write_ranking with selected and target_weight.
WriteRanking ==
    /\ attempt.at = "rank"
    /\ SetRun([Row EXCEPT !.ranking = attempt.targets])
    /\ Goto("checkpoint")
    /\ UNCHANGED <<book, history>>

Checkpoint ==
    /\ attempt.at = "checkpoint"
    /\ SetRun([Row EXCEPT !.done = TRUE])
    /\ Goto("finish")
    /\ UNCHANGED <<book, history>>

\* Mutant: the process does not return.
FinishHangs ==
    /\ attempt.at = "finish"
    /\ SetRun([Row EXCEPT !.status = "completed"])
    /\ Goto("finished")
    /\ UNCHANGED <<book, history>>

FinishCycle ==
    /\ attempt.at = "finish"
    /\ SetRun([Row EXCEPT !.status = "completed"])
    /\ attempt' = Idle
    /\ UNCHANGED <<book, history>>

\* Any other exception between two commits (build_book raising, a locked
\* database, an interrupt).
Abort == attempt # Idle /\ Fail

\* The process dies: the run stays 'running'.
Crash ==
    /\ attempt # Idle
    /\ attempt' = Idle
    /\ UNCHANGED <<book, run, history>>

-----------------------------------------------------------------------------
(* The operator's commands *)

\* plan_undo: a live run older than a stint another run opened.
CanUndo(d) ==
    /\ run["live"][d].status # "none"
    /\ \E a \in Assets, f \in Dates : Exists(book["live"], a, f) /\ f > d

\* The undo of d changes the weight of a stint it leaves open: the ranking of the
\* stint's run is an earlier attempt's, as the last one died before write_ranking.
Reweighs(d) ==
    \E a \in Assets, f \in Dates \ {d} :
        /\ IsOpen(book["live"], a, f)
        /\ run["live"][f].ranking[a] \notin {0, book["live"][a][f].weight}

\* undo-run --apply.
Undo(d) ==
    /\ "live" \in Kinds /\ attempt = Idle
    /\ CanUndo(d)
    /\ book' = [book EXCEPT !["live"] =
                  Undone(@, d, [f \in Dates |-> run["live"][f].ranking])]
    /\ SetStatus("live", d, "reverted")
    /\ reweighted' = (reweighted \/ Reweighs(d))
    /\ UNCHANGED <<attempt, synced, late>>

\* backfill --force --from d.
ResetReplayRange(d) ==
    /\ "replay" \in Kinds /\ attempt = Idle
    /\ book' = [book EXCEPT !["replay"] = ResetFrom(@, d)]
    /\ run' = [run EXCEPT !["replay"] =
                 [f \in Dates |-> IF f >= d THEN NoRun ELSE @[f]]]
    /\ synced' = [synced EXCEPT !["replay"] =
                    [f \in Dates |-> IF f >= d THEN NoWrite ELSE @[f]]]
    /\ late' = [late EXCEPT !["replay"] = @ /\ d # 1]
    /\ UNCHANGED <<attempt, reweighted>>

Next ==
    \/ \E k \in Kinds, d \in Dates, s \in Settings : Begin(k, d, s) \/ BeginDone(k, d, s)
    \/ GuardPasses \/ GuardRefuses \/ Record
    \/ SyncRaises \/ SyncPositions
    \/ WriteRanking \/ Checkpoint \/ FinishCycle
    \/ Abort \/ Crash
    \/ \E d \in Undoable : Undo(d)
    \/ \E d \in Dates : ResetReplayRange(d)

Spec == Init /\ [][Next]_vars

-----------------------------------------------------------------------------
(* Properties *)

\* A stint ends on or after its start and by the start of the asset's next one:
\* no asset is held twice on a date, and at most one of its stints is open.
InOrder(b) ==
    \A a \in Assets, f \in Dates :
        Exists(b, a, f) =>
            /\ f <= b[a][f].to
            /\ \A g \in Dates : f < g /\ Exists(b, a, g) => b[a][f].to <= g

\* No order of runs, crashes, resumes, undos and resets makes two stints of an
\* asset overlap (the out-of-order guards, sync_positions' refusal, undo-run), with
\* one exception: a run for a date before one that a run emptied, which the guards,
\* reading only valid_from, let through.
StintsNeverOverlap == \A k \in Kinds : ~late[k] => InOrder(book[k])

\* A run at d changes nothing a book held before d, weight and cost basis included:
\* "every weight the book ever held stays on record".
HistoryIsImmutable ==
    [][\A k \in Kinds, a \in Assets, e \in Dates :
         attempt # Idle /\ e < attempt.date =>
            Held(book[k], a, e)' = Held(book[k], a, e)]_vars

\* A stint starts or ends on d: the table shows that its book was written at d.
\* A run that changes nothing leaves no such trace.
Marked(b, d) ==
    \E a \in Assets :
        \/ Exists(b, a, d)
        \/ \E f \in Dates : Exists(b, a, f) /\ b[a][f].to = d

\* undo-run gives every open stint the weight its run's ranking records; when that
\* is an earlier attempt's, the open stints become a mixture of two books.
Sound(k) == ~late[k] /\ (k = "live" => ~reweighted)

\* What the run of d put in its table and in its ranking are books of the settings
\* it recorded.
OfRecordedSettings(k, d) ==
    LET books == UNION {Targets[d][s] : s \in {run[k][d].construction} \cap Settings}
    IN  /\ synced[k][d].wrote => synced[k][d].targets \in books
        /\ run[k][d].ranking \in books \cup {Nothing}

\* undo-run voided nothing a run up to d chose.
NothingUndone(k, d) ==
    \A a \in Assets, f \in Dates :
        f <= d /\ Exists(book[k], a, f) /\ synced[k][f].targets[a] # 0 =>
            f < book[k][a][f].to

\* A run whose positions are done is the book of its date: the point-in-time view
\* of the table on that date is the selection its ranking records, if the run
\* left a trace in the table, none was late, and on the live book as long as
\* undo-run reweights nothing and voids nothing chosen by that date.  A resume
\* never mixes the books of two settings.
AsOfBookIsSelected ==
    \A k \in Kinds, d \in Dates :
        /\ OfRecordedSettings(k, d)
        /\ /\ run[k][d].done /\ Marked(book[k], d)
           /\ Sound(k) /\ (k = "live" => NothingUndone(k, d))
           => \A a \in Assets : HeldWeight(book[k], a, d) = run[k][d].ranking[a]

\* What a backfill of the same dates in one go, from an empty table, would write.
Rebuilt(k) ==
    LET upTo[n \in 0..LastDate] ==
          IF n = 0 THEN [a \in Assets |-> [f \in Dates |-> NoStint]]
          ELSE IF synced[k][n].wrote THEN Sync(upTo[n - 1], n, synced[k][n].targets)
          ELSE upTo[n - 1]
    IN  upTo[LastDate]

\* Crashes, resumes and --force leave the weights a clean backfill would have left,
\* if every date that was written left a trace and none was late: replay is
\* path-dependent, and its path is the dates in order.
BookIsReplayOfRuns ==
    \A k \in Kinds \ {"live"} :
        Sound(k) /\ (\A d \in Dates : synced[k][d].wrote => Marked(book[k], d)) =>
            \A a \in Assets, e \in Dates :
                HeldWeight(book[k], a, e) = HeldWeight(Rebuilt(k), a, e)

\* --force leaves the book before d as it was, and no date from d on is refused.
ResetClearsTheWay ==
    [][\A d \in Dates : ResetReplayRange(d) =>
         \A a \in Assets, e \in Dates :
            IF e < d THEN Held(book["replay"], a, e)' = Held(book["replay"], a, e)
            ELSE /\ ~OutOfOrder(book["replay"], e)'
                 /\ ~Exists(book["replay"], a, e)']_vars

\* undo-run takes out of the live book what its run opened and nothing else, on any
\* date, as long as it reweights nothing: what the run closed stays closed.
UndoTakesOneRun ==
    [][\A d \in Dates : Undo(d) /\ Sound("live")' =>
         \A a \in Assets, e \in Dates :
            Held(book["live"], a, e)' =
                IF Covers(book["live"], a, d, e) THEN [weight |-> 0, cost |-> 0]
                ELSE Held(book["live"], a, e)]_vars
=============================================================================

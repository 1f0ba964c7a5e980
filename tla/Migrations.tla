----------------------------- MODULE Migrations -----------------------------
(***************************************************************************)
(* The schema of one database: kg_schema.ensure, which every agent runs    *)
(* before it writes, and `migrate`, which adds the rebuilds of m001 on.    *)
(* A process is killed between any two commits, a migration refuses the    *)
(* stored rows, a database starts at any floor with any of its tables      *)
(* already at their target shape.                                          *)
(*                                                                         *)
(* src/src/kg_schema/migrations.py, __init__.py, availability.py and       *)
(* identity.py.  One process at a time ("the other repos quiesced").  One  *)
(* create_schema is one commit here, the reading that leaves the fewest    *)
(* places to die in; it commits what was pending before it.  A table that  *)
(* does not exist counts as at its target, as the guards say: `ensure` or  *)
(* an agent creates it there.                                              *)
(***************************************************************************)
EXTENDS Integers, FiniteSets

CONSTANT Last    \* the highest migration; those above 14 are markers

ASSUME LastAssumption == Last \in Nat /\ Last >= 14

Versions == 1..Last
Guards   == {"availability", "identity"}

\* REBUILD_GUARDS, and those whose script drops the compatibility view.
Rebuilds == {2, 3, 4, 5, 6, 7, 9, 14}
DropView == {5, 6, 14}

VARIABLES
    recorded,   \* schema_version
    shape,      \* whether a rebuild's table is at its target shape
    compat,     \* fundamental_snapshot: a legacy table, the view, neither
    hits,       \* veto rows: per date, stints, or in no table
    blends,     \* recorded blends that say QUANTITATIVE
    ids,        \* whether sqlite_sequence is past every reference
    undated,    \* rows without available_at: none, to backfill, or of undated filings
    alien,      \* stored filings break the identity invariant
    guards,     \* the triggers that are in place
    proc,       \* the process
    cut         \* history: what a kill cut after its table was rebuilt

data == <<compat, hits, blends, ids, undated, alien>>
vars == <<recorded, shape, data, guards, proc, cut>>

Idle  == [at |-> "idle"]
Dead  == [at |-> "killed"]
Down  == {Idle, Dead}
Procs == [kind : {"agent", "migrate"}, version : 0..Last, did : BOOLEAN, had : BOOLEAN,
          at : {"ensure", "stamp", "write", "open", "work", "rebuild", "view",
                "record", "finally"}]

TypeOK ==
    /\ recorded \subseteq Versions
    /\ shape \in [Rebuilds -> BOOLEAN]
    /\ compat \in {"none", "table", "view", "gone"}
    /\ hits \in {"none", "dates", "stints", "nowhere"}
    /\ blends \in {"none", "old", "renamed"}
    /\ ids \in {"reused", "seeded"}
    /\ undated \in {"none", "fillable", "unfillable"}
    /\ alien \in BOOLEAN
    /\ guards \subseteq Guards
    /\ proc \in Procs \cup Down
    /\ cut \subseteq {"compat", "hits", "blends"}

-----------------------------------------------------------------------------
(* Databases to start from *)

\* current_version
Floor == IF recorded = {} THEN 0
         ELSE CHOOSE v \in recorded : \A w \in recorded : w <= v

AtCurrentShape == \A v \in Rebuilds : shape[v]

\* A database of an older release: what its floor names is done, the rest may
\* be in the old form or not be there.
Init ==
    /\ \E f \in 0..Last : recorded = 1..f
    /\ shape \in {s \in [Rebuilds -> BOOLEAN] : \A v \in Rebuilds \cap recorded : s[v]}
    /\ compat \in IF ~shape[4] THEN {"table"}
                  ELSE IF 4 \in recorded THEN {"none", "view"} ELSE {"none"}
    /\ hits \in IF shape[9] THEN {"none", "stints"} ELSE {"none", "dates"}
    /\ blends \in IF shape[6] THEN {"none", "renamed"} ELSE {"none", "old"}
    /\ ids = IF shape[14] THEN "seeded" ELSE "reused"
    /\ undated \in IF 8 \in recorded \/ shape[14] THEN {"none"}
                   ELSE {"none", "fillable", "unfillable"}
    /\ alien \in IF 12 \in recorded \/ shape[14] THEN {FALSE} ELSE BOOLEAN
    /\ guards \in {{}, Guards} /\ (8 \in recorded => guards = Guards)
    /\ proc = Idle
    /\ cut = {}

-----------------------------------------------------------------------------
(* ensure *)

At(place) == proc \notin Down /\ proc.at = place

Begin(kind) ==
    /\ proc \in Down
    /\ proc' = [kind |-> kind, version |-> 0, did |-> FALSE, had |-> FALSE, at |-> "ensure"]
    /\ UNCHANGED <<recorded, shape, data, guards, cut>>

AfterEnsure == [proc EXCEPT !.at = IF proc.kind = "agent" THEN "write" ELSE "open"]

\* The additive tables, columns and both sets of triggers; stamp_current_shape
\* follows on an empty floor at the current shape.
Ensure ==
    /\ At("ensure")
    /\ guards' = Guards
    /\ proc' = IF Floor = 0 /\ AtCurrentShape
               THEN [proc EXCEPT !.at = "stamp"] ELSE AfterEnsure
    /\ UNCHANGED <<recorded, shape, data, cut>>

\* stamp_current_shape records the versions one by one, each with its commit.
Stamp ==
    /\ At("stamp")
    /\ recorded' = recorded \cup {Floor + 1}
    /\ proc' = IF Floor + 1 = Last THEN AfterEnsure ELSE proc
    /\ UNCHANGED <<shape, data, guards, cut>>

\* A filing is stored: a trigger that is missing lets a wrong one in.
AgentWrites ==
    /\ At("write")
    /\ undated' \in {undated} \cup
                    IF "availability" \notin guards /\ undated = "none" THEN {"fillable"} ELSE {}
    /\ alien' \in {alien} \cup IF "identity" \notin guards THEN {TRUE} ELSE {}
    /\ proc' = Idle
    /\ UNCHANGED <<recorded, shape, compat, hits, blends, ids, guards, cut>>

-----------------------------------------------------------------------------
(* apply_migrations *)

\* Mutant: the recorded version runs again.
PendingAgain == IF Floor = 0 THEN 1 ELSE Floor

\* The first version above the recorded floor.
FirstPending == Floor + 1

Open ==
    /\ At("open")
    /\ IF FirstPending > Last
       THEN proc' = Idle /\ UNCHANGED guards
       ELSE /\ guards' = {}
            /\ proc' = [proc EXCEPT !.at = "work", !.version = FirstPending]
    /\ UNCHANGED <<recorded, shape, data, cut>>

Working(v) == At("work") /\ proc.version = v

\* A marker or additive migration; a rebuild whose guard says there is nothing
\* to do; m007, whose merge and index commit with its record.
Skip ==
    /\ At("work") /\ proc.version \notin {8, 12}
    /\ proc.version \in Rebuilds \ {7} => shape[proc.version]
    /\ proc' = [proc EXCEPT !.at = "record"]
    /\ UNCHANGED <<recorded, shape, data, guards, cut>>

\* m014 drops the views and commits before it rebuilds.
DropViews ==
    /\ Working(14) /\ ~shape[14]
    /\ compat' = IF compat = "view" THEN "gone" ELSE compat
    /\ proc' = [proc EXCEPT !.at = "rebuild", !.had = compat = "view"]
    /\ UNCHANGED <<recorded, shape, hits, blends, ids, undated, alien, guards, cut>>

RebuildRunTables ==
    /\ At("rebuild")
    /\ shape' = [shape EXCEPT ![14] = TRUE]
    /\ proc' = [proc EXCEPT !.at = "view", !.did = TRUE]
    /\ UNCHANGED <<recorded, data, guards, cut>>

\* m002-m006: the script that replaces the table commits by itself.
RebuildTable(v) ==
    /\ v \in {2, 3, 4, 5, 6} /\ Working(v) /\ ~shape[v]
    /\ shape' = [shape EXCEPT ![v] = TRUE]
    /\ compat' = IF v = 4 THEN "view"
                 ELSE IF v \in DropView /\ compat = "view" THEN "gone" ELSE compat
    /\ proc' = [proc EXCEPT !.did = TRUE, !.had = v \in DropView /\ compat = "view",
                            !.at = IF v \in DropView /\ compat = "view"
                                   THEN "view" ELSE "record"]
    /\ UNCHANGED <<recorded, hits, blends, ids, undated, alien, guards, cut>>

\* m009: so does its script, while the hits it read are in memory.
RebuildVetoes ==
    /\ Working(9) /\ ~shape[9]
    /\ shape' = [shape EXCEPT ![9] = TRUE]
    /\ hits' = IF hits = "dates" THEN "nowhere" ELSE hits
    /\ proc' = [proc EXCEPT !.did = TRUE, !.at = "record"]
    /\ UNCHANGED <<recorded, compat, blends, ids, undated, alien, guards, cut>>

Renamed == IF proc.version = 6 /\ proc.did /\ blends = "old" THEN "renamed" ELSE blends

\* The view goes back; m006's UPDATEs are pending then and commit with it, and
\* m014's finally puts the triggers back.
RestoreView ==
    /\ At("view")
    /\ compat' = IF proc.had THEN "view" ELSE compat
    /\ blends' = Renamed
    /\ guards' = IF proc.version = 14 THEN Guards ELSE guards
    /\ proc' = [proc EXCEPT !.at = "record"]
    /\ UNCHANGED <<recorded, shape, hits, ids, undated, alien, cut>>

\* m008 and m012 put their triggers in place and refuse rows that break them.
Guarded(v, guard, refused) ==
    /\ Working(v)
    /\ guards' = IF refused /\ guard = "identity" THEN guards ELSE guards \cup {guard}
    /\ proc' = [proc EXCEPT !.at = IF refused THEN "finally" ELSE "record"]
    /\ UNCHANGED <<recorded, shape, data, cut>>

AvailableAt    == Guarded(8, "availability", undated = "unfillable")
FilingIdentity == Guarded(12, "identity", alien)

\* Mutant: the sequence is seeded with the rebuild only.
SeededWhenRebuilt == IF proc.did THEN "seeded" ELSE ids

\* m014 seeds whether it rebuilt or not.
SeedSequence == "seeded"

\* Mutant: the loop goes past the last migration.
OneTooFar == [proc EXCEPT !.at = "work", !.version = @ + 1, !.did = FALSE, !.had = FALSE]

AfterRecord ==
    IF proc.version = Last THEN [proc EXCEPT !.at = "finally"]
    ELSE [proc EXCEPT !.at = "work", !.version = @ + 1, !.did = FALSE, !.had = FALSE]

\* record's commit takes what the migration left pending with it.
Record ==
    /\ At("record")
    /\ recorded' = recorded \cup {proc.version}
    /\ shape' = IF proc.version = 7 THEN [shape EXCEPT ![7] = TRUE] ELSE shape
    /\ blends' = Renamed
    /\ undated' = IF proc.version = 8 THEN "none" ELSE undated
    /\ hits' = IF proc.version = 9 /\ proc.did /\ hits = "nowhere" THEN "stints" ELSE hits
    /\ ids' = IF proc.version = 14 THEN SeedSequence ELSE ids
    /\ proc' = AfterRecord
    /\ UNCHANGED <<compat, alien, guards, cut>>

\* Mutant: the triggers go back only when every migration ran.
GuardsIfApplied == IF Floor = Last THEN Guards ELSE guards

GuardsOfFinally == Guards

Finally ==
    /\ At("finally")
    /\ guards' = GuardsOfFinally
    /\ proc' = Idle
    /\ UNCHANGED <<recorded, shape, data, cut>>

-----------------------------------------------------------------------------
(* The environment *)

\* The process dies: what it had in memory or pending is gone.
Kill ==
    /\ proc \notin Down
    /\ proc' = Dead
    /\ cut' = cut \cup (IF compat = "gone" THEN {"compat"} ELSE {})
                  \cup (IF hits = "nowhere" THEN {"hits"} ELSE {})
                  \cup (IF proc.did /\ proc.version = 6 /\ blends = "old" THEN {"blends"} ELSE {})
    /\ UNCHANGED <<recorded, shape, data, guards>>

\* "Fix or remove them first": the rows a migration refused.
FixRows ==
    /\ proc \in Down /\ (undated = "unfillable" \/ alien)
    /\ undated' = IF undated = "unfillable" THEN "fillable" ELSE undated
    /\ alien' = FALSE
    /\ UNCHANGED <<recorded, shape, compat, hits, blends, ids, guards, proc, cut>>

Step ==
    \/ Ensure \/ Stamp \/ AgentWrites \/ Open \/ Skip \/ DropViews \/ RebuildRunTables
    \/ \E v \in Rebuilds : RebuildTable(v)
    \/ RebuildVetoes \/ RestoreView \/ AvailableAt \/ FilingIdentity \/ Record \/ Finally

Next == \E kind \in {"agent", "migrate"} : Begin(kind)
        \/ Step \/ Kill \/ FixRows

\* A process that runs goes on; the operator migrates and fixes what is refused.
Fairness == WF_vars(Step) /\ SF_vars(Begin("migrate")) /\ SF_vars(FixRows)

Spec == Init /\ [][Next]_vars /\ Fairness

-----------------------------------------------------------------------------
(* Properties *)

\* What a database at a version promises to the code that asserts that floor.
Holds(v) ==
    /\ v \in Rebuilds => shape[v]
    /\ v = 4 => compat \notin {"table", "gone"}
    /\ v = 6 => blends # "old"
    /\ v = 8 => undated = "none"
    /\ v = 9 => hits \notin {"dates", "nowhere"}
    /\ v = 12 => ~alien
    /\ v = 14 => ids = "seeded"

\* What a kill took, for good.
Cut(v) == \/ v = 4 /\ "compat" \in cut
          \/ v = 6 /\ "blends" \in cut
          \/ v = 9 /\ "hits" \in cut

\* The compatibility view is away while a process that dropped it rebuilds.
Owed(v) == v = 4 /\ proc \notin Down /\ proc.had

\* The recorded floor is honest: every version up to it was done, or stamped on
\* a database that needed nothing, and no later write or migration undid it, but
\* for what a kill cut between the commit of a rebuilt table and the rest of its
\* migration.
FloorIsHonest == \A v \in 1..Floor : Holds(v) \/ Cut(v) \/ Owed(v)

\* A process that ends by itself, a refusal included, leaves every trigger in
\* place for the writers to come.
GuardsGoBack == [][proc # Idle /\ proc' = Idle => guards' = Guards]_vars

\* Once kills stop, migrating again gets every version recorded and the
\* triggers in place, whatever the earlier kills left half done.
MigrateCompletes ==
    <>[][~Kill]_vars => <>[](recorded = Versions /\ guards = Guards)
=============================================================================

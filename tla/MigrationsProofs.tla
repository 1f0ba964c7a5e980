-------------------------- MODULE MigrationsProofs --------------------------
(***************************************************************************)
(* Type correctness of Migrations, that the recorded floor is honest and   *)
(* that the triggers go back, for any number of migrations.                *)
(***************************************************************************)
EXTENDS Migrations, TLAPS

Up(v, places) == proc \notin Down /\ proc.version = v /\ proc.at \in places

-----------------------------------------------------------------------------
(* The inductive invariant *)

\* The recorded versions are those up to the floor.
Prefix == Floor \in 0..Last /\ recorded = 1..Floor

\* Where a process is, and what it has done there.
InPlace ==
    proc \notin Down =>
        /\ proc.at \in {"stamp", "write", "open"} => guards = Guards
        /\ proc.at = "stamp" =>
              /\ Floor < Last /\ AtCurrentShape
              /\ ids = "seeded" /\ undated = "none" /\ ~alien
        /\ proc.at \in {"work", "rebuild", "view", "record"} => proc.version = Floor + 1
        /\ proc.at = "rebuild" => proc.version = 14
        /\ proc.at = "view" => proc.version \in DropView /\ shape[proc.version]
        /\ proc.at = "record" =>
              /\ proc.version \in Rebuilds \ {7} => shape[proc.version]
              /\ proc.version = 12 => ~alien

\* What a rebuilt table leaves behind: nothing, or what a kill cut, or what the
\* process still holds.
Accounted ==
    /\ shape[4] => compat # "table"
    /\ hits = "dates" => ~shape[9]
    /\ hits = "nowhere" => "hits" \in cut \/ (Up(9, {"record"}) /\ proc.did)
    /\ blends = "old" /\ shape[6] => "blends" \in cut \/ (Up(6, {"view", "record"}) /\ proc.did)
    /\ compat = "gone" =>
          "compat" \in cut \/ (proc \notin Down /\ proc.had /\ proc.at \in {"rebuild", "view"})

\* What holds below the floor, and on a database that was never migrated.
BelowFloor ==
    /\ \A v \in Rebuilds : v <= Floor => shape[v]
    /\ 8 <= Floor => undated = "none"
    /\ 12 <= Floor => ~alien
    /\ 14 <= Floor => ids = "seeded"
    /\ Floor = 0 /\ shape[14] => ids = "seeded" /\ undated = "none" /\ ~alien

IInv == TypeOK /\ Prefix /\ InPlace /\ Accounted /\ BelowFloor

-----------------------------------------------------------------------------
(* The floor *)

\* Of the versions up to one, that one is the floor.
LEMMA FloorOf ==
    ASSUME NEW f \in 0..Last, recorded = 1..f PROVE Floor = f
<1>1. f \in Nat /\ Last \in Nat
  BY LastAssumption
<1>2. CASE f = 0
  BY <1>1, <1>2 DEF Floor
<1>3. CASE f # 0
  <2>1. f \in recorded /\ \A w \in recorded : w <= f
    BY <1>1, <1>3
  <2>2. \A v \in recorded : (\A w \in recorded : w <= v) => v = f
    BY <1>1, <2>1
  <2>3. Floor = CHOOSE v \in recorded : \A w \in recorded : w <= v
    BY <2>1 DEF Floor
  <2> HIDE DEF Floor
  <2> QED BY <2>1, <2>2, <2>3
<1> QED BY <1>2, <1>3

\* A step that records nothing keeps the floor; one that records the next
\* version raises it by one.
LEMMA FloorSame == recorded' = recorded => Floor' = Floor
BY DEF Floor

LEMMA FloorNext ==
    ASSUME Prefix, Floor < Last, recorded' = recorded \cup {Floor + 1}
    PROVE  Prefix' /\ Floor' = Floor + 1
<1> DEFINE f == Floor + 1
<1>1. f \in 0..Last /\ Floor \in Nat
  BY LastAssumption DEF Prefix
<1>2. recorded' = 1..f
  BY <1>1 DEF Prefix
<1>3. ASSUME NEW g \in 0..Last, recorded' = 1..g PROVE Floor' = g
  <2>1. g \in Nat /\ Last \in Nat
    BY LastAssumption
  <2>2. CASE g = 0
    BY <1>3, <2>1, <2>2 DEF Floor
  <2>3. CASE g # 0
    <3>1. g \in recorded' /\ \A w \in recorded' : w <= g
      BY <1>3, <2>1, <2>3
    <3>2. \A v \in recorded' : (\A w \in recorded' : w <= v) => v = g
      BY <1>3, <2>1, <3>1
    <3>3. Floor' = CHOOSE v \in recorded' : \A w \in recorded' : w <= v
      BY <3>1 DEF Floor
    <3> HIDE DEF Floor
    <3> QED BY <3>1, <3>2, <3>3
  <2> QED BY <2>2, <2>3
<1>4. Floor' = f
  <2> HIDE DEF f
  <2> QED BY <1>1, <1>2, <1>3
<1> HIDE DEF f
<1>5. Prefix'
  BY <1>1, <1>2, <1>4 DEF Prefix
<1> QED BY <1>4, <1>5 DEF f

-----------------------------------------------------------------------------
(* Type correctness *)

\* A process that moves keeps its type.
LEMMA ProcMoves ==
    ASSUME proc \in Procs
    PROVE  /\ \A place \in {"ensure", "stamp", "write", "open", "work", "rebuild", "view",
                            "record", "finally"} :
                 [proc EXCEPT !.at = place] \in Procs
           /\ \A d, h \in BOOLEAN :
                 \A place \in {"work", "rebuild", "view", "record"} :
                    /\ [proc EXCEPT !.at = place, !.had = h] \in Procs
                    /\ [proc EXCEPT !.at = place, !.did = d] \in Procs
                    /\ [proc EXCEPT !.did = d, !.at = place] \in Procs
                    /\ [proc EXCEPT !.did = d, !.had = h, !.at = place] \in Procs
           /\ \A v \in 0..Last : [proc EXCEPT !.at = "work", !.version = v] \in Procs
           /\ \A v \in 0..Last : [proc EXCEPT !.at = "work", !.version = v,
                                              !.did = FALSE, !.had = FALSE] \in Procs
BY DEF Procs

\* The parts of a process that is up.
LEMMA ProcFacts ==
    ASSUME TypeOK, proc \notin Down
    PROVE  proc \in Procs /\ proc.version \in 0..Last /\ proc.did \in BOOLEAN /\ proc.had \in BOOLEAN
BY DEF TypeOK, Procs

\* Every variable keeps its type.
LEMMA TypeStep == TypeOK /\ Prefix /\ InPlace /\ [Next]_vars => TypeOK'
<1> SUFFICES ASSUME TypeOK, Prefix, InPlace, [Next]_vars PROVE TypeOK'
  OBVIOUS
<1>0. Last \in Nat /\ Last >= 14 /\ Floor \in Nat /\ Floor <= Last /\ 7 \in Rebuilds /\ 14 \in Rebuilds
  BY LastAssumption DEF Prefix, Rebuilds
<1>1. ASSUME NEW kind \in {"agent", "migrate"}, Begin(kind) PROVE TypeOK'
  BY <1>0, <1>1 DEF Begin, TypeOK, data, Procs
<1>2. CASE Ensure
  <2>1. proc' \in Procs
    BY <1>2, ProcFacts, ProcMoves DEF Ensure, At, AfterEnsure
  <2> QED BY <1>2, <2>1 DEF Ensure, TypeOK, data
<1>3. CASE Stamp
  <2>1. proc' \in Procs
    BY <1>3, ProcFacts, ProcMoves DEF Stamp, At, AfterEnsure
  <2>2. Floor < Last
    BY <1>3 DEF Stamp, At, InPlace
  <2>3. Floor + 1 \in Versions
    BY <1>0, <2>2 DEF Versions
  <2> QED BY <1>3, <2>1, <2>3 DEF Stamp, TypeOK, data
<1>4. CASE AgentWrites
  BY <1>4 DEF AgentWrites, TypeOK, Down
<1>5. CASE Open
  <2>1. CASE FirstPending > Last
    BY <1>5, <2>1 DEF Open, TypeOK, data, Down
  <2>2. CASE ~(FirstPending > Last)
    <3>1. FirstPending \in 0..Last
      BY <1>0, <2>2 DEF FirstPending
    <3>2. proc' \in Procs
      BY <1>5, <2>2, <3>1, ProcFacts, ProcMoves DEF Open, At
    <3> QED BY <1>5, <2>2, <3>2 DEF Open, TypeOK, data
  <2> QED BY <2>1, <2>2
<1>6. CASE Skip
  <2>1. proc' \in Procs
    BY <1>6, ProcFacts, ProcMoves DEF Skip, At
  <2> QED BY <1>6, <2>1 DEF Skip, TypeOK, data
<1>7. CASE DropViews
  <2>1. proc' \in Procs
    BY <1>7, ProcFacts, ProcMoves DEF DropViews, Working, At
  <2> QED BY <1>7, <2>1 DEF DropViews, TypeOK
<1>8. CASE RebuildRunTables
  <2>1. proc' \in Procs
    BY <1>8, ProcFacts, ProcMoves DEF RebuildRunTables, At
  <2> QED BY <1>0, <1>8, <2>1 DEF RebuildRunTables, TypeOK, data
<1>9. ASSUME NEW v \in Rebuilds, RebuildTable(v) PROVE TypeOK'
  <2>1. proc' \in Procs
    BY <1>9, ProcFacts, ProcMoves DEF RebuildTable, Working, At
  <2> QED BY <1>0, <1>9, <2>1 DEF RebuildTable, TypeOK
<1>10. CASE RebuildVetoes
  <2>1. proc' \in Procs
    BY <1>10, ProcFacts, ProcMoves DEF RebuildVetoes, Working, At
  <2> QED BY <1>0, <1>10, <2>1 DEF RebuildVetoes, TypeOK, Rebuilds
<1>11. CASE RestoreView
  <2>1. proc' \in Procs
    BY <1>11, ProcFacts, ProcMoves DEF RestoreView, At
  <2> QED BY <1>11, <2>1 DEF RestoreView, Renamed, TypeOK
<1>12. CASE AvailableAt \/ FilingIdentity
  <2>1. proc' \in Procs
    BY <1>12, ProcFacts, ProcMoves DEF AvailableAt, FilingIdentity, Guarded, Working, At
  <2>2. guards' \subseteq Guards
    BY <1>12 DEF AvailableAt, FilingIdentity, Guarded, Guards, TypeOK
  <2> QED BY <1>12, <2>1, <2>2 DEF AvailableAt, FilingIdentity, Guarded, TypeOK, data
<1>13. CASE Record
  <2>1. proc \notin Down /\ proc.version = Floor + 1 /\ proc.version \in 0..Last
    BY <1>13, ProcFacts DEF Record, At, InPlace
  <2>2. proc.version \in Versions
    BY <1>0, <2>1 DEF Versions
  <2>3. proc' \in Procs
    <3>1. proc.version # Last => proc.version + 1 \in 0..Last
      BY <1>0, <2>1
    <3> QED BY <1>13, <2>1, <3>1, ProcFacts, ProcMoves DEF Record, AfterRecord
  <2> QED BY <1>0, <1>13, <2>2, <2>3 DEF Record, Renamed, SeedSequence, TypeOK
<1>14. CASE Finally
  BY <1>14 DEF Finally, GuardsOfFinally, TypeOK, data, Down
<1>15. CASE Kill
  BY <1>15 DEF Kill, TypeOK, data, Down
<1>16. CASE FixRows
  BY <1>16 DEF FixRows, TypeOK
<1>17. CASE UNCHANGED vars
  BY <1>17 DEF vars, data, TypeOK
<1> QED
  BY <1>1, <1>2, <1>3, <1>4, <1>5, <1>6, <1>7, <1>8, <1>9, <1>10, <1>11, <1>12, <1>13, <1>14,
     <1>15, <1>16, <1>17 DEF Next, Step

-----------------------------------------------------------------------------
(* The invariant's other parts *)

\* Steps other than these two record nothing.
LEMMA RecordsOnly ==
    ASSUME [Next]_vars, ~Stamp, ~Record PROVE recorded' = recorded
BY DEF Next, Step, Begin, Ensure, AgentWrites, Open, Skip, DropViews, RebuildRunTables,
       RebuildTable, RebuildVetoes, RestoreView, AvailableAt, FilingIdentity, Guarded, Finally,
       Kill, FixRows, vars

\* What the two steps record is the version after the floor.
LEMMA RecordsNext ==
    ASSUME TypeOK, Prefix, InPlace, Stamp \/ Record
    PROVE  Floor < Last /\ recorded' = recorded \cup {Floor + 1}
<1>1. CASE Stamp
  BY <1>1 DEF Stamp, At, InPlace
<1>2. CASE Record
  <2>1. proc \notin Down /\ proc.version = Floor + 1 /\ proc.version \in 0..Last
    BY <1>2, ProcFacts DEF Record, At, InPlace
  <2>2. Floor < Last
    BY <2>1, LastAssumption DEF Prefix
  <2> QED BY <1>2, <2>1, <2>2 DEF Record
<1> QED BY <1>1, <1>2

\* The recorded versions stay those up to the floor.
LEMMA PrefixStep ==
    ASSUME TypeOK, Prefix, InPlace, [Next]_vars
    PROVE  /\ Prefix'
           /\ \/ Floor' = Floor /\ ~Stamp /\ ~Record
              \/ Floor' = Floor + 1 /\ Floor < Last /\ (Stamp \/ Record)
<1>1. CASE Stamp \/ Record
  BY <1>1, RecordsNext, FloorNext
<1>2. CASE ~Stamp /\ ~Record
  BY <1>2, RecordsOnly, FloorSame DEF Prefix
<1> QED BY <1>1, <1>2

\* A process does what its place says it did.
LEMMA InPlaceStep ==
    TypeOK /\ Prefix /\ InPlace /\ BelowFloor /\ [Next]_vars => InPlace'
<1> SUFFICES ASSUME TypeOK, Prefix, InPlace, BelowFloor, [Next]_vars PROVE InPlace'
  OBVIOUS
<1> USE DEF AtCurrentShape
<1>0. Last \in Nat /\ Last >= 14 /\ Floor \in Nat /\ Floor <= Last
  BY LastAssumption DEF Prefix
<1>00. \/ Floor' = Floor /\ ~Stamp /\ ~Record
       \/ Floor' = Floor + 1 /\ Floor < Last /\ (Stamp \/ Record)
  BY PrefixStep
<1>1. ASSUME NEW kind \in {"agent", "migrate"}, Begin(kind) PROVE InPlace'
  BY <1>1 DEF Begin, InPlace
<1>2. CASE Ensure
  <2>1. proc \in Procs /\ Floor' = Floor
    BY <1>2, ProcFacts, FloorSame DEF Ensure, At
  <2>2. proc'.at \in {"stamp", "write", "open"} /\ guards' = Guards
    BY <1>2, <2>1 DEF Ensure, AfterEnsure, Procs
  <2>3. proc'.at = "stamp" => Floor = 0 /\ \A v \in Rebuilds : shape[v]
    BY <1>2, <2>1 DEF Ensure, AfterEnsure, Procs
  <2>4. 14 \in Rebuilds
    BY DEF Rebuilds
  <2> QED BY <1>0, <1>2, <2>1, <2>2, <2>3, <2>4 DEF Ensure, InPlace, BelowFloor, data
<1>3. CASE Stamp
  <2>1. proc \in Procs /\ proc \notin Down /\ proc.at = "stamp" /\ Floor' = Floor + 1
    BY <1>0, <1>00, <1>3, ProcFacts DEF Stamp, At
  <2>2. \/ proc' = proc /\ Floor + 1 # Last
        \/ proc'.at \in {"write", "open"}
    BY <1>3, <2>1 DEF Stamp, AfterEnsure, Procs
  <2> QED BY <1>0, <1>00, <1>3, <2>1, <2>2 DEF Stamp, InPlace, data
<1>4. CASE AgentWrites \/ Finally \/ Kill
  BY <1>4 DEF AgentWrites, Finally, Kill, InPlace, Down
<1>5. CASE Open
  <2>1. proc \in Procs /\ Floor' = Floor
    BY <1>5, ProcFacts, FloorSame DEF Open, At
  <2>2. proc' = Idle \/ (proc'.at = "work" /\ proc'.version = Floor + 1)
    BY <1>5, <2>1 DEF Open, FirstPending, Procs
  <2> QED BY <2>1, <2>2 DEF InPlace, Down
<1>6. CASE Skip
  <2>1. /\ proc \in Procs /\ proc \notin Down /\ proc.at = "work" /\ Floor' = Floor
        /\ shape' = shape /\ alien' = alien
    BY <1>6, ProcFacts, FloorSame DEF Skip, At, data
  <2>2. proc'.at = "record" /\ proc'.version = proc.version
    BY <1>6, <2>1 DEF Skip, Procs
  <2> QED BY <1>6, <2>1, <2>2 DEF Skip, InPlace
<1>7. CASE DropViews
  <2>1. proc \in Procs /\ proc \notin Down /\ proc.at = "work" /\ proc.version = 14 /\ Floor' = Floor
    BY <1>7, ProcFacts, FloorSame DEF DropViews, Working, At
  <2>2. proc'.at = "rebuild" /\ proc'.version = proc.version
    BY <1>7, <2>1 DEF DropViews, Procs
  <2> QED BY <1>7, <2>1, <2>2 DEF InPlace
<1>8. CASE RebuildRunTables
  <2>1. proc \in Procs /\ proc \notin Down /\ proc.at = "rebuild" /\ Floor' = Floor
    BY <1>8, ProcFacts, FloorSame DEF RebuildRunTables, At
  <2>2. proc'.at = "view" /\ proc'.version = proc.version
    BY <1>8, <2>1 DEF RebuildRunTables, Procs
  <2> QED BY <1>8, <2>1, <2>2 DEF RebuildRunTables, InPlace, DropView, Rebuilds, TypeOK
<1>9. ASSUME NEW v \in Rebuilds, RebuildTable(v) PROVE InPlace'
  <2>1. /\ proc \in Procs /\ proc \notin Down /\ proc.at = "work" /\ proc.version = v
        /\ Floor' = Floor /\ v \in {2, 3, 4, 5, 6}
    BY <1>9, ProcFacts, FloorSame DEF RebuildTable, Working, At
  <2>2. /\ proc'.version = proc.version
        /\ \/ proc'.at = "record"
           \/ proc'.at = "view" /\ v \in DropView
    BY <1>9, <2>1 DEF RebuildTable, Procs
  <2>3. shape' \in [Rebuilds -> BOOLEAN] /\ shape'[v]
    BY <1>9 DEF RebuildTable, TypeOK
  <2> QED BY <2>1, <2>2, <2>3 DEF InPlace
<1>10. CASE RebuildVetoes
  <2>1. /\ proc \in Procs /\ proc \notin Down /\ proc.at = "work" /\ proc.version = 9
        /\ Floor' = Floor /\ 9 \in Rebuilds
    BY <1>10, ProcFacts, FloorSame DEF RebuildVetoes, Working, At, Rebuilds
  <2>2. proc'.version = proc.version /\ proc'.at = "record"
    BY <1>10, <2>1 DEF RebuildVetoes, Procs
  <2>3. shape'[9]
    BY <1>10, <2>1 DEF RebuildVetoes, TypeOK
  <2> QED BY <2>1, <2>2, <2>3 DEF InPlace
<1>11. CASE RestoreView
  <2>1. /\ proc \in Procs /\ proc \notin Down /\ proc.at = "view" /\ Floor' = Floor
        /\ shape' = shape
    BY <1>11, ProcFacts, FloorSame DEF RestoreView, At
  <2>2. proc'.version = proc.version /\ proc'.at = "record"
    BY <1>11, <2>1 DEF RestoreView, Procs
  <2> QED BY <2>1, <2>2 DEF InPlace, DropView
<1>12. ASSUME NEW v \in {8, 12}, NEW guard \in Guards, NEW refused,
              Guarded(v, guard, refused), v = 12 => (refused <=> alien)
       PROVE  InPlace'
  <2>1. /\ proc \in Procs /\ proc \notin Down /\ proc.at = "work" /\ proc.version = v
        /\ Floor' = Floor /\ alien' = alien /\ v \notin Rebuilds
    BY <1>12, ProcFacts, FloorSame DEF Guarded, Working, At, data, Rebuilds
  <2>2. /\ proc'.version = proc.version
        /\ proc'.at = "finally" \/ (proc'.at = "record" /\ ~refused)
    BY <1>12, <2>1 DEF Guarded, Procs
  <2> QED BY <1>12, <2>1, <2>2 DEF InPlace
<1>13. CASE Record
  <2>1. proc \in Procs /\ proc \notin Down /\ proc.version = Floor + 1 /\ Floor' = Floor + 1
    BY <1>0, <1>00, <1>13, ProcFacts DEF Record, At, InPlace
  <2>2. proc'.at = "finally" \/ (proc'.at = "work" /\ proc'.version = proc.version + 1)
    BY <1>13, <2>1 DEF Record, AfterRecord, Procs
  <2> QED BY <2>1, <2>2 DEF InPlace
<1>14. CASE FixRows
  BY <1>14, FloorSame DEF FixRows, InPlace
<1>15. CASE UNCHANGED vars
  BY <1>15, FloorSame DEF vars, data, InPlace
<1>16. AvailableAt => InPlace'
  BY <1>12 DEF AvailableAt, Guards
<1>17. FilingIdentity => InPlace'
  BY <1>12 DEF FilingIdentity, Guards
<1> QED
  BY <1>1, <1>2, <1>3, <1>4, <1>5, <1>6, <1>7, <1>8, <1>9, <1>10, <1>11, <1>13, <1>14, <1>15,
     <1>16, <1>17 DEF Next, Step

\* A rebuilt table changes its own shape only.
LEMMA ShapeElse ==
    ASSUME shape \in [Rebuilds -> BOOLEAN], NEW r \in Rebuilds,
           shape' = [shape EXCEPT ![r] = TRUE]
    PROVE  \A w \in Rebuilds : shape'[w] = IF w = r THEN TRUE ELSE shape[w]
OBVIOUS

\* What a rebuilt table left behind stays accounted for.
LEMMA AccountedStep ==
    TypeOK /\ Prefix /\ InPlace /\ Accounted /\ [Next]_vars => Accounted'
<1> SUFFICES ASSUME TypeOK, Prefix, InPlace, Accounted, [Next]_vars PROVE Accounted'
  OBVIOUS
<1>0. {4, 6, 9, 14} \subseteq Rebuilds
  BY DEF Rebuilds
\* A process that goes on with the same version keeps what it holds.
<1>1. ASSUME NEW kind \in {"agent", "migrate"}, Begin(kind) PROVE Accounted'
  BY <1>1 DEF Begin, Accounted, Up, Down, Dead, Idle, data
<1>2. CASE Ensure \/ Stamp
  <2>1. proc \in Procs /\ proc \notin Down /\ proc.at \in {"ensure", "stamp"}
    BY <1>2, ProcFacts DEF Ensure, Stamp, At
  <2> QED BY <1>2, <2>1 DEF Ensure, Stamp, Accounted, Up, data
<1>3. CASE AgentWrites \/ Open
  <2>1. proc \in Procs /\ proc \notin Down /\ proc.at \in {"write", "open"}
    BY <1>3, ProcFacts DEF AgentWrites, Open, At
  <2> QED BY <1>3, <2>1 DEF AgentWrites, Open, Accounted, Up, data
<1>4. CASE Skip \/ AvailableAt \/ FilingIdentity
  <2>1. proc \in Procs /\ proc \notin Down /\ proc.at = "work"
    BY <1>4, ProcFacts DEF Skip, AvailableAt, FilingIdentity, Guarded, Working, At
  <2> QED BY <1>4, <2>1 DEF Skip, AvailableAt, FilingIdentity, Guarded, Accounted, Up, data
<1>5. CASE DropViews
  <2>1. proc \in Procs /\ proc \notin Down /\ proc.at = "work" /\ proc.version = 14
    BY <1>5, ProcFacts DEF DropViews, Working, At
  <2>2. proc' \in Procs /\ proc' \notin Down /\ proc'.at = "rebuild" /\ (proc'.had <=> compat = "view")
    BY <1>5, <2>1 DEF DropViews, Procs, Down, Idle, Dead
  <2> QED BY <1>5, <2>1, <2>2 DEF DropViews, Accounted, Up
<1>6. CASE RebuildRunTables
  <2>1. proc \in Procs /\ proc \notin Down /\ proc.at = "rebuild" /\ proc.version = 14
    BY <1>6, ProcFacts DEF RebuildRunTables, At, InPlace
  <2>2. proc'.had = proc.had /\ proc'.at = "view" /\ proc' \notin Down
    BY <1>6, <2>1 DEF RebuildRunTables, Procs, Down, Idle, Dead
  <2>3. \A v \in {4, 6, 9} : shape'[v] = shape[v]
    <3>1. shape' = [shape EXCEPT ![14] = TRUE] /\ shape \in [Rebuilds -> BOOLEAN]
      BY <1>6 DEF RebuildRunTables, TypeOK
    <3>2. 14 \in Rebuilds /\ {4, 6, 9} \subseteq Rebuilds
      BY DEF Rebuilds
    <3>3. \A w \in Rebuilds : shape'[w] = IF w = 14 THEN TRUE ELSE shape[w]
      BY <3>1, <3>2, ShapeElse
    <3> SUFFICES ASSUME NEW v \in {4, 6, 9} PROVE shape'[v] = shape[v]
      OBVIOUS
    <3>4. v \in Rebuilds /\ v # 14
      BY <3>2
    <3> QED BY <3>3, <3>4
  <2> QED BY <1>6, <2>1, <2>2, <2>3 DEF RebuildRunTables, Accounted, Up, data
<1>7. ASSUME NEW v \in Rebuilds, RebuildTable(v) PROVE Accounted'
  <2>1. proc \in Procs /\ proc \notin Down /\ proc.at = "work" /\ proc.version = v /\ v \in {2, 3, 4, 5, 6}
    BY <1>7, ProcFacts DEF RebuildTable, Working, At
  <2>2. /\ proc' \notin Down /\ proc'.version = v /\ proc'.did
        /\ proc'.had <=> v \in DropView /\ compat = "view"
        /\ proc'.at = IF v \in DropView /\ compat = "view" THEN "view" ELSE "record"
    BY <1>7, <2>1 DEF RebuildTable, Procs, Down, Idle, Dead
  <2>3. \A w \in {4, 6, 9} : shape'[w] <=> shape[w] \/ w = v
    BY <1>0, <1>7 DEF RebuildTable, TypeOK
  <2>4. shape'[4] => compat' # "table"
    BY <1>7, <2>3 DEF RebuildTable, Accounted
  <2>5. hits' = hits /\ blends' = blends /\ cut' = cut /\ ~Up(9, {"record"}) /\ ~Up(6, {"view", "record"})
    BY <1>7, <2>1 DEF RebuildTable, Up
  <2>6. blends' = "old" /\ shape'[6] => "blends" \in cut' \/ (Up(6, {"view", "record"})' /\ proc'.did)
    BY <2>2, <2>3, <2>5 DEF Accounted, Up
  <2>7. compat' = "gone" =>
          "compat" \in cut' \/ (proc' \notin Down /\ proc'.had /\ proc'.at \in {"rebuild", "view"})
    BY <1>7, <2>1, <2>2, <2>5 DEF RebuildTable, Accounted
  <2> QED BY <2>1, <2>3, <2>4, <2>5, <2>6, <2>7 DEF Accounted, Up
<1>8. CASE RebuildVetoes
  <2>1. proc \in Procs /\ proc \notin Down /\ proc.at = "work" /\ proc.version = 9
    BY <1>8, ProcFacts DEF RebuildVetoes, Working, At
  <2>2. proc' \notin Down /\ proc'.version = 9 /\ proc'.did /\ proc'.at = "record"
    BY <1>8, <2>1 DEF RebuildVetoes, Procs, Down, Idle, Dead
  <2>3. \A w \in {4, 6, 9} : shape'[w] <=> shape[w] \/ w = 9
    BY <1>0, <1>8 DEF RebuildVetoes, TypeOK
  <2> QED BY <1>8, <2>1, <2>2, <2>3 DEF RebuildVetoes, Accounted, Up
<1>9. CASE RestoreView
  <2>1. proc \in Procs /\ proc \notin Down /\ proc.at = "view" /\ proc.version \in DropView
    BY <1>9, ProcFacts DEF RestoreView, At, InPlace
  <2>2. /\ proc' \notin Down /\ proc'.version = proc.version /\ proc'.did = proc.did
        /\ proc'.at = "record"
    BY <1>9, <2>1 DEF RestoreView, Procs, Down, Idle, Dead
  <2> QED BY <1>9, <2>1, <2>2 DEF RestoreView, Renamed, Accounted, Up
<1>10. CASE Record
  <2>1. proc \in Procs /\ proc \notin Down /\ proc.at = "record"
    BY <1>10, ProcFacts DEF Record, At
  <2>2. \A w \in {4, 6, 9} : shape'[w] = shape[w]
    <3>1. /\ shape' = IF proc.version = 7 THEN [shape EXCEPT ![7] = TRUE] ELSE shape
          /\ shape \in [Rebuilds -> BOOLEAN]
      BY <1>10 DEF Record, TypeOK
    <3>2. 7 \in Rebuilds /\ {4, 6, 9} \subseteq Rebuilds
      BY DEF Rebuilds
    <3>3. CASE proc.version = 7
      <4>1. \A w \in Rebuilds : shape'[w] = IF w = 7 THEN TRUE ELSE shape[w]
        BY <3>1, <3>2, <3>3, ShapeElse
      <4> SUFFICES ASSUME NEW v \in {4, 6, 9} PROVE shape'[v] = shape[v]
        OBVIOUS
      <4>2. v \in Rebuilds /\ v # 7
        BY <3>2
      <4> QED BY <4>1, <4>2
    <3>4. CASE proc.version # 7
      BY <3>1, <3>4
    <3> QED BY <3>3, <3>4
  <2>3. hits' = "nowhere" => "hits" \in cut
    BY <1>10, <2>1 DEF Record, Accounted, Up
  <2>4. blends' = "old" /\ shape[6] => "blends" \in cut
    BY <1>10, <2>1 DEF Record, Renamed, Accounted, Up
  <2>5. compat = "gone" => "compat" \in cut
    BY <2>1 DEF Accounted
  <2> QED BY <1>10, <2>2, <2>3, <2>4, <2>5 DEF Record, Accounted, Up
<1>11. CASE Finally
  <2>1. proc \notin Down /\ proc.at = "finally"
    BY <1>11 DEF Finally, At
  <2> QED BY <1>11, <2>1 DEF Finally, Accounted, Up, data
<1>12. CASE Kill
  <2>1. hits = "nowhere" => "hits" \in cut'
    BY <1>12 DEF Kill
  <2>2. blends = "old" /\ shape[6] => "blends" \in cut'
    BY <1>12 DEF Kill, Accounted, Up
  <2>3. compat = "gone" => "compat" \in cut'
    BY <1>12 DEF Kill
  <2> QED BY <1>12, <2>1, <2>2, <2>3 DEF Kill, Accounted, data
<1>13. CASE FixRows
  BY <1>13 DEF FixRows, Accounted, Up
<1>14. CASE UNCHANGED vars
  BY <1>14 DEF vars, data, Accounted, Up
<1> QED
  BY <1>1, <1>2, <1>3, <1>4, <1>5, <1>6, <1>7, <1>8, <1>9, <1>10, <1>11, <1>12, <1>13, <1>14
  DEF Next, Step

\* What holds below the floor goes on holding, and holds of the version recorded.
LEMMA BelowFloorStep ==
    TypeOK /\ Prefix /\ InPlace /\ BelowFloor /\ [Next]_vars => BelowFloor'
<1> SUFFICES ASSUME TypeOK, Prefix, InPlace, BelowFloor, [Next]_vars PROVE BelowFloor'
  OBVIOUS
<1>0. Last \in Nat /\ Last >= 14 /\ Floor \in Nat /\ Floor <= Last /\ Rebuilds \subseteq Nat
  BY LastAssumption DEF Prefix, Rebuilds
<1>1. CASE Stamp
  <2>1. /\ Floor' = Floor + 1 /\ UNCHANGED <<shape, data>>
        /\ proc \notin Down /\ proc.at = "stamp"
    BY <1>0, <1>1, PrefixStep DEF Stamp, At
  <2> QED BY <1>0, <2>1 DEF InPlace, AtCurrentShape, BelowFloor, data
<1>2. CASE Record
  <2>1. /\ Floor' = Floor + 1 /\ proc \notin Down /\ proc.at = "record" /\ proc.version = Floor + 1
    BY <1>0, <1>2, PrefixStep DEF Record, At, InPlace
  <2>2. \A v \in Rebuilds : shape'[v] <=> shape[v] \/ (v = 7 /\ proc.version = 7)
    BY <1>2 DEF Record, TypeOK
  <2>3. ASSUME NEW v \in Rebuilds, v <= Floor + 1 PROVE shape'[v]
    <3>1. v <= Floor \/ v = proc.version
      BY <1>0, <2>1, <2>3
    <3> QED BY <2>1, <2>2, <3>1 DEF InPlace, BelowFloor
  <2>4. 8 <= Floor + 1 => undated' = "none"
    BY <1>0, <1>2, <2>1 DEF Record, BelowFloor
  <2>5. 12 <= Floor + 1 => ~alien'
    BY <1>0, <1>2, <2>1 DEF Record, InPlace, BelowFloor
  <2>6. 14 <= Floor + 1 => ids' = "seeded"
    BY <1>0, <1>2, <2>1 DEF Record, SeedSequence, BelowFloor
  <2>7. Floor + 1 # 0
    BY <1>0
  <2> QED BY <2>1, <2>3, <2>4, <2>5, <2>6, <2>7 DEF BelowFloor
<1>3. ASSUME ~Stamp, ~Record PROVE BelowFloor'
  <2>1. Floor' = Floor
    BY <1>3, PrefixStep
  <2>2. CASE UNCHANGED <<shape, ids, undated, alien>>
    BY <2>1, <2>2 DEF BelowFloor
  <2>3. CASE AgentWrites
    <3>1. guards = Guards
      BY <2>3 DEF AgentWrites, At, InPlace
    <3>2. undated' = undated /\ alien' = alien
      BY <2>3, <3>1 DEF AgentWrites, Guards
    <3> QED BY <2>1, <2>3, <3>2 DEF AgentWrites, BelowFloor
  <2>4. CASE FixRows
    BY <2>1, <2>4 DEF FixRows, BelowFloor
  <2>5. CASE RebuildRunTables
    <3>1. proc \notin Down /\ proc.version = 14 /\ proc.version = Floor + 1
      BY <2>5 DEF RebuildRunTables, At, InPlace
    <3>2. \A v \in Rebuilds : shape[v] => shape'[v]
      BY <2>5 DEF RebuildRunTables, TypeOK
    <3>3. Floor # 0
      BY <1>0, <3>1
    <3> QED BY <1>0, <2>1, <2>5, <3>2, <3>3 DEF RebuildRunTables, BelowFloor, data
  <2>6. ASSUME NEW w \in Rebuilds, RebuildTable(w) PROVE BelowFloor'
    <3>1. \A v \in Rebuilds : shape[v] => shape'[v]
      BY <2>6 DEF RebuildTable, TypeOK
    <3>2. shape'[14] = shape[14]
      <4>1. /\ shape' = [shape EXCEPT ![w] = TRUE]
            /\ shape \in [Rebuilds -> BOOLEAN] /\ w # 14
        BY <2>6 DEF RebuildTable, TypeOK
      <4>2. 14 \in Rebuilds
        BY DEF Rebuilds
      <4> QED BY <4>1, <4>2, ShapeElse
    <3> QED BY <2>1, <2>6, <3>1, <3>2 DEF RebuildTable, BelowFloor
  <2>7. CASE RebuildVetoes
    <3>1. \A v \in Rebuilds : shape[v] => shape'[v]
      BY <2>7 DEF RebuildVetoes, TypeOK
    <3>2. shape'[14] = shape[14]
      BY <2>7 DEF RebuildVetoes, TypeOK, Rebuilds
    <3> QED BY <2>1, <2>7, <3>1, <3>2 DEF RebuildVetoes, BelowFloor
  <2>8. CASE \/ \E kind \in {"agent", "migrate"} : Begin(kind)
             \/ Ensure \/ Open \/ Skip \/ DropViews \/ RestoreView \/ AvailableAt
             \/ FilingIdentity \/ Finally \/ Kill \/ UNCHANGED vars
    BY <2>2, <2>8 DEF Begin, Ensure, Open, Skip, DropViews, RestoreView, AvailableAt,
                      FilingIdentity, Guarded, Finally, Kill, data, vars
  <2> QED BY <1>3, <2>3, <2>4, <2>5, <2>6, <2>7, <2>8 DEF Next, Step
<1> QED BY <1>1, <1>2, <1>3

\* A database of an older release satisfies the invariant.
LEMMA InvInit == Init => IInv
<1> SUFFICES ASSUME Init PROVE IInv
  OBVIOUS
<1>1. PICK f \in 0..Last : recorded = 1..f
  BY DEF Init
<1>2. Floor = f /\ f \in Nat
  BY <1>1, FloorOf
<1>3. Prefix
  BY <1>1, <1>2 DEF Prefix
<1>4. {4, 6, 7, 9, 14} \subseteq Rebuilds /\ Rebuilds \subseteq 2..14
  BY DEF Rebuilds
<1>5. \A v \in Rebuilds : v <= Floor => shape[v]
  BY <1>1, <1>2, <1>4 DEF Init
<1>6. \A v \in 1..14 : v <= Floor => v \in recorded
  BY <1>1, <1>2
<1>7. BelowFloor
  <2>1. f >= 14 => shape[14]
    BY <1>2, <1>4, <1>5
  <2>2. /\ ids = IF shape[14] THEN "seeded" ELSE "reused"
        /\ 8 \in recorded \/ shape[14] => undated = "none"
        /\ 12 \in recorded \/ shape[14] => ~alien
    BY DEF Init
  <2>3. (f >= 8 => 8 \in recorded) /\ (f >= 12 => 12 \in recorded)
    BY <1>1, <1>2
  <2>4. /\ 8 <= Floor => undated = "none"
        /\ 12 <= Floor => ~alien
        /\ 14 <= Floor => ids = "seeded"
        /\ Floor = 0 /\ shape[14] => ids = "seeded" /\ undated = "none" /\ ~alien
    BY <1>2, <2>1, <2>2, <2>3
  <2> QED BY <1>5, <2>4 DEF BelowFloor
<1>8. TypeOK
  <2>1. recorded \subseteq Versions
    BY <1>1, LastAssumption DEF Versions
  <2> QED BY <2>1 DEF Init, TypeOK, Down
<1>9. Accounted
  BY DEF Init, Accounted
<1>10. InPlace
  BY DEF Init, InPlace, Down
<1> QED BY <1>3, <1>7, <1>8, <1>9, <1>10 DEF IInv

\* The invariant is inductive.
LEMMA InvStep == IInv /\ [Next]_vars => IInv'
BY TypeStep, PrefixStep, InPlaceStep, AccountedStep, BelowFloorStep DEF IInv

-----------------------------------------------------------------------------
(* Theorems *)

\* The variables keep their types in every behaviour.
THEOREM TypeCorrect == Spec => []TypeOK
<1>1. IInv => TypeOK
  BY DEF IInv
<1> QED BY <1>1, InvInit, InvStep, PTL DEF Spec

\* The recorded floor never claims what was not done, but for what a kill took
\* between the commit of a rebuilt table and the rest of its migration.
THEOREM FloorCorrect == Spec => []FloorIsHonest
<1>1. IInv => FloorIsHonest
  <2> SUFFICES ASSUME IInv, NEW v \in 1..Floor PROVE Holds(v) \/ Cut(v) \/ Owed(v)
    BY DEF FloorIsHonest
  <2> USE DEF IInv
  <2>1. v \in Nat /\ v <= Floor /\ Floor \in Nat
    BY DEF Prefix
  <2>2. v \in Rebuilds => shape[v]
    BY <2>1 DEF BelowFloor
  <2>3. {4, 6, 9} \subseteq Rebuilds
    BY DEF Rebuilds
  <2>4. CASE v = 4
    BY <2>2, <2>3, <2>4 DEF Accounted, Holds, Cut, Owed
  <2>5. CASE v = 6
    <3>1. ~Up(6, {"view", "record"})
      BY <2>1, <2>5 DEF Up, InPlace
    <3> QED BY <2>2, <2>3, <2>5, <3>1 DEF Accounted, Holds, Cut
  <2>6. CASE v = 9
    <3>1. ~Up(9, {"record"})
      BY <2>1, <2>6 DEF Up, InPlace
    <3> QED BY <2>2, <2>3, <2>6, <3>1 DEF Accounted, Holds, Cut
  <2>7. CASE v \notin {4, 6, 9}
    BY <2>1, <2>2, <2>7 DEF BelowFloor, Holds
  <2> QED BY <2>4, <2>5, <2>6, <2>7
<1> QED BY <1>1, InvInit, InvStep, PTL DEF Spec

\* A process that ends by itself, after a refusal too, leaves the triggers in
\* place for the writers to come.
THEOREM GuardsAreBack == Spec => GuardsGoBack
<1> DEFINE BackNow == proc # Idle /\ proc' = Idle => guards' = Guards
<1>1. IInv /\ [Next]_vars => [BackNow]_vars
  <2> SUFFICES ASSUME IInv, Next, proc # Idle, proc' = Idle PROVE guards' = Guards
    BY DEF vars
  <2> USE DEF IInv
  <2>1. CASE AgentWrites
    BY <2>1 DEF AgentWrites, At, InPlace
  <2>2. CASE Open
    <3>1. proc \in Procs /\ guards = Guards
      BY <2>2, ProcFacts DEF Open, At, InPlace
    <3>2. CASE FirstPending > Last
      BY <2>2, <3>1, <3>2 DEF Open
    <3>3. CASE ~(FirstPending > Last)
      BY <2>2, <3>1, <3>3 DEF Open, Idle, Procs
    <3> QED BY <3>2, <3>3
  <2>3. CASE Finally
    BY <2>3 DEF Finally, GuardsOfFinally
  <2>4. CASE Kill
    BY <2>4 DEF Kill, Idle, Dead
  <2>5. ASSUME proc \in Procs, NEW q \in Procs, proc' = q PROVE FALSE
    BY <2>5 DEF Procs, Idle
  <2>6. CASE \E kind \in {"agent", "migrate"} : Begin(kind)
    BY <2>6 DEF Begin, Idle
  <2>7. CASE FixRows
    BY <2>7 DEF FixRows
  <2>8. CASE \/ Ensure \/ Stamp \/ Skip \/ DropViews \/ RebuildRunTables
             \/ (\E v \in Rebuilds : RebuildTable(v)) \/ RebuildVetoes \/ RestoreView
             \/ AvailableAt \/ FilingIdentity \/ Record
    <3>1. proc \in Procs
      BY <2>8, ProcFacts DEF Ensure, Stamp, Skip, DropViews, RebuildRunTables, RebuildTable,
             RebuildVetoes, RestoreView, AvailableAt, FilingIdentity, Guarded, Record, Working, At
    <3>2. DOMAIN proc' = DOMAIN proc
      BY <2>8, <3>1 DEF Ensure, Stamp, Skip, DropViews, RebuildRunTables, RebuildTable,
             RebuildVetoes, RestoreView, AvailableAt, FilingIdentity, Guarded, Record, AfterEnsure,
             AfterRecord, Procs
    <3> QED BY <3>1, <3>2 DEF Procs, Idle
  <2> QED BY <2>1, <2>2, <2>3, <2>4, <2>6, <2>7, <2>8 DEF Next, Step
<1>2. Spec => [][BackNow]_vars
  <2> HIDE DEF BackNow
  <2> QED BY <1>1, InvInit, InvStep, PTL DEF Spec
<1> QED BY <1>2 DEF GuardsGoBack
=============================================================================

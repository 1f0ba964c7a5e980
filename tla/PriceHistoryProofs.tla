------------------------- MODULE PriceHistoryProofs -------------------------
(***************************************************************************)
(* Type correctness of PriceHistory, its invariant and its action          *)
(* property, for any sessions, splits, modes, faults and runs.             *)
(***************************************************************************)
EXTENDS PriceHistory, FiniteSetTheorems, WellFoundedInduction, TLAPS

-----------------------------------------------------------------------------
(* The inductive invariant *)

\* A run looks at closed sessions, its candles at none after its end, and those of
\* a refetch at every bar stored up to there.
RunInv ==
    proc # Idle =>
        /\ proc.end <= final
        /\ proc.at \in {"fetch", "check", "refetch"} => ~proc.full
        /\ proc.at \in {"check", "refetch", "judge"} => \A d \in DOMAIN got : d <= proc.end
        /\ proc.full /\ proc.at = "judge" =>
              \A d \in DOMAIN bars : d <= proc.end => d \in DOMAIN got

-----------------------------------------------------------------------------
(* Facts about the constants *)

\* Sessions are numbers, and there are finitely many splits among them.
LEMMA Constants ==
    /\ LastDay \in Nat /\ LastDay >= 1 /\ Faults \in Nat /\ ByHand \in Nat
    /\ Days = 1..LastDay /\ Days \subseteq Nat
    /\ Splits \subseteq Days /\ IsFiniteSet(Splits)
    /\ Cardinality(Splits) \in Nat /\ Levels \subseteq Nat
<1>1. LastDay \in Nat /\ LastDay >= 1 /\ Splits \subseteq Days
  BY PriceAssumption
<1>2. IsFiniteSet(Days)
  BY <1>1, FS_Interval DEF Days
<1>3. IsFiniteSet(Splits) /\ Cardinality(Splits) \in Nat
  BY <1>1, <1>2, FS_Subset, FS_CardinalityType
<1> QED BY <1>1, <1>3, PriceAssumption DEF Days, Levels

\* The gateway's candles are typed.
LEMMA ServedType ==
    ASSUME NEW a \in Days, NEW b \in Days
    PROVE  /\ DOMAIN Served(a, b) = a..b
           /\ IsPartial(Served(a, b), Levels)
<1>1. \A d \in a..b : Cardinality({s \in Splits : s <= d \/ s \in applied}) \in Levels
  <2> SUFFICES ASSUME NEW d \in a..b
               PROVE  Cardinality({s \in Splits : s <= d \/ s \in applied}) \in Levels
    OBVIOUS
  <2> DEFINE S == {s \in Splits : s <= d \/ s \in applied}
  <2>1. S \in SUBSET Splits
    OBVIOUS
  <2> HIDE DEF S
  <2>2. IsFiniteSet(S) /\ Cardinality(S) <= Cardinality(Splits)
    BY <2>1, Constants, FS_Subset
  <2>3. Cardinality(S) \in Nat
    BY <2>2, FS_CardinalityType
  <2>4. Cardinality(S) \in Levels
    BY <2>2, <2>3, Constants DEF Levels
  <2> QED BY <2>4 DEF S
<1>2. a..b \subseteq Days
  BY Constants
<1>3. DOMAIN Served(a, b) = a..b
  BY DEF Served
<1>4. Served(a, b) \in [a..b -> Levels]
  BY <1>1 DEF Served
<1> QED BY <1>2, <1>3, <1>4 DEF IsPartial

\* One partial function over another.
LEMMA OverType ==
    ASSUME NEW T, NEW f, NEW g, IsPartial(f, T), IsPartial(g, T)
    PROVE  /\ IsPartial(Over(f, g), T)
           /\ DOMAIN Over(f, g) = DOMAIN f \cup DOMAIN g
           /\ \A d \in DOMAIN f : Over(f, g)[d] = f[d]
           /\ \A d \in DOMAIN g \ DOMAIN f : Over(f, g)[d] = g[d]
BY DEF IsPartial, Over

\* What it is at each session.
LEMMA OverValues ==
    ASSUME NEW f, NEW g
    PROVE  /\ DOMAIN Over(f, g) = DOMAIN f \cup DOMAIN g
           /\ \A d \in DOMAIN f : Over(f, g)[d] = f[d]
           /\ \A d \in DOMAIN g \ DOMAIN f : Over(f, g)[d] = g[d]
BY DEF Over

\* The stored closes up to a session are typed.
LEMMA HistoryType ==
    ASSUME TypeOK, NEW e \in Days
    PROVE  /\ DOMAIN History(e) = {d \in DOMAIN bars : d <= e}
           /\ IsPartial(History(e), Levels)
           /\ \A d \in DOMAIN History(e) : History(e)[d] = bars[d].level
BY DEF History, TypeOK, IsPartial, Bars

\* A set of sessions that is not empty has a first one.
LEMMA FirstOf ==
    ASSUME NEW D \in SUBSET Days, D # {}
    PROVE  /\ (CHOOSE a \in D : \A b \in D : a <= b) \in D
           /\ \A b \in D : (CHOOSE a \in D : \A c \in D : a <= c) <= b
<1>1. D \subseteq Nat
  BY Constants
<1>2. PICK a \in D : \A b \in D : ~(<<b, a>> \in OpToRel(<, Nat))
  BY <1>1, WFMin, NatLessThanWellFounded
<1>3. \A b \in D : a <= b
  <2> SUFFICES ASSUME NEW b \in D PROVE a <= b
    OBVIOUS
  <2>1. ~(b < a)
    BY <1>1, <1>2 DEF OpToRel
  <2>2. b \in Nat /\ a \in Nat
    BY <1>1
  <2> QED BY <2>1, <2>2
<1> QED BY <1>3

\* A refetch starts at or before every bar that is stored up to the run's end.
LEMMA RefetchFromType ==
    ASSUME TypeOK, proc # Idle
    PROVE  /\ RefetchFrom \in Days
           /\ \A d \in DOMAIN bars : d <= proc.end => RefetchFrom <= d
<1>1. proc.start \in Days /\ proc.end \in Days
  BY DEF TypeOK, Procs
<1>2. DOMAIN History(proc.end) = {d \in DOMAIN bars : d <= proc.end} /\ DOMAIN bars \subseteq Days
  BY <1>1, HistoryType DEF TypeOK, IsPartial
<1> DEFINE D == {proc.start} \cup DOMAIN History(proc.end)
<1>3. D \in SUBSET Days /\ D # {}
  BY <1>1, <1>2
<1>4. RefetchFrom \in D /\ \A d \in D : RefetchFrom <= d
  BY <1>3, FirstOf DEF RefetchFrom
<1> QED BY <1>2, <1>3, <1>4

-----------------------------------------------------------------------------
(* Types *)

\* No candles are a partial function of any type.
LEMMA NothingType == ASSUME NEW T PROVE IsPartial(Nothing, T) /\ DOMAIN Nothing = {}
BY DEF IsPartial, Nothing

\* A run goes on to another place.
LEMMA PlaceType ==
    ASSUME TypeOK, proc # Idle,
           NEW place \in Places, NEW full \in BOOLEAN, proc' = [proc EXCEPT !.at = place, !.full = full]
    PROVE  /\ proc' \in Procs /\ proc' # Idle
           /\ proc'.at = place /\ proc'.full = full
           /\ proc'.start = proc.start /\ proc'.end = proc.end /\ proc'.mode = proc.mode
BY DEF TypeOK, Procs, Places, Idle

\* The same without a refetch.
LEMMA GoesType ==
    ASSUME TypeOK, proc # Idle,
           NEW place \in Places, proc' = [proc EXCEPT !.at = place]
    PROVE  /\ proc' \in Procs /\ proc' # Idle
           /\ proc'.at = place /\ proc'.full = proc.full
           /\ proc'.start = proc.start /\ proc'.end = proc.end /\ proc'.mode = proc.mode
BY DEF TypeOK, Procs, Places, Idle

\* The run's candles as bars are typed.
LEMMA WrittenType ==
    ASSUME TypeOK, proc # Idle
    PROVE  /\ IsPartial(Written, Bars) /\ DOMAIN Written = DOMAIN got
           /\ \A d \in DOMAIN got : Written[d].level = got[d] /\ Written[d].stamp = today
<1>1. today \in Days /\ IsPartial(got, Levels)
  BY DEF TypeOK
<1>2. DOMAIN Written = DOMAIN got
  BY DEF Written
<1>3. \A d \in DOMAIN got : Written[d] = [level |-> got[d], stamp |-> today]
  BY DEF Written
<1>4. \A d \in DOMAIN got : got[d] \in Levels
  BY <1>1 DEF IsPartial
<1>5. \A d \in DOMAIN got : Written[d] \in Bars
  <2>1. ASSUME NEW l \in Levels, NEW t \in Days PROVE [level |-> l, stamp |-> t] \in Bars
    BY DEF Bars
  <2>2. SUFFICES ASSUME NEW d \in DOMAIN got PROVE Written[d] \in Bars
    OBVIOUS
  <2>3. [level |-> got[d], stamp |-> today] \in Bars
    BY <1>1, <1>4, <2>1
  <2> QED BY <1>3, <2>3, Zenon
<1>6. Written \in [DOMAIN got -> Bars]
  BY <1>5 DEF Written
<1> QED BY <1>1, <1>2, <1>3, <1>6 DEF IsPartial

\* A run starts with a typed process.
LEMMA BeginType ==
    ASSUME TypeOK, NEW a \in Days, NEW b \in Days, NEW mode \in Modes \cup {Checked},
           Begin(a, b, mode)
    PROVE  proc' \in Procs
BY DEF Begin, Procs, Places

\* Every step keeps the types.
LEMMA TypeStep == TypeOK /\ RunInv /\ [Next]_vars => TypeOK'
<1> SUFFICES ASSUME TypeOK, RunInv, [Next]_vars PROVE TypeOK'
  OBVIOUS
<1> USE DEF world, clock, stored
<1>0. /\ today \in Nat /\ final \in {today - 1, today} /\ final \in Int
      /\ Faults \in Nat /\ ByHand \in Nat /\ LastDay \in Nat
  BY Constants DEF TypeOK
<1>1. CASE Close
  BY <1>1 DEF Close, TypeOK
<1>2. CASE NextDay
  <2>1. today + 1 \in Days /\ final' \in {today' - 1, today'}
    BY <1>0, <1>2, Constants DEF NextDay
  <2> QED BY <1>2, <2>1 DEF NextDay, TypeOK
<1>3. ASSUME NEW s \in Splits, Adjust(s) \/ RecordSplit(s) PROVE TypeOK'
  BY <1>3 DEF Adjust, RecordSplit, TypeOK
<1>4. CASE RunByHand
  <2>1. PICK start \in Days, end \in Days, mode \in Modes : Begin(start, end, mode)
    BY <1>4 DEF RunByHand
  <2>2. byhand' \in 0..ByHand
    BY <1>0, <1>4 DEF RunByHand, TypeOK
  <2> QED BY <2>1, <2>2, BeginType DEF Begin, TypeOK
<1>5. CASE RunOnYes
  <2>1. 1 \in Days /\ final \in Days
    BY <1>0, <1>5, Constants DEF RunOnYes, Pending, TypeOK
  <2>2. Begin(1, final, Checked) /\ byhand' = byhand
    BY <1>5 DEF RunOnYes
  <2>3. proc' \in Procs
    BY <2>1, <2>2, BeginType
  <2> QED BY <2>2, <2>3 DEF Begin, TypeOK
<1>f. Fault => faults' \in 0..Faults
  BY <1>0 DEF Fault, TypeOK
<1>6. ASSUME proc # Idle, Work PROVE TypeOK'
  <2>0. proc \in Procs /\ proc.start \in Days /\ proc.end \in Days
    BY <1>6 DEF TypeOK, Procs
  <2>1. CASE Fetch
    BY <1>6, <2>0, <2>1, ServedType, GoesType DEF Places, Fetch, TypeOK
  <2>2. CASE Reconcile
    BY <1>6, <2>2, GoesType DEF Places, Reconcile, TypeOK
  <2>3. CASE Refetch
    <3>1. RefetchFrom \in Days
      BY <1>6, RefetchFromType
    <3>2. IsPartial(got', Levels)
      BY <2>0, <2>3, <3>1, ServedType DEF Refetch
    <3>3. proc' \in Procs
      BY <1>6, <2>3, PlaceType DEF Places, Refetch
    <3> QED BY <2>3, <3>2, <3>3 DEF Refetch, TypeOK
  <2>4. CASE Refuse
    BY <2>4, NothingType DEF Refuse, TypeOK
  <2>5. CASE Store
    <3>1. IsPartial(bars', Bars)
      BY <1>6, <2>5, WrittenType, OverType DEF Store, TypeOK
    <3>4. waived' \subseteq Neighbours(DOMAIN bars')
      <4>1. DOMAIN bars' = DOMAIN got \cup DOMAIN bars
        <5>1. DOMAIN Written = DOMAIN got
          BY <1>6, WrittenType
        <5>2. DOMAIN Over(Written, bars) = DOMAIN Written \cup DOMAIN bars
          BY OverValues
        <5> QED BY <2>5, <5>1, <5>2 DEF Store
      <4>2. waived' \subseteq Neighbours(DOMAIN got \cup DOMAIN bars)
        BY <2>5 DEF Store
      <4> QED BY <4>1, <4>2
    <3>2. proc' \in Procs \cup {Idle}
      BY <1>6, <2>5, GoesType DEF Places, Store
    <3>3. IsPartial(got', Levels)
      BY <2>5, NothingType DEF Store
    <3> QED BY <2>5, <3>1, <3>2, <3>3, <3>4 DEF Store, TypeOK
  <2>6. CASE Derive
    <3> DEFINE new == [d \in DOMAIN History(proc.end) |-> History(d)]
    <3>1. DOMAIN History(proc.end) \subseteq Days
      BY <2>0, HistoryType DEF IsPartial
    <3>2. \A d \in DOMAIN new : IsPartial(new[d], Levels)
      BY <3>1, HistoryType
    <3>3. DOMAIN new \subseteq Days
      BY <3>1
    <3>4. obs' = Over(new, obs)
      BY <2>6 DEF Derive
    <3> HIDE DEF new
    <3>5. DOMAIN obs' = DOMAIN new \cup DOMAIN obs
      BY <3>4 DEF Over
    <3>6. \A d \in DOMAIN obs' : obs'[d] = IF d \in DOMAIN new THEN new[d] ELSE obs[d]
      BY <3>4 DEF Over
    <3>7. DOMAIN obs' \subseteq Days /\ \A d \in DOMAIN obs' : IsPartial(obs'[d], Levels)
      BY <3>2, <3>3, <3>5, <3>6 DEF TypeOK
    <3>8. proc' \in Procs \cup {Idle}
      BY <1>6, <2>6, GoesType DEF Places, Derive
    <3> QED BY <2>6, <3>7, <3>8 DEF Derive, TypeOK
  <2>7. CASE RecordNoData
    BY <2>7 DEF RecordNoData, TypeOK
  <2> QED BY <1>6, <2>1, <2>2, <2>3, <2>4, <2>5, <2>6, <2>7 DEF Work
<1>7. ASSUME proc # Idle, FetchFails \/ NoData \/ RefetchEmpty PROVE TypeOK'
  <2>1. CASE FetchFails
    BY <1>f, <2>1 DEF FetchFails, TypeOK
  <2>2. CASE NoData
    <3>1. proc' \in Procs
      BY <1>7, <2>2, GoesType DEF Places, NoData
    <3> QED BY <1>f, <2>2, <3>1 DEF NoData, TypeOK
  <2>3. CASE RefetchEmpty
    <3>1. proc' \in Procs
      BY <1>7, <2>3, GoesType DEF Places, RefetchEmpty
    <3> QED BY <1>f, <2>3, <3>1 DEF RefetchEmpty, TypeOK
  <2> QED BY <1>7, <2>1, <2>2, <2>3
<1>8. CASE Dies
  BY <1>f, <1>8, NothingType DEF Dies, TypeOK
<1>9. CASE UNCHANGED vars
  BY <1>9 DEF vars, TypeOK
<1> QED BY <1>1, <1>2, <1>3, <1>4, <1>5, <1>6, <1>7, <1>8, <1>9 DEF Next

-----------------------------------------------------------------------------
(* What a run looks at *)

\* A run keeps to its window and, once it refetched, to every stored bar in it.
LEMMA RunStep == TypeOK /\ RunInv /\ [Next]_vars => RunInv'
<1> SUFFICES ASSUME TypeOK, RunInv, [Next]_vars PROVE RunInv'
  OBVIOUS
<1> USE DEF world, clock, stored
<1>1. CASE Close \/ NextDay
  BY <1>1 DEF Close, NextDay, RunInv
<1>2. ASSUME NEW s \in Splits, Adjust(s) \/ RecordSplit(s) PROVE RunInv'
  BY <1>2 DEF Adjust, RecordSplit, RunInv
<1>3. ASSUME NEW a, NEW b, NEW mode, Begin(a, b, mode) PROVE RunInv'
  BY <1>3 DEF Begin, RunInv
<1>4. CASE RunByHand \/ RunOnYes
  BY <1>3, <1>4 DEF RunByHand, RunOnYes
<1>5. ASSUME proc # Idle, Work PROVE RunInv'
  <2>0. proc \in Procs /\ proc.start \in Days /\ proc.end \in Days /\ proc.full \in BOOLEAN
    BY <1>5 DEF TypeOK, Procs
  <2>1. CASE Fetch
    <3>1. \A d \in DOMAIN got' : d <= proc.end
      BY <2>0, <2>1, ServedType, Constants DEF Fetch
    <3> QED BY <1>5, <2>1, <3>1, GoesType DEF Places, Fetch, RunInv
  <2>2. CASE Reconcile
    <3>1. ~proc.full /\ proc.end <= final /\ \A d \in DOMAIN got : d <= proc.end
      BY <1>5, <2>2 DEF Reconcile, RunInv
    <3>2. proc'.full = proc.full /\ proc'.end = proc.end /\ proc'.at \in {"refetch", "judge"}
      BY <1>5, <2>2, GoesType DEF Places, Reconcile
    <3> QED BY <2>2, <3>1, <3>2 DEF Reconcile, RunInv
  <2>3. CASE Refetch
    <3>1. RefetchFrom \in Days /\ \A d \in DOMAIN bars : d <= proc.end => RefetchFrom <= d
      BY <1>5, RefetchFromType
    <3>2. DOMAIN got' = RefetchFrom..proc.end
      BY <2>0, <2>3, <3>1, ServedType DEF Refetch
    <3>3. DOMAIN bars \subseteq Days
      BY DEF TypeOK, IsPartial
    <3> HIDE DEF RefetchFrom
    <3>4. /\ \A d \in DOMAIN got' : d <= proc.end
          /\ \A d \in DOMAIN bars : d <= proc.end => d \in DOMAIN got'
      BY <2>0, <3>1, <3>2, <3>3, Constants
    <3> QED BY <1>5, <2>3, <3>4, PlaceType DEF Places, Refetch, RunInv
  <2>4. CASE Refuse
    BY <2>4 DEF Refuse, RunInv
  <2>5. CASE Store
    BY <1>5, <2>5, GoesType DEF Places, Store, RunInv
  <2>6. CASE Derive
    BY <1>5, <2>6, GoesType DEF Places, Derive, RunInv
  <2>7. CASE RecordNoData
    BY <2>7 DEF RecordNoData, RunInv
  <2> QED BY <1>5, <2>1, <2>2, <2>3, <2>4, <2>5, <2>6, <2>7 DEF Work
<1>6. ASSUME proc # Idle, FetchFails \/ NoData \/ RefetchEmpty PROVE RunInv'
  <2>1. CASE FetchFails
    BY <2>1 DEF FetchFails, RunInv
  <2>2. CASE NoData
    BY <1>6, <2>2, GoesType DEF Places, NoData, RunInv
  <2>3. CASE RefetchEmpty
    <3>1. ~proc.full
      BY <1>6, <2>3 DEF RefetchEmpty, RunInv
    <3> QED BY <1>6, <2>3, <3>1, GoesType DEF Places, RefetchEmpty, RunInv
  <2> QED BY <1>6, <2>1, <2>2, <2>3
<1>7. CASE Dies
  BY <1>7 DEF Dies, RunInv
<1>8. CASE UNCHANGED vars
  BY <1>8 DEF vars, RunInv
<1> QED BY <1>1, <1>2, <1>4, <1>5, <1>6, <1>7, <1>8 DEF Next

\* Only a run that passed its judgement writes bars.
LEMMA OnlyStoreWrites ==
    ASSUME [Next]_vars PROVE UNCHANGED stored \/ (proc # Idle /\ Store)
BY DEF Next, Close, NextDay, Adjust, RecordSplit, RunByHand, RunOnYes, Begin, Work, Fetch,
       Reconcile, Refetch, Refuse, Store, Derive, RecordNoData, FetchFails, NoData,
       RefetchEmpty, Dies, vars, world, clock, stored

-----------------------------------------------------------------------------
(* One basis *)

\* The stored bars after a write.
LEMMA StoredBars ==
    ASSUME TypeOK, proc # Idle, Store
    PROVE  /\ DOMAIN bars' = DOMAIN got \cup DOMAIN bars
           /\ \A d \in DOMAIN got :
                 bars'[d].level = got[d] /\ bars'[d].stamp = today
           /\ \A d \in DOMAIN bars \ DOMAIN got : bars'[d] = bars[d]
           /\ DOMAIN got \subseteq Days /\ DOMAIN bars \subseteq Days
<1>1. IsPartial(bars, Bars) /\ IsPartial(got, Levels)
  BY DEF TypeOK
<1>2. DOMAIN got \subseteq Days /\ DOMAIN bars \subseteq Days
  BY <1>1 DEF IsPartial
<1>3. /\ DOMAIN Over(Written, bars) = DOMAIN Written \cup DOMAIN bars
      /\ \A d \in DOMAIN Written : Over(Written, bars)[d] = Written[d]
      /\ \A d \in DOMAIN bars \ DOMAIN Written : Over(Written, bars)[d] = bars[d]
  BY OverValues
<1>4. bars' = Over(Written, bars)
  BY DEF Store
<1>5. /\ DOMAIN Written = DOMAIN got
      /\ \A d \in DOMAIN got : Written[d].level = got[d] /\ Written[d].stamp = today
  BY WrittenType
<1> HIDE DEF Written
<1>6. DOMAIN bars' = DOMAIN got \cup DOMAIN bars
  BY <1>3, <1>4, <1>5
<1>7. \A d \in DOMAIN got : bars'[d] = Written[d]
  BY <1>3, <1>4, <1>5
<1>8. \A d \in DOMAIN bars \ DOMAIN got : bars'[d] = bars[d]
  BY <1>3, <1>4, <1>5
<1> QED BY <1>2, <1>5, <1>6, <1>7, <1>8

\* What a run judges: its candles over the stored closes up to its end.
LEMMA MergedSeries ==
    ASSUME TypeOK, NEW e \in Days
    PROVE  /\ DOMAIN Over(got, History(e)) = DOMAIN got \cup {d \in DOMAIN bars : d <= e}
           /\ \A d \in DOMAIN got : Over(got, History(e))[d] = got[d]
           /\ \A d \in DOMAIN bars \ DOMAIN got :
                 d <= e => Over(got, History(e))[d] = bars[d].level
<1>2. /\ DOMAIN History(e) = {d \in DOMAIN bars : d <= e}
      /\ \A d \in DOMAIN History(e) : History(e)[d] = bars[d].level
  BY HistoryType
<1>3. /\ DOMAIN Over(got, History(e)) = DOMAIN got \cup DOMAIN History(e)
      /\ \A d \in DOMAIN got : Over(got, History(e))[d] = got[d]
      /\ \A d \in DOMAIN History(e) \ DOMAIN got : Over(got, History(e))[d] = History(e)[d]
  BY OverValues
<1>4. ASSUME NEW d \in DOMAIN bars \ DOMAIN got, d <= e
      PROVE  Over(got, History(e))[d] = bars[d].level
  <2>1. d \in DOMAIN History(e)
    BY <1>2, <1>4
  <2> QED BY <1>2, <1>3, <1>4, <2>1
<1> QED BY <1>2, <1>3, <1>4

\* A write that was judged leaves no seam that nobody asked for.
LEMMA StoreKeepsBasis ==
    ASSUME TypeOK, RunInv, OneBasis, proc # Idle, Store
    PROVE  OneBasis'
<1>0. proc.at = "judge" /\ (Clean \/ proc.mode.allow)
  BY DEF Store
<1>1. /\ DOMAIN bars' = DOMAIN got \cup DOMAIN bars
      /\ \A d \in DOMAIN got : bars'[d].level = got[d]
      /\ \A d \in DOMAIN bars \ DOMAIN got : bars'[d] = bars[d]
      /\ DOMAIN got \subseteq Days /\ DOMAIN bars \subseteq Days
  BY StoredBars
<1>2. proc.end \in Days /\ \A d \in DOMAIN got : d <= proc.end
  BY <1>0 DEF RunInv, TypeOK, Procs
<1> DEFINE merged == Over(got, History(proc.end))
<1>3. /\ DOMAIN merged = DOMAIN got \cup {d \in DOMAIN bars : d <= proc.end}
      /\ \A d \in DOMAIN got : merged[d] = got[d]
      /\ \A d \in DOMAIN bars \ DOMAIN got : d <= proc.end => merged[d] = bars[d].level
  BY <1>2, MergedSeries
<1>s. SeamJumps(got, proc.end) =
        {p \in Neighbours(DOMAIN merged) :
           /\ IsSplitShaped(merged[p[2]] - merged[p[1]])
           /\ p[1] \in DOMAIN got \/ p[2] \in DOMAIN got}
  BY DEF SeamJumps
<1> HIDE DEF merged
<1>m. \A d \in DOMAIN merged : d \in DOMAIN bars' /\ merged[d] = bars'[d].level
  <2> SUFFICES ASSUME NEW d \in DOMAIN merged
               PROVE  d \in DOMAIN bars' /\ merged[d] = bars'[d].level
    OBVIOUS
  <2>1. CASE d \in DOMAIN got
    BY <1>1, <1>3, <2>1
  <2>2. CASE d \notin DOMAIN got
    <3>1. d \in DOMAIN bars \ DOMAIN got /\ d <= proc.end
      BY <1>3, <2>2
    <3> QED BY <1>1, <1>3, <3>1
  <2> QED BY <2>1, <2>2
<1>4. ASSUME NEW x \in DOMAIN bars', NEW y \in DOMAIN bars', x < y,
             \A d \in DOMAIN bars' : d <= x \/ y <= d,
             IsSplitShaped(bars'[y].level - bars'[x].level)
      PROVE  <<x, y>> \in waived'
  <2>w. <<x, y>> \in waived' <=> IsWaived(<<x, y>>)
    BY <1>1, <1>4 DEF Store, Neighbours
  <2>0. x \in Nat /\ y \in Nat /\ proc.end \in Nat
    BY <1>1, <1>2, Constants
  <2>1. CASE x \in DOMAIN got /\ ~(y <= proc.end)
    BY <2>0, <2>1, <2>w DEF IsWaived
  <2>2. CASE (x \in DOMAIN got \/ y \in DOMAIN got) /\ proc.mode.allow
    BY <2>2, <2>w DEF IsWaived
  <2>3. CASE (x \in DOMAIN got \/ y \in DOMAIN got) /\ Clean /\ y <= proc.end
    <3>0. x <= proc.end
      BY <1>4, <2>0, <2>3
    <3>1. x \in DOMAIN merged /\ y \in DOMAIN merged
      BY <1>1, <1>3, <2>3, <3>0
    <3>2. merged[x] = bars'[x].level /\ merged[y] = bars'[y].level
      BY <1>m, <3>1
    <3>4. <<x, y>> \in Neighbours(DOMAIN merged)
      BY <1>4, <1>m, <3>1 DEF Neighbours
    <3>5. <<x, y>> \in SeamJumps(got, proc.end)
      BY <1>4, <1>s, <2>3, <3>2, <3>4
    <3> QED BY <2>3, <3>5 DEF Clean
  <2>4. CASE x \notin DOMAIN got /\ y \notin DOMAIN got
    <3>1. /\ x \in DOMAIN bars /\ y \in DOMAIN bars
          /\ bars'[x] = bars[x] /\ bars'[y] = bars[y]
      BY <1>1, <2>4
    <3>2. <<x, y>> \in Neighbours(DOMAIN bars)
      BY <1>1, <1>4, <3>1 DEF Neighbours
    <3>3. <<x, y>> \in waived
      BY <1>4, <3>1, <3>2 DEF OneBasis
    <3> QED BY <2>4, <2>w, <3>3 DEF IsWaived
  <2>5. y \in DOMAIN got => y <= proc.end
    BY <1>2
  <2> QED BY <1>0, <2>1, <2>2, <2>3, <2>4, <2>5
<1> QED BY <1>4 DEF OneBasis, Neighbours

\* Every step keeps the series on one basis.
LEMMA BasisStep == TypeOK /\ RunInv /\ OneBasis /\ [Next]_vars => OneBasis'
<1> SUFFICES ASSUME TypeOK, RunInv, OneBasis, [Next]_vars PROVE OneBasis'
  OBVIOUS
<1>1. CASE UNCHANGED stored
  BY <1>1 DEF OneBasis, stored
<1> QED BY <1>1, OnlyStoreWrites, StoreKeepsBasis

\* A run that refetched leaves no bar from before a recorded split.
LEMMA RefetchStep ==
    ASSUME TypeOK, RunInv, [Next]_vars, proc # Idle, proc.full, bars' # bars,
           NEW CONSTANT e \in Days, e = proc.end
    PROVE  ~PreSplit(e)'
<1>1. Store /\ proc.at = "judge" /\ recorded' = recorded
  BY OnlyStoreWrites DEF Store, world, stored
<1>2. /\ DOMAIN bars' = DOMAIN got \cup DOMAIN bars
      /\ \A d \in DOMAIN got : bars'[d].stamp = today
      /\ DOMAIN got \subseteq Days /\ DOMAIN bars \subseteq Days
  BY <1>1, StoredBars
<1>3. /\ e <= final
      /\ \A d \in DOMAIN bars : d <= e => d \in DOMAIN got
  BY <1>1 DEF RunInv
<1>4. /\ today \in Nat /\ final \in Int /\ final <= today /\ e \in Nat
      /\ recorded \subseteq Nat /\ Days \subseteq Nat
  BY Constants DEF TypeOK
<1>5. ASSUME NEW s \in recorded', s <= e, NEW d \in DOMAIN bars', d < s
      PROVE  ~(bars'[d].stamp < s)
  <2>1. s \in Nat /\ d \in Nat
    BY <1>1, <1>2, <1>4
  <2>2. d <= e
    BY <1>4, <1>5, <2>1
  <2>3. d \in DOMAIN got
    BY <1>2, <1>3, <2>2
  <2>4. bars'[d].stamp = today
    BY <1>2, <2>3
  <2> QED BY <1>3, <1>4, <1>5, <2>1, <2>4
<1> QED BY <1>5 DEF PreSplit

-----------------------------------------------------------------------------
(* The inductive invariant and the theorems *)

\* What every reachable state satisfies.
IInv == TypeOK /\ RunInv /\ OneBasis

\* It holds before the first run.
LEMMA InvInit == Init => IInv
<1> SUFFICES ASSUME Init PROVE IInv
  OBVIOUS
<1>1. IsPartial(bars, Bars) /\ IsPartial(got, Levels) /\ DOMAIN bars = {} /\ DOMAIN obs = {}
  BY NothingType DEF Init
<1>2. /\ today \in Days /\ final \in {today - 1, today}
      /\ faults \in 0..Faults /\ byhand \in 0..ByHand
  BY Constants DEF Init
<1>5. proc \in Procs \cup {Idle} /\ refused \in BOOLEAN
  BY DEF Init
<1>6. /\ applied \subseteq Splits /\ recorded \subseteq Splits
      /\ DOMAIN obs \subseteq Days /\ \A d \in DOMAIN obs : IsPartial(obs[d], Levels)
  BY <1>1 DEF Init
<1>8. waived \subseteq Neighbours(DOMAIN bars)
  BY DEF Init
<1>7. TypeOK
  BY <1>1, <1>2, <1>5, <1>6, <1>8 DEF TypeOK
<1>3. RunInv
  BY DEF Init, RunInv
<1>4. OneBasis
  BY <1>1 DEF OneBasis, Neighbours
<1> QED BY <1>3, <1>4, <1>7 DEF IInv

\* And every step keeps it.
LEMMA InvStep == IInv /\ [Next]_vars => IInv'
BY TypeStep, RunStep, BasisStep DEF IInv

\* The bars, observations, candles and the run in progress keep their types: a
\* refetch starts at a session (_refetch_full), and no run looks past its end.
THEOREM TypeCorrect == Spec => []TypeOK
<1>1. Spec => []IInv
  BY InvInit, InvStep, PTL DEF Spec
<1>2. IInv => TypeOK
  BY DEF IInv
<1> QED BY <1>1, <1>2, PTL

\* The stored series has no split-shaped seam but those that the last run to write
\* one of its two bars was asked to leave, by accepting jumps or by an end before
\* the later bar: _reconcile_history judges a run's candles with the stored closes
\* around them, of which it reads those up to its end.
THEOREM SeriesOnOneBasis == Spec => []OneBasis
<1>1. Spec => []IInv
  BY InvInit, InvStep, PTL DEF Spec
<1>2. IInv => OneBasis
  BY DEF IInv
<1> QED BY <1>1, <1>2, PTL

\* Once the whole history was refetched and stored, has_pre_split_rows finds no
\* bar from before a recorded split, so that the next run does not refetch.
THEOREM RefetchIsOnce == Spec => RefetchedOnce
<1> DEFINE Once == proc # Idle => \A e \in Days :
                      e = proc.end /\ proc.full /\ bars' # bars => ~PreSplit(e)'
<1>1. IInv /\ [Next]_vars => [Once]_vars
  BY RefetchStep DEF IInv
<1>2. Spec => []IInv
  BY InvInit, InvStep, PTL DEF Spec
<1>3. [][Once]_vars <=> RefetchedOnce
  BY DEF RefetchedOnce
<1> HIDE DEF Once
<1>4. Spec => [][Once]_vars
  BY <1>1, <1>2, PTL DEF Spec
<1> QED BY <1>3, <1>4
=============================================================================

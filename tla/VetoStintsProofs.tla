-------------------------- MODULE VetoStintsProofs --------------------------
(***************************************************************************)
(* Type correctness of VetoStints, its invariants on stints, its reads as  *)
(* the recursion over dates the rules mean, and its two action properties, *)
(* for any keys, holds, opinions and dates.                                *)
(***************************************************************************)
EXTENDS VetoStints, WellFoundedInduction, TLAPS

Rows == [Keys -> [Raises -> Stints]]

\* Every extension of a closed stint came before its end.
MovedBeforeEnd(v) ==
    \A k \in Keys, f \in Raises :
        Exists(v, k, f) /\ ~IsOpen(v, k, f) => \A m \in v[k][f].moved : m.on < v[k][f].to

\* StintsAreDisjoint of any table.
Disjoint(v) ==
    \A k \in Keys, f \in Raises :
        Exists(v, k, f) =>
            /\ f < v[k][f].to
            /\ \A g \in Raises : f < g /\ Exists(v, k, g) => v[k][f].to < g

-----------------------------------------------------------------------------
(* Dates and expiries *)

\* Dates are positive naturals before Open; a raise is on a date or before them all.
LEMMA DateFacts ==
    /\ LastDate \in Nat /\ Open \in Nat /\ Open # None /\ Open \notin Dates
    /\ \A e \in Dates : e \in Nat /\ e \in Raises /\ e # None /\ e < Open
    /\ \A f \in Raises : f \in Nat /\ f < Open /\ (f \in Dates \/ f = None)
BY VetoAssumption, SMT DEF Dates, Raises, Open, None

\* The parts of a stint are dates, expiries and moves.
LEMMA StintFacts ==
    ASSUME NEW stint \in Stints
    PROVE  /\ stint.to \in Nat /\ stint.seen \in Raises /\ stint.expires \in Expiries
           /\ stint.expires \in Nat /\ stint.moved \in SUBSET Moves
           /\ stint.to = None \/ stint.to \in Dates \/ stint.to = Open
<1>1. Expiries \subseteq Nat
  BY VetoAssumption, DateFacts, SMT DEF Expiries, None
<1>2. /\ stint.to \in {None} \cup Dates \cup {Open} /\ stint.seen \in Raises
      /\ stint.expires \in Expiries /\ stint.moved \in SUBSET Moves
  BY DEF Stints
<1>3. stint.to \in Nat
  BY <1>2, DateFacts DEF None
<1> QED BY <1>1, <1>2, <1>3

\* The absent stint is one of the type's values.
LEMMA NoStintType == NoStint \in Stints /\ NoStint.to = None
BY VetoAssumption, SMT DEF NoStint, Stints, Raises, Expiries, Moves, None

\* Dates are well ordered: some move of a set of moves is its earliest.
LEMMA EarliestMove ==
    ASSUME NEW D \in SUBSET Moves, D # {}
    PROVE  \E m \in D : \A n \in D : m.on <= n.on
<1> DEFINE On == {m.on : m \in D}
<1>1. On \subseteq Nat /\ On # {}
  BY DateFacts DEF Moves
<1>2. PICK o \in On : \A p \in On : ~(<<p, o>> \in OpToRel(<, Nat))
  BY <1>1, WFMin, NatLessThanWellFounded
<1>3. \A p \in On : o <= p
  <2> SUFFICES ASSUME NEW p \in On PROVE o <= p
    OBVIOUS
  <2>1. ~(p < o)
    BY <1>1, <1>2 DEF OpToRel
  <2>2. p \in Nat /\ o \in Nat
    BY <1>1
  <2> HIDE DEF On
  <2> QED BY <2>1, <2>2, SMT
<1> QED BY <1>3

\* What restore_expiries_from keeps of a stint.
RestoredStint(old, new, d) ==
    /\ new \in Stints
    /\ new.to = old.to /\ new.seen = old.seen
    /\ \A m \in new.moved : m \in old.moved /\ m.on < d
    /\ (\A m \in old.moved : m.on < d) => new = old

\* restore_expiries_from touches the expiry and its history only, and only those
\* of a stint extended on d or later.
LEMMA Restored ==
    ASSUME NEW stint \in Stints, NEW d \in Dates
    PROVE  RestoredStint(stint, RestoreExpiry(stint, d), d)
<1> DEFINE dropped == {m \in stint.moved : m.on >= d}
           first   == CHOOSE m \in dropped : \A n \in dropped : m.on <= n.on
<1>1. stint.moved \in SUBSET Moves /\ \A m \in stint.moved : m.on \in Nat
  BY StintFacts, DateFacts DEF Moves
<1>2. d \in Nat
  BY DateFacts
<1>3. CASE dropped = {}
  <2>1. RestoreExpiry(stint, d) = stint
    BY <1>3 DEF RestoreExpiry
  <2>2. \A m \in stint.moved : m.on < d
    BY <1>1, <1>2, <1>3, SMT
  <2> QED BY <2>1, <2>2 DEF RestoredStint
<1>4. CASE dropped # {}
  <2>1. first \in dropped
    BY <1>1, <1>4, EarliestMove
  <2>2. first.was \in Expiries
    BY <1>1, <2>1 DEF Moves
  <2>3. RestoreExpiry(stint, d) =
          [stint EXCEPT !.expires = first.was, !.moved = @ \ dropped]
    BY <1>4 DEF RestoreExpiry
  <2>4. \A m \in stint.moved \ dropped : m.on < d
    BY <1>1, <1>2, SMT
  <2>5. ~(\A m \in stint.moved : m.on < d)
    BY <1>1, <1>2, <2>1, SMT
  <2> HIDE DEF first, dropped
  <2>6. stint.moved \ dropped \in SUBSET Moves
    BY <1>1
  <2> QED BY <2>2, <2>3, <2>4, <2>5, <2>6 DEF RestoredStint, Stints
<1> QED BY <1>3, <1>4

-----------------------------------------------------------------------------
(* One row of the table after a write, and after a reset *)

\* What Undone leaves of a row: nothing of d.
UndoneRow(v, d, k, f) ==
    LET old == v[k][f]
        new == Undone(v, d)[k][f]
    IN  IF f = d \/ ~Exists(v, k, f) THEN new = NoStint
        ELSE RestoredStint([old EXCEPT !.to = IF @ = d THEN Open ELSE @], new, d)

\* Undone does that to every row, and keeps the types.
LEMMA UndoneRows ==
    ASSUME NEW v \in Rows, NEW d \in Dates
    PROVE  /\ Undone(v, d) \in Rows
           /\ \A k \in Keys, f \in Raises : UndoneRow(v, d, k, f)
<1>1. ASSUME NEW k \in Keys, NEW f \in Raises
      PROVE  UndoneRow(v, d, k, f) /\ Undone(v, d)[k][f] \in Stints
  <2> DEFINE old == v[k][f]
             new == Undone(v, d)[k][f]
             kept == [old EXCEPT !.to = IF @ = d THEN Open ELSE @]
  <2>1. old \in Stints
    BY DEF Rows
  <2>2. kept \in Stints /\ kept = IF old.to = d THEN [old EXCEPT !.to = Open] ELSE old
    BY <2>1 DEF Stints
  <2>3. new = IF f = d \/ old.to = None THEN NoStint
              ELSE RestoreExpiry(IF old.to = d THEN [old EXCEPT !.to = Open] ELSE old, d)
    BY DEF Undone
  <2>4. CASE f = d \/ old.to = None
    BY <2>3, <2>4, NoStintType DEF UndoneRow, Exists
  <2>5. CASE ~(f = d \/ old.to = None)
    <3>1. new = RestoreExpiry(kept, d)
      BY <2>2, <2>3, <2>5
    <3>2. RestoredStint(kept, new, d)
      BY <2>2, <3>1, Restored
    <3> QED BY <2>5, <3>2 DEF UndoneRow, RestoredStint, Exists
  <2> QED BY <2>4, <2>5
<1>2. Undone(v, d) = [k \in Keys |-> [f \in Raises |-> Undone(v, d)[k][f]]]
  BY DEF Undone
<1> HIDE DEF Undone
<1> QED BY <1>1, <1>2, Zenon DEF Rows

\* What ResetFrom leaves of a row: nothing from d on.
ResetRow(v, d, k, f) ==
    LET old == v[k][f]
        new == ResetFrom(v, d)[k][f]
    IN  IF f >= d \/ ~Exists(v, k, f) THEN new = NoStint
        ELSE RestoredStint([old EXCEPT !.to = IF @ >= d THEN Open ELSE @,
                                       !.seen = IF @ >= d THEN f ELSE @], new, d)

\* ResetFrom does that to every row, and keeps the types.
LEMMA ResetRows ==
    ASSUME NEW v \in Rows, NEW d \in Dates
    PROVE  /\ ResetFrom(v, d) \in Rows
           /\ \A k \in Keys, f \in Raises : ResetRow(v, d, k, f)
<1>1. ASSUME NEW k \in Keys, NEW f \in Raises
      PROVE  ResetRow(v, d, k, f) /\ ResetFrom(v, d)[k][f] \in Stints
  <2> DEFINE old == v[k][f]
             new == ResetFrom(v, d)[k][f]
             kept == [old EXCEPT !.to = IF @ >= d THEN Open ELSE @,
                                 !.seen = IF @ >= d THEN f ELSE @]
  <2>1. old \in Stints
    BY DEF Rows
  <2>2. kept \in Stints
    BY <2>1 DEF Stints
  <2>3. new = IF f >= d \/ old.to = None THEN NoStint ELSE RestoreExpiry(kept, d)
    BY DEF ResetFrom
  <2>4. CASE f >= d \/ old.to = None
    BY <2>3, <2>4, NoStintType DEF ResetRow, Exists
  <2>5. CASE ~(f >= d \/ old.to = None)
    <3>1. RestoredStint(kept, new, d)
      BY <2>2, <2>3, <2>5, Restored
    <3> QED BY <2>5, <3>1 DEF ResetRow, RestoredStint, Exists
  <2> QED BY <2>4, <2>5
<1>2. ResetFrom(v, d) = [k \in Keys |-> [f \in Raises |-> ResetFrom(v, d)[k][f]]]
  BY DEF ResetFrom
<1> HIDE DEF ResetFrom
<1> QED BY <1>1, <1>2, Zenon DEF Rows

\* What Applied makes of a row on d: it judges an open one, may raise that of d,
\* and leaves every other as it was.
AppliedRow(v, d, said, k, f) ==
    LET old == v[k][f]
        new == Applied(v, d, said)[k][f]
    IN  IF IsOpen(v, k, f)
        THEN \/ new.to = Open
             \/ /\ new = [old EXCEPT !.to = d]
                /\ said[k] = "disabled" \/ ~Held(k, old, d)
        ELSE \/ new = old
             \/ f = d /\ new.to = Open /\ \A g \in Raises : ~IsOpen(v, k, g)

\* Applied does that to every row, and keeps the types.
LEMMA AppliedRows ==
    ASSUME NEW v \in Rows, NEW d \in Dates, NEW said \in [Keys -> Verdicts]
    PROVE  /\ Applied(v, d, said) \in Rows
           /\ \A k \in Keys, f \in Raises : AppliedRow(v, d, said, k, f)
<1>1. ASSUME NEW k \in Keys, NEW f \in Raises
      PROVE  AppliedRow(v, d, said, k, f) /\ Applied(v, d, said)[k][f] \in Stints
  <2> DEFINE old == v[k][f]
             new == Applied(v, d, said)[k][f]
  <2>1. old \in Stints
    BY DEF Rows
  <2>2. /\ d \in Raises /\ None \in Expiries /\ d + Hold[k] \in Expiries
        /\ [on |-> d, was |-> old.expires] \in Moves
    BY <2>1, StintFacts, DateFacts DEF Expiries, Moves
  <2>3. /\ [old EXCEPT !.seen = d] \in Stints
        /\ [old EXCEPT !.to = d] \in Stints
        /\ [old EXCEPT !.seen = d, !.expires = d + Hold[k],
                       !.moved = @ \cup {[on |-> d, was |-> old.expires]}] \in Stints
    <3> HIDE DEF old
    <3> QED BY <2>1, <2>2 DEF Stints
  <2>4. Raised(k, d) \in Stints /\ Raised(k, d).to = Open
    BY <2>2 DEF Raised, Stints
  <2>5. CASE IsOpen(v, k, f)
    <3>1. new = Judged(k, old, d, said[k])
      BY <2>5 DEF Applied
    <3>2. old.to = Open
      BY <2>5 DEF IsOpen
    <3>3. CASE said[k] = "hit"
      <4>1. new = SeenAgain(k, old, d)
        BY <3>1, <3>3 DEF Judged
      <4>2. new \in Stints /\ new.to = Open
        <5> HIDE DEF old, new
        <5> QED BY <2>1, <2>3, <3>2, <4>1 DEF SeenAgain, Stints
      <4> QED BY <2>5, <4>2 DEF AppliedRow
    <3>4. CASE said[k] # "hit"
      <4>1. \/ new = old
            \/ /\ new = [old EXCEPT !.to = d]
               /\ said[k] = "disabled" \/ ~Held(k, old, d)
        <5> HIDE DEF old, new
        <5> QED BY <3>1, <3>4 DEF Judged
      <4>2. new \in Stints
        BY <2>1, <2>3, <4>1
      <4> QED BY <2>5, <3>2, <4>1, <4>2 DEF AppliedRow
    <3> QED BY <3>3, <3>4
  <2>6. CASE ~IsOpen(v, k, f)
    <3>1. \/ new = old
          \/ f = d /\ new = Raised(k, d) /\ \A g \in Raises : ~IsOpen(v, k, g)
      BY <2>6 DEF Applied
    <3> QED BY <2>1, <2>4, <2>6, <3>1 DEF AppliedRow
  <2> QED BY <2>5, <2>6
<1>2. Applied(v, d, said) = [k \in Keys |-> [f \in Raises |-> Applied(v, d, said)[k][f]]]
  BY DEF Applied
<1> HIDE DEF Applied
<1> QED BY <1>1, <1>2, Zenon DEF Rows

\* A write at d that the guard lets in: what it makes of every row.
WrittenRow(v, w, d, said, k, f) ==
    LET old == v[k][f]
        new == w[k][f]
    IN  /\ f = d => ~Exists(w, k, f) \/ new.to = Open
        /\ f # d /\ ~Exists(v, k, f) => ~Exists(w, k, f)
        /\ f # d /\ Exists(v, k, f) =>
             /\ f < d
             /\ old.to < d => new.to = old.to
             /\ old.to < d /\ (\A m \in old.moved : m.on < d) => new = old
             /\ ~(old.to < d) =>
                  \/ new.to = Open
                  \/ /\ new.to = d
                     /\ \A m \in new.moved : m.on < d
                     /\ said[k] = "disabled" \/ ~Held(k, new, d)

\* A row of d is raised only with no open row before it.
RaisedAlone(v, w, d) ==
    \A k \in Keys : Exists(w, k, d) =>
        \A f \in Raises : Exists(v, k, f) /\ f # d => v[k][f].to < d

\* A write the guard lets in does both to the whole table.
LEMMA WrittenRows ==
    ASSUME NEW v \in Rows, NEW d \in Dates, NEW said \in [Keys -> Verdicts],
           ~OutOfOrder(v, d),
           NEW w, w = Applied(Undone(v, d), d, said)
    PROVE  /\ w \in Rows /\ RaisedAlone(v, w, d)
           /\ \A k \in Keys, f \in Raises : WrittenRow(v, w, d, said, k, f)
<1> DEFINE u == Undone(v, d)
<1>1. u \in Rows /\ \A k \in Keys, f \in Raises : UndoneRow(v, d, k, f)
  BY UndoneRows
<1>2. w \in Rows /\ \A k \in Keys, f \in Raises : AppliedRow(u, d, said, k, f)
  BY <1>1, AppliedRows
<1>3. d \in Nat /\ d \in Raises /\ d < Open /\ d # None /\ Open \in Nat /\ Open # None
  BY DateFacts
<1>4. ASSUME NEW k \in Keys, NEW f \in Raises
      PROVE  IF f = d \/ ~Exists(v, k, f) THEN u[k][f] = NoStint
             ELSE /\ f < d
                  /\ v[k][f].to < d => u[k][f].to = v[k][f].to
                  /\ v[k][f].to < d /\ (\A m \in v[k][f].moved : m.on < d) => u[k][f] = v[k][f]
                  /\ ~(v[k][f].to < d) => u[k][f].to = Open /\ v[k][f].to \in {d, Open}
                  /\ \A m \in u[k][f].moved : m.on < d
  <2> DEFINE old == v[k][f]
             kept == [old EXCEPT !.to = IF @ = d THEN Open ELSE @]
  <2>1. old \in Stints /\ old.to \in Nat /\ f \in Nat
    BY StintFacts, DateFacts DEF Rows
  <2>2. UndoneRow(v, d, k, f)
    BY <1>1
  <2>3. CASE f = d \/ ~Exists(v, k, f)
    BY <2>2, <2>3 DEF UndoneRow
  <2>4. CASE ~(f = d \/ ~Exists(v, k, f))
    <3>1. RestoredStint(kept, u[k][f], d)
      BY <2>2, <2>4 DEF UndoneRow
    <3>2. ~(f > d) /\ (IsOpen(v, k, f) \/ ~(old.to > d))
      BY <2>4 DEF OutOfOrder
    <3>3. f < d /\ (old.to = Open \/ old.to <= d)
      BY <2>1, <2>4, <3>2, <1>3 DEF IsOpen
    <3>4. /\ kept.to = IF old.to = d THEN Open ELSE old.to
          /\ old.to # d => kept = old
          /\ kept.moved = old.moved
      BY <2>1 DEF Stints
    <3>5. /\ u[k][f].to = kept.to
          /\ \A m \in u[k][f].moved : m.on < d
          /\ (\A m \in kept.moved : m.on < d) => u[k][f] = kept
      BY <3>1 DEF RestoredStint
    <3>6. /\ old.to < d => old.to # d
          /\ ~(old.to < d) => old.to \in {d, Open}
      BY <2>1, <3>3, <1>3
    <3> HIDE DEF old, kept, u
    <3>7. /\ old.to < d => u[k][f].to = old.to
          /\ old.to < d /\ (\A m \in old.moved : m.on < d) => u[k][f] = old
          /\ ~(old.to < d) => u[k][f].to = Open /\ old.to \in {d, Open}
      BY <3>4, <3>5, <3>6
    <3> QED BY <2>4, <3>3, <3>5, <3>7 DEF old
  <2> QED BY <2>3, <2>4
<1> HIDE DEF u
<1>5. ASSUME NEW k \in Keys, NEW f \in Raises
      PROVE  WrittenRow(v, w, d, said, k, f)
  <2>1. AppliedRow(u, d, said, k, f) /\ v[k][f] \in Stints /\ u[k][f] \in Stints
    BY <1>1, <1>2 DEF Rows
  <2>2. w = Applied(u, d, said)
    BY DEF u
  <2>3. CASE f = d
    <3>1. u[k][f] = NoStint
      BY <1>4, <2>3
    <3>2. ~IsOpen(u, k, f)
      BY <3>1, <1>3, NoStintType DEF IsOpen
    <3>3. w[k][f] = NoStint \/ w[k][f].to = Open
      BY <2>1, <2>2, <3>1, <3>2 DEF AppliedRow
    <3> QED BY <2>3, <3>3, NoStintType DEF WrittenRow, Exists
  <2>4. CASE f # d /\ ~Exists(v, k, f)
    <3>1. u[k][f] = NoStint
      BY <1>4, <2>4
    <3>2. ~IsOpen(u, k, f)
      BY <3>1, <1>3, NoStintType DEF IsOpen
    <3>3. w[k][f] = NoStint
      BY <2>1, <2>2, <2>4, <3>1, <3>2 DEF AppliedRow
    <3> QED BY <2>4, <3>3, NoStintType DEF WrittenRow, Exists
  <2>5. CASE f # d /\ Exists(v, k, f)
    <3> DEFINE old == v[k][f]
               mid == u[k][f]
               new == w[k][f]
    <3>1. /\ f < d
          /\ old.to < d => mid.to = old.to
          /\ old.to < d /\ (\A m \in old.moved : m.on < d) => mid = old
          /\ ~(old.to < d) => mid.to = Open
          /\ \A m \in mid.moved : m.on < d
      BY <1>4, <2>5
    <3>2. IF mid.to = Open
          THEN \/ new.to = Open
               \/ /\ new = [mid EXCEPT !.to = d]
                  /\ said[k] = "disabled" \/ ~Held(k, mid, d)
          ELSE new = mid
      BY <2>1, <2>2, <2>5 DEF AppliedRow, IsOpen
    <3>3. mid \in Stints /\ old \in Stints /\ old.to \in Nat
      BY <2>1, StintFacts
    <3>4. ASSUME new = [mid EXCEPT !.to = d]
          PROVE  /\ new.to = d /\ new.moved = mid.moved
                 /\ Held(k, new, d) <=> Held(k, mid, d)
      <4> HIDE DEF mid, new
      <4> QED BY <3>3, <3>4 DEF Held, Stints
    <3>5. old.to < d => old.to # Open
      BY <1>3, <3>3
    <3> HIDE DEF old, mid, new
    <3>6. CASE old.to < d
      <4>1. new = mid
        BY <3>1, <3>2, <3>5, <3>6
      <4> QED BY <2>5, <3>1, <3>6, <4>1 DEF WrittenRow, old, new
    <3>7. CASE ~(old.to < d)
      <4>1. \/ new.to = Open
            \/ /\ new.to = d
               /\ \A m \in new.moved : m.on < d
               /\ said[k] = "disabled" \/ ~Held(k, new, d)
        BY <3>1, <3>2, <3>4, <3>7
      <4> QED BY <2>5, <3>1, <3>7, <4>1 DEF WrittenRow, old, new
    <3> QED BY <3>6, <3>7
  <2> QED BY <2>3, <2>4, <2>5
<1>6. RaisedAlone(v, w, d)
  <2> SUFFICES ASSUME NEW k \in Keys, Exists(w, k, d),
                      NEW f \in Raises, Exists(v, k, f), f # d, ~(v[k][f].to < d)
               PROVE  FALSE
    BY DEF RaisedAlone
  <2>1. u[k][d] = NoStint /\ ~IsOpen(u, k, d)
    BY <1>3, <1>4, NoStintType DEF IsOpen
  <2>2. AppliedRow(u, d, said, k, d) /\ w = Applied(u, d, said)
    BY <1>2, <1>3 DEF u
  <2>3. w[k][d] # NoStint
    BY NoStintType DEF Exists
  <2>4. ~IsOpen(u, k, f)
    BY <2>1, <2>2, <2>3 DEF AppliedRow
  <2>5. u[k][f].to = Open
    BY <1>4
  <2> QED BY <2>4, <2>5 DEF IsOpen
<1> QED BY <1>2, <1>5, <1>6

\* A reset from d: what it makes of every row.
LEMMA ResetFacts ==
    ASSUME NEW v \in Rows, NEW d \in Dates, NEW k \in Keys, NEW f \in Raises,
           Exists(ResetFrom(v, d), k, f)
    PROVE  LET old == v[k][f]
               new == ResetFrom(v, d)[k][f]
           IN  /\ f < d /\ Exists(v, k, f) /\ new.seen < d
               /\ old.to < d => new.to = old.to
               /\ ~(old.to < d) => new.to = Open
               /\ old.to < d /\ old.seen < d /\ (\A m \in old.moved : m.on < d) => new = old
               /\ \A m \in new.moved : m.on < d
               /\ (\A m \in old.moved : m.on < d) => new.expires = old.expires
<1> DEFINE old  == v[k][f]
           new  == ResetFrom(v, d)[k][f]
           kept == [old EXCEPT !.to = IF @ >= d THEN Open ELSE @,
                               !.seen = IF @ >= d THEN f ELSE @]
<1>1. old \in Stints /\ old.to \in Nat /\ old.seen \in Nat /\ f \in Nat /\ d \in Nat
  BY StintFacts, DateFacts DEF Rows
<1>2. ~(f >= d \/ ~Exists(v, k, f))
  BY ResetRows, NoStintType DEF ResetRow, Exists
<1>3. RestoredStint(kept, new, d)
  BY <1>2, ResetRows DEF ResetRow
<1>4. /\ kept.to = IF old.to >= d THEN Open ELSE old.to
      /\ kept.seen = IF old.seen >= d THEN f ELSE old.seen
      /\ kept.moved = old.moved /\ kept.expires = old.expires
      /\ ~(old.to >= d) /\ ~(old.seen >= d) => kept = old
  <2> HIDE DEF old
  <2> QED BY <1>1 DEF Stints
<1>5. /\ new.to = kept.to /\ new.seen = kept.seen
      /\ \A m \in new.moved : m.on < d
      /\ (\A m \in kept.moved : m.on < d) => new = kept
  BY <1>3 DEF RestoredStint
<1> HIDE DEF old, new, kept
<1>6. /\ f < d /\ new.seen < d
      /\ old.to < d => new.to = old.to
      /\ ~(old.to < d) => new.to = Open
      /\ old.to < d /\ old.seen < d => kept = old
  BY <1>1, <1>2, <1>4, <1>5
<1> QED BY <1>2, <1>4, <1>5, <1>6 DEF old, new

-----------------------------------------------------------------------------
(* Recursion and induction over dates *)

\* Induction: what holds before every date and passes from date to date.
LEMMA DatesInduction ==
    ASSUME NEW S, 0 \in S, \A d \in Dates : d - 1 \in S => d \in S
    PROVE  Raises \subseteq S
<1> DEFINE T == Raises \ S
<1> SUFFICES ASSUME T # {} PROVE FALSE
  OBVIOUS
<1>1. T \subseteq Nat
  BY DateFacts
<1>2. PICK n \in T : \A m \in T : ~(<<m, n>> \in OpToRel(<, Nat))
  BY <1>1, WFMin, NatLessThanWellFounded
<1>3. n \in Dates /\ n \in Nat
  BY <1>1, DateFacts DEF None
<1>4. n - 1 \in Raises /\ n - 1 \in Nat /\ n - 1 < n
  BY <1>3, VetoAssumption, SMT DEF Dates, Raises
<1>5. <<n - 1, n>> \in OpToRel(<, Nat)
  BY <1>3, <1>4 DEF OpToRel
<1>6. n - 1 \in S
  BY <1>2, <1>4, <1>5
<1> QED BY <1>2, <1>3, <1>6

\* g begins with base and takes the step F of each date.
TakesSteps(g, base, F) ==
    g[0] = base /\ \A d \in Dates : g[d] = F[<<g[d - 1], d>>]

\* A step F on the values V and a value to begin with define one value per date.
LEMMA StepsDefine ==
    ASSUME NEW V, NEW base \in V, NEW F \in [V \X Dates -> V]
    PROVE  \E g \in [Raises -> V] : TakesSteps(g, base, F)
<1> DEFINE Defines(g, n) == /\ g \in [0..n -> V] /\ g[0] = base
                            /\ \A d \in Dates : d <= n => g[d] = F[<<g[d - 1], d>>]
           S == {n \in Raises : \E g : Defines(g, n)}
<1>1. 0 \in S
  <2> DEFINE g == [d \in 0..0 |-> base]
  <2>1. Defines(g, 0)
    BY DateFacts, SMT DEF Dates
  <2>2. 0 \in Raises
    BY VetoAssumption, SMT DEF Raises
  <2> QED BY <2>1, <2>2
<1>2. ASSUME NEW d \in Dates, d - 1 \in S
      PROVE  d \in S
  <2>1. PICK g : Defines(g, d - 1)
    BY <1>2
  <2>2. d \in Nat /\ d - 1 \in Nat /\ d \in Raises
    BY DateFacts, SMT DEF Dates
  <2> DEFINE h == [e \in 0..d |-> IF e = d THEN F[<<g[d - 1], d>>] ELSE g[e]]
  <2>3. g[d - 1] \in V
    BY <2>1, <2>2
  <2>4. F[<<g[d - 1], d>>] \in V
    BY <2>3
  <2>5. h \in [0..d -> V] /\ h[0] = base
    <3>1. \A e \in 0..d : e # d => e \in 0..(d - 1)
      BY <2>2
    <3>2. 0 \in 0..d /\ 0 # d
      BY <2>2, DateFacts DEF None
    <3> QED BY <2>1, <2>4, <3>1, <3>2
  <2>6. ASSUME NEW e \in Dates, e <= d
        PROVE  h[e] = F[<<h[e - 1], e>>]
    <3>1. e \in 0..d /\ e - 1 \in 0..d /\ e - 1 # d /\ (e # d => e <= d - 1)
      BY <2>2, <2>6, SMT DEF Dates
    <3>2. h[e - 1] = g[e - 1]
      BY <3>1
    <3>3. CASE e = d
      BY <3>1, <3>2, <3>3
    <3>4. CASE e # d
      <4>1. h[e] = g[e]
        BY <3>1, <3>4
      <4>2. g[e] = F[<<g[e - 1], e>>]
        BY <2>1, <3>1, <3>4
      <4> QED BY <3>2, <4>1, <4>2
    <3> QED BY <3>3, <3>4
  <2>7. Defines(h, d)
    BY <2>5, <2>6
  <2> QED BY <2>2, <2>7
<1>3. LastDate \in S
  <2>1. Raises \subseteq S
    <3> HIDE DEF S
    <3> QED BY <1>1, <1>2, DatesInduction
  <2>2. LastDate \in Raises
    BY VetoAssumption, SMT DEF Raises
  <2> QED BY <2>1, <2>2
<1>4. PICK g : Defines(g, LastDate)
  BY <1>3
<1>5. \A d \in Dates : d <= LastDate
  BY VetoAssumption, SMT DEF Dates
<1> QED BY <1>4, <1>5 DEF Raises, TakesSteps

-----------------------------------------------------------------------------
(* What the rules mean *)

Histories == [Dates -> Ran]
Meanings  == [on : BOOLEAN, until : Nat]

\* Meant, of any history of dates.
MeantBy(r, k, old) ==
    LET on[d \in Raises] ==
          LET eve == on[d - 1] IN
          IF d = 0 THEN [on |-> old, until |-> 0]
          ELSE IF ~r[d].wrote \/ r[d].said[k] = "unknown" THEN eve
          ELSE IF r[d].said[k] = "disabled" THEN [on |-> FALSE, until |-> 0]
          ELSE IF eve.on /\ d < eve.until THEN eve
          ELSE IF r[d].said[k] = "hit" THEN [on |-> TRUE, until |-> d + Hold[k]]
          ELSE [on |-> FALSE, until |-> 0]
    IN  on

\* One date of it.
MeantNext(r, k, eve, d) ==
    IF ~r[d].wrote \/ r[d].said[k] = "unknown" THEN eve
    ELSE IF r[d].said[k] = "disabled" THEN [on |-> FALSE, until |-> 0]
    ELSE IF eve.on /\ d < eve.until THEN eve
    ELSE IF r[d].said[k] = "hit" THEN [on |-> TRUE, until |-> d + Hold[k]]
    ELSE [on |-> FALSE, until |-> 0]

\* The recursion has a solution: it starts from the legacy stint and goes on date
\* by date.
LEMMA MeantSteps ==
    ASSUME NEW r \in Histories, NEW k \in Keys, NEW old \in BOOLEAN
    PROVE  LET M == MeantBy(r, k, old)
           IN  /\ M \in [Raises -> Meanings]
               /\ M[0] = [on |-> old, until |-> 0]
               /\ \A d \in Dates : M[d] = MeantNext(r, k, M[d - 1], d)
<1> DEFINE base == [on |-> old, until |-> 0]
           F == [p \in Meanings \X Dates |-> MeantNext(r, k, p[1], p[2])]
           Body(h) == [d \in Raises |->
                         LET eve == h[d - 1] IN
                         IF d = 0 THEN [on |-> old, until |-> 0]
                         ELSE IF ~r[d].wrote \/ r[d].said[k] = "unknown" THEN eve
                         ELSE IF r[d].said[k] = "disabled" THEN [on |-> FALSE, until |-> 0]
                         ELSE IF eve.on /\ d < eve.until THEN eve
                         ELSE IF r[d].said[k] = "hit" THEN [on |-> TRUE, until |-> d + Hold[k]]
                         ELSE [on |-> FALSE, until |-> 0]]
<1>1. base \in Meanings
  BY DEF Meanings
<1>2. ASSUME NEW eve \in Meanings, NEW d \in Dates
      PROVE  MeantNext(r, k, eve, d) \in Meanings
  <2>1. d + Hold[k] \in Nat
    BY VetoAssumption, DateFacts
  <2> QED BY <2>1 DEF MeantNext, Meanings
<1>3. F \in [Meanings \X Dates -> Meanings]
  BY <1>2
<1>4. PICK g \in [Raises -> Meanings] :
         TakesSteps(g, base, F)
  <2> HIDE DEF base, F
  <2> QED BY <1>1, <1>3, StepsDefine
<1>5. \A d \in Raises : d # 0 => d \in Dates /\ d - 1 \in Raises
  BY VetoAssumption, SMT DEF Dates, Raises
<1>6. ASSUME NEW d \in Raises, d # 0
      PROVE  g[d] = MeantNext(r, k, g[d - 1], d)
  BY <1>4, <1>5, <1>6 DEF TakesSteps
<1>7. g = Body(g)
  <2>1. \A d \in Raises : g[d] = Body(g)[d]
    BY <1>4, <1>6 DEF MeantNext, TakesSteps
  <2> QED BY <1>4, <2>1
<1>8. MeantBy(r, k, old) = CHOOSE h : h = Body(h)
  BY DEF MeantBy
<1> HIDE DEF Body
<1>9. MeantBy(r, k, old) = Body(MeantBy(r, k, old))
  BY <1>7, <1>8
<1>10. ASSUME NEW M, M = Body(M)
       PROVE  /\ M \in [Raises -> Meanings] /\ M[0] = base
              /\ \A d \in Dates : M[d] = MeantNext(r, k, M[d - 1], d)
  <2>1. 0 \in Raises /\ Dates \subseteq Raises /\ 0 \notin Dates
    BY VetoAssumption, SMT DEF Dates, Raises
  <2>2. M[0] = base
    BY <1>10, <2>1 DEF Body
  <2>3. \A d \in Dates : M[d] = MeantNext(r, k, M[d - 1], d)
    BY <1>10, <2>1 DEF Body, MeantNext
  <2>4. \A d \in Raises : M[d] \in Meanings
    <3> DEFINE S == {d \in Raises : M[d] \in Meanings}
    <3>1. 0 \in S
      BY <1>1, <2>1, <2>2
    <3>2. \A d \in Dates : d - 1 \in S => d \in S
      BY <1>2, <2>1, <2>3
    <3> HIDE DEF S
    <3>3. Raises \subseteq S
      BY <3>1, <3>2, DatesInduction
    <3> QED BY <3>3 DEF S
  <2>5. M = [d \in Raises |-> M[d]]
    BY <1>10 DEF Body
  <2> QED BY <2>2, <2>3, <2>4, <2>5
<1> QED BY <1>9, <1>10

\* What is meant of a date depends on no later one.
LEMMA MeantBefore ==
    ASSUME NEW r \in Histories, NEW s \in Histories, NEW k \in Keys, NEW old \in BOOLEAN,
           NEW d \in Dates, \A e \in Dates : e < d => r[e] = s[e]
    PROVE  \A c \in Raises : c < d => MeantBy(r, k, old)[c] = MeantBy(s, k, old)[c]
<1> DEFINE M == MeantBy(r, k, old)
           N == MeantBy(s, k, old)
           S == {c \in Raises : c < d => M[c] = N[c]}
<1>1. 0 \in S
  <2>1. 0 \in Raises
    BY VetoAssumption, SMT DEF Raises
  <2>2. M[0] = [on |-> old, until |-> 0] /\ N[0] = [on |-> old, until |-> 0]
    BY MeantSteps
  <2> QED BY <2>1, <2>2
<1>2. ASSUME NEW c \in Dates, c - 1 \in S, c < d
      PROVE  M[c] = N[c]
  <2>1. c - 1 < d
    BY <1>2, DateFacts
  <2>2. M[c - 1] = N[c - 1]
    BY <1>2, <2>1
  <2>3. M[c] = MeantNext(r, k, M[c - 1], c) /\ N[c] = MeantNext(s, k, N[c - 1], c)
    BY MeantSteps
  <2> HIDE DEF M, N
  <2> QED BY <1>2, <2>2, <2>3 DEF MeantNext
<1>3. \A c \in Dates : c - 1 \in S => c \in S
  BY <1>2, DateFacts
<1> HIDE DEF S
<1>4. Raises \subseteq S
  BY <1>1, <1>3, DatesInduction
<1> QED BY <1>4 DEF S

\* Dates not written change nothing of what is meant.
LEMMA MeantAfter ==
    ASSUME NEW r \in Histories, NEW k \in Keys, NEW old \in BOOLEAN,
           NEW d \in Raises, \A e \in Dates : e > d => ~r[e].wrote
    PROVE  \A c \in Raises : c >= d => MeantBy(r, k, old)[c] = MeantBy(r, k, old)[d]
<1> DEFINE M == MeantBy(r, k, old)
           S == {c \in Raises : c >= d => M[c] = M[d]}
<1>1. 0 \in S
  BY VetoAssumption, SMT DEF Raises
<1>2. ASSUME NEW c \in Dates, c - 1 \in S, c >= d
      PROVE  M[c] = M[d]
  <2>1. CASE c = d
    BY <2>1
  <2>2. CASE c # d
    <3>1. c > d /\ c - 1 >= d
      BY <1>2, <2>2, DateFacts
    <3>2. M[c] = MeantNext(r, k, M[c - 1], c)
      BY MeantSteps
    <3>3. M[c] = M[c - 1]
      BY <3>1, <3>2 DEF MeantNext
    <3> QED BY <1>2, <3>1, <3>3
  <2> QED BY <2>1, <2>2
<1>3. \A c \in Dates : c - 1 \in S => c \in S
  BY <1>2, DateFacts
<1> HIDE DEF S
<1>4. Raises \subseteq S
  BY <1>1, <1>3, DatesInduction
<1> QED BY <1>4 DEF S

-----------------------------------------------------------------------------
(* The expiry a stint had on an earlier date *)

After(moved, c) == {m \in moved : m.on > c}
Earliest(D) == CHOOSE m \in D : \A n \in D : m.on <= n.on

\* What the expiry history tells: the expiry before the first move after c.
ExpiryOn(stint, c) ==
    IF After(stint.moved, c) = {} THEN stint.expires
    ELSE Earliest(After(stint.moved, c)).was

\* A stint is extended once on a date.
MovedOnce(stint) == \A m, n \in stint.moved : m.on = n.on => m = n

\* The earliest of some moves is one of them, before the others.
LEMMA EarliestIs ==
    ASSUME NEW D \in SUBSET Moves, D # {}
    PROVE  Earliest(D) \in D /\ \A n \in D : Earliest(D).on <= n.on
BY EarliestMove DEF Earliest

\* restore_expiries_from of d changes no expiry of a date before d, and no date
\* has two moves after it.
LEMMA ExpiryRestored ==
    ASSUME NEW stint \in Stints, MovedOnce(stint), NEW d \in Dates,
           NEW new, new = RestoreExpiry(stint, d)
    PROVE  /\ MovedOnce(new)
           /\ \A c \in Raises : c < d => ExpiryOn(new, c) = ExpiryOn(stint, c)
<1> DEFINE dropped == {m \in stint.moved : m.on >= d}
<1>1. stint.moved \in SUBSET Moves /\ \A m \in stint.moved : m.on \in Nat
  BY StintFacts, DateFacts DEF Moves
<1>2. d \in Nat /\ \A c \in Raises : c \in Nat
  BY DateFacts
<1>3. CASE dropped = {}
  BY <1>3 DEF RestoreExpiry
<1>4. CASE dropped # {}
  <2>1. new = [stint EXCEPT !.expires = Earliest(dropped).was, !.moved = @ \ dropped]
    BY <1>4 DEF RestoreExpiry, Earliest
  <2>2. new.expires = Earliest(dropped).was /\ new.moved = stint.moved \ dropped
    <3> HIDE DEF dropped
    <3> QED BY <2>1 DEF Stints
  <2>3. MovedOnce(new)
    BY <2>2 DEF MovedOnce
  <2>4. ASSUME NEW c \in Raises, c < d
        PROVE  ExpiryOn(new, c) = ExpiryOn(stint, c)
    <3> DEFINE A == After(new.moved, c)
               B == After(stint.moved, c)
    <3>1. dropped \subseteq B /\ A = B \ dropped
      BY <1>1, <1>2, <2>2, <2>4 DEF After
    <3>2. B \in SUBSET Moves /\ B \subseteq stint.moved /\ B # {}
      BY <1>1, <1>4, <3>1 DEF After
    <3>3. CASE A = {}
      BY <2>2, <3>1, <3>3, <3>2 DEF ExpiryOn
    <3>4. CASE A # {}
      <4>1. Earliest(A) \in A /\ \A n \in A : Earliest(A).on <= n.on
        BY <3>1, <3>2, <3>4, EarliestIs
      <4>2. Earliest(B) \in B /\ \A n \in B : Earliest(B).on <= n.on
        BY <3>2, EarliestIs
      <4>3. Earliest(A) \in stint.moved /\ ~(Earliest(A).on >= d) /\ Earliest(B) \in stint.moved
        BY <3>1, <3>2, <4>1, <4>2
      <4>4. Earliest(B).on <= Earliest(A).on
        BY <3>1, <4>1, <4>2
      <4>5. Earliest(B) \notin dropped
        BY <1>1, <1>2, <4>3, <4>4
      <4>6. Earliest(A).on <= Earliest(B).on
        BY <3>1, <4>1, <4>2, <4>5
      <4>7. Earliest(A).on = Earliest(B).on
        BY <1>1, <4>3, <4>4, <4>6
      <4>8. Earliest(A) = Earliest(B)
        BY <4>3, <4>7 DEF MovedOnce
      <4> QED BY <3>2, <3>4, <4>8 DEF ExpiryOn
    <3> QED BY <3>3, <3>4
  <2> QED BY <2>3, <2>4
<1> QED BY <1>3, <1>4

\* A stint extended on d, all its moves before d, gets back what it was when the
\* expiries are restored from d: the extension changes no expiry before d.
LEMMA ExpiryExtended ==
    ASSUME NEW stint \in Stints, MovedOnce(stint), NEW d \in Dates,
           \A m \in stint.moved : m.on < d,
           NEW new \in Stints,
           new.moved = stint.moved \cup {[on |-> d, was |-> stint.expires]}
    PROVE  /\ MovedOnce(new)
           /\ \A c \in Raises : c < d => ExpiryOn(new, c) = ExpiryOn(stint, c)
<1> DEFINE last == [on |-> d, was |-> stint.expires]
           back == RestoreExpiry(new, d)
<1>1. stint.moved \in SUBSET Moves /\ \A m \in stint.moved : m.on \in Nat
  BY StintFacts, DateFacts DEF Moves
<1>2. d \in Nat /\ last \in Moves
  BY DateFacts, StintFacts DEF Moves
<1>3. MovedOnce(new)
  BY <1>1, <1>2 DEF MovedOnce
<1>4. {m \in new.moved : m.on >= d} = {last} /\ new.moved \ {last} = stint.moved
  BY <1>1, <1>2
<1>5. Earliest({last}) = last
  BY <1>2, EarliestIs
<1>6. back = [new EXCEPT !.expires = last.was, !.moved = stint.moved]
  BY <1>4, <1>5 DEF RestoreExpiry, Earliest
<1>7. back.expires = stint.expires /\ back.moved = stint.moved
  BY <1>6 DEF Stints
<1>8. \A c \in Raises : ExpiryOn(back, c) = ExpiryOn(stint, c)
  BY <1>7 DEF ExpiryOn
<1> QED BY <1>3, <1>8, ExpiryRestored

\* After its last move a stint's expiry is the one of the row.
LEMMA ExpiryLast ==
    ASSUME NEW stint \in Stints, NEW c \in Raises, \A m \in stint.moved : m.on <= c
    PROVE  ExpiryOn(stint, c) = stint.expires
<1>1. \A m \in stint.moved : m.on \in Nat
  BY StintFacts, DateFacts DEF Moves
<1>2. After(stint.moved, c) = {}
  BY <1>1, DateFacts DEF After
<1> QED BY <1>2 DEF ExpiryOn

-----------------------------------------------------------------------------
(* What a table reads *)

\* The stint of f covers the date c.
Covers(v, k, f, c) == Exists(v, k, f) /\ f <= c /\ c < v[k][f].to

\* The table tells of k on c what m means: the veto, and the end of its hold.
ReadsAs(v, k, c, m) ==
    /\ Active(v, k, c) <=> m.on
    /\ \A f \in Raises : Covers(v, k, f, c) =>
          IF Hold[k] = 0 THEN m.until <= c ELSE m.until = ExpiryOn(v[k][f], c)

\* w differs from v on and after d only.
SameBefore(v, w, k, d) ==
    \A f \in Raises : f < d =>
        /\ Exists(w, k, f) <=> Exists(v, k, f)
        /\ Exists(v, k, f) => \A c \in Raises : c < d =>
              /\ c < w[k][f].to <=> c < v[k][f].to
              /\ ExpiryOn(w[k][f], c) = ExpiryOn(v[k][f], c)

\* The table of k has nothing after d.
EndsBy(v, k, d) ==
    \A f \in Raises : Exists(v, k, f) =>
        /\ f <= d /\ (v[k][f].to <= d \/ v[k][f].to = Open)
        /\ \A m \in v[k][f].moved : m.on <= d

\* Tables that are the same before d read the same before d.
LEMMA ReadsBefore ==
    ASSUME NEW v \in Rows, NEW w \in Rows, NEW k \in Keys, NEW d \in Dates,
           SameBefore(v, w, k, d), NEW c \in Raises, c < d,
           NEW m, ReadsAs(v, k, c, m)
    PROVE  ReadsAs(w, k, c, m)
<1>1. \A f \in Raises : f <= c => f < d
  BY DateFacts
<1>2. \A f \in Raises : Covers(w, k, f, c) <=> Covers(v, k, f, c)
  BY <1>1 DEF SameBefore, Covers
<1>3. \A f \in Raises : Covers(w, k, f, c) => ExpiryOn(w[k][f], c) = ExpiryOn(v[k][f], c)
  BY <1>1, <1>2 DEF SameBefore, Covers
<1>4. Active(w, k, c) <=> Active(v, k, c)
  BY <1>2 DEF Active, Covers
<1> QED BY <1>2, <1>3, <1>4 DEF ReadsAs

\* A table with nothing after d reads the same on every date from d on.
LEMMA ReadsAfter ==
    ASSUME NEW v \in Rows, NEW k \in Keys, NEW d \in Raises, EndsBy(v, k, d),
           NEW m \in Meanings, ReadsAs(v, k, d, m), NEW c \in Raises, d <= c
    PROVE  ReadsAs(v, k, c, m)
<1>1. d \in Nat /\ c \in Nat /\ c < Open /\ Open \in Nat /\ m.until \in Nat
  BY DateFacts DEF Meanings
<1>2. ASSUME NEW f \in Raises
      PROVE  Covers(v, k, f, c) <=> Covers(v, k, f, d)
  <2>1. v[k][f].to \in Nat /\ f \in Nat
    BY StintFacts, DateFacts DEF Rows
  <2> QED BY <1>1, <2>1 DEF Covers, EndsBy
<1>3. ASSUME NEW f \in Raises, Covers(v, k, f, c)
      PROVE  ExpiryOn(v[k][f], c) = ExpiryOn(v[k][f], d)
  <2>1. v[k][f] \in Stints /\ \A n \in v[k][f].moved : n.on <= d /\ n.on \in Nat
    BY <1>3, StintFacts, DateFacts DEF Rows, EndsBy, Covers, Moves
  <2>2. \A n \in v[k][f].moved : n.on <= c
    BY <1>1, <2>1
  <2> QED BY <2>1, <2>2, ExpiryLast
<1>4. Active(v, k, c) <=> Active(v, k, d)
  BY <1>2 DEF Active, Covers
<1>5. m.until <= d => m.until <= c
  BY <1>1
<1> QED BY <1>2, <1>3, <1>4, <1>5 DEF ReadsAs

\* No stint of k has two moves on a date.
AllMovedOnce(v, k) == \A f \in Raises : MovedOnce(v[k][f])

\* Restoring a row from d, reopened or not: what its reader sees before d is kept.
LEMMA RowRestored ==
    ASSUME NEW old \in Stints, MovedOnce(old), NEW d \in Dates,
           NEW kept \in Stints, kept.expires = old.expires, kept.moved = old.moved,
           old.to < d => kept.to = old.to, ~(old.to < d) => ~(kept.to < d),
           NEW new, new = RestoreExpiry(kept, d)
    PROVE  /\ MovedOnce(new) /\ new.to = kept.to
           /\ \A m \in new.moved : m.on < d
           /\ \A c \in Raises : c < d =>
                /\ c < new.to <=> c < old.to
                /\ ExpiryOn(new, c) = ExpiryOn(old, c)
<1>1. RestoredStint(kept, new, d)
  BY Restored
<1>2. MovedOnce(kept)
  BY DEF MovedOnce
<1>3. \A c \in Raises : ExpiryOn(kept, c) = ExpiryOn(old, c)
  BY DEF ExpiryOn
<1>4. MovedOnce(new) /\ \A c \in Raises : c < d => ExpiryOn(new, c) = ExpiryOn(kept, c)
  BY <1>2, ExpiryRestored
<1>5. old.to \in Nat /\ kept.to \in Nat /\ d \in Nat /\ \A c \in Raises : c \in Nat
  BY StintFacts, DateFacts
<1>6. new.to = kept.to /\ \A m \in new.moved : m.on < d
  BY <1>1 DEF RestoredStint
<1>7. \A c \in Raises : c < d => (c < kept.to <=> c < old.to)
  BY <1>5
<1> QED BY <1>3, <1>4, <1>6, <1>7

\* Undoing a write of d, in order, leaves nothing of d or later and all that was
\* before.
LEMMA UndoneReads ==
    ASSUME NEW v \in Rows, NEW d \in Dates, NEW k \in Keys, AllMovedOnce(v, k),
           ~OutOfOrder(v, d), NEW u, u = Undone(v, d)
    PROVE  /\ u \in Rows /\ AllMovedOnce(u, k)
           /\ SameBefore(v, u, k, d) /\ EndsBy(u, k, d - 1)
<1>1. u \in Rows
  BY UndoneRows
<1>2. d \in Nat /\ d - 1 \in Nat /\ d < Open /\ Open \in Nat /\ Open # None /\ d # None
  BY DateFacts, SMT DEF Dates
<1>3. MovedOnce(NoStint)
  BY DEF MovedOnce, NoStint
<1>4. ASSUME NEW f \in Raises
      PROVE  /\ MovedOnce(u[k][f])
             /\ f < d => /\ Exists(u, k, f) <=> Exists(v, k, f)
                         /\ Exists(v, k, f) => \A c \in Raises : c < d =>
                               /\ c < u[k][f].to <=> c < v[k][f].to
                               /\ ExpiryOn(u[k][f], c) = ExpiryOn(v[k][f], c)
             /\ Exists(u, k, f) =>
                  /\ f <= d - 1 /\ (u[k][f].to <= d - 1 \/ u[k][f].to = Open)
                  /\ \A m \in u[k][f].moved : m.on <= d - 1
  <2> DEFINE old  == v[k][f]
             kept == IF old.to = d THEN [old EXCEPT !.to = Open] ELSE old
             new  == u[k][f]
  <2>1. old \in Stints /\ old.to \in Nat /\ MovedOnce(old) /\ f \in Nat
    BY StintFacts, DateFacts DEF Rows, AllMovedOnce
  <2>2. new = IF f = d \/ old.to = None THEN NoStint ELSE RestoreExpiry(kept, d)
    BY DEF Undone
  <2>3. CASE f = d \/ old.to = None
    <3>1. new = NoStint /\ ~Exists(u, k, f)
      BY <2>2, <2>3, NoStintType DEF Exists
    <3>2. f < d => ~Exists(v, k, f)
      BY <1>2, <2>1, <2>3 DEF Exists
    <3> QED BY <1>3, <3>1, <3>2
  <2>4. CASE ~(f = d \/ old.to = None)
    <3>1. Exists(v, k, f) /\ new = RestoreExpiry(kept, d)
      BY <2>2, <2>4 DEF Exists
    <3>2. f < d /\ (old.to = Open \/ old.to <= d)
      BY <1>2, <2>1, <2>4, <3>1 DEF OutOfOrder, IsOpen
    <3>3. /\ kept \in Stints /\ kept.expires = old.expires /\ kept.moved = old.moved
          /\ kept.to = IF old.to = d THEN Open ELSE old.to
      <4> HIDE DEF old
      <4> QED BY <2>1 DEF Stints
    <3> HIDE DEF old, kept, new
    <3>4. /\ MovedOnce(new) /\ new.to = kept.to
          /\ \A m \in new.moved : m.on < d
          /\ \A c \in Raises : c < d =>
                /\ c < new.to <=> c < old.to
                /\ ExpiryOn(new, c) = ExpiryOn(old, c)
      <4>1. /\ old.to < d => kept.to = old.to
            /\ ~(old.to < d) => ~(kept.to < d)
        BY <1>2, <2>1, <3>2, <3>3
      <4> QED BY <2>1, <3>1, <3>3, <4>1, RowRestored
    <3>5. new \in Stints /\ \A m \in new.moved : m.on \in Nat
      <4>1. new \in Stints
        BY <1>1 DEF new, Rows
      <4> QED BY <4>1, StintFacts, DateFacts DEF Moves
    <3>6. f <= d - 1 /\ (new.to <= d - 1 \/ new.to = Open) /\ \A m \in new.moved : m.on <= d - 1
      BY <1>2, <2>1, <3>2, <3>3, <3>4, <3>5
    <3>7. Exists(u, k, f)
      BY <1>2, <2>4, <3>3, <3>4 DEF Exists, new, old
    <3> QED BY <3>1, <3>4, <3>6, <3>7 DEF old, new
  <2> QED BY <2>3, <2>4
<1> QED BY <1>1, <1>4 DEF AllMovedOnce, SameBefore, EndsBy

\* So does a reset from d, in any order.
LEMMA ResetReads ==
    ASSUME NEW v \in Rows, NEW d \in Dates, NEW k \in Keys, AllMovedOnce(v, k),
           NEW u, u = ResetFrom(v, d)
    PROVE  /\ u \in Rows /\ AllMovedOnce(u, k)
           /\ SameBefore(v, u, k, d) /\ EndsBy(u, k, d - 1)
<1>1. u \in Rows
  BY ResetRows
<1>2. d \in Nat /\ d - 1 \in Nat /\ d < Open /\ Open \in Nat /\ Open # None /\ d # None
  BY DateFacts, SMT DEF Dates
<1>3. MovedOnce(NoStint)
  BY DEF MovedOnce, NoStint
<1>4. ASSUME NEW f \in Raises
      PROVE  /\ MovedOnce(u[k][f])
             /\ f < d => /\ Exists(u, k, f) <=> Exists(v, k, f)
                         /\ Exists(v, k, f) => \A c \in Raises : c < d =>
                               /\ c < u[k][f].to <=> c < v[k][f].to
                               /\ ExpiryOn(u[k][f], c) = ExpiryOn(v[k][f], c)
             /\ Exists(u, k, f) =>
                  /\ f <= d - 1 /\ (u[k][f].to <= d - 1 \/ u[k][f].to = Open)
                  /\ \A m \in u[k][f].moved : m.on <= d - 1
  <2> DEFINE old  == v[k][f]
             kept == [old EXCEPT !.to = IF @ >= d THEN Open ELSE @,
                                 !.seen = IF @ >= d THEN f ELSE @]
             new  == u[k][f]
  <2>1. old \in Stints /\ old.to \in Nat /\ MovedOnce(old) /\ f \in Nat
    BY StintFacts, DateFacts DEF Rows, AllMovedOnce
  <2>2. new = IF f >= d \/ old.to = None THEN NoStint ELSE RestoreExpiry(kept, d)
    BY DEF ResetFrom
  <2>3. CASE f >= d \/ old.to = None
    <3>1. new = NoStint /\ ~Exists(u, k, f)
      BY <2>2, <2>3, NoStintType DEF Exists
    <3>2. f < d => ~Exists(v, k, f)
      BY <1>2, <2>1, <2>3 DEF Exists
    <3> QED BY <1>3, <3>1, <3>2
  <2>4. CASE ~(f >= d \/ old.to = None)
    <3>1. Exists(v, k, f) /\ new = RestoreExpiry(kept, d) /\ f < d
      BY <1>2, <2>1, <2>2, <2>4 DEF Exists
    <3>2. /\ kept \in Stints /\ kept.expires = old.expires /\ kept.moved = old.moved
          /\ kept.to = IF old.to >= d THEN Open ELSE old.to
      <4> HIDE DEF old
      <4> QED BY <2>1 DEF Stints
    <3> HIDE DEF old, kept, new
    <3>3. /\ MovedOnce(new) /\ new.to = kept.to
          /\ \A m \in new.moved : m.on < d
          /\ \A c \in Raises : c < d =>
                /\ c < new.to <=> c < old.to
                /\ ExpiryOn(new, c) = ExpiryOn(old, c)
      <4>1. /\ old.to < d => kept.to = old.to
            /\ ~(old.to < d) => ~(kept.to < d)
        BY <1>2, <2>1, <3>2
      <4> QED BY <2>1, <3>1, <3>2, <4>1, RowRestored
    <3>4. new \in Stints /\ \A m \in new.moved : m.on \in Nat
      <4>1. new \in Stints
        BY <1>1 DEF new, Rows
      <4> QED BY <4>1, StintFacts, DateFacts DEF Moves
    <3>5. f <= d - 1 /\ (new.to <= d - 1 \/ new.to = Open) /\ \A m \in new.moved : m.on <= d - 1
      BY <1>2, <2>1, <3>1, <3>2, <3>3, <3>4
    <3>6. Exists(u, k, f)
      BY <1>2, <2>4, <3>2, <3>3 DEF Exists, new, old
    <3> QED BY <3>1, <3>3, <3>5, <3>6 DEF old, new
  <2> QED BY <2>3, <2>4
<1> QED BY <1>1, <1>4 DEF AllMovedOnce, SameBefore, EndsBy

\* The rules speak on d over a table with nothing from d on: nothing before d
\* changes, and what the table tells on d is what they mean.
LEMMA AppliedReads ==
    ASSUME NEW u \in Rows, NEW d \in Dates, NEW k \in Keys, AllMovedOnce(u, k),
           EndsBy(u, k, d - 1), NEW said \in [Keys -> Verdicts],
           NEW w, w = Applied(u, d, said)
    PROVE  /\ w \in Rows /\ AllMovedOnce(w, k)
           /\ SameBefore(u, w, k, d) /\ EndsBy(w, k, d)
           /\ \A r \in Histories, m \in Meanings :
                r[d].wrote /\ r[d].said = said /\ ReadsAs(u, k, d - 1, m) =>
                    ReadsAs(w, k, d, MeantNext(r, k, m, d))
<1> DEFINE opens == said[k] = "hit" /\ \A g \in Raises : ~IsOpen(u, k, g)
           ends(f) == \/ said[k] = "disabled"
                      \/ said[k] = "gone" /\ ~Held(k, u[k][f], d)
           extends(f) == said[k] = "hit" /\ Hold[k] # 0 /\ ~Held(k, u[k][f], d)
<1>1. w \in Rows /\ \A f \in Raises : AppliedRow(u, d, said, k, f)
  BY AppliedRows
<1>2. /\ d \in Nat /\ d - 1 \in Raises /\ d - 1 \in Nat /\ d \in Raises
      /\ d < Open /\ Open \in Nat /\ Open # None /\ d # None
      /\ Hold[k] \in Nat /\ said[k] \in Verdicts
  BY VetoAssumption, DateFacts, SMT DEF Dates, Raises
<1>3. MovedOnce(NoStint)
  BY DEF MovedOnce, NoStint
\* An open row before d.
<1>4. ASSUME NEW f \in Raises, IsOpen(u, k, f)
      PROVE  LET old == u[k][f]
                 new == w[k][f]
             IN  /\ f < d /\ Exists(u, k, f) /\ Exists(w, k, f)
                 /\ Covers(u, k, f, d - 1)
                 /\ new.to = IF ends(f) THEN d ELSE Open
                 /\ new.expires = IF extends(f) THEN d + Hold[k] ELSE old.expires
                 /\ MovedOnce(new) /\ \A m \in new.moved : m.on <= d
                 /\ \A c \in Raises : c < d => ExpiryOn(new, c) = ExpiryOn(old, c)
                 /\ ExpiryOn(old, d - 1) = old.expires /\ ExpiryOn(new, d) = new.expires
  <2> DEFINE old == u[k][f]
             new == w[k][f]
  <2>1. /\ old \in Stints /\ new \in Stints /\ MovedOnce(old) /\ f \in Nat
        /\ old.to = Open /\ old.expires \in Nat
    BY <1>1, <1>4, StintFacts, DateFacts DEF Rows, AllMovedOnce, IsOpen
  <2>2. Exists(u, k, f) /\ f <= d - 1 /\ \A m \in old.moved : m.on <= d - 1 /\ m.on \in Nat
    <3>1. Exists(u, k, f)
      BY <1>2, <2>1 DEF Exists
    <3>2. \A m \in old.moved : m.on \in Nat
      BY <2>1, StintFacts, DateFacts DEF Moves
    <3> QED BY <3>1, <3>2 DEF EndsBy
  <2>3. f < d /\ \A m \in old.moved : m.on < d /\ m.on <= d
    BY <1>2, <2>1, <2>2
  <2>4. new = Judged(k, old, d, said[k])
    BY <1>4 DEF Applied
  <2>5. \/ /\ extends(f) /\ new.to = Open /\ new.expires = d + Hold[k]
           /\ new.moved = old.moved \cup {[on |-> d, was |-> old.expires]}
        \/ /\ ~extends(f) /\ new.expires = old.expires /\ new.moved = old.moved
           /\ new.to = IF ends(f) THEN d ELSE Open
    <3> HIDE DEF old, new
    <3>1. CASE said[k] = "hit"
      <4>1. new = SeenAgain(k, old, d)
        BY <2>4, <3>1 DEF Judged
      <4>2. extends(f) <=> ~(Hold[k] = 0 \/ Held(k, old, d))
        BY <3>1 DEF old
      <4>3. ~ends(f)
        BY <3>1
      <4> HIDE DEF ends, extends
      <4> QED BY <2>1, <4>1, <4>2, <4>3 DEF SeenAgain, Stints
    <3>2. CASE said[k] # "hit"
      <4>1. new = IF ends(f) THEN [old EXCEPT !.to = d] ELSE old
        BY <2>4, <3>2 DEF Judged, old
      <4>2. ~extends(f)
        BY <3>2
      <4> HIDE DEF ends, extends
      <4> QED BY <2>1, <4>1, <4>2 DEF Stints
    <3> QED BY <3>1, <3>2
  <2>6. extends(f) => ~ends(f)
    OBVIOUS
  <2>7. /\ MovedOnce(new) /\ \A m \in new.moved : m.on <= d
        /\ \A c \in Raises : c < d => ExpiryOn(new, c) = ExpiryOn(old, c)
    <3> HIDE DEF old, new, extends, ends
    <3>1. CASE new.moved = old.moved \cup {[on |-> d, was |-> old.expires]}
      <4>1. \A m \in new.moved : m.on <= d
        BY <1>2, <2>3, <3>1
      <4> QED BY <2>1, <2>3, <3>1, <4>1, ExpiryExtended
    <3>2. CASE new.expires = old.expires /\ new.moved = old.moved
      BY <2>1, <2>3, <3>2 DEF MovedOnce, ExpiryOn
    <3> QED BY <2>5, <3>1, <3>2
  <2>8. ExpiryOn(old, d - 1) = old.expires /\ ExpiryOn(new, d) = new.expires
    BY <1>2, <2>1, <2>2, <2>7, ExpiryLast
  <2>9. Covers(u, k, f, d - 1) /\ Exists(w, k, f)
    <3>1. d - 1 < Open /\ new.to # None
      BY <1>2, <2>5
    <3> QED BY <2>1, <2>2, <3>1 DEF Covers, Exists
  <2> HIDE DEF ends, extends
  <2> QED BY <2>2, <2>3, <2>5, <2>6, <2>7, <2>8, <2>9
\* Any other row.
<1>5. ASSUME NEW f \in Raises, ~IsOpen(u, k, f)
      PROVE  IF f = d /\ opens THEN w[k][f] = Raised(k, d) ELSE w[k][f] = u[k][f]
  BY <1>5 DEF Applied
<1>6. ASSUME NEW f \in Raises, Exists(u, k, f), ~IsOpen(u, k, f)
      PROVE  /\ w[k][f] = u[k][f] /\ u[k][f].to < d /\ f < d
             /\ \A m \in u[k][f].moved : m.on <= d
  <2>1. /\ u[k][f] \in Stints /\ u[k][f].to \in Nat /\ f \in Nat
        /\ \A m \in u[k][f].moved : m.on \in Nat
    BY StintFacts, DateFacts DEF Rows, Moves
  <2>2. f <= d - 1 /\ u[k][f].to <= d - 1 /\ \A m \in u[k][f].moved : m.on <= d - 1
    BY <1>6 DEF EndsBy, IsOpen
  <2>3. f < d /\ u[k][f].to < d /\ \A m \in u[k][f].moved : m.on <= d
    BY <1>2, <2>1, <2>2
  <2> QED BY <1>2, <1>5, <1>6, <2>3
<1>7. /\ Raised(k, d).to = Open /\ Raised(k, d).moved = {}
      /\ Raised(k, d).expires = IF Hold[k] = 0 THEN None ELSE d + Hold[k]
  BY DEF Raised
<1>8. ASSUME NEW f \in Raises, ~Exists(u, k, f), Exists(w, k, f)
      PROVE  f = d /\ opens /\ w[k][f] = Raised(k, d)
  BY <1>2, <1>5, <1>8 DEF Exists, IsOpen
<1>9. AllMovedOnce(w, k)
  <2> SUFFICES ASSUME NEW f \in Raises PROVE MovedOnce(w[k][f])
    BY DEF AllMovedOnce
  <2>1. CASE IsOpen(u, k, f)
    BY <1>4, <2>1
  <2>2. CASE ~IsOpen(u, k, f)
    <3>1. MovedOnce(Raised(k, d)) /\ MovedOnce(u[k][f])
      BY <1>7 DEF MovedOnce, AllMovedOnce
    <3> QED BY <1>5, <2>2, <3>1
  <2> QED BY <2>1, <2>2
<1>10. SameBefore(u, w, k, d)
  <2> SUFFICES ASSUME NEW f \in Raises, f < d
               PROVE  /\ Exists(w, k, f) <=> Exists(u, k, f)
                      /\ Exists(u, k, f) => \A c \in Raises : c < d =>
                            /\ c < w[k][f].to <=> c < u[k][f].to
                            /\ ExpiryOn(w[k][f], c) = ExpiryOn(u[k][f], c)
    BY DEF SameBefore
  <2>1. CASE IsOpen(u, k, f)
    <3>1. u[k][f].to = Open /\ w[k][f].to \in {d, Open}
      BY <1>4, <2>1 DEF IsOpen
    <3>2. \A c \in Raises : c < d => (c < w[k][f].to <=> c < u[k][f].to)
      BY <1>2, <3>1, DateFacts
    <3> QED BY <1>4, <2>1, <3>2
  <2>2. CASE ~IsOpen(u, k, f)
    <3>1. f # d
      BY <1>2
    <3>2. w[k][f] = u[k][f]
      BY <1>5, <2>2, <3>1
    <3> QED BY <3>2 DEF Exists
  <2> QED BY <2>1, <2>2
<1>11. EndsBy(w, k, d)
  <2> SUFFICES ASSUME NEW f \in Raises, Exists(w, k, f)
               PROVE  /\ f <= d /\ (w[k][f].to <= d \/ w[k][f].to = Open)
                      /\ \A m \in w[k][f].moved : m.on <= d
    BY DEF EndsBy
  <2>0. f \in Nat /\ u[k][f].to \in Nat
    BY DateFacts, StintFacts DEF Rows
  <2>1. CASE IsOpen(u, k, f)
    <3>1. f < d /\ w[k][f].to \in {d, Open} /\ \A m \in w[k][f].moved : m.on <= d
      BY <1>4, <2>1
    <3> QED BY <1>2, <2>0, <3>1
  <2>2. CASE Exists(u, k, f) /\ ~IsOpen(u, k, f)
    BY <1>2, <1>6, <2>0, <2>2
  <2>3. CASE ~Exists(u, k, f)
    BY <1>2, <1>7, <1>8, <2>3
  <2> QED BY <2>1, <2>2, <2>3
<1>12. ASSUME NEW r \in Histories, NEW m \in Meanings,
              r[d].wrote, r[d].said = said, ReadsAs(u, k, d - 1, m)
       PROVE  ReadsAs(w, k, d, MeantNext(r, k, m, d))
  <2> DEFINE next == MeantNext(r, k, m, d)
  <2>1. next = IF said[k] = "unknown" THEN m
               ELSE IF said[k] = "disabled" THEN [on |-> FALSE, until |-> 0]
               ELSE IF m.on /\ d < m.until THEN m
               ELSE IF said[k] = "hit" THEN [on |-> TRUE, until |-> d + Hold[k]]
               ELSE [on |-> FALSE, until |-> 0]
    BY <1>12 DEF MeantNext
  \* The open stints are the veto of the day before.
  <2>2. m.on <=> \E f \in Raises : IsOpen(u, k, f)
    <3>1. ASSUME NEW f \in Raises, Exists(u, k, f), d - 1 < u[k][f].to
          PROVE  IsOpen(u, k, f)
      <4>1. u[k][f].to \in Nat
        BY StintFacts DEF Rows
      <4> QED BY <1>2, <1>6, <3>1, <4>1
    <3> QED BY <1>4, <1>12, <3>1 DEF ReadsAs, Active, Covers
  <2>3. \A f \in Raises : IsOpen(u, k, f) =>
           IF Hold[k] = 0 THEN m.until <= d - 1 ELSE m.until = u[k][f].expires
    BY <1>4, <1>12 DEF ReadsAs
  <2>4. ASSUME NEW f \in Raises, IsOpen(u, k, f)
        PROVE  Held(k, u[k][f], d) <=> d < m.until
    <3>1. u[k][f].expires \in Nat /\ m.until \in Nat
      BY StintFacts DEF Rows, Meanings
    <3>2. IF Hold[k] = 0 THEN m.until <= d - 1 ELSE m.until = u[k][f].expires
      BY <2>3, <2>4
    <3>3. Held(k, u[k][f], d) <=>
             Hold[k] # 0 /\ u[k][f].expires # None /\ d < u[k][f].expires
      BY DEF Held
    <3> HIDE DEF next, opens, ends, extends
    <3> QED BY <1>2, <3>1, <3>2, <3>3, SMT DEF None
  \* A row covers d after the write: an open one kept, or the one raised.
  <2>5. ASSUME NEW f \in Raises
        PROVE  Covers(w, k, f, d) <=> \/ IsOpen(u, k, f) /\ ~ends(f)
                                      \/ f = d /\ opens
    <3>0. f \in Nat /\ u[k][f].to \in Nat
      BY DateFacts, StintFacts DEF Rows
    <3>1. CASE IsOpen(u, k, f)
      <4>1. /\ f < d /\ Exists(w, k, f) /\ w[k][f].to = (IF ends(f) THEN d ELSE Open)
            /\ ~opens
        BY <1>4, <3>1
      <4> HIDE DEF ends, opens
      <4> QED BY <1>2, <3>0, <3>1, <4>1 DEF Covers
    <3>2. CASE ~IsOpen(u, k, f) /\ Exists(u, k, f)
      <4>1. w[k][f] = u[k][f] /\ u[k][f].to < d /\ f < d
        BY <1>6, <3>2
      <4> HIDE DEF ends, opens
      <4> QED BY <1>2, <3>0, <3>2, <4>1 DEF Covers
    <3>3. CASE ~Exists(u, k, f)
      <4>1. ~IsOpen(u, k, f)
        BY <1>2, <3>3 DEF Exists, IsOpen
      <4>2. f = d /\ opens => w[k][f] = Raised(k, d)
        BY <1>5, <4>1
      <4>3. ~(f = d /\ opens) => ~Exists(w, k, f)
        BY <1>5, <3>3, <4>1 DEF Exists
      <4> HIDE DEF ends, opens
      <4> QED BY <1>2, <1>7, <4>1, <4>2, <4>3 DEF Covers, Exists
    <3> QED BY <3>1, <3>2, <3>3
  <2>6. Active(w, k, d) <=> next.on
    <3>1. Active(w, k, d) <=> \E f \in Raises : Covers(w, k, f, d)
      BY DEF Active, Covers
    <3>2. (\E f \in Raises : Covers(w, k, f, d)) <=>
             \/ \E f \in Raises : IsOpen(u, k, f) /\ ~ends(f)
             \/ opens
      <4> HIDE DEF ends, opens
      <4> QED BY <1>2, <2>5
    <3>3. (\E f \in Raises : IsOpen(u, k, f) /\ ~ends(f)) <=>
             /\ m.on /\ said[k] # "disabled"
             /\ ~(said[k] = "gone" /\ ~(d < m.until))
      BY <2>2, <2>4
    <3>4. opens <=> said[k] = "hit" /\ ~m.on
      BY <2>2
    <3> HIDE DEF opens, ends, next
    <3>5. m.on \in BOOLEAN
      BY DEF Meanings
    <3>6. said[k] \in {"hit", "gone", "unknown", "disabled"}
      BY <1>2 DEF Verdicts
    <3> QED BY <2>1, <3>1, <3>2, <3>3, <3>4, <3>5, <3>6
  <2>7. ASSUME NEW f \in Raises, Covers(w, k, f, d)
        PROVE  IF Hold[k] = 0 THEN next.until <= d ELSE next.until = ExpiryOn(w[k][f], d)
    <3>1. m.until \in Nat
      BY DEF Meanings
    <3>2. CASE IsOpen(u, k, f) /\ ~ends(f)
      <4>1. m.on
        BY <2>2, <3>2
      <4>2. /\ Held(k, u[k][f], d) <=> d < m.until
            /\ IF Hold[k] = 0 THEN m.until <= d - 1 ELSE m.until = u[k][f].expires
        BY <2>3, <2>4, <3>2
      <4>3. /\ ExpiryOn(w[k][f], d) = w[k][f].expires
            /\ w[k][f].expires = IF extends(f) THEN d + Hold[k] ELSE u[k][f].expires
        BY <1>4, <3>2
      <4>4. CASE said[k] = "unknown"
        <5>1. next = m /\ ~extends(f)
          BY <2>1, <4>4
        <5> HIDE DEF next, extends, ends
        <5> QED BY <1>2, <3>1, <4>2, <4>3, <5>1
      <4>5. CASE d < m.until
        <5>1. next = m /\ ~extends(f)
          BY <2>1, <3>2, <4>1, <4>2, <4>5
        <5> HIDE DEF next, extends, ends
        <5> QED BY <1>2, <3>1, <4>2, <4>3, <5>1
      <4>6. CASE said[k] # "unknown" /\ ~(d < m.until)
        <5>1. said[k] = "hit"
          BY <1>2, <3>2, <4>2, <4>6 DEF Verdicts
        <5>2. next.until = d + Hold[k]
          BY <2>1, <4>6, <5>1
        <5>3. Hold[k] # 0 => extends(f)
          BY <4>2, <4>6, <5>1
        <5> HIDE DEF next, extends, ends
        <5> QED BY <1>2, <4>3, <5>2, <5>3
      <4> QED BY <4>4, <4>5, <4>6
    <3>3. CASE f = d /\ opens
      <4>1. ~IsOpen(u, k, f)
        BY <3>3
      <4>2. w[k][f] = Raised(k, d)
        BY <1>5, <3>3, <4>1
      <4>3. next.until = d + Hold[k]
        BY <2>1, <2>2, <3>3
      <4>4. ExpiryOn(w[k][f], d) = w[k][f].expires
        BY <1>7, <4>2 DEF ExpiryOn, After
      <4> HIDE DEF next
      <4> QED BY <1>2, <1>7, <4>2, <4>3, <4>4
    <3> QED BY <2>5, <2>7, <3>2, <3>3
  <2> QED BY <2>6, <2>7 DEF ReadsAs
<1> QED BY <1>1, <1>9, <1>10, <1>11, <1>12

\* The table tells on every date what the rules meant by it.
AsMeant(v, r) ==
    \A k \in Keys, c \in Raises : ReadsAs(v, k, c, MeantBy(r, k, Exists(v, k, 0))[c])

\* The reads before d stand when nothing before d changes, in the table and in what
\* the rules said.
LEMMA AsMeantBefore ==
    ASSUME NEW v \in Rows, NEW w \in Rows, NEW r \in Histories, NEW s \in Histories,
           NEW d \in Dates, AsMeant(v, r), \A e \in Dates : e < d => r[e] = s[e],
           NEW k \in Keys, SameBefore(v, w, k, d)
    PROVE  /\ Exists(w, k, 0) = Exists(v, k, 0)
           /\ \A c \in Raises : c < d => ReadsAs(w, k, c, MeantBy(s, k, Exists(w, k, 0))[c])
<1>1. 0 \in Raises /\ 0 < d
  BY DateFacts, VetoAssumption, SMT DEF Raises, Dates
<1>2. Exists(w, k, 0) = Exists(v, k, 0) /\ Exists(v, k, 0) \in BOOLEAN
  BY <1>1 DEF SameBefore, Exists
<1>3. ASSUME NEW c \in Raises, c < d
      PROVE  ReadsAs(w, k, c, MeantBy(s, k, Exists(v, k, 0))[c])
  <2>1. MeantBy(r, k, Exists(v, k, 0))[c] = MeantBy(s, k, Exists(v, k, 0))[c]
    BY <1>2, <1>3, MeantBefore
  <2>2. ReadsAs(v, k, c, MeantBy(r, k, Exists(v, k, 0))[c])
    BY DEF AsMeant
  <2> QED BY <1>3, <2>1, <2>2, ReadsBefore
<1> QED BY <1>2, <1>3

\* The reads on d stand on every later date of which nothing was said or written.
LEMMA AsMeantAfter ==
    ASSUME NEW w \in Rows, NEW s \in Histories, NEW d \in Raises,
           \A e \in Dates : e > d => ~s[e].wrote,
           NEW k \in Keys, EndsBy(w, k, d),
           ReadsAs(w, k, d, MeantBy(s, k, Exists(w, k, 0))[d])
    PROVE  \A c \in Raises : d <= c => ReadsAs(w, k, c, MeantBy(s, k, Exists(w, k, 0))[c])
<1> DEFINE M == MeantBy(s, k, Exists(w, k, 0))
<1>1. Exists(w, k, 0) \in BOOLEAN
  BY DEF Exists
<1>2. M \in [Raises -> Meanings]
  BY <1>1, MeantSteps
<1>3. \A c \in Raises : c >= d => M[c] = M[d]
  BY <1>1, MeantAfter
<1> HIDE DEF M
<1>4. \A c \in Raises : d <= c => c >= d
  BY DateFacts
<1>5. M[d] \in Meanings
  BY <1>2
<1>6. ReadsAs(w, k, d, M[d])
  BY DEF M
<1>7. ASSUME NEW c \in Raises, d <= c
      PROVE  ReadsAs(w, k, c, M[c])
  <2>1. M[c] = M[d]
    BY <1>3, <1>4, <1>7
  <2> QED BY <1>5, <1>6, <1>7, <2>1, ReadsAfter
<1> QED BY <1>7 DEF M

-----------------------------------------------------------------------------
(* The theorems *)

\* No write and no reset leaves the types.
LEMMA TypeStep == TypeOK /\ [Next]_vars => TypeOK'
<1> SUFFICES ASSUME TypeOK, [Next]_vars PROVE TypeOK'
  OBVIOUS
<1>1. ASSUME NEW d \in Dates, NEW said \in Opinions, WriteVetoes(d, said)
      PROVE  TypeOK'
  <2>1. said \in [Keys -> Verdicts]
    BY VetoAssumption
  <2>2. Applied(Undone(veto, d), d, said) \in Rows
    BY <1>1, <2>1, WrittenRows DEF WriteVetoes, TypeOK, Rows
  <2>3. ran' \in [Dates -> Ran]
    BY <1>1, <2>1 DEF WriteVetoes, TypeOK, Ran
  <2>4. late' \in BOOLEAN
    BY <1>1 DEF WriteVetoes, TypeOK
  <2> QED BY <1>1, <2>2, <2>3, <2>4 DEF WriteVetoes, TypeOK, Rows
<1>2. ASSUME NEW d \in Dates, ResetReplayRange(d)
      PROVE  TypeOK'
  <2>1. ResetFrom(veto, d) \in Rows
    BY ResetRows DEF TypeOK, Rows
  <2>2. NotRun \in [Keys -> Verdicts]
    BY DEF NotRun, Verdicts
  <2>3. ran' \in [Dates -> Ran]
    BY <1>2, <2>2 DEF ResetReplayRange, TypeOK, Ran
  <2> QED BY <1>2, <2>1, <2>3 DEF ResetReplayRange, TypeOK, Rows
<1>3. CASE UNCHANGED vars
  BY <1>3 DEF TypeOK, vars
<1> QED BY <1>1, <1>2, <1>3 DEF Next

\* Every table to begin with has the types.
LEMMA InitTypes == Init => TypeOK
<1> SUFFICES ASSUME Init PROVE TypeOK
  OBVIOUS
<1>1. NotRun \in [Keys -> Verdicts]
  BY DEF NotRun, Verdicts
<1>2. Legacy \in Stints
  BY NoStintType DEF Legacy, Stints
<1>3. veto \in [Keys -> [Raises -> Stints]]
  BY <1>2, NoStintType DEF Init
<1> QED BY <1>1, <1>3 DEF Init, TypeOK, Ran

\* Every state of the table and of its history has the declared type.
THEOREM TypeCorrect == Spec => []TypeOK
BY InitTypes, TypeStep, PTL DEF Spec

\* The stints of a key are disjoint and never touch, in whatever order dates are
\* written, rewritten and reset (the index of one open stint per asset and rule).
THEOREM DisjointAlways == Spec => []StintsAreDisjoint
<1>1. Init => Disjoint(veto)
  <2> SUFFICES ASSUME Init PROVE Disjoint(veto)
    OBVIOUS
  <2>1. \A k \in Keys, f \in Raises : Exists(veto, k, f) => f = 0 /\ veto[k][f].to = Open
    BY NoStintType DEF Init, Exists, Legacy, NoStint
  <2>2. \A g \in Raises : g \in Nat /\ g < Open
    BY DateFacts
  <2> QED BY <2>1, <2>2 DEF Disjoint
<1>2. TypeOK /\ Disjoint(veto) /\ [Next]_vars => Disjoint(veto)'
  <2> SUFFICES ASSUME TypeOK, Disjoint(veto), [Next]_vars PROVE Disjoint(veto')
    BY DEF Disjoint, Exists
  <2>1. veto \in Rows
    BY DEF TypeOK, Rows
  <2>2. ASSUME NEW d \in Dates, NEW said \in Opinions, WriteVetoes(d, said)
        PROVE  Disjoint(veto')
    <3>1. /\ RaisedAlone(veto, veto', d)
          /\ \A k \in Keys, f \in Raises : WrittenRow(veto, veto', d, said, k, f)
          /\ veto' \in Rows
      BY <2>1, <2>2, WrittenRows, VetoAssumption DEF WriteVetoes
    <3> SUFFICES ASSUME NEW k \in Keys, NEW f \in Raises, Exists(veto', k, f)
                 PROVE  /\ f < veto'[k][f].to
                        /\ \A g \in Raises : f < g /\ Exists(veto', k, g) => veto'[k][f].to < g
      BY DEF Disjoint
    <3>2. d \in Nat /\ f \in Nat /\ d < Open /\ f < Open /\ Open \in Nat
      BY DateFacts
    <3>3. WrittenRow(veto, veto', d, said, k, f)
      BY <3>1
    <3>4. CASE f = d
      <4>1. veto'[k][f].to = Open
        BY <3>3, <3>4 DEF WrittenRow
      <4>2. \A g \in Raises : g \in Nat /\ (f < g => ~Exists(veto', k, g))
        <5> TAKE g \in Raises
        <5>1. WrittenRow(veto, veto', d, said, k, g) /\ g \in Nat
          BY <3>1, DateFacts
        <5> QED BY <3>2, <3>4, <5>1 DEF WrittenRow
      <4> QED BY <3>2, <4>1, <4>2
    <3>5. CASE f # d
      <4> DEFINE to == veto[k][f].to
      <4>1. /\ Exists(veto, k, f) /\ f < d
            /\ to < d => veto'[k][f].to = to
            /\ ~(to < d) => veto'[k][f].to \in {d, Open}
        BY <3>3, <3>5 DEF WrittenRow
      <4>2. to \in Nat /\ f < to
        BY <2>1, <4>1, StintFacts DEF Rows, Disjoint
      <4>3. f < veto'[k][f].to
        BY <3>2, <4>1, <4>2
      <4>4. ASSUME NEW g \in Raises, f < g, Exists(veto', k, g)
            PROVE  veto'[k][f].to < g
        <5>1. g \in Nat /\ WrittenRow(veto, veto', d, said, k, g)
          BY <3>1, DateFacts
        <5>2. CASE g = d
          <6>1. to < d
            BY <3>1, <3>5, <4>1, <4>4, <5>2 DEF RaisedAlone
          <6> QED BY <4>1, <5>2, <6>1
        <5>3. CASE g # d
          <6>1. Exists(veto, k, g) /\ g < d
            BY <4>4, <5>1, <5>3 DEF WrittenRow
          <6>2. to < g
            BY <4>1, <4>4, <6>1 DEF Disjoint
          <6>3. to < d
            BY <3>2, <4>2, <5>1, <6>1, <6>2
          <6> QED BY <4>1, <6>2, <6>3
        <5> QED BY <5>2, <5>3
      <4> QED BY <4>3, <4>4
    <3> QED BY <3>4, <3>5
  <2>3. ASSUME NEW d \in Dates, ResetReplayRange(d)
        PROVE  Disjoint(veto')
    <3>1. veto' = ResetFrom(veto, d)
      BY <2>3 DEF ResetReplayRange
    <3> SUFFICES ASSUME NEW k \in Keys, NEW f \in Raises, Exists(veto', k, f)
                 PROVE  /\ f < veto'[k][f].to
                        /\ \A g \in Raises : f < g /\ Exists(veto', k, g) => veto'[k][f].to < g
      BY DEF Disjoint
    <3> DEFINE to == veto[k][f].to
    <3>2. /\ f < d /\ Exists(veto, k, f)
          /\ to < d => veto'[k][f].to = to
          /\ ~(to < d) => veto'[k][f].to = Open
      BY <2>1, <3>1, ResetFacts
    <3>3. to \in Nat /\ f < to /\ d \in Nat /\ f \in Nat /\ f < Open
      BY <2>1, <3>2, StintFacts, DateFacts DEF Rows, Disjoint
    <3>4. f < veto'[k][f].to
      BY <3>2, <3>3
    <3>5. ASSUME NEW g \in Raises, f < g, Exists(veto', k, g)
          PROVE  veto'[k][f].to < g
      <4>1. g < d /\ Exists(veto, k, g) /\ g \in Nat
        BY <2>1, <3>1, <3>5, ResetFacts, DateFacts
      <4>2. to < g
        BY <3>2, <3>5, <4>1 DEF Disjoint
      <4>3. to < d
        BY <3>3, <4>1, <4>2
      <4> QED BY <3>2, <4>2, <4>3
    <3> QED BY <3>4, <3>5
  <2>4. CASE UNCHANGED vars
    BY <2>4 DEF vars
  <2> QED BY <2>2, <2>3, <2>4 DEF Next
<1>3. Disjoint(veto) <=> StintsAreDisjoint
  BY DEF Disjoint, StintsAreDisjoint
<1> QED BY <1>1, <1>2, <1>3, TypeCorrect, PTL DEF Spec

\* A closed stint of a temporal rule ended on its expiry or later, or on a date the
\* rule was disabled.  The invariant alone is not inductive: a closed row whose
\* extensions reached past its end would get an older expiry back when a later date
\* is written or reset, so it is carried together with MovedBeforeEnd.
THEOREM HeldAlways == Spec => []HeldToExpiry
<1> DEFINE Kept(v, r) == \A k \in Keys, f \in Raises :
             Exists(v, k, f) /\ ~IsOpen(v, k, f) /\ Hold[k] # 0 /\ v[k][f].expires # None =>
                 v[k][f].to >= v[k][f].expires \/ r[v[k][f].to].said[k] = "disabled"
           IInv == MovedBeforeEnd(veto) /\ Kept(veto, ran)
<1>1. Init => IInv
  <2> SUFFICES ASSUME Init PROVE IInv
    OBVIOUS
  <2>1. \A k \in Keys, f \in Raises : Exists(veto, k, f) => IsOpen(veto, k, f)
    BY NoStintType DEF Init, Exists, IsOpen, Legacy, NoStint
  <2> QED BY <2>1 DEF MovedBeforeEnd
<1>2. TypeOK /\ IInv /\ [Next]_vars => IInv'
  <2> SUFFICES ASSUME TypeOK, IInv, [Next]_vars
               PROVE  MovedBeforeEnd(veto') /\ Kept(veto', ran')
    BY DEF MovedBeforeEnd, Exists, IsOpen
  <2>1. veto \in Rows
    BY DEF TypeOK, Rows
  <2>2. ASSUME NEW d \in Dates, NEW said \in Opinions, WriteVetoes(d, said),
               NEW k \in Keys, NEW f \in Raises,
               Exists(veto', k, f), ~IsOpen(veto', k, f)
        PROVE  /\ \A m \in veto'[k][f].moved : m.on < veto'[k][f].to
               /\ Hold[k] # 0 /\ veto'[k][f].expires # None =>
                    \/ veto'[k][f].to >= veto'[k][f].expires
                    \/ ran'[veto'[k][f].to].said[k] = "disabled"
    <3> DEFINE old == veto[k][f]
               new == veto'[k][f]
    <3>1. WrittenRow(veto, veto', d, said, k, f) /\ veto' \in Rows
      BY <2>1, <2>2, WrittenRows, VetoAssumption DEF WriteVetoes
    <3>2. new.to # Open /\ f # d /\ Exists(veto, k, f)
      BY <2>2, <3>1 DEF WrittenRow, IsOpen
    <3>3. /\ old.to < d /\ (\A m \in old.moved : m.on < d) => new = old
          /\ ~(old.to < d) =>
               /\ new.to = d
               /\ \A m \in new.moved : m.on < d
               /\ said[k] = "disabled" \/ ~Held(k, new, d)
      BY <3>1, <3>2 DEF WrittenRow
    <3>4. /\ old.to \in Nat /\ new.expires \in Nat /\ d \in Nat /\ d < Open /\ Open \in Nat
          /\ \A m \in old.moved : m.on \in Nat
      BY <2>1, <3>1, StintFacts, DateFacts DEF Rows, Moves
    <3>5. /\ ran'[d].said = said
          /\ \A e \in Dates : e # d => ran'[e] = ran[e]
      BY <2>2 DEF WriteVetoes, TypeOK
    <3>6. CASE old.to < d
      <4>1. ~IsOpen(veto, k, f) /\ old.to # d
        BY <3>4, <3>6 DEF IsOpen
      <4>2. \A m \in old.moved : m.on < old.to
        BY <3>2, <4>1 DEF MovedBeforeEnd
      <4>3. new = old
        BY <3>3, <3>4, <3>6, <4>2
      <4>4. old.to \in Dates
        BY <2>1, <3>2, <4>1, StintFacts DEF Rows, Exists, IsOpen
      <4>5. ran'[old.to] = ran[old.to]
        BY <3>5, <4>1, <4>4
      <4> QED BY <3>2, <4>1, <4>2, <4>3, <4>5
    <3>7. CASE ~(old.to < d)
      <4>1. Hold[k] # 0 /\ new.expires # None => said[k] = "disabled" \/ ~(d < new.expires)
        BY <3>3, <3>7 DEF Held
      <4> HIDE DEF new, old
      <4>2. Hold[k] # 0 /\ new.expires # None => new.to >= new.expires \/ said[k] = "disabled"
        BY <3>3, <3>4, <3>7, <4>1
      <4> QED BY <3>3, <3>5, <3>7, <4>2 DEF new
    <3> QED BY <3>6, <3>7
  <2>3. ASSUME NEW d \in Dates, ResetReplayRange(d),
               NEW k \in Keys, NEW f \in Raises,
               Exists(veto', k, f), ~IsOpen(veto', k, f)
        PROVE  /\ \A m \in veto'[k][f].moved : m.on < veto'[k][f].to
               /\ Hold[k] # 0 /\ veto'[k][f].expires # None =>
                    \/ veto'[k][f].to >= veto'[k][f].expires
                    \/ ran'[veto'[k][f].to].said[k] = "disabled"
    <3> DEFINE old == veto[k][f]
               new == veto'[k][f]
    <3>1. veto' = ResetFrom(veto, d) /\ \A e \in Dates : ~(e >= d) => ran'[e] = ran[e]
      BY <2>3 DEF ResetReplayRange
    <3>2. /\ Exists(veto, k, f)
          /\ old.to < d => new.to = old.to
          /\ ~(old.to < d) => new.to = Open
          /\ (\A m \in old.moved : m.on < d) => new.expires = old.expires
          /\ \A m \in new.moved : m \in old.moved
      <4>1. ResetRow(veto, d, k, f) /\ old \in Stints
        BY <2>1, ResetRows DEF Rows
      <4>2. \A m \in new.moved : m \in old.moved
        BY <2>3, <3>1, <4>1, NoStintType DEF ResetRow, RestoredStint, Exists, Stints
      <4> QED BY <2>1, <2>3, <3>1, <4>2, ResetFacts
    <3>3. /\ old.to \in Nat /\ d \in Nat /\ d < Open /\ Open \in Nat
          /\ \A m \in old.moved : m.on \in Nat
      BY <2>1, StintFacts, DateFacts DEF Rows, Moves
    <3>4. old.to < d /\ new.to = old.to
      BY <2>3, <3>2 DEF IsOpen
    <3>5. ~IsOpen(veto, k, f) /\ ~(old.to >= d)
      BY <3>3, <3>4 DEF IsOpen
    <3>6. \A m \in old.moved : m.on < old.to /\ m.on < d
      <4>1. \A m \in old.moved : m.on < old.to
        BY <3>2, <3>5 DEF MovedBeforeEnd
      <4> QED BY <3>3, <3>4, <4>1
    <3>7. old.to \in Dates
      BY <2>1, <3>2, <3>5, StintFacts DEF Rows, Exists, IsOpen
    <3>8. ran'[old.to] = ran[old.to]
      BY <3>1, <3>5, <3>7
    <3> QED BY <3>2, <3>4, <3>5, <3>6, <3>8
  <2>4. CASE UNCHANGED vars
    BY <2>4 DEF vars
  <2>5. CASE \E d \in Dates, said \in Opinions : WriteVetoes(d, said)
    BY <2>2, <2>5 DEF MovedBeforeEnd
  <2>6. CASE \E d \in Dates : ResetReplayRange(d)
    BY <2>3, <2>6 DEF MovedBeforeEnd
  <2> QED BY <2>4, <2>5, <2>6 DEF Next
<1>3. IInv => HeldToExpiry
  BY DEF HeldToExpiry
<1> QED BY <1>1, <1>2, <1>3, TypeCorrect, PTL DEF Spec

\* The reads at T-1 are reproducible: the vetoes active on a date change only by a
\* write or a reset of that date or of an earlier one.
THEOREM PastReads == Spec => PastReadsStand
<1> DEFINE Stands == \A k \in Keys, cutoff \in Raises :
             Active(veto, k, cutoff)' # Active(veto, k, cutoff) =>
                \E d \in Dates : /\ d <= cutoff
                                 /\ WriteVetoes(d, ran'[d].said) \/ ResetReplayRange(d)
<1>1. TypeOK /\ [Next]_vars => [Stands]_vars
  <2> SUFFICES ASSUME TypeOK, Next, NEW k \in Keys, NEW cutoff \in Raises,
                      Active(veto', k, cutoff) # Active(veto, k, cutoff)
               PROVE  \E d \in Dates : /\ d <= cutoff
                                       /\ WriteVetoes(d, ran'[d].said) \/ ResetReplayRange(d)
    BY DEF Active, Exists
  <2>1. veto \in Rows
    BY DEF TypeOK, Rows
  <2>2. TypeOK'
    BY TypeStep
  <2>3. ASSUME NEW d \in Dates, cutoff < d,
               \A f \in Raises : f < d =>
                  /\ Exists(veto', k, f) <=> Exists(veto, k, f)
                  /\ veto[k][f].to < d => veto'[k][f].to = veto[k][f].to
                  /\ Exists(veto, k, f) /\ ~(veto[k][f].to < d) => ~(veto'[k][f].to < d)
        PROVE  FALSE
    <3>1. ASSUME NEW f \in Raises, f <= cutoff
          PROVE  /\ Exists(veto', k, f) <=> Exists(veto, k, f)
                 /\ Exists(veto, k, f) =>
                      (cutoff < veto'[k][f].to <=> cutoff < veto[k][f].to)
      <4>1. f \in Nat /\ cutoff \in Nat /\ d \in Nat
            /\ veto[k][f].to \in Nat /\ veto'[k][f].to \in Nat
        BY <2>1, <2>2, StintFacts, DateFacts DEF Rows, TypeOK
      <4> QED BY <2>3, <3>1, <4>1
    <3>2. Active(veto', k, cutoff) <=> Active(veto, k, cutoff)
      BY <3>1 DEF Active
    <3> QED BY <3>2 DEF Active
  <2>4. ASSUME NEW d \in Dates, NEW said \in Opinions, WriteVetoes(d, said)
        PROVE  d <= cutoff /\ WriteVetoes(d, ran'[d].said)
    <3>1. ran'[d].said = said
      BY <2>4 DEF WriteVetoes, TypeOK
    <3>2. ~(cutoff < d)
      <4> SUFFICES ASSUME cutoff < d PROVE FALSE
        OBVIOUS
      <4>1. ASSUME NEW f \in Raises, f < d
            PROVE  /\ Exists(veto', k, f) <=> Exists(veto, k, f)
                   /\ veto[k][f].to < d => veto'[k][f].to = veto[k][f].to
                   /\ Exists(veto, k, f) /\ ~(veto[k][f].to < d) => ~(veto'[k][f].to < d)
        <5>1. WrittenRow(veto, veto', d, said, k, f)
          BY <2>1, <2>4, WrittenRows, VetoAssumption DEF WriteVetoes
        <5>2. d \in Nat /\ f \in Nat /\ Open \in Nat /\ d < Open /\ Open # None /\ d # None
          BY DateFacts
        <5>3. f # d
          BY <4>1, <5>2
        <5>4. /\ Exists(veto', k, f) => Exists(veto, k, f)
              /\ Exists(veto, k, f) =>
                   /\ veto[k][f].to < d => veto'[k][f].to = veto[k][f].to
                   /\ ~(veto[k][f].to < d) => veto'[k][f].to \in {d, Open}
          BY <5>1, <5>3 DEF WrittenRow
        <5>5. ~Exists(veto, k, f) => veto'[k][f].to = veto[k][f].to
          BY <5>4 DEF Exists
        <5>6. Exists(veto, k, f) => Exists(veto', k, f)
          BY <5>2, <5>4 DEF Exists
        <5> QED BY <5>2, <5>4, <5>5, <5>6
      <4> QED BY <2>3, <4>1
    <3>3. cutoff \in Nat /\ d \in Nat
      BY DateFacts
    <3> QED BY <2>4, <3>1, <3>2, <3>3
  <2>5. ASSUME NEW d \in Dates, ResetReplayRange(d)
        PROVE  d <= cutoff
    <3>1. ~(cutoff < d)
      <4> SUFFICES ASSUME cutoff < d PROVE FALSE
        OBVIOUS
      <4>1. ASSUME NEW f \in Raises, f < d
            PROVE  /\ Exists(veto', k, f) <=> Exists(veto, k, f)
                   /\ veto[k][f].to < d => veto'[k][f].to = veto[k][f].to
                   /\ Exists(veto, k, f) /\ ~(veto[k][f].to < d) => ~(veto'[k][f].to < d)
        <5>1. ResetRow(veto, d, k, f) /\ veto' = ResetFrom(veto, d)
          BY <2>1, <2>5, ResetRows DEF ResetReplayRange
        <5>2. /\ d \in Nat /\ f \in Nat /\ Open \in Nat /\ d < Open /\ Open # None
              /\ veto[k][f].to \in Nat
          BY <2>1, DateFacts, StintFacts DEF Rows
        <5>3. ~(f >= d)
          BY <4>1, <5>2
        <5>4. ~Exists(veto, k, f) => veto'[k][f].to = None
          BY <5>1, NoStintType DEF ResetRow
        <5>5. Exists(veto, k, f) =>
                veto'[k][f].to = IF veto[k][f].to >= d THEN Open ELSE veto[k][f].to
          <6>1. veto[k][f] \in Stints
            BY <2>1 DEF Rows
          <6> QED BY <5>1, <5>3, <6>1 DEF ResetRow, RestoredStint, Stints
        <5> QED BY <5>2, <5>4, <5>5 DEF Exists
      <4> QED BY <2>3, <4>1
    <3>2. cutoff \in Nat /\ d \in Nat
      BY DateFacts
    <3> QED BY <3>1, <3>2
  <2> QED BY <2>4, <2>5 DEF Next
<1>2. PastReadsStand <=> [][Stands]_vars
  BY DEF PastReadsStand
<1> HIDE DEF Stands
<1> QED BY <1>1, <1>2, TypeCorrect, PTL DEF Spec

\* --force from d clears the way: the guard lets every date from d on in.
THEOREM ForceClears == Spec => ForceClearsTheWay
<1> DEFINE Clear == \A d \in Dates :
             ResetReplayRange(d) => \A e \in Dates : e >= d => ~OutOfOrder(veto, e)'
<1>1. TypeOK /\ [Next]_vars => [Clear]_vars
  <2> SUFFICES ASSUME TypeOK, NEW d \in Dates, ResetReplayRange(d),
                      NEW e \in Dates, e >= d
               PROVE  ~OutOfOrder(veto', e)
    BY DEF OutOfOrder, Exists, IsOpen
  <2> SUFFICES ASSUME NEW k \in Keys, NEW f \in Raises, Exists(veto', k, f)
               PROVE  /\ ~(f > e)
                      /\ IsOpen(veto', k, f) \/ ~(veto'[k][f].to > e)
                      /\ ~(veto'[k][f].seen > e)
    BY DEF OutOfOrder
  <2>1. veto \in Rows /\ veto' = ResetFrom(veto, d)
    BY DEF ResetReplayRange, TypeOK, Rows
  <2>2. /\ f < d /\ veto'[k][f].seen < d
        /\ veto[k][f].to < d => veto'[k][f].to = veto[k][f].to
        /\ ~(veto[k][f].to < d) => veto'[k][f].to = Open
    BY <2>1, ResetFacts
  <2>3. /\ veto[k][f].to \in Nat /\ veto'[k][f].seen \in Nat
        /\ f \in Nat /\ d \in Nat /\ e \in Nat
    BY <2>1, ResetRows, StintFacts, DateFacts DEF Rows
  <2> QED BY <2>2, <2>3 DEF IsOpen
<1>2. ForceClearsTheWay <=> [][Clear]_vars
  BY DEF ForceClearsTheWay
<1> HIDE DEF Clear
<1> QED BY <1>1, <1>2, TypeCorrect, PTL DEF Spec

\* Every read at a cutoff is what the rules meant by their last word on each date.
\* The invariant alone is not inductive: a rewrite of a date starts from the table
\* of the day before, its expiries included, which the reads do not show.  It is
\* carried with the expiry every stint had on every date, which the expiry history
\* must be able to tell.
THEOREM MeantAlways == Spec => []VetoesAreMeant
<1> DEFINE IInv == /\ \A k \in Keys : AllMovedOnce(veto, k)
                   /\ ~late => AsMeant(veto, ran)
<1>1. Init => IInv
  <2> SUFFICES ASSUME Init PROVE IInv
    OBVIOUS
  <2>1. PICK old \in SUBSET Keys :
          veto = [k \in Keys |-> [f \in Raises |->
                    IF f = 0 /\ k \in old THEN Legacy ELSE NoStint]]
    BY DEF Init
  <2>2. TypeOK
    BY InitTypes
  <2>3. veto \in Rows /\ ran \in Histories
    BY <2>2 DEF TypeOK, Rows, Histories
  <2>4. \A k \in Keys : AllMovedOnce(veto, k)
    BY <2>1 DEF AllMovedOnce, MovedOnce, Legacy, NoStint
  <2>5. 0 \in Raises /\ 0 \in Nat /\ \A e \in Dates : ~ran[e].wrote
    BY VetoAssumption, SMT DEF Init, Raises
  <2>6. ASSUME NEW k \in Keys, NEW c \in Raises
        PROVE  ReadsAs(veto, k, c, MeantBy(ran, k, Exists(veto, k, 0))[c])
    <3>1. Exists(veto, k, 0) \in BOOLEAN
      BY DEF Exists
    <3>2. \A f \in Raises : Exists(veto, k, f) =>
             f = 0 /\ veto[k][f] = Legacy
      BY <2>1, NoStintType DEF Exists
    <3>3. Legacy.to = Open /\ Legacy.moved = {} /\ Legacy.expires = None
      BY DEF Legacy, NoStint
    <3>4. EndsBy(veto, k, 0)
      BY <2>5, <3>2, <3>3 DEF EndsBy
    <3>5. MeantBy(ran, k, Exists(veto, k, 0))[0] = [on |-> Exists(veto, k, 0), until |-> 0]
      BY <2>3, <3>1, MeantSteps
    <3>6. Active(veto, k, 0) <=> Exists(veto, k, 0)
      BY <2>5, <3>2, <3>3, DateFacts DEF Active
    <3>7. \A f \in Raises : Covers(veto, k, f, 0) => ExpiryOn(veto[k][f], 0) = 0
      BY <3>2, <3>3 DEF Covers, ExpiryOn, After, None
    <3>8. ReadsAs(veto, k, 0, MeantBy(ran, k, Exists(veto, k, 0))[0])
      BY <3>5, <3>6, <3>7 DEF ReadsAs
    <3>9. 0 <= c
      BY DateFacts
    <3> QED BY <2>3, <2>5, <3>4, <3>8, <3>9, AsMeantAfter
  <2> QED BY <2>4, <2>6 DEF AsMeant
<1>2. TypeOK /\ IInv /\ [Next]_vars => IInv'
  <2> SUFFICES ASSUME TypeOK, IInv, [Next]_vars
               PROVE  /\ \A k \in Keys : AllMovedOnce(veto', k)
                      /\ ~late' => AsMeant(veto', ran')
    BY DEF AllMovedOnce, MovedOnce, AsMeant, ReadsAs, Active, Covers, Exists, MeantBy,
           ExpiryOn
  <2>1. veto \in Rows /\ ran \in Histories
    BY DEF TypeOK, Rows, Histories
  <2>2. ran' \in Histories
    BY TypeStep DEF TypeOK, Histories
  <2>3. ASSUME NEW d \in Dates, NEW said \in Opinions, WriteVetoes(d, said), NEW k \in Keys
        PROVE  /\ AllMovedOnce(veto', k)
               /\ ~late' => \A c \in Raises :
                     ReadsAs(veto', k, c, MeantBy(ran', k, Exists(veto', k, 0))[c])
    <3> DEFINE u == Undone(veto, d)
               w == Applied(u, d, said)
    <3>1. /\ ~OutOfOrder(veto, d) /\ veto' = w
          /\ said \in [Keys -> Verdicts]
      BY <2>3, VetoAssumption DEF WriteVetoes
    <3>2. /\ ran'[d] = [wrote |-> TRUE, said |-> said]
          /\ \A e \in Dates : e # d => ran'[e] = ran[e]
          /\ ~late' => ~late /\ \A e \in Dates : e > d => ~ran[e].wrote
      BY <2>1, <2>3 DEF WriteVetoes, Histories
    <3>3. /\ d \in Nat /\ d - 1 \in Raises /\ d - 1 < d /\ d \in Raises
          /\ \A e \in Dates : e \in Nat
          /\ \A c \in Raises : c \in Nat
      BY DateFacts, VetoAssumption, SMT DEF Dates, Raises
    <3>4. u \in Rows /\ AllMovedOnce(u, k) /\ SameBefore(veto, u, k, d) /\ EndsBy(u, k, d - 1)
      BY <2>1, <3>1, UndoneReads
    <3> HIDE DEF u
    <3>5. /\ w \in Rows /\ AllMovedOnce(w, k)
          /\ SameBefore(u, w, k, d) /\ EndsBy(w, k, d)
          /\ \A r \in Histories, m \in Meanings :
                r[d].wrote /\ r[d].said = said /\ ReadsAs(u, k, d - 1, m) =>
                    ReadsAs(w, k, d, MeantNext(r, k, m, d))
      BY <3>1, <3>4, AppliedReads
    <3> HIDE DEF w
    <3>6. SameBefore(veto, w, k, d)
      BY <3>4, <3>5 DEF SameBefore
    <3>7. ASSUME ~late', NEW c \in Raises
          PROVE  ReadsAs(w, k, c, MeantBy(ran', k, Exists(w, k, 0))[c])
      <4> DEFINE M == MeantBy(ran', k, Exists(w, k, 0))
      <4>1. AsMeant(veto, ran) /\ \A e \in Dates : e < d => ran[e] = ran'[e]
        BY <3>2, <3>3, <3>7
      <4>2. \A e \in Dates : e > d => ~ran'[e].wrote
        BY <3>2, <3>3, <3>7
      <4>3. \A b \in Raises : b < d => ReadsAs(w, k, b, M[b])
        BY <2>1, <2>2, <3>5, <3>6, <4>1, AsMeantBefore
      <4>4. Exists(u, k, 0) = Exists(w, k, 0)
        <5>1. 0 \in Raises /\ 0 < d
          BY <3>3, VetoAssumption, SMT DEF Raises, Dates
        <5> QED BY <3>5, <5>1 DEF SameBefore, Exists
      <4>5. ReadsAs(u, k, d - 1, M[d - 1])
        BY <2>1, <2>2, <3>3, <3>4, <4>1, <4>4, AsMeantBefore
      <4>6. Exists(w, k, 0) \in BOOLEAN
        BY DEF Exists
      <4>7. M \in [Raises -> Meanings] /\ M[d] = MeantNext(ran', k, M[d - 1], d)
        BY <2>2, <4>6, MeantSteps
      <4>8. ReadsAs(w, k, d, M[d])
        <5> HIDE DEF M
        <5>1. M[d - 1] \in Meanings /\ ran'[d].wrote /\ ran'[d].said = said
          BY <3>2, <3>3, <4>7
        <5> QED BY <2>2, <3>5, <4>5, <4>7, <5>1
      <4>9. CASE c < d
        BY <4>3, <4>9
      <4>10. CASE d <= c
        BY <2>2, <3>3, <3>5, <4>2, <4>8, <4>10, AsMeantAfter
      <4> QED BY <3>3, <4>9, <4>10
    <3> QED BY <3>1, <3>5, <3>7
  <2>4. ASSUME NEW d \in Dates, ResetReplayRange(d), NEW k \in Keys
        PROVE  /\ AllMovedOnce(veto', k)
               /\ ~late' => \A c \in Raises :
                     ReadsAs(veto', k, c, MeantBy(ran', k, Exists(veto', k, 0))[c])
    <3>1. /\ veto' = ResetFrom(veto, d) /\ late' = late
          /\ \A e \in Dates : e >= d => ~ran'[e].wrote
          /\ \A e \in Dates : ~(e >= d) => ran'[e] = ran[e]
      BY <2>4 DEF ResetReplayRange
    <3>2. /\ d \in Nat /\ d - 1 \in Raises /\ d - 1 < d
          /\ \A e \in Dates : e \in Nat
          /\ \A c \in Raises : c \in Nat
      BY DateFacts, VetoAssumption, SMT DEF Dates, Raises
    <3>3. /\ veto' \in Rows /\ AllMovedOnce(veto', k)
          /\ SameBefore(veto, veto', k, d) /\ EndsBy(veto', k, d - 1)
      BY <2>1, <3>1, ResetReads
    <3>4. ASSUME ~late', NEW c \in Raises
          PROVE  ReadsAs(veto', k, c, MeantBy(ran', k, Exists(veto', k, 0))[c])
      <4>1. AsMeant(veto, ran) /\ \A e \in Dates : e < d => ran[e] = ran'[e]
        BY <3>1, <3>2, <3>4
      <4>2. \A e \in Dates : e > d - 1 => ~ran'[e].wrote
        BY <3>1, <3>2
      <4>3. \A b \in Raises : b < d =>
               ReadsAs(veto', k, b, MeantBy(ran', k, Exists(veto', k, 0))[b])
        BY <2>1, <2>2, <3>3, <4>1, AsMeantBefore
      <4>4. CASE c < d
        BY <4>3, <4>4
      <4>5. CASE d - 1 <= c
        BY <2>2, <3>2, <3>3, <4>2, <4>3, <4>5, AsMeantAfter
      <4> QED BY <3>2, <4>4, <4>5
    <3> QED BY <3>3, <3>4
  <2>5. CASE UNCHANGED vars
    BY <2>5 DEF vars
  <2>6. CASE \E d \in Dates, said \in Opinions : WriteVetoes(d, said)
    BY <2>3, <2>6 DEF AsMeant
  <2>7. CASE \E d \in Dates : ResetReplayRange(d)
    BY <2>4, <2>7 DEF AsMeant
  <2> QED BY <2>5, <2>6, <2>7 DEF Next
<1>3. IInv => VetoesAreMeant
  <2> SUFFICES ASSUME IInv, ~late, NEW k \in Keys, NEW cutoff \in Raises
               PROVE  Active(veto, k, cutoff) <=> Meant(k, Exists(veto, k, 0))[cutoff].on
    BY DEF VetoesAreMeant
  <2>1. Meant(k, Exists(veto, k, 0)) = MeantBy(ran, k, Exists(veto, k, 0))
    BY DEF Meant, MeantBy
  <2> QED BY <2>1 DEF AsMeant, ReadsAs
<1> QED BY <1>1, <1>2, <1>3, TypeCorrect, PTL DEF Spec
=============================================================================

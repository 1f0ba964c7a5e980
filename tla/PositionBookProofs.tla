------------------------- MODULE PositionBookProofs -------------------------
(***************************************************************************)
(* Type correctness of PositionBook, the past a run leaves alone, the      *)
(* order of the stints, what an undo takes out, the book of each date, and *)
(* the replay book as one clean backfill.                                  *)
(***************************************************************************)
EXTENDS PositionBook, TLAPS, WellFoundedInduction

-----------------------------------------------------------------------------
(* The strengthening: what Sync and ResetFrom keep of one table *)

\* On each date of E no row is newer than all the rows that cover it, unless the book
\* was emptied between the two.
NewestIsHeld(b, E) ==
    \A e \in E, a \in Assets, f \in Dates :
        Exists(b, a, f) /\ f <= e =>
            \E c \in Assets, g \in Dates :
                /\ Exists(b, c, g) /\ f <= g /\ g <= e
                /\ \/ Covers(b, c, g, e)
                   \/ b[c][g].to <= e /\ Emptied(b, b[c][g].to)

TableOK(b, E) == InOrder(b) /\ NewestIsHeld(b, E)

\* A reset needs it on every date, as any date may become the last.  An undo keeps
\* it on the last date only: what it voids was the newest on its own.
HeldOn(k) == IF k = "live" THEN {LastDate} ELSE Dates

\* What has ended ended by d.
EndsBy(b, d) ==
    \A a \in Assets, f \in Dates :
        Exists(b, a, f) /\ ~IsOpen(b, a, f) => b[a][f].to \in Dates /\ b[a][f].to <= d

\* No row starts after d.
StartsBy(b, d) == \A a \in Assets, f \in Dates : Exists(b, a, f) => f <= d

\* A write at d is not late.
NoneEmptiedAfter(b, d) == \A e \in Dates : e > d => ~Emptied(b, e)

-----------------------------------------------------------------------------
(* Sync *)

LEMMA DateFacts ==
    /\ LastDate \in Nat /\ LastDate \in Dates /\ Open \in Nat /\ Open \notin Dates
    /\ \A e \in Dates : e \in Nat /\ e # 0 /\ e < Open /\ e <= LastDate
BY BookAssumption, SMT DEF Dates, Open

\* The end of a row is a number; that of a row that has ended, a date.
LEMMA RowEnds ==
    ASSUME NEW b \in Rows, NEW a \in Assets, NEW f \in Dates
    PROVE  /\ b[a][f] \in Stints /\ b[a][f].to \in Nat /\ b[a][f].to <= Open
           /\ Exists(b, a, f) /\ ~IsOpen(b, a, f) => b[a][f].to \in Dates
<1>1. b[a][f] \in Stints
  BY DEF Rows
<1> DEFINE to == b[a][f].to
<1>2. to \in 0..Open
  BY <1>1 DEF Stints
<1> HIDE DEF to
<1>3. to \in Nat /\ to <= Open
  BY <1>2, DateFacts
<1>4. to # 0 /\ to # Open => to \in Dates
  BY <1>2, BookAssumption, SMT DEF Dates, Open
<1> QED BY <1>1, <1>3, <1>4 DEF to, Exists, IsOpen

\* In order, an asset has one open row: open_rows keeps it.
LEMMA OneOpen ==
    ASSUME NEW b \in Rows, InOrder(b)
    PROVE  \A a \in Assets, f \in Dates : Current(b, a, f) <=> IsOpen(b, a, f)
<1> SUFFICES ASSUME NEW a \in Assets, NEW f \in Dates, IsOpen(b, a, f)
             PROVE  f = CHOOSE g \in Dates : IsOpen(b, a, g)
  BY DEF Current
<1>1. ASSUME NEW g \in Dates, NEW h \in Dates, IsOpen(b, a, g), IsOpen(b, a, h), g < h
      PROVE  FALSE
  <2>1. Exists(b, a, g) /\ Exists(b, a, h) /\ b[a][g].to = Open
    BY <1>1, DateFacts DEF IsOpen, Exists
  <2>2. Open <= h
    BY <1>1, <2>1 DEF InOrder
  <2> QED BY <2>2, DateFacts, SMT
<1>2. ASSUME NEW g \in Dates, IsOpen(b, a, g) PROVE f = g
  <2>1. f \in Nat /\ g \in Nat /\ ~(f < g) /\ ~(g < f)
    BY <1>1, <1>2, DateFacts
  <2> QED BY <2>1, SMT
<1> QED BY <1>2

\* With nothing newer open and nothing emptied later, the newest row is not newer
\* than d.
LEMMA NoNewerRow ==
    ASSUME NEW b \in Rows, NEW d \in Dates, NEW E, LastDate \in E, TableOK(b, E),
           ~Newer(b, d), NoneEmptiedAfter(b, d)
    PROVE  StartsBy(b, d)
<1>1. SUFFICES ASSUME NEW a \in Assets, NEW f \in Dates, Exists(b, a, f), ~(f <= d)
               PROVE FALSE
  BY DEF StartsBy
<1>2. LastDate \in Dates /\ f <= LastDate
  BY DateFacts
<1>3. PICK c \in Assets, g \in Dates :
        /\ Exists(b, c, g) /\ f <= g /\ g <= LastDate
        /\ \/ Covers(b, c, g, LastDate)
           \/ b[c][g].to <= LastDate /\ Emptied(b, b[c][g].to)
  BY <1>1, <1>2 DEF TableOK, NewestIsHeld
<1> DEFINE to == b[c][g].to
<1>4. to \in Nat /\ to <= Open /\ g <= to
  BY <1>3, RowEnds DEF TableOK, InOrder
<1>5. g > d
  BY <1>1, <1>3, DateFacts, SMT
<1>6. CASE Covers(b, c, g, LastDate)
  <2>1. LastDate < to
    BY <1>6 DEF Covers
  <2> HIDE DEF to
  <2>2. to = Open
    BY <1>4, <2>1, BookAssumption, SMT DEF Open
  <2>3. IsOpen(b, c, g)
    BY <2>2 DEF to, IsOpen
  <2> QED BY <1>5, <2>3, OneOpen DEF Newer, TableOK
<1>7. CASE to <= LastDate /\ Emptied(b, to)
  <2>1. ~IsOpen(b, c, g)
    BY <1>7, BookAssumption, SMT DEF IsOpen, Open
  <2>2. to \in Dates
    BY <1>3, <2>1, RowEnds
  <2>3. ~(to > d)
    BY <1>7, <2>2 DEF NoneEmptiedAfter
  <2> HIDE DEF to
  <2> QED BY <1>4, <1>5, <2>3, DateFacts, SMT
<1> QED BY <1>3, <1>6, <1>7

\* A row that starts on another date than d keeps its weight and cost, and at most
\* ends on d.
LEMMA SyncElsewhere ==
    ASSUME NEW b \in Rows, NEW d \in Dates, NEW t \in Book,
           NEW a \in Assets, NEW f \in Dates, f # d
    PROVE  \/ Sync(b, d, t)[a][f] = b[a][f]
           \/ IsOpen(b, a, f) /\ Sync(b, d, t)[a][f] = [b[a][f] EXCEPT !.to = d]
<1>1. Sync(b, d, t)[a][f] =
        IF Current(b, a, f) THEN Continued(b[a][f], f, d, t[a]) ELSE b[a][f]
  BY DEF Sync
<1>2. Continued(b[a][f], f, d, t[a]) \in {b[a][f], [b[a][f] EXCEPT !.to = d]}
  BY DEF Continued
<1> QED BY <1>1, <1>2 DEF Current

\* In order, a target needs a new row when no open one serves it.
LEMMA OpensWhen ==
    ASSUME NEW b \in Rows, InOrder(b), NEW d \in Dates, NEW t \in Book, NEW a \in Assets
    PROVE  Opens(b, d, t, a) <=>
             t[a] # 0 /\ \A f \in Dates : IsOpen(b, a, f) => f # d /\ b[a][f].weight # t[a]
BY OneOpen DEF Opens

\* One row after Sync of a table in order, when no insert collides.
SyncedRow(b, d, t, a, f) ==
    LET c == Sync(b, d, t) IN
    /\ Exists(c, a, f) <=> Exists(b, a, f) \/ (f = d /\ Opens(b, d, t, a))
    /\ IsOpen(c, a, f) <=>
         \/ IsOpen(b, a, f) /\ t[a] # 0 /\ (f = d \/ b[a][f].weight = t[a])
         \/ f = d /\ Opens(b, d, t, a)
    /\ IsOpen(c, a, f) => t[a] # 0 /\ c[a][f].weight = t[a]
    /\ Exists(c, a, f) /\ ~IsOpen(c, a, f) =>
         /\ Exists(b, a, f)
         /\ c[a][f].to = IF IsOpen(b, a, f) THEN d ELSE b[a][f].to
         /\ c[a][f].weight = b[a][f].weight
    /\ f # d => c[a][f].weight = b[a][f].weight /\ c[a][f].cost = b[a][f].cost

LEMMA SyncRow ==
    ASSUME NEW b \in Rows, InOrder(b), NEW d \in Dates, NEW t \in Book, ~Collides(b, d, t)
    PROVE  \A a \in Assets, f \in Dates : SyncedRow(b, d, t, a, f)
<1> SUFFICES ASSUME NEW a \in Assets, NEW f \in Dates PROVE SyncedRow(b, d, t, a, f)
  OBVIOUS
<1> DEFINE c == Sync(b, d, t)
<1>1. b[a][f] \in Stints
  BY DEF Rows
<1>2. t[a] \in Nat /\ d # 0 /\ d # Open /\ Open # 0
  BY DateFacts, BookAssumption, SMT DEF Book
<1>3. c[a][f] = IF IsOpen(b, a, f) THEN Continued(b[a][f], f, d, t[a])
                ELSE IF f = d /\ Opens(b, d, t, a)
                     THEN [to |-> Open, weight |-> t[a], cost |-> CostBasis(b, d, a)]
                     ELSE b[a][f]
  BY OneOpen DEF Sync
<1>4. CASE IsOpen(b, a, f)
  <2>1. f # d \/ ~Opens(b, d, t, a)
    BY <1>4, OpensWhen
  <2>2. c[a][f] = Continued(b[a][f], f, d, t[a]) /\ b[a][f].to = Open
    BY <1>3, <1>4 DEF IsOpen
  <2>3. CASE t[a] = 0
    BY <1>1, <1>2, <1>4, <2>1, <2>2, <2>3 DEF Continued, Exists, IsOpen, Stints, SyncedRow
  <2>4. CASE t[a] # 0 /\ t[a] = b[a][f].weight
    BY <1>1, <1>2, <1>4, <2>1, <2>2, <2>4 DEF Continued, Exists, IsOpen, Stints, SyncedRow
  <2>5. CASE t[a] # 0 /\ t[a] # b[a][f].weight /\ f = d
    BY <1>1, <1>2, <1>4, <2>1, <2>2, <2>5 DEF Continued, Exists, IsOpen, Stints, SyncedRow
  <2>6. CASE t[a] # 0 /\ t[a] # b[a][f].weight /\ f # d
    BY <1>1, <1>2, <1>4, <2>1, <2>2, <2>6 DEF Continued, Exists, IsOpen, Stints, SyncedRow
  <2> QED BY <2>3, <2>4, <2>5, <2>6
<1>5. CASE ~IsOpen(b, a, f) /\ f = d /\ Opens(b, d, t, a)
  <2>1. ~Exists(b, a, d) /\ t[a] # 0
    BY <1>5 DEF Collides, Opens
  <2> QED BY <1>1, <1>2, <1>3, <1>5, <2>1 DEF Exists, IsOpen, SyncedRow
<1>6. CASE ~IsOpen(b, a, f) /\ ~(f = d /\ Opens(b, d, t, a))
  BY <1>1, <1>2, <1>3, <1>6 DEF Exists, IsOpen, SyncedRow
<1> QED BY <1>4, <1>5, <1>6

\* A closed stint ends by d, as a date after the newest row on which one ended was
\* emptied.
LEMMA ClosedBy ==
    ASSUME NEW b \in Rows, NEW d \in Dates, StartsBy(b, d), NoneEmptiedAfter(b, d)
    PROVE  EndsBy(b, d)
<1> SUFFICES ASSUME NEW a \in Assets, NEW f \in Dates, Exists(b, a, f), ~IsOpen(b, a, f)
             PROVE  b[a][f].to \in Dates /\ b[a][f].to <= d
  BY DEF EndsBy
<1> DEFINE to == b[a][f].to
<1>1. to \in Dates
  BY RowEnds
<1>2. ASSUME to > d PROVE FALSE
  <2>1. \A c \in Assets : ~Exists(b, c, to)
    <3>1. ~(to <= d)
      <4> HIDE DEF to
      <4> QED BY <1>1, <1>2, DateFacts, SMT
    <3> QED BY <1>1, <3>1 DEF StartsBy
  <2>2. Emptied(b, to)
    BY <2>1 DEF Emptied
  <2> QED BY <1>1, <1>2, <2>2 DEF NoneEmptiedAfter
<1> HIDE DEF to
<1>3. to <= d
  BY <1>1, <1>2, DateFacts, SMT
<1> QED BY <1>1, <1>3 DEF to

\* And what a sync at d closes ends on d.
LEMMA SyncEndsBy ==
    ASSUME NEW b \in Rows, InOrder(b), NEW d \in Dates, NEW t \in Book, ~Collides(b, d, t),
           EndsBy(b, d)
    PROVE  EndsBy(Sync(b, d, t), d)
<1> DEFINE c == Sync(b, d, t)
<1> SUFFICES ASSUME NEW a \in Assets, NEW f \in Dates, Exists(c, a, f), ~IsOpen(c, a, f)
             PROVE  c[a][f].to \in Dates /\ c[a][f].to <= d
  BY DEF EndsBy
<1>1. Exists(b, a, f) /\ c[a][f].to = IF IsOpen(b, a, f) THEN d ELSE b[a][f].to
  BY SyncRow DEF SyncedRow
<1>2. CASE IsOpen(b, a, f)
  BY <1>1, <1>2, DateFacts, SMT
<1>3. CASE ~IsOpen(b, a, f)
  BY <1>1, <1>3 DEF EndsBy
<1> QED BY <1>2, <1>3

LEMMA SyncInOrder ==
    ASSUME NEW b \in Rows, InOrder(b), NEW d \in Dates, NEW t \in Book, ~Collides(b, d, t),
           StartsBy(b, d), EndsBy(b, d)
    PROVE  InOrder(Sync(b, d, t))
<1> DEFINE c == Sync(b, d, t)
<1> SUFFICES ASSUME NEW a \in Assets, NEW f \in Dates, Exists(c, a, f)
             PROVE  /\ f <= c[a][f].to
                    /\ \A g \in Dates : f < g /\ Exists(c, a, g) => c[a][f].to <= g
  BY DEF InOrder
<1>0. \A g \in Dates : SyncedRow(b, d, t, a, g)
  BY SyncRow
<1>1. CASE IsOpen(c, a, f)
  <2>1. c[a][f].to = Open /\ f <= Open
    BY <1>1, DateFacts, SMT DEF IsOpen
  <2>2. ASSUME NEW g \in Dates, f < g, Exists(c, a, g) PROVE FALSE
    <3>1. CASE IsOpen(b, a, f)
      <4>1. ~Exists(b, a, g)
        <5> SUFFICES ASSUME Exists(b, a, g) PROVE FALSE
          OBVIOUS
        <5>1. b[a][f].to = Open /\ Exists(b, a, f)
          BY <3>1, DateFacts DEF IsOpen, Exists
        <5>2. Open <= g
          BY <5>1, <2>2 DEF InOrder
        <5> QED BY <5>2, DateFacts, SMT
      <4>2. g = d /\ Opens(b, d, t, a)
        BY <2>2, <4>1, <1>0 DEF SyncedRow
      <4>3. f # d /\ b[a][f].weight # t[a]
        BY <3>1, <4>2, OpensWhen
      <4>4. f = d \/ b[a][f].weight = t[a]
        BY <1>1, <3>1, <4>2, <4>3, <1>0 DEF SyncedRow
      <4> QED BY <4>3, <4>4
    <3>2. CASE ~IsOpen(b, a, f)
      <4>1. f = d
        BY <1>1, <3>2, <1>0 DEF SyncedRow
      <4>2. g <= d
        BY <2>2, <1>0, DateFacts, SMT DEF SyncedRow, StartsBy
      <4> QED BY <2>2, <4>1, <4>2, DateFacts, SMT
    <3> QED BY <3>1, <3>2
  <2> QED BY <2>1, <2>2
<1>2. CASE ~IsOpen(c, a, f)
  <2>1. Exists(b, a, f) /\ c[a][f].to = IF IsOpen(b, a, f) THEN d ELSE b[a][f].to
    BY <1>2, <1>0 DEF SyncedRow
  <2>2. c[a][f].to \in Dates /\ c[a][f].to <= d
    BY <1>2, SyncEndsBy DEF EndsBy
  <2>3. f <= c[a][f].to
    <3>1. CASE IsOpen(b, a, f)
      BY <2>1, <3>1 DEF StartsBy
    <3>2. CASE ~IsOpen(b, a, f)
      BY <2>1, <3>2 DEF InOrder
    <3> QED BY <3>1, <3>2
  <2>4. ASSUME NEW g \in Dates, f < g, Exists(c, a, g) PROVE c[a][f].to <= g
    <3>1. CASE g = d
      BY <2>2, <3>1
    <3>2. CASE g # d
      <4>1. Exists(b, a, g)
        BY <2>4, <3>2, <1>0 DEF SyncedRow
      <4>2. b[a][f].to <= g
        BY <2>1, <2>4, <4>1 DEF InOrder
      <4>3. ~IsOpen(b, a, f)
        BY <4>2, DateFacts, SMT DEF IsOpen
      <4> QED BY <2>1, <4>2, <4>3
    <3> QED BY <3>1, <3>2
  <2> QED BY <2>3, <2>4
<1> QED BY <1>1, <1>2

\* Before d, the table reads as it did, in order or not.
LEMMA SyncBefore ==
    ASSUME NEW b \in Rows, NEW d \in Dates, NEW t \in Book,
           NEW a \in Assets, NEW f \in Dates, NEW e \in Dates, e < d
    PROVE  /\ Covers(Sync(b, d, t), a, f, e) <=> Covers(b, a, f, e)
           /\ Covers(b, a, f, e) => /\ Sync(b, d, t)[a][f].weight = b[a][f].weight
                                    /\ Sync(b, d, t)[a][f].cost = b[a][f].cost
<1> DEFINE c == Sync(b, d, t)
<1>1. CASE f = d
  <2>1. ~(f <= e)
    BY <1>1, DateFacts, SMT
  <2> QED BY <2>1 DEF Covers
<1>2. CASE f # d
  <2>1. b[a][f] \in Stints
    BY DEF Rows
  <2>2. CASE c[a][f] = b[a][f]
    BY <2>2 DEF Covers, Exists
  <2>3. CASE IsOpen(b, a, f) /\ c[a][f] = [b[a][f] EXCEPT !.to = d]
    <3>1. /\ c[a][f].to = d /\ c[a][f].weight = b[a][f].weight
          /\ c[a][f].cost = b[a][f].cost
      BY <2>1, <2>3 DEF Stints
    <3>2. Covers(c, a, f, e) <=> f <= e
      BY <3>1, DateFacts DEF Covers, Exists
    <3>3. Covers(b, a, f, e) <=> f <= e
      BY <2>3, DateFacts DEF Covers, Exists, IsOpen
    <3> QED BY <3>1, <3>2, <3>3
  <2> QED BY <1>2, <2>2, <2>3, SyncElsewhere
<1> QED BY <1>1, <1>2

\* From d on, the table holds what is open.
LEMMA SyncFrom ==
    ASSUME NEW b \in Rows, InOrder(b), NEW d \in Dates, NEW t \in Book, ~Collides(b, d, t),
           StartsBy(b, d), EndsBy(b, d),
           NEW a \in Assets, NEW f \in Dates, NEW e \in Dates, d <= e
    PROVE  Covers(Sync(b, d, t), a, f, e) <=> IsOpen(Sync(b, d, t), a, f)
<1> DEFINE c == Sync(b, d, t)
<1>0. SyncedRow(b, d, t, a, f)
  BY SyncRow
<1>1. Exists(c, a, f) => f <= d
  BY <1>0, DateFacts, SMT DEF SyncedRow, StartsBy
<1>2. CASE IsOpen(c, a, f)
  <2>1. Exists(c, a, f) /\ c[a][f].to = Open
    BY <1>2, DateFacts DEF IsOpen, Exists
  <2> QED BY <1>1, <1>2, <2>1, DateFacts, SMT DEF Covers
<1>3. CASE ~IsOpen(c, a, f)
  <2> SUFFICES ASSUME Covers(c, a, f, e) PROVE FALSE
    BY <1>3
  <2>1. Exists(c, a, f) /\ e < c[a][f].to
    BY DEF Covers
  <2>2. c[a][f].to \in Dates /\ c[a][f].to <= d
    BY <1>3, <2>1, SyncEndsBy DEF EndsBy
  <2> DEFINE to == c[a][f].to
  <2>3. to \in Nat /\ d \in Nat /\ e \in Nat /\ e < to /\ to <= d /\ d <= e
    BY <2>1, <2>2, DateFacts
  <2> HIDE DEF to
  <2> QED BY <2>3, SMT
<1> QED BY <1>2, <1>3

\* A date that was emptied by d stays so.
LEMMA SyncEmptied ==
    ASSUME NEW b \in Rows, InOrder(b), NEW d \in Dates, NEW t \in Book, ~Collides(b, d, t),
           NEW h \in Dates, Emptied(b, h), h # d
    PROVE  Emptied(Sync(b, d, t), h)
<1> DEFINE c == Sync(b, d, t)
<1>0. \A a \in Assets, f \in Dates : SyncedRow(b, d, t, a, f)
  BY SyncRow
<1>1. ASSUME NEW a \in Assets, NEW f \in Dates, Exists(b, a, f), b[a][f].to = h
      PROVE  Exists(c, a, f) /\ (f # d => c[a][f].to = h)
  <2>1. ~IsOpen(b, a, f) /\ Exists(c, a, f)
    BY <1>0, <1>1, DateFacts DEF IsOpen, SyncedRow
  <2>2. f # d => c[a][f].to = h
    BY <1>0, <1>1, <2>1 DEF SyncedRow
  <2> QED BY <2>1, <2>2
<1>2. \E a \in Assets, f \in Dates : Exists(c, a, f) /\ c[a][f].to = h
  <2>1. PICK a \in Assets, f \in Dates : Exists(b, a, f) /\ b[a][f].to = h
    BY DEF Emptied
  <2>2. Exists(c, a, f) /\ ~IsOpen(b, a, f)
    BY <1>1, <2>1, DateFacts DEF IsOpen
  <2>3. CASE IsOpen(c, a, f)
    <3>1. f = d /\ Opens(b, d, t, a)
      BY <1>0, <2>2, <2>3 DEF SyncedRow
    <3> QED BY <2>1, <3>1 DEF Collides
  <2>4. CASE ~IsOpen(c, a, f)
    BY <1>0, <2>1, <2>2, <2>4 DEF SyncedRow
  <2> QED BY <2>3, <2>4
<1>3. ASSUME NEW a \in Assets, Exists(c, a, h) PROVE c[a][h].to = h
  <2>1. Exists(b, a, h)
    BY <1>0, <1>3 DEF SyncedRow
  <2>2. b[a][h].to = h
    BY <2>1 DEF Emptied
  <2> QED BY <1>1, <2>1, <2>2
<1> QED BY <1>2, <1>3 DEF Emptied

\* A sync that closes a stint and leaves none open that starts on d empties d.
LEMMA SyncEmpties ==
    ASSUME NEW b \in Rows, InOrder(b), NEW d \in Dates, NEW t \in Book, ~Collides(b, d, t),
           EndsBy(b, d),
           \A a \in Assets : ~IsOpen(Sync(b, d, t), a, d),
           NEW x \in Assets, NEW g \in Dates, Exists(Sync(b, d, t), x, g),
           Sync(b, d, t)[x][g].to = d
    PROVE  Emptied(Sync(b, d, t), d)
<1> DEFINE c == Sync(b, d, t)
<1>0. \A a \in Assets, f \in Dates : SyncedRow(b, d, t, a, f)
  BY SyncRow
<1>1. ASSUME NEW a \in Assets, Exists(c, a, d) PROVE c[a][d].to = d
  <2>1. Exists(b, a, d) /\ c[a][d].to = IF IsOpen(b, a, d) THEN d ELSE b[a][d].to
    BY <1>0, <1>1 DEF SyncedRow
  <2>2. CASE IsOpen(b, a, d)
    BY <2>1, <2>2
  <2>3. CASE ~IsOpen(b, a, d)
    <3> DEFINE to == b[a][d].to
    <3>1. to \in Dates /\ to <= d /\ d <= to
      BY <2>1, <2>3 DEF EndsBy, InOrder
    <3> HIDE DEF to
    <3>2. to = d
      BY <3>1, DateFacts, SMT
    <3> QED BY <2>1, <2>3, <3>2 DEF to
  <2> QED BY <2>2, <2>3
<1> QED BY <1>1 DEF Emptied

LEMMA SyncNewest ==
    ASSUME NEW b \in Rows, NEW d \in Dates, NEW t \in Book,
           NEW E, E \subseteq Dates, LastDate \in E, TableOK(b, E),
           StartsBy(b, d), EndsBy(b, d), NoneEmptiedAfter(b, d), ~Collides(b, d, t)
    PROVE  NewestIsHeld(Sync(b, d, t), E)
<1> DEFINE c == Sync(b, d, t)
<1> SUFFICES ASSUME NEW e \in E, NEW a \in Assets, NEW f \in Dates, Exists(c, a, f), f <= e
             PROVE  \E x \in Assets, g \in Dates :
                      /\ Exists(c, x, g) /\ f <= g /\ g <= e
                      /\ \/ Covers(c, x, g, e)
                         \/ c[x][g].to <= e /\ Emptied(c, c[x][g].to)
  BY DEF NewestIsHeld
<1>i. InOrder(b)
  BY DEF TableOK
<1>0. \A x \in Assets, g \in Dates : SyncedRow(b, d, t, x, g)
  BY <1>i, SyncRow
<1>e. /\ d \in Nat /\ e \in Nat /\ f \in Nat /\ e \in Dates /\ e < Open
      /\ LastDate \in Dates /\ f <= LastDate
      /\ \A h \in Dates : h \in Nat
  BY DateFacts
<1>1. CASE e < d
  <2>1. f # d
    BY <1>1, <1>e, SMT
  <2>2. Exists(b, a, f)
    BY <1>0, <2>1 DEF SyncedRow
  <2>3. PICK x \in Assets, g \in Dates :
          /\ Exists(b, x, g) /\ f <= g /\ g <= e
          /\ \/ Covers(b, x, g, e)
             \/ b[x][g].to <= e /\ Emptied(b, b[x][g].to)
    BY <2>2 DEF TableOK, NewestIsHeld
  <2>4. Exists(c, x, g)
    BY <1>0, <2>3 DEF SyncedRow
  <2>5. CASE Covers(b, x, g, e)
    <3>1. Covers(c, x, g, e)
      BY <1>1, <1>e, <2>5, SyncBefore
    <3> QED BY <2>3, <2>4, <3>1
  <2>6. CASE b[x][g].to <= e /\ Emptied(b, b[x][g].to)
    <3> DEFINE h == b[x][g].to
    <3>1. ~IsOpen(b, x, g) /\ g # d
      BY <1>1, <1>e, <2>3, <2>6, DateFacts, SMT DEF IsOpen
    <3>2. h \in Dates
      BY <2>3, <3>1, RowEnds
    <3>3. h # d
      <4> HIDE DEF h
      <4>1. h <= e
        BY <2>6 DEF h
      <4> QED BY <1>1, <1>e, <3>2, <4>1, SMT
    <3>4. Emptied(c, h)
      BY <1>i, <2>6, <3>2, <3>3, SyncEmptied
    <3>5. c[x][g].to = h
      BY <1>0, <2>4, <3>1 DEF SyncedRow
    <3> QED BY <2>3, <2>4, <2>6, <3>4, <3>5
  <2> QED BY <2>3, <2>5, <2>6
<1>2. CASE d <= e
  <2>0. f <= d
    BY <1>0, <1>e, SMT DEF SyncedRow, StartsBy
  <2>1. \A x \in Assets, g \in Dates : IsOpen(c, x, g) => Covers(c, x, g, e)
    BY <1>i, <1>2, <1>e, SyncFrom
  <2>2. CASE \E x \in Assets : IsOpen(c, x, d)
    <3>1. PICK x \in Assets : IsOpen(c, x, d)
      BY <2>2
    <3>2. Covers(c, x, d, e) /\ Exists(c, x, d)
      BY <2>1, <3>1 DEF Covers
    <3> QED BY <1>2, <2>0, <3>2
  <2>3. CASE \A x \in Assets : ~IsOpen(c, x, d)
    <3>1. \A x \in Assets : ~Opens(b, d, t, x)
      BY <1>0, <2>3 DEF SyncedRow
    <3>2. Exists(b, a, f)
      BY <1>0, <3>1 DEF SyncedRow
    <3>3. PICK x \in Assets, g \in Dates :
            /\ Exists(b, x, g) /\ f <= g /\ g <= LastDate
            /\ \/ Covers(b, x, g, LastDate)
               \/ b[x][g].to <= LastDate /\ Emptied(b, b[x][g].to)
      BY <1>e, <3>2 DEF TableOK, NewestIsHeld
    <3>4. Exists(c, x, g) /\ g <= e
      <4>1. g <= d
        BY <3>3 DEF StartsBy
      <4> QED BY <1>0, <1>2, <1>e, <3>3, <4>1, SMT DEF SyncedRow
    <3>5. CASE IsOpen(c, x, g)
      BY <2>1, <3>3, <3>4, <3>5
    <3>6. CASE ~IsOpen(c, x, g) /\ IsOpen(b, x, g)
      <4>1. c[x][g].to = d
        BY <1>0, <3>4, <3>6 DEF SyncedRow
      <4>2. Emptied(c, d)
        BY <1>i, <2>3, <3>4, <4>1, SyncEmpties
      <4> QED BY <1>2, <3>3, <3>4, <4>1, <4>2
    <3>7. CASE ~IsOpen(c, x, g) /\ ~IsOpen(b, x, g)
      <4> DEFINE h == b[x][g].to
      <4>1. h \in Dates /\ h <= d /\ c[x][g].to = h
        BY <1>0, <3>3, <3>4, <3>7 DEF EndsBy, SyncedRow
      <4>2. ~Covers(b, x, g, LastDate)
        <5> HIDE DEF h
        <5>1. ~(LastDate < h)
          BY <4>1, DateFacts, SMT
        <5> QED BY <5>1 DEF Covers, h
      <4>3. Emptied(b, h)
        BY <3>3, <4>2
      <4>4. Emptied(c, h)
        <5>1. CASE h = d
          BY <1>i, <2>3, <3>4, <4>1, <5>1, SyncEmpties
        <5>2. CASE h # d
          BY <1>i, <4>1, <4>3, <5>2, SyncEmptied
        <5> QED BY <5>1, <5>2
      <4>5. h <= e
        <5> HIDE DEF h
        <5> QED BY <1>2, <1>e, <4>1, SMT
      <4> QED BY <3>3, <3>4, <4>1, <4>4, <4>5
    <3> QED BY <3>5, <3>6, <3>7
  <2> QED BY <2>2, <2>3
<1>3. e < d \/ d <= e
  BY <1>e, SMT
<1> QED BY <1>1, <1>2, <1>3

LEMMA SyncOK ==
    ASSUME NEW b \in Rows, NEW d \in Dates, NEW t \in Book,
           NEW E, E \subseteq Dates, LastDate \in E, TableOK(b, E),
           ~Newer(b, d), ~Collides(b, d, t), NoneEmptiedAfter(b, d)
    PROVE  /\ TableOK(Sync(b, d, t), E)
           /\ InOrder(b) /\ StartsBy(b, d) /\ EndsBy(b, d)
<1>1. InOrder(b) /\ StartsBy(b, d)
  BY NoNewerRow DEF TableOK
<1>2. EndsBy(b, d)
  BY <1>1, ClosedBy
<1> QED BY <1>1, <1>2, SyncInOrder, SyncNewest DEF TableOK

-----------------------------------------------------------------------------
(* ResetFrom *)

ResetRow(b, d, a, f) ==
    LET c == ResetFrom(b, d) IN
    /\ Exists(c, a, f) <=> Exists(b, a, f) /\ f < d
    /\ IsOpen(c, a, f) <=> Exists(b, a, f) /\ f < d /\ d <= b[a][f].to
    /\ Exists(c, a, f) => c[a][f].weight = b[a][f].weight /\ c[a][f].cost = b[a][f].cost
    /\ Exists(c, a, f) /\ ~IsOpen(c, a, f) => c[a][f].to = b[a][f].to /\ b[a][f].to < d

LEMMA ResetRows ==
    ASSUME NEW b \in Rows, NEW d \in Dates
    PROVE  \A a \in Assets, f \in Dates : ResetRow(b, d, a, f)
<1> SUFFICES ASSUME NEW a \in Assets, NEW f \in Dates PROVE ResetRow(b, d, a, f)
  OBVIOUS
<1> DEFINE c == ResetFrom(b, d)
<1>1. b[a][f] \in Stints
  BY DEF Rows
<1>2. c[a][f] = IF f >= d THEN NoStint
                ELSE IF Exists(b, a, f) /\ b[a][f].to >= d
                     THEN [b[a][f] EXCEPT !.to = Open] ELSE b[a][f]
  BY DEF ResetFrom
<1>3. CASE f >= d
  BY <1>1, <1>2, <1>3, DateFacts, SMT DEF NoStint, Exists, IsOpen, ResetRow
<1>4. CASE ~(f >= d) /\ Exists(b, a, f) /\ b[a][f].to >= d
  BY <1>1, <1>2, <1>4, DateFacts, SMT DEF Stints, Exists, IsOpen, ResetRow
<1>5. CASE ~(f >= d) /\ ~(Exists(b, a, f) /\ b[a][f].to >= d)
  BY <1>1, <1>2, <1>5, DateFacts, SMT DEF Stints, Exists, IsOpen, ResetRow
<1> QED BY <1>3, <1>4, <1>5

\* A table reset from d reads on e as it did on e, or on the eve of d.
Cut(d, e) == IF e < d THEN e ELSE d - 1

LEMMA ResetCovers ==
    ASSUME NEW b \in Rows, NEW d \in Dates, NEW a \in Assets, NEW f \in Dates, NEW e \in Dates
    PROVE  /\ Cut(d, e) \in Nat /\ Cut(d, e) < d /\ Cut(d, e) <= e
           /\ Cut(d, e) \in Dates \/ Cut(d, e) = 0
           /\ Covers(ResetFrom(b, d), a, f, e) <=> Covers(b, a, f, Cut(d, e))
<1> DEFINE c == ResetFrom(b, d)
<1>1. /\ Cut(d, e) \in Nat /\ Cut(d, e) < d /\ Cut(d, e) <= e
      /\ Cut(d, e) \in Dates \/ Cut(d, e) = 0
  BY BookAssumption, SMT DEF Cut, Dates
<1>2. ResetRow(b, d, a, f) /\ b[a][f].to \in Nat /\ c[a][f].to \in Nat
  <2>1. ResetRow(b, d, a, f) /\ b[a][f] \in Stints
    BY ResetRows DEF Rows
  <2>2. c[a][f].to \in {0, Open, b[a][f].to}
    BY <2>1 DEF ResetFrom, NoStint, Stints
  <2> QED BY <2>1, <2>2, DateFacts, SMT DEF Stints, Open
<1>3. Exists(c, a, f) <=> Exists(b, a, f) /\ f < d
  BY <1>2 DEF ResetRow
<1>4. IsOpen(c, a, f) => Exists(b, a, f) /\ d <= b[a][f].to /\ c[a][f].to = Open
  BY <1>2 DEF ResetRow, IsOpen
<1>5. Exists(c, a, f) /\ ~IsOpen(c, a, f) => c[a][f].to = b[a][f].to /\ b[a][f].to < d
  BY <1>2 DEF ResetRow
<1> DEFINE m == Cut(d, e)
<1>6. m = IF e < d THEN e ELSE d - 1
  BY DEF Cut
<1> HIDE DEF c, m
<1>7. Covers(c, a, f, e) <=> Covers(b, a, f, m)
  <2>1. CASE ~Exists(c, a, f)
    BY <2>1, <1>3, <1>6, DateFacts, SMT DEF Covers
  <2>2. CASE IsOpen(c, a, f) /\ Exists(c, a, f)
    BY <2>2, <1>2, <1>3, <1>4, <1>6, DateFacts, SMT DEF Covers
  <2>3. CASE Exists(c, a, f) /\ ~IsOpen(c, a, f)
    BY <2>3, <1>2, <1>3, <1>5, <1>6, DateFacts, SMT DEF Covers
  <2> QED BY <2>1, <2>2, <2>3
<1> QED BY <1>1, <1>7 DEF c, m

LEMMA ResetInOrder ==
    ASSUME NEW b \in Rows, NEW d \in Dates, InOrder(b)
    PROVE  InOrder(ResetFrom(b, d))
<1> DEFINE c == ResetFrom(b, d)
<1>0. \A a \in Assets, f \in Dates : ResetRow(b, d, a, f)
  BY ResetRows
<1> SUFFICES ASSUME NEW a \in Assets, NEW f \in Dates, Exists(c, a, f)
             PROVE  /\ f <= c[a][f].to
                    /\ \A g \in Dates : f < g /\ Exists(c, a, g) => c[a][f].to <= g
  BY DEF InOrder
<1>1. Exists(b, a, f)
  BY <1>0 DEF ResetRow
<1>2. CASE IsOpen(c, a, f)
  <2>1. c[a][f].to = Open /\ d <= b[a][f].to /\ b[a][f].to \in Nat
    BY <1>0, <1>2, DateFacts, SMT DEF ResetRow, IsOpen, Rows, Stints
  <2>2. ASSUME NEW g \in Dates, f < g, Exists(c, a, g) PROVE FALSE
    <3>1. Exists(b, a, g) /\ g < d
      BY <1>0, <2>2 DEF ResetRow
    <3>2. b[a][f].to <= g
      BY <1>1, <2>2, <3>1 DEF InOrder
    <3> HIDE DEF c
    <3> QED BY <2>1, <3>1, <3>2, DateFacts, SMT
  <2> QED BY <2>1, <2>2, DateFacts, SMT
<1>3. CASE ~IsOpen(c, a, f)
  <2>1. c[a][f].to = b[a][f].to
    BY <1>0, <1>3 DEF ResetRow
  <2>2. \A g \in Dates : Exists(c, a, g) => Exists(b, a, g)
    BY <1>0 DEF ResetRow
  <2> QED BY <1>1, <2>1, <2>2 DEF InOrder
<1> QED BY <1>2, <1>3

LEMMA ResetNewest ==
    ASSUME NEW b \in Rows, NEW d \in Dates, NewestIsHeld(b, Dates)
    PROVE  NewestIsHeld(ResetFrom(b, d), Dates)
<1> DEFINE c == ResetFrom(b, d)
<1> SUFFICES ASSUME NEW e \in Dates, NEW a \in Assets, NEW f \in Dates,
                    Exists(c, a, f), f <= e
             PROVE  \E x \in Assets, g \in Dates :
                      /\ Exists(c, x, g) /\ f <= g /\ g <= e
                      /\ \/ Covers(c, x, g, e)
                         \/ c[x][g].to <= e /\ Emptied(c, c[x][g].to)
  BY DEF NewestIsHeld
<1>0. \A x \in Assets, g \in Dates : ResetRow(b, d, x, g)
  BY ResetRows
<1>1. \A x \in Assets, g \in Dates : Covers(c, x, g, e) <=> Covers(b, x, g, Cut(d, e))
  BY ResetCovers
<1>2. Exists(b, a, f) /\ f < d
  BY <1>0 DEF ResetRow
<1> DEFINE m == Cut(d, e)
<1>3. f <= m /\ m \in Dates /\ m <= e /\ m < d
  BY <1>2, BookAssumption, SMT DEF Cut, Dates
<1> HIDE DEF m
<1>4. PICK x \in Assets, g \in Dates :
        /\ Exists(b, x, g) /\ f <= g /\ g <= m
        /\ \/ Covers(b, x, g, m)
           \/ b[x][g].to <= m /\ Emptied(b, b[x][g].to)
  BY <1>2, <1>3 DEF NewestIsHeld
<1>5. Exists(c, x, g) /\ g <= e
  <2>1. g < d /\ g <= e
    BY <1>3, <1>4, DateFacts, SMT
  <2> QED BY <1>0, <1>4, <2>1 DEF ResetRow
<1>6. CASE Covers(b, x, g, m)
  BY <1>1, <1>4, <1>5, <1>6 DEF m
<1>7. CASE b[x][g].to <= m /\ Emptied(b, b[x][g].to)
  <2> DEFINE h == b[x][g].to
  <2>1. h \in Nat /\ h # 0 /\ h <= m
    BY <1>4, <1>7, RowEnds DEF Exists
  <2>2. h < d /\ h <= e /\ ~(d <= h) /\ h \in Dates
    <3>1. h # Open
      <4> HIDE DEF h
      <4> QED BY <1>3, <2>1, DateFacts, SMT
    <3>2. h \in Dates
      BY <1>4, <3>1, RowEnds DEF IsOpen
    <3> HIDE DEF h
    <3> QED BY <1>3, <2>1, <3>2, DateFacts, SMT
  <2>3. \A y \in Assets, q \in Dates :
           Exists(c, y, q) /\ b[y][q].to = h => c[y][q].to = h
    <3>1. \A y \in Assets, q \in Dates : b[y][q].to = h => ~IsOpen(c, y, q)
      BY <1>0, <2>2 DEF ResetRow
    <3> QED BY <1>0, <3>1 DEF ResetRow
  <2>4. \A y \in Assets : Exists(c, y, h) => b[y][h].to = h
    BY <1>0, <1>7, <2>2 DEF Emptied, ResetRow
  <2>5. c[x][g].to = h
    BY <1>5, <2>3
  <2>6. Emptied(c, h)
    BY <1>5, <2>2, <2>3, <2>4, <2>5 DEF Emptied
  <2> QED BY <1>4, <1>5, <2>2, <2>5, <2>6
<1> QED BY <1>4, <1>6, <1>7

LEMMA ResetOK ==
    ASSUME NEW b \in Rows, NEW d \in Dates, TableOK(b, Dates)
    PROVE  TableOK(ResetFrom(b, d), Dates)
BY ResetInOrder, ResetNewest DEF TableOK

-----------------------------------------------------------------------------
(* Types *)

LEMMA CostBasisType ==
    ASSUME NEW b \in Rows, NEW d \in Dates, NEW a \in Assets
    PROVE  CostBasis(b, d, a) \in 0..LastDate
<1>1. d \in 0..LastDate
  BY DateFacts, SMT
<1>2. \A f \in Dates : b[a][f].cost \in 0..LastDate
  BY DEF Rows, Stints
<1>3. CASE \E f \in Dates : IsOpen(b, a, f)
  <2>1. (CHOOSE f \in Dates : IsOpen(b, a, f)) \in Dates
    BY <1>3
  <2> QED BY <1>2, <1>3, <2>1 DEF CostBasis
<1>4. CASE ~\E f \in Dates : IsOpen(b, a, f)
  BY <1>1, <1>4 DEF CostBasis
<1> QED BY <1>3, <1>4

LEMMA SyncType ==
    ASSUME NEW b \in Rows, NEW d \in Dates, NEW t \in Book
    PROVE  Sync(b, d, t) \in Rows
<1> SUFFICES ASSUME NEW a \in Assets, NEW f \in Dates PROVE Sync(b, d, t)[a][f] \in Stints
  BY DEF Sync, Rows
<1>1. b[a][f] \in Stints /\ t[a] \in 0..MaxWeight /\ CostBasis(b, d, a) \in 0..LastDate
  BY CostBasisType DEF Rows, Book
<1>2. d \in 0..Open /\ Open \in 0..Open
  BY DateFacts, SMT
<1>3. Continued(b[a][f], f, d, t[a]) \in Stints
  BY <1>1, <1>2 DEF Continued, Stints
<1>4. [to |-> Open, weight |-> t[a], cost |-> CostBasis(b, d, a)] \in Stints
  BY <1>1, <1>2 DEF Stints
<1>5. Sync(b, d, t)[a][f] \in {Continued(b[a][f], f, d, t[a]), b[a][f],
                               [to |-> Open, weight |-> t[a], cost |-> CostBasis(b, d, a)]}
  BY DEF Sync
<1> QED BY <1>1, <1>3, <1>4, <1>5

LEMMA NoStintType == NoStint \in Stints /\ Nothing \in Book
BY DateFacts, BookAssumption, SMT DEF NoStint, Stints, Nothing, Book

LEMMA ResetType ==
    ASSUME NEW b \in Rows, NEW d \in Dates
    PROVE  ResetFrom(b, d) \in Rows
<1> SUFFICES ASSUME NEW a \in Assets, NEW f \in Dates PROVE ResetFrom(b, d)[a][f] \in Stints
  BY DEF ResetFrom, Rows
<1>1. b[a][f] \in Stints /\ Open \in 0..Open
  BY DateFacts, SMT DEF Rows
<1>2. [b[a][f] EXCEPT !.to = Open] \in Stints
  BY <1>1 DEF Stints
<1>3. ResetFrom(b, d)[a][f] \in {NoStint, [b[a][f] EXCEPT !.to = Open], b[a][f]}
  BY DEF ResetFrom
<1> QED BY <1>1, <1>2, <1>3, NoStintType

LEMMA UndoneType ==
    ASSUME NEW b \in Rows, NEW d \in Dates, NEW chosen \in [Dates -> Book]
    PROVE  Undone(b, d, chosen) \in Rows
<1> SUFFICES ASSUME NEW a \in Assets, NEW f \in Dates PROVE Undone(b, d, chosen)[a][f] \in Stints
  BY DEF Undone, Rows
<1>1. b[a][f] \in Stints /\ chosen[f][a] \in 0..MaxWeight
  BY DEF Rows, Book
<1>2. d \in 0..Open /\ Open \in 0..Open
  BY DateFacts, SMT
<1> DEFINE weight == IF chosen[f][a] # 0 THEN chosen[f][a] ELSE b[a][f].weight
<1>3. weight \in 0..MaxWeight
  BY <1>1 DEF Stints
<1>4. [b[a][f] EXCEPT !.to = d] \in Stints
  BY <1>1, <1>2 DEF Stints
<1>5. [b[a][f] EXCEPT !.to = Open, !.weight = weight] \in Stints
  BY <1>1, <1>2, <1>3 DEF Stints
<1>6. Undone(b, d, chosen)[a][f] \in {b[a][f], [b[a][f] EXCEPT !.to = d],
                                      [b[a][f] EXCEPT !.to = Open, !.weight = weight]}
  BY DEF Undone
<1> QED BY <1>1, <1>4, <1>5, <1>6

\* A process at one of the places of the step has the fields of an attempt.
LEMMA Attempting ==
    ASSUME TypeOK, attempt # Idle \/ attempt.at \in Places
    PROVE  /\ attempt \in Attempts /\ attempt # Idle
           /\ attempt.kind \in Kinds /\ attempt.date \in Dates
           /\ attempt.targets \in Book /\ attempt.setting \in Settings
           /\ Row \in Runs /\ Table \in Rows
<1>1. Idle.at \notin Places
  BY DEF Idle, Places
<1>2. attempt \in Attempts /\ attempt # Idle
  BY <1>1 DEF TypeOK, Attempts, Idle, Places
<1>3. /\ attempt.kind \in Kinds /\ attempt.date \in Dates
      /\ attempt.targets \in Book /\ attempt.setting \in Settings
  BY <1>2 DEF Attempts
<1>4. Row \in Runs /\ Table \in Rows
  BY <1>3 DEF TypeOK, Row, Table
<1> QED BY <1>2, <1>3, <1>4

LEMMA RowType ==
    ASSUME TypeOK, NEW k \in Kinds, NEW d \in Dates, NEW row \in Runs, SetRow(k, d, row)
    PROVE  run' \in [Kinds -> [Dates -> Runs]]
BY DEF SetRow, TypeOK

LEMMA SetRunType ==
    ASSUME TypeOK, attempt.kind \in Kinds, attempt.date \in Dates, NEW row \in Runs, SetRun(row)
    PROVE  run' \in [Kinds -> [Dates -> Runs]]
BY RowType DEF SetRun

LEMMA GotoType ==
    ASSUME TypeOK, attempt \in Attempts, NEW place \in Places, Goto(place)
    PROVE  attempt' \in Attempts
BY DEF Goto, Attempts

LEMMA RunUpdateTypes ==
    ASSUME NEW row \in Runs, NEW t \in Book, NEW s \in Settings
    PROVE  /\ [row EXCEPT !.construction = s] \in Runs
           /\ [row EXCEPT !.ranking = t] \in Runs
           /\ [row EXCEPT !.done = TRUE] \in Runs
BY DEF Runs

LEMMA StatusRow ==
    ASSUME NEW row \in Runs, NEW status \in Statuses
    PROVE  [row EXCEPT !.status = status] \in Runs
BY DEF Runs

LEMMA StatusType ==
    ASSUME TypeOK, NEW k \in Kinds, NEW d \in Dates, NEW status \in Statuses,
           SetStatus(k, d, status)
    PROVE  run' \in [Kinds -> [Dates -> Runs]]
<1>1. [run[k][d] EXCEPT !.status = status] \in Runs
  BY StatusRow DEF TypeOK
<1> QED BY <1>1, RowType DEF SetStatus

LEMMA FailType ==
    ASSUME TypeOK, attempt # Idle \/ attempt.at \in Places, Fail
    PROVE  TypeOK'
<1>1. attempt.kind \in Kinds /\ attempt.date \in Dates /\ Row \in Runs
  BY Attempting
<1>2. [Row EXCEPT !.status = "failed"] \in Runs
  BY <1>1 DEF Runs, Statuses
<1>3. run' \in [Kinds -> [Dates -> Runs]]
  BY <1>1, <1>2, SetRunType DEF Fail
<1> QED BY <1>3 DEF Fail, TypeOK, history

LEMMA InitType == Init => TypeOK
<1> SUFFICES ASSUME Init PROVE TypeOK
  OBVIOUS
<1>1. NoRun \in Runs /\ NoWrite \in Writes /\ NoStint \in Stints
  BY NoStintType DEF NoRun, Runs, NoWrite, Writes, Statuses
<1>2. book \in [Kinds -> Rows]
  BY <1>1 DEF Init, Rows
<1>3. run \in [Kinds -> [Dates -> Runs]] /\ synced \in [Kinds -> [Dates -> Writes]]
  BY <1>1 DEF Init
<1> QED BY <1>2, <1>3 DEF Init, TypeOK

LEMMA NextType == TypeOK /\ [Next]_vars => TypeOK'
<1> SUFFICES ASSUME TypeOK, [Next]_vars PROVE TypeOK'
  OBVIOUS
<1> USE DEF TypeOK
<1>1. ASSUME NEW k \in Kinds, NEW d \in Dates, NEW s \in Settings, Begin(k, d, s)
      PROVE  TypeOK'
  <2>2. run' \in [Kinds -> [Dates -> Runs]]
    <3>1. "running" \in Statuses
      BY DEF Statuses
    <3> QED BY <1>1, <3>1, StatusType DEF Begin
  <2>3. PICK t \in Targets[d][s], o \in BOOLEAN :
          attempt' = [at |-> "check", kind |-> k, date |-> d, setting |-> s,
                      targets |-> t, override |-> o]
    BY <1>1, BookAssumption DEF Begin
  <2>4. t \in Book
    BY BookAssumption
  <2>5. attempt' \in Attempts
    BY <2>3, <2>4 DEF Attempts, Places
  <2> QED BY <1>1, <2>2, <2>5 DEF Begin, history
<1>2. ASSUME NEW k \in Kinds, NEW d \in Dates, NEW s \in Settings, BeginDone(k, d, s)
      PROVE  TypeOK'
  <2>1. "completed" \in Statuses
    BY DEF Statuses
  <2>2. run' \in [Kinds -> [Dates -> Runs]]
    BY <1>2, <2>1, StatusType DEF BeginDone
  <2> QED BY <1>2, <2>2 DEF BeginDone, history
<1>3. CASE GuardPasses
  <2>1. attempt' \in Attempts
    BY <1>3, Attempting, GotoType DEF GuardPasses, Places
  <2> QED BY <1>3, <2>1 DEF GuardPasses, history
<1>4. CASE GuardRefuses
  BY <1>4, FailType DEF GuardRefuses, Places
<1>5. CASE Record
  <2>1. attempt.at \in Places
    BY <1>5 DEF Record, Places
  <2>2. run' \in [Kinds -> [Dates -> Runs]]
    BY <1>5, <2>1, Attempting, SetRunType, RunUpdateTypes DEF Record, Statuses
  <2>3. attempt' \in Attempts
    BY <1>5, <2>1, Attempting, GotoType DEF Record, Places
  <2> QED BY <1>5, <2>2, <2>3 DEF Record, history
<1>6. CASE SyncRaises
  BY <1>6, FailType DEF SyncRaises, Places
<1>7. CASE SyncPositions
  <2>1. attempt.at \in Places
    BY <1>7 DEF SyncPositions, Places
  <2>2. Sync(Table, attempt.date, attempt.targets) \in Rows
    BY <2>1, Attempting, SyncType
  <2>3. book' \in [Kinds -> Rows]
    BY <1>7, <2>2 DEF SyncPositions
  <2>4. [wrote |-> TRUE, targets |-> attempt.targets] \in Writes
    BY <2>1, Attempting DEF Writes
  <2>5. synced' \in [Kinds -> [Dates -> Writes]]
    BY <1>7, <2>4 DEF SyncPositions
  <2>7. attempt' \in Attempts
    BY <1>7, <2>1, Attempting, GotoType DEF SyncPositions, Places
  <2> QED BY <1>7, <2>3, <2>5, <2>7 DEF SyncPositions
<1>8. CASE WriteRanking
  <2>1. attempt.at \in Places
    BY <1>8 DEF WriteRanking, Places
  <2>2. run' \in [Kinds -> [Dates -> Runs]]
    BY <1>8, <2>1, Attempting, SetRunType, RunUpdateTypes DEF WriteRanking, Statuses
  <2>3. attempt' \in Attempts
    BY <1>8, <2>1, Attempting, GotoType DEF WriteRanking, Places
  <2> QED BY <1>8, <2>2, <2>3 DEF WriteRanking, history
<1>9. CASE Checkpoint
  <2>1. attempt.at \in Places
    BY <1>9 DEF Checkpoint, Places
  <2>2. run' \in [Kinds -> [Dates -> Runs]]
    BY <1>9, <2>1, Attempting, SetRunType, RunUpdateTypes DEF Checkpoint, Statuses
  <2>3. attempt' \in Attempts
    BY <1>9, <2>1, Attempting, GotoType DEF Checkpoint, Places
  <2> QED BY <1>9, <2>2, <2>3 DEF Checkpoint, history
<1>10. CASE FinishCycle
  <2>1. attempt.at \in Places
    BY <1>10 DEF FinishCycle, Places
  <2>2. run' \in [Kinds -> [Dates -> Runs]]
    BY <1>10, <2>1, Attempting, SetRunType, StatusRow DEF FinishCycle, Statuses
  <2> QED BY <1>10, <2>2 DEF FinishCycle, history
<1>11. CASE Abort
  BY <1>11, FailType DEF Abort
<1>12. CASE Crash
  BY <1>12 DEF Crash, history
<1>13. ASSUME NEW d \in Undoable, Undo(d) PROVE TypeOK'
  <2>1. "live" \in Kinds /\ d \in Dates
    BY <1>13, BookAssumption DEF Undo
  <2>2. [f \in Dates |-> run["live"][f].ranking] \in [Dates -> Book]
    BY <2>1 DEF Runs
  <2>3. Undone(book["live"], d, [f \in Dates |-> run["live"][f].ranking]) \in Rows
    BY <2>1, <2>2, UndoneType
  <2>4. book' \in [Kinds -> Rows]
    BY <1>13, <2>3 DEF Undo
  <2>5. "reverted" \in Statuses
    BY DEF Statuses
  <2>6. run' \in [Kinds -> [Dates -> Runs]]
    BY <1>13, <2>1, <2>5, StatusType DEF Undo
  <2> QED BY <1>13, <2>4, <2>6 DEF Undo
<1>14. ASSUME NEW d \in Dates, ResetReplayRange(d) PROVE TypeOK'
  <2>1. "replay" \in Kinds
    BY <1>14 DEF ResetReplayRange
  <2>2. book' \in [Kinds -> Rows]
    BY <1>14, <2>1, ResetType DEF ResetReplayRange
  <2>3. NoRun \in Runs /\ NoWrite \in Writes
    BY NoStintType DEF NoRun, Runs, NoWrite, Writes, Statuses
  <2>4. run' \in [Kinds -> [Dates -> Runs]]
    BY <1>14, <2>1, <2>3 DEF ResetReplayRange
  <2>5. synced' \in [Kinds -> [Dates -> Writes]]
    BY <1>14, <2>1, <2>3 DEF ResetReplayRange
  <2> QED BY <1>14, <2>2, <2>4, <2>5 DEF ResetReplayRange
<1>15. CASE UNCHANGED vars
  BY <1>15 DEF vars, history
<1> QED BY <1>1, <1>2, <1>3, <1>4, <1>5, <1>6, <1>7, <1>8, <1>9, <1>10, <1>11, <1>12,
           <1>13, <1>14, <1>15 DEF Next

\* Every variable keeps its type, whatever the targets, settings and kinds.
THEOREM TypeCorrect == Spec => []TypeOK
BY InitType, NextType, PTL DEF Spec

-----------------------------------------------------------------------------
(* The past of the book *)

LEMMA SameReading ==
    ASSUME NEW b \in Rows, NEW c \in Rows, NEW a \in Assets, NEW e \in Dates,
           \A f \in Dates : /\ Covers(c, a, f, e) <=> Covers(b, a, f, e)
                            /\ Covers(b, a, f, e) => /\ c[a][f].weight = b[a][f].weight
                                                     /\ c[a][f].cost = b[a][f].cost
    PROVE  Held(c, a, e) = Held(b, a, e)
<1> DEFINE rows(x) == {f \in Dates : Covers(x, a, f, e)}
<1>1. rows(c) = rows(b)
  OBVIOUS
<1>2. CASE rows(b) = {}
  BY <1>1, <1>2 DEF Held
<1>3. CASE rows(b) # {}
  <2>1. (CHOOSE f \in rows(b) : TRUE) \in rows(b)
    BY <1>3
  <2> DEFINE f == CHOOSE f \in rows(b) : TRUE
  <2>2. c[a][f].weight = b[a][f].weight /\ c[a][f].cost = b[a][f].cost
    BY <2>1
  <2> QED BY <1>1, <1>3, <2>2 DEF Held
<1> QED BY <1>2, <1>3

\* A run at d rewrites nothing its table held before d: weights and cost bases
\* included, whatever the targets, the overrides, the undos and the resets.
THEOREM HistoryStands == Spec => HistoryIsImmutable
<1> DEFINE Immutable ==
      \A k \in Kinds, a \in Assets, e \in Dates :
         attempt # Idle /\ e < attempt.date =>
            Held(book[k], a, e)' = Held(book[k], a, e)
<1>1. TypeOK /\ [Next]_vars => [Immutable]_vars
  <2> SUFFICES ASSUME TypeOK, Next, NEW k \in Kinds, NEW a \in Assets, NEW e \in Dates,
                      attempt # Idle, e < attempt.date
               PROVE  Held(book'[k], a, e) = Held(book[k], a, e)
    OBVIOUS
  <2>1. CASE SyncPositions
    <3>1. /\ attempt.kind \in Kinds /\ attempt.date \in Dates
          /\ attempt.targets \in Book /\ Table \in Rows
      BY Attempting
    <3> DEFINE b == Table
               c == Sync(b, attempt.date, attempt.targets)
    <3>2. book'[k] = IF k = attempt.kind THEN c ELSE book[k]
      BY <2>1, <3>1 DEF SyncPositions, TypeOK
    <3>4. \A f \in Dates :
            /\ Covers(c, a, f, e) <=> Covers(b, a, f, e)
            /\ Covers(b, a, f, e) => c[a][f].weight = b[a][f].weight
                                     /\ c[a][f].cost = b[a][f].cost
      BY <3>1, SyncBefore
    <3>5. c \in Rows
      BY <3>1, SyncType
    <3>6. Held(c, a, e) = Held(b, a, e)
      BY <3>1, <3>4, <3>5, SameReading
    <3> QED BY <3>2, <3>6 DEF Table
  <2>2. CASE UNCHANGED book
    BY <2>2
  <2>3. SyncPositions \/ UNCHANGED book
    BY DEF Next, Begin, BeginDone, GuardPasses, GuardRefuses, Record, SyncRaises,
           WriteRanking, Checkpoint, FinishCycle, Abort, Crash, Fail, Undo, ResetReplayRange
  <2> QED BY <2>1, <2>2, <2>3
<1>2. HistoryIsImmutable <=> [][Immutable]_vars
  BY DEF HistoryIsImmutable
<1> HIDE DEF Immutable
<1> QED BY <1>1, <1>2, TypeCorrect, PTL DEF Spec

\* --force from d leaves the replay book before d as it was, and every date from d
\* on is clear: no row of its own, and the out-of-order guard lets it in.
THEOREM ForceClearsTheWay == Spec => ResetClearsTheWay
<1> DEFINE Clear == \A d \in Dates : ResetReplayRange(d) =>
      \A a \in Assets, e \in Dates :
         IF e < d THEN Held(book["replay"], a, e)' = Held(book["replay"], a, e)
         ELSE /\ ~OutOfOrder(book["replay"], e)'
              /\ ~Exists(book["replay"], a, e)'
<1>1. TypeOK /\ [Next]_vars => [Clear]_vars
  <2> SUFFICES ASSUME TypeOK, NEW d \in Dates, ResetReplayRange(d),
                      NEW a \in Assets, NEW e \in Dates
               PROVE  IF e < d THEN Held(book'["replay"], a, e) = Held(book["replay"], a, e)
                      ELSE /\ ~OutOfOrder(book'["replay"], e)
                           /\ ~Exists(book'["replay"], a, e)
    OBVIOUS
  <2> DEFINE b == book["replay"]
             c == ResetFrom(b, d)
  <2>1. b \in Rows /\ book'["replay"] = c
    BY DEF ResetReplayRange, TypeOK
  <2>2. \A x \in Assets, f \in Dates : ResetRow(b, d, x, f)
    BY <2>1, ResetRows
  <2>3. CASE e < d
    <3>1. Cut(d, e) = e
      BY <2>3 DEF Cut
    <3>2. \A f \in Dates : Covers(c, a, f, e) <=> Covers(b, a, f, e)
      BY <2>1, <3>1, ResetCovers
    <3>3. \A f \in Dates : Covers(c, a, f, e) =>
              c[a][f].weight = b[a][f].weight /\ c[a][f].cost = b[a][f].cost
      BY <2>2 DEF ResetRow, Covers
    <3>4. c \in Rows
      BY <2>1, ResetType
    <3>5. Held(c, a, e) = Held(b, a, e)
      BY <2>1, <3>2, <3>3, <3>4, SameReading
    <3> QED BY <2>1, <2>3, <3>5
  <2>4. CASE ~(e < d)
    <3>1. \A x \in Assets, f \in Dates : Exists(c, x, f) => f < d
      BY <2>2 DEF ResetRow
    <3>2. ~OutOfOrder(c, e) /\ ~Exists(c, a, e)
      <4> HIDE DEF c
      <4> QED BY <2>4, <3>1, DateFacts, SMT DEF OutOfOrder
    <3> QED BY <2>1, <2>4, <3>2
  <2> QED BY <2>3, <2>4
<1>2. ResetClearsTheWay <=> [][Clear]_vars
  BY DEF ResetClearsTheWay
<1> HIDE DEF Clear
<1> QED BY <1>1, <1>2, TypeCorrect, PTL DEF Spec

-----------------------------------------------------------------------------
(* Undone *)

\* An undo that reweights nothing only gives the rows of d no day.
Voided(b, d) ==
    [a \in Assets |-> [f \in Dates |->
        IF Exists(b, a, f) /\ f = d THEN [b[a][f] EXCEPT !.to = d] ELSE b[a][f]]]

LEMMA UndoneIsVoided ==
    ASSUME NEW b \in Rows, NEW d \in Dates, NEW chosen \in [Dates -> Book], InOrder(b),
           \A a \in Assets, f \in Dates :
               f # d /\ IsOpen(b, a, f) => chosen[f][a] \in {0, b[a][f].weight}
    PROVE  Undone(b, d, chosen) = Voided(b, d)
<1> DEFINE u == Undone(b, d, chosen)
           v == Voided(b, d)
<1>0. /\ u = [a \in Assets |-> [f \in Dates |-> u[a][f]]]
      /\ v = [a \in Assets |-> [f \in Dates |-> v[a][f]]]
  BY DEF Undone, Voided
<1> SUFFICES ASSUME NEW a \in Assets, NEW f \in Dates PROVE u[a][f] = v[a][f]
  <2> HIDE DEF u, v
  <2>1. [a \in Assets |-> [f \in Dates |-> u[a][f]]] = [a \in Assets |-> [f \in Dates |-> v[a][f]]]
    OBVIOUS
  <2> QED BY <1>0, <2>1 DEF u, v
<1> DEFINE stint == b[a][f]
           kept  == [stint EXCEPT !.to = Open,
                                  !.weight = IF chosen[f][a] # 0 THEN chosen[f][a] ELSE @]
<1>1. Undone(b, d, chosen)[a][f] =
        IF ~Exists(b, a, f) THEN stint
        ELSE IF f = d THEN [stint EXCEPT !.to = d]
        ELSE IF stint.to # Open /\ ~(stint.to = d /\ f > d) THEN stint
        ELSE kept
  BY DEF Undone
<1>2. Voided(b, d)[a][f] = IF Exists(b, a, f) /\ f = d THEN [stint EXCEPT !.to = d] ELSE stint
  BY DEF Voided
<1>3. Exists(b, a, f) => ~(stint.to = d /\ f > d)
  BY DateFacts, SMT DEF InOrder
<1>4. ASSUME f # d, stint.to = Open PROVE kept = stint
  <2>1. stint \in Stints
    BY DEF Rows
  <2>2. (IF chosen[f][a] # 0 THEN chosen[f][a] ELSE stint.weight) = stint.weight
    BY <1>4 DEF IsOpen
  <2> QED BY <1>4, <2>1, <2>2 DEF Stints
<1> HIDE DEF kept
<1> QED BY <1>1, <1>2, <1>3, <1>4

LEMMA VoidedType ==
    ASSUME NEW b \in Rows, NEW d \in Dates
    PROVE  Voided(b, d) \in Rows
<1> SUFFICES ASSUME NEW a \in Assets, NEW f \in Dates PROVE Voided(b, d)[a][f] \in Stints
  BY DEF Voided, Rows
<1>1. b[a][f] \in Stints /\ d \in 0..Open
  BY DateFacts, SMT DEF Rows
<1>2. Voided(b, d)[a][f] \in {b[a][f], [b[a][f] EXCEPT !.to = d]}
  BY DEF Voided
<1> QED BY <1>1, <1>2 DEF Stints

VoidedRow(b, d, a, f) ==
    LET c == Voided(b, d) IN
    /\ Exists(c, a, f) <=> Exists(b, a, f)
    /\ IsOpen(c, a, f) <=> IsOpen(b, a, f) /\ f # d
    /\ c[a][f].weight = b[a][f].weight /\ c[a][f].cost = b[a][f].cost
    /\ f # d => c[a][f] = b[a][f]
    /\ f = d /\ Exists(b, a, f) => c[a][f].to = d

LEMMA VoidedRows ==
    ASSUME NEW b \in Rows, NEW d \in Dates
    PROVE  \A a \in Assets, f \in Dates : VoidedRow(b, d, a, f)
<1> SUFFICES ASSUME NEW a \in Assets, NEW f \in Dates PROVE VoidedRow(b, d, a, f)
  OBVIOUS
<1>1. b[a][f] \in Stints /\ d # 0 /\ d # Open /\ Open # 0
  BY DateFacts, SMT DEF Rows
<1>2. Voided(b, d)[a][f] =
        IF Exists(b, a, f) /\ f = d THEN [b[a][f] EXCEPT !.to = d] ELSE b[a][f]
  BY DEF Voided
<1>3. CASE Exists(b, a, f) /\ f = d
  BY <1>1, <1>2, <1>3 DEF Stints, Exists, IsOpen, VoidedRow
<1>4. CASE ~(Exists(b, a, f) /\ f = d)
  BY <1>1, <1>2, <1>4 DEF Exists, IsOpen, VoidedRow
<1> QED BY <1>3, <1>4

LEMMA VoidedCovers ==
    ASSUME NEW b \in Rows, NEW d \in Dates, NEW a \in Assets, NEW f \in Dates, NEW e \in Dates
    PROVE  Covers(Voided(b, d), a, f, e) <=> f # d /\ Covers(b, a, f, e)
<1> DEFINE c == Voided(b, d)
<1>1. VoidedRow(b, d, a, f)
  BY VoidedRows
<1> HIDE DEF c
<1>2. CASE f = d
  <2>1. Covers(c, a, f, e) => c[a][f].to = d /\ d <= e /\ e < d
    BY <1>1, <1>2 DEF VoidedRow, Covers, c
  <2> QED BY <1>2, <2>1, DateFacts, SMT DEF c
<1>3. CASE f # d
  BY <1>1, <1>3 DEF VoidedRow, Covers, Exists, c
<1> QED BY <1>2, <1>3

\* The newest row is newer than d, so what is void was not it.
LEMMA VoidedOK ==
    ASSUME NEW b \in Rows, NEW d \in Dates, TableOK(b, {LastDate}), OutOfOrder(b, d)
    PROVE  TableOK(Voided(b, d), {LastDate})
<1> DEFINE c == Voided(b, d)
<1>0. \A a \in Assets, f \in Dates : VoidedRow(b, d, a, f)
  BY VoidedRows
<1>1. InOrder(c)
  <2> SUFFICES ASSUME NEW a \in Assets, NEW f \in Dates, Exists(c, a, f)
               PROVE  /\ f <= c[a][f].to
                      /\ \A g \in Dates : f < g /\ Exists(c, a, g) => c[a][f].to <= g
    BY DEF InOrder
  <2>1. Exists(b, a, f) /\ \A g \in Dates : Exists(c, a, g) => Exists(b, a, g)
    BY <1>0 DEF VoidedRow
  <2>2. CASE f = d
    <3>1. c[a][f].to = d
      BY <1>0, <2>1, <2>2 DEF VoidedRow
    <3>2. f <= f
      BY DateFacts
    <3>3. \A g \in Dates : f < g => f <= g
      BY DateFacts
    <3> QED BY <2>2, <3>1, <3>2, <3>3
  <2>3. CASE f # d
    <3>1. c[a][f] = b[a][f]
      BY <1>0, <2>3 DEF VoidedRow
    <3> QED BY <2>1, <3>1 DEF TableOK, InOrder
  <2> QED BY <2>2, <2>3
<1>2. NewestIsHeld(c, {LastDate})
  <2> SUFFICES ASSUME NEW a \in Assets, NEW f \in Dates, Exists(c, a, f)
               PROVE  \E x \in Assets, g \in Dates :
                        /\ Exists(c, x, g) /\ f <= g /\ g <= LastDate
                        /\ \/ Covers(c, x, g, LastDate)
                           \/ c[x][g].to <= LastDate /\ Emptied(c, c[x][g].to)
    BY DEF NewestIsHeld
  <2>1. Exists(b, a, f)
    BY <1>0 DEF VoidedRow
  <2>2. PICK x \in Assets, h \in Dates : Exists(b, x, h) /\ h > d
    BY DEF OutOfOrder
  <2>3. PICK y \in Assets, r \in Dates : Exists(b, y, r) /\ f <= r /\ r > d
    <3>1. CASE f <= h
      BY <2>2, <3>1
    <3>2. CASE ~(f <= h)
      <4>1. f <= f /\ f > d
        BY <2>2, <3>2, DateFacts, SMT
      <4> QED BY <2>1, <4>1
    <3> QED BY <3>1, <3>2
  <2>4. LastDate \in Dates /\ r <= LastDate
    BY DateFacts
  <2>5. PICK z \in Assets, g \in Dates :
          /\ Exists(b, z, g) /\ r <= g /\ g <= LastDate
          /\ \/ Covers(b, z, g, LastDate)
             \/ b[z][g].to <= LastDate /\ Emptied(b, b[z][g].to)
    BY <2>3, <2>4 DEF TableOK, NewestIsHeld
  <2>6. f <= g /\ g # d /\ g > d
    BY <2>3, <2>5, DateFacts, SMT
  <2>7. Exists(c, z, g) /\ c[z][g] = b[z][g]
    BY <1>0, <2>5, <2>6 DEF VoidedRow
  <2>8. CASE Covers(b, z, g, LastDate)
    <3>1. Covers(c, z, g, LastDate)
      BY <2>4, <2>6, <2>8, VoidedCovers
    <3> QED BY <2>5, <2>6, <2>7, <3>1
  <2>9. CASE b[z][g].to <= LastDate /\ Emptied(b, b[z][g].to)
    <3> DEFINE to == b[z][g].to
    <3>1. g <= to /\ to \in Nat
      BY <2>5, RowEnds DEF TableOK, InOrder
    <3>2. to # d /\ to \in Dates
      <4>1. to # Open /\ to # d
        <5>1. to <= LastDate
          BY <2>9
        <5> HIDE DEF to
        <5> QED BY <2>6, <3>1, <5>1, DateFacts, SMT
      <4> QED BY <2>5, <4>1, RowEnds DEF IsOpen
    <3>3. c[z][g].to = to
      BY <2>7
    <3>4. \A y2 \in Assets : Exists(c, y2, to) => c[y2][to].to = to
      BY <1>0, <2>9, <3>2 DEF VoidedRow, Emptied
    <3>5. Emptied(c, to)
      BY <2>7, <3>3, <3>4 DEF Emptied
    <3> QED BY <2>5, <2>6, <2>7, <2>9, <3>3, <3>5
  <2> QED BY <2>5, <2>8, <2>9
<1> QED BY <1>1, <1>2 DEF TableOK

\* Weights have no part in it.
LEMMA SameEnds ==
    ASSUME NEW b \in Rows, NEW c \in Rows, NEW E, E \subseteq Dates, TableOK(b, E),
           \A a \in Assets, f \in Dates : c[a][f].to = b[a][f].to
    PROVE  TableOK(c, E)
<1>1. \A a \in Assets, f \in Dates : Exists(c, a, f) <=> Exists(b, a, f)
  BY DEF Exists
<1>2. \A a \in Assets, f \in Dates, e \in E : Covers(c, a, f, e) <=> Covers(b, a, f, e)
  BY <1>1 DEF Covers
<1>3. InOrder(c)
  BY <1>1 DEF TableOK, InOrder
<1>4. ASSUME NEW a \in Assets, NEW f \in Dates, ~(c[a][f].to = Open), Exists(b, a, f),
             Emptied(b, b[a][f].to)
      PROVE  Emptied(c, c[a][f].to)
  <2>1. b[a][f].to \in Dates
    BY <1>4, RowEnds DEF IsOpen
  <2> QED BY <1>1, <1>4, <2>1 DEF Emptied
<1>5. NewestIsHeld(c, E)
  <2> SUFFICES ASSUME NEW e \in E, NEW a \in Assets, NEW f \in Dates, Exists(c, a, f), f <= e
               PROVE  \E x \in Assets, g \in Dates :
                        /\ Exists(c, x, g) /\ f <= g /\ g <= e
                        /\ \/ Covers(c, x, g, e)
                           \/ c[x][g].to <= e /\ Emptied(c, c[x][g].to)
    BY DEF NewestIsHeld
  <2>1. PICK x \in Assets, g \in Dates :
          /\ Exists(b, x, g) /\ f <= g /\ g <= e
          /\ \/ Covers(b, x, g, e)
             \/ b[x][g].to <= e /\ Emptied(b, b[x][g].to)
    BY <1>1 DEF TableOK, NewestIsHeld
  <2>2. CASE Covers(b, x, g, e)
    BY <1>1, <1>2, <2>1, <2>2
  <2>3. CASE b[x][g].to <= e /\ Emptied(b, b[x][g].to)
    <3>1. Emptied(c, c[x][g].to)
      <4> DEFINE to == b[x][g].to
      <4>1. to <= e /\ to \in Nat
        BY <2>3, RowEnds
      <4> HIDE DEF to
      <4>2. to # Open
        BY <4>1, DateFacts, SMT
      <4> QED BY <1>4, <2>1, <2>3, <4>2 DEF to
    <3> QED BY <1>1, <2>1, <2>3, <3>1
  <2> QED BY <2>1, <2>2, <2>3
<1> QED BY <1>3, <1>5 DEF TableOK

LEMMA UndoneOK ==
    ASSUME NEW b \in Rows, NEW d \in Dates, NEW chosen \in [Dates -> Book],
           TableOK(b, {LastDate}), OutOfOrder(b, d)
    PROVE  TableOK(Undone(b, d, chosen), {LastDate})
<1> DEFINE u == Undone(b, d, chosen)
           v == Voided(b, d)
<1>1. ASSUME NEW a \in Assets, NEW f \in Dates PROVE u[a][f].to = v[a][f].to
  <2> DEFINE stint  == b[a][f]
             weight == IF chosen[f][a] # 0 THEN chosen[f][a] ELSE stint.weight
  <2>1. u[a][f] = IF ~Exists(b, a, f) THEN stint
                  ELSE IF f = d THEN [stint EXCEPT !.to = d]
                  ELSE IF stint.to # Open /\ ~(stint.to = d /\ f > d) THEN stint
                  ELSE [stint EXCEPT !.to = Open, !.weight = weight]
    BY DEF Undone
  <2>2. v[a][f] = IF Exists(b, a, f) /\ f = d THEN [stint EXCEPT !.to = d] ELSE stint
    BY DEF Voided
  <2>3. Exists(b, a, f) => ~(stint.to = d /\ f > d)
    BY DateFacts, SMT DEF TableOK, InOrder
  <2>4. stint \in Stints
    BY DEF Rows
  <2>5. stint.to = Open => [stint EXCEPT !.to = Open, !.weight = weight].to = stint.to
    BY <2>4 DEF Stints
  <2> HIDE DEF stint, weight, u, v
  <2> QED BY <2>1, <2>2, <2>3, <2>5
<1>2. u \in Rows /\ v \in Rows /\ TableOK(v, {LastDate})
  BY UndoneType, VoidedType, VoidedOK
<1> HIDE DEF u, v
<1> QED BY <1>1, <1>2, DateFacts, SameEnds DEF u

-----------------------------------------------------------------------------
(* A table and the writes it comes from *)

Written(w, d, t) == [w EXCEPT ![d] = [wrote |-> TRUE, targets |-> t]]

\* Every row starts on a written date, and ends on one if it has ended; one that
\* lasted a day has the weight written.
RowsWritten(b, w) ==
    \A a \in Assets, f \in Dates : Exists(b, a, f) =>
        /\ w[f].wrote
        /\ f < b[a][f].to => w[f].targets[a] # 0 /\ b[a][f].weight = w[f].targets[a]
        /\ ~IsOpen(b, a, f) => w[b[a][f].to].wrote

\* No row that was chosen by d is void.
NothingVoid(b, w, d) ==
    \A a \in Assets, f \in Dates :
        f <= d /\ Exists(b, a, f) /\ w[f].targets[a] # 0 => f < b[a][f].to

\* A row that was chosen and is void has a newer row beyond it: its date is past.
VoidIsPast(b, w) ==
    \A a \in Assets, f \in Dates :
        Exists(b, a, f) /\ b[a][f].to = f /\ w[f].targets[a] # 0 => OutOfOrder(b, f)

\* The table reads on each date as the date wrote it.
ReadsAsWritten(b, w) ==
    \A d \in Dates :
        w[d].wrote /\ Marked(b, d) /\ NothingVoid(b, w, d)
        => \A a \in Assets : HeldWeight(b, a, d) = w[d].targets[a]

BookOK(b, w, E) ==
    /\ TableOK(b, E) /\ RowsWritten(b, w) /\ VoidIsPast(b, w) /\ ReadsAsWritten(b, w)

Ledgers == [Dates -> Writes]

LEMMA WrittenRow ==
    ASSUME NEW w \in Ledgers, NEW d \in Dates, NEW t \in Book
    PROVE  /\ Written(w, d, t) \in Ledgers
           /\ Written(w, d, t)[d] = [wrote |-> TRUE, targets |-> t]
           /\ \A f \in Dates : f # d => Written(w, d, t)[f] = w[f]
BY DEF Written, Ledgers, Writes

\* After a sync at d the table holds what was asked for, on d and later.
LEMMA SyncHolds ==
    ASSUME NEW b \in Rows, InOrder(b), NEW d \in Dates, NEW t \in Book, ~Collides(b, d, t),
           StartsBy(b, d), EndsBy(b, d), NEW a \in Assets, NEW e \in Dates, d <= e
    PROVE  HeldWeight(Sync(b, d, t), a, e) = t[a]
<1> DEFINE c == Sync(b, d, t)
           rows == {f \in Dates : Covers(c, a, f, e)}
<1>0. \A f \in Dates : SyncedRow(b, d, t, a, f)
  BY SyncRow
<1>1. \A f \in Dates : f \in rows <=> IsOpen(c, a, f)
  BY SyncFrom
<1>2. \A f \in rows : t[a] # 0 /\ c[a][f].weight = t[a]
  BY <1>0, <1>1 DEF SyncedRow
<1>3. t[a] # 0 => rows # {}
  <2> SUFFICES ASSUME t[a] # 0 PROVE \E f \in Dates : IsOpen(c, a, f)
    BY <1>1
  <2>1. CASE Opens(b, d, t, a)
    BY <1>0, <2>1 DEF SyncedRow
  <2>2. CASE ~Opens(b, d, t, a)
    <3>1. PICK f \in Dates : IsOpen(b, a, f) /\ (f = d \/ b[a][f].weight = t[a])
      BY <2>2, OpensWhen
    <3> QED BY <1>0, <3>1 DEF SyncedRow
  <2> QED BY <2>1, <2>2
<1> HIDE DEF c
<1>4. CASE rows = {}
  <2>1. Held(c, a, e).weight = 0
    BY <1>4 DEF Held, NoStint
  <2> QED BY <1>3, <1>4, <2>1 DEF HeldWeight, c
<1>5. CASE rows # {}
  <2>1. (CHOOSE f \in rows : TRUE) \in rows
    BY <1>5
  <2>2. Held(c, a, e).weight = c[a][CHOOSE f \in rows : TRUE].weight
    BY <1>5 DEF Held
  <2> QED BY <1>2, <2>1, <2>2 DEF HeldWeight, c
<1> QED BY <1>4, <1>5

\* Before d, the table reads as it did.
LEMMA SyncReadsBefore ==
    ASSUME NEW b \in Rows, NEW d \in Dates, NEW t \in Book,
           NEW a \in Assets, NEW e \in Dates, e < d
    PROVE  Held(Sync(b, d, t), a, e) = Held(b, a, e)
<1>1. Sync(b, d, t) \in Rows
  BY SyncType
<1>2. \A f \in Dates :
        /\ Covers(Sync(b, d, t), a, f, e) <=> Covers(b, a, f, e)
        /\ Covers(b, a, f, e) => /\ Sync(b, d, t)[a][f].weight = b[a][f].weight
                                 /\ Sync(b, d, t)[a][f].cost = b[a][f].cost
  BY SyncBefore
<1> QED BY <1>1, <1>2, SameReading

LEMMA SyncWritten ==
    ASSUME NEW b \in Rows, NEW w \in Ledgers, NEW d \in Dates, NEW t \in Book,
           InOrder(b), EndsBy(b, d), ~Collides(b, d, t), RowsWritten(b, w)
    PROVE  RowsWritten(Sync(b, d, t), Written(w, d, t))
<1> DEFINE c == Sync(b, d, t)
           v == Written(w, d, t)
<1>w. v[d] = [wrote |-> TRUE, targets |-> t] /\ \A f \in Dates : f # d => v[f] = w[f]
  BY WrittenRow
<1> SUFFICES ASSUME NEW a \in Assets, NEW f \in Dates, Exists(c, a, f)
             PROVE  /\ v[f].wrote
                    /\ f < c[a][f].to => v[f].targets[a] # 0 /\ c[a][f].weight = v[f].targets[a]
                    /\ ~IsOpen(c, a, f) => v[c[a][f].to].wrote
  BY DEF RowsWritten
<1>0. SyncedRow(b, d, t, a, f)
  BY SyncRow
<1>3. ASSUME ~IsOpen(c, a, f) PROVE v[c[a][f].to].wrote
  <2>1. Exists(b, a, f) /\ c[a][f].to = IF IsOpen(b, a, f) THEN d ELSE b[a][f].to
    BY <1>0, <1>3 DEF SyncedRow
  <2>2. CASE IsOpen(b, a, f)
    BY <1>w, <2>1, <2>2
  <2>3. CASE ~IsOpen(b, a, f)
    <3>1. w[b[a][f].to].wrote /\ b[a][f].to \in Dates
      BY <2>1, <2>3, RowEnds DEF RowsWritten
    <3> QED BY <1>w, <2>1, <2>3, <3>1
  <2> QED BY <2>2, <2>3
<1>1. CASE f = d
  <2>1. v[f] = [wrote |-> TRUE, targets |-> t]
    BY <1>1, <1>w
  <2>2. CASE IsOpen(c, a, f)
    <3>1. t[a] # 0 /\ c[a][f].weight = t[a]
      BY <1>0, <2>2 DEF SyncedRow
    <3> QED BY <2>1, <2>2, <3>1
  <2>3. CASE ~IsOpen(c, a, f)
    <3>1. c[a][f].to \in Dates /\ c[a][f].to <= d
      BY <2>3, SyncEndsBy DEF EndsBy
    <3> HIDE DEF c
    <3>2. ~(f < c[a][f].to)
      BY <1>1, <3>1, DateFacts, SMT
    <3> QED BY <1>3, <2>1, <3>2 DEF c
  <2> QED BY <2>2, <2>3
<1>2. CASE f # d
  <2>1. v[f] = w[f] /\ Exists(b, a, f) /\ c[a][f].weight = b[a][f].weight
    <3>1. v[f] = w[f]
      BY <1>2, <1>w
    <3> QED BY <1>0, <1>2, <3>1 DEF SyncedRow
  <2>2. ASSUME f < c[a][f].to PROVE f < b[a][f].to
    <3>1. CASE IsOpen(b, a, f)
      BY <3>1, DateFacts DEF IsOpen
    <3>2. CASE ~IsOpen(b, a, f)
      <4>1. ~IsOpen(c, a, f)
        BY <1>0, <1>2, <3>2 DEF SyncedRow
      <4> QED BY <1>0, <2>2, <3>2, <4>1 DEF SyncedRow
    <3> QED BY <3>1, <3>2
  <2> QED BY <1>3, <2>1, <2>2 DEF RowsWritten
<1> QED BY <1>1, <1>2

\* A row of d that d chooses is open after its sync.
LEMMA SyncedIsOpen ==
    ASSUME NEW b \in Rows, NEW d \in Dates, NEW t \in Book, InOrder(b), ~Collides(b, d, t),
           StartsBy(b, d), NEW a \in Assets, Exists(Sync(b, d, t), a, d), t[a] # 0
    PROVE  IsOpen(Sync(b, d, t), a, d)
<1>0. SyncedRow(b, d, t, a, d)
  BY SyncRow
<1>1. CASE IsOpen(b, a, d)
  BY <1>0, <1>1 DEF SyncedRow
<1>2. CASE Opens(b, d, t, a)
  BY <1>0, <1>2 DEF SyncedRow
<1>3. CASE ~IsOpen(b, a, d) /\ ~Opens(b, d, t, a)
  <2>1. PICK f \in Dates : IsOpen(b, a, f) /\ (f = d \/ b[a][f].weight = t[a])
    BY <1>3, OpensWhen
  <2>2. Exists(b, a, d) /\ Exists(b, a, f) /\ b[a][f].to = Open
    BY <1>0, <1>3, <2>1, DateFacts DEF SyncedRow, IsOpen, Exists
  <2>3. f # d /\ f <= d
    BY <1>3, <2>1, <2>2 DEF StartsBy
  <2>4. f < d
    BY <2>3, DateFacts, SMT
  <2>5. Open <= d
    BY <2>2, <2>4 DEF InOrder
  <2> QED BY <2>5, DateFacts, SMT
<1> QED BY <1>1, <1>2, <1>3

\* A sync voids nothing that was chosen and takes no void back.
LEMMA SyncVoids ==
    ASSUME NEW b \in Rows, NEW w \in Ledgers, NEW d \in Dates, NEW t \in Book,
           InOrder(b), EndsBy(b, d), VoidIsPast(b, w), ~Collides(b, d, t), StartsBy(b, d)
    PROVE  /\ VoidIsPast(Sync(b, d, t), Written(w, d, t))
           /\ \A e \in Dates :
                NothingVoid(Sync(b, d, t), Written(w, d, t), e) <=> NothingVoid(b, w, e)
<1> DEFINE c == Sync(b, d, t)
           v == Written(w, d, t)
<1>0. \A a \in Assets, f \in Dates : SyncedRow(b, d, t, a, f)
  BY SyncRow
<1>1. v[d].targets = t /\ \A f \in Dates : f # d => v[f] = w[f]
  <2>1. v[d] = [wrote |-> TRUE, targets |-> t] /\ \A f \in Dates : f # d => v[f] = w[f]
    BY WrittenRow
  <2> QED BY <2>1
<1>2. ASSUME NEW a \in Assets, NEW f \in Dates, Exists(c, a, f), f # d
      PROVE  /\ Exists(b, a, f)
             /\ c[a][f].to = f => b[a][f].to = f
             /\ f < c[a][f].to <=> f < b[a][f].to
  <2>1. Exists(b, a, f)
    BY <1>0, <1>2 DEF SyncedRow
  <2>2. f < d
    BY <1>2, <2>1, DateFacts, SMT DEF StartsBy
  <2>3. CASE IsOpen(b, a, f)
    <3>1. c[a][f].to \in {Open, d}
      BY <1>0, <1>2, <2>1, <2>3 DEF SyncedRow, IsOpen
    <3> HIDE DEF c
    <3> QED BY <2>1, <2>2, <2>3, <3>1, DateFacts, SMT DEF IsOpen
  <2>4. CASE ~IsOpen(b, a, f)
    <3>1. ~IsOpen(c, a, f)
      BY <1>0, <1>2, <2>4 DEF SyncedRow
    <3>2. c[a][f].to = b[a][f].to
      BY <1>0, <1>2, <2>4, <3>1 DEF SyncedRow
    <3> QED BY <2>1, <3>2
  <2> QED BY <2>3, <2>4
<1>3. ASSUME NEW a \in Assets, Exists(c, a, d), t[a] # 0
      PROVE  d < c[a][d].to
  <2>1. c[a][d].to = Open
    BY <1>3, SyncedIsOpen DEF IsOpen
  <2> QED BY <2>1, DateFacts
<1>4. \A a \in Assets, f \in Dates : Exists(b, a, f) => Exists(c, a, f)
  BY <1>0 DEF SyncedRow
<1>5. ASSUME NEW a \in Assets, Exists(b, a, d), w[d].targets[a] # 0
      PROVE  d < b[a][d].to
  <2>1. ~OutOfOrder(b, d)
    BY DateFacts, SMT DEF OutOfOrder, StartsBy
  <2>2. b[a][d].to # d
    BY <1>5, <2>1 DEF VoidIsPast
  <2>3. d <= b[a][d].to /\ b[a][d].to \in Nat
    BY <1>5, DateFacts, SMT DEF InOrder, Rows, Stints
  <2> QED BY <2>2, <2>3, DateFacts, SMT
<1> HIDE DEF c, v
<1>6. VoidIsPast(c, v)
  <2> SUFFICES ASSUME NEW a \in Assets, NEW f \in Dates, Exists(c, a, f), c[a][f].to = f,
                      v[f].targets[a] # 0
               PROVE  OutOfOrder(c, f)
    BY DEF VoidIsPast
  <2>1. f # d
    BY <1>1, <1>3, DateFacts
  <2>2. OutOfOrder(b, f)
    BY <1>1, <1>2, <2>1 DEF VoidIsPast
  <2> QED BY <1>4, <2>2 DEF OutOfOrder
<1>7. ASSUME NEW e \in Dates PROVE NothingVoid(c, v, e) <=> NothingVoid(b, w, e)
  <2>1. ASSUME NothingVoid(c, v, e), NEW a \in Assets, NEW f \in Dates,
               f <= e, Exists(b, a, f), w[f].targets[a] # 0
        PROVE  f < b[a][f].to
    <3>1. CASE f = d
      BY <1>5, <2>1, <3>1
    <3>2. CASE f # d
      <4>1. Exists(c, a, f) /\ v[f].targets[a] # 0
        BY <1>1, <1>4, <2>1, <3>2
      <4>2. f < c[a][f].to
        BY <2>1, <4>1 DEF NothingVoid
      <4> QED BY <1>2, <3>2, <4>1, <4>2
    <3> QED BY <3>1, <3>2
  <2>2. ASSUME NothingVoid(b, w, e), NEW a \in Assets, NEW f \in Dates,
               f <= e, Exists(c, a, f), v[f].targets[a] # 0
        PROVE  f < c[a][f].to
    <3>1. CASE f = d
      BY <1>1, <1>3, <2>2, <3>1
    <3>2. CASE f # d
      <4>1. Exists(b, a, f) /\ w[f].targets[a] # 0
        BY <1>1, <1>2, <2>2, <3>2
      <4>2. f < b[a][f].to
        BY <2>2, <4>1 DEF NothingVoid
      <4> QED BY <1>2, <2>2, <3>2, <4>2
    <3> QED BY <3>1, <3>2
  <2> QED BY <2>1, <2>2 DEF NothingVoid
<1> QED BY <1>6, <1>7 DEF c, v

LEMMA SyncBook ==
    ASSUME NEW b \in Rows, NEW w \in Ledgers, NEW d \in Dates, NEW t \in Book,
           NEW E, E \subseteq Dates, LastDate \in E, BookOK(b, w, E),
           ~Newer(b, d), ~Collides(b, d, t), NoneEmptiedAfter(b, d)
    PROVE  /\ BookOK(Sync(b, d, t), Written(w, d, t), E)
           /\ \A e \in Dates :
                NothingVoid(Sync(b, d, t), Written(w, d, t), e) <=> NothingVoid(b, w, e)
<1> DEFINE c == Sync(b, d, t)
           v == Written(w, d, t)
<1>1. RowsWritten(b, w) /\ VoidIsPast(b, w) /\ TableOK(b, E)
  BY DEF BookOK
<1>2. InOrder(b) /\ StartsBy(b, d) /\ EndsBy(b, d)
  BY <1>1, SyncOK
<1>4. TableOK(c, E)
  BY <1>1, SyncOK
<1>5. RowsWritten(c, v)
  BY <1>1, <1>2, SyncWritten
<1>6. VoidIsPast(c, v) /\ \A e \in Dates : NothingVoid(c, v, e) <=> NothingVoid(b, w, e)
  BY <1>1, <1>2, SyncVoids
<1>7. v[d] = [wrote |-> TRUE, targets |-> t] /\ \A f \in Dates : f # d => v[f] = w[f]
  BY WrittenRow
<1>8. ReadsAsWritten(c, v)
  <2> SUFFICES ASSUME NEW e \in Dates, v[e].wrote, Marked(c, e),
                      NothingVoid(c, v, e), NEW a \in Assets
               PROVE  HeldWeight(c, a, e) = v[e].targets[a]
    BY DEF ReadsAsWritten
  <2>1. CASE e = d
    <3>1. v[e] = [wrote |-> TRUE, targets |-> t]
      BY <1>7, <2>1
    <3>2. HeldWeight(c, a, e) = t[a]
      BY <1>2, <2>1, SyncHolds, DateFacts
    <3> QED BY <3>1, <3>2
  <2>2. CASE e # d
    <3>0. \A x \in Assets, f \in Dates : SyncedRow(b, d, t, x, f)
      BY <1>2, SyncRow
    <3>1. PICK x \in Assets : \/ Exists(c, x, e)
                              \/ \E f \in Dates : Exists(c, x, f) /\ c[x][f].to = e
      BY DEF Marked
    <3>2. e < d /\ Marked(b, e)
      <4>1. CASE Exists(c, x, e)
        <5>1. Exists(b, x, e)
          BY <2>2, <3>0, <4>1 DEF SyncedRow
        <5>2. e < d
          BY <1>2, <2>2, <5>1, DateFacts, SMT DEF StartsBy
        <5> QED BY <5>1, <5>2 DEF Marked
      <4>2. ASSUME NEW f \in Dates, Exists(c, x, f), c[x][f].to = e PROVE e < d /\ Marked(b, e)
        <5>1. ~IsOpen(c, x, f)
          BY <4>2, DateFacts DEF IsOpen
        <5>2. Exists(b, x, f) /\ b[x][f].to = e /\ ~IsOpen(b, x, f)
          BY <2>2, <3>0, <4>2, <5>1 DEF SyncedRow
        <5>3. e <= d
          BY <1>2, <5>2 DEF EndsBy
        <5>4. e < d
          BY <2>2, <5>3, DateFacts, SMT
        <5> QED BY <5>2, <5>4 DEF Marked
      <4> QED BY <3>1, <4>1, <4>2
    <3>3. v[e] = w[e]
      BY <1>7, <2>2
    <3>4. HeldWeight(b, a, e) = w[e].targets[a]
      BY <1>6, <3>2, <3>3 DEF BookOK, ReadsAsWritten
    <3>5. Held(c, a, e) = Held(b, a, e)
      BY <3>2, SyncReadsBefore
    <3> QED BY <3>3, <3>4, <3>5 DEF HeldWeight
  <2> QED BY <2>1, <2>2
<1> QED BY <1>4, <1>5, <1>6, <1>8 DEF BookOK

\* An undo reads as the table did, before d and wherever it voided nothing chosen.
LEMMA VoidedBook ==
    ASSUME NEW b \in Rows, NEW w \in Ledgers, NEW d \in Dates,
           BookOK(b, w, {LastDate}), OutOfOrder(b, d)
    PROVE  BookOK(Voided(b, d), w, {LastDate})
<1> DEFINE c == Voided(b, d)
<1>0. \A a \in Assets, f \in Dates : VoidedRow(b, d, a, f)
  BY VoidedRows
<1>1. TableOK(c, {LastDate}) /\ InOrder(b)
  BY VoidedOK DEF BookOK, TableOK
<1>2. RowsWritten(c, w)
  <2> SUFFICES ASSUME NEW a \in Assets, NEW f \in Dates, Exists(c, a, f)
               PROVE  /\ w[f].wrote
                      /\ f < c[a][f].to => w[f].targets[a] # 0 /\ c[a][f].weight = w[f].targets[a]
                      /\ ~IsOpen(c, a, f) => w[c[a][f].to].wrote
    BY DEF RowsWritten
  <2>1. Exists(b, a, f)
    BY <1>0 DEF VoidedRow
  <2>2. w[f].wrote
    BY <2>1 DEF BookOK, RowsWritten
  <2>3. CASE f = d
    <3>1. c[a][f].to = d
      BY <1>0, <2>1, <2>3 DEF VoidedRow
    <3>2. ~(f < d)
      BY <2>3, DateFacts, SMT
    <3> QED BY <2>2, <2>3, <3>1, <3>2
  <2>4. CASE f # d
    <3>1. c[a][f] = b[a][f]
      BY <1>0, <2>4 DEF VoidedRow
    <3> QED BY <2>1, <3>1 DEF BookOK, RowsWritten, IsOpen
  <2> QED BY <2>3, <2>4
<1>3. \A f \in Dates : OutOfOrder(b, f) => OutOfOrder(c, f)
  BY <1>0 DEF VoidedRow, OutOfOrder
<1>4. VoidIsPast(c, w)
  <2> SUFFICES ASSUME NEW a \in Assets, NEW f \in Dates, Exists(c, a, f), c[a][f].to = f,
                      w[f].targets[a] # 0
               PROVE  OutOfOrder(b, f)
    BY <1>3 DEF VoidIsPast
  <2>1. CASE f # d
    <3>1. c[a][f] = b[a][f] /\ Exists(b, a, f)
      BY <1>0, <2>1 DEF VoidedRow
    <3> QED BY <3>1 DEF BookOK, VoidIsPast
  <2> QED BY <2>1
<1>5. ReadsAsWritten(c, w)
  <2> SUFFICES ASSUME NEW e \in Dates, w[e].wrote, Marked(c, e),
                      NothingVoid(c, w, e), NEW a \in Assets
               PROVE  HeldWeight(c, a, e) = w[e].targets[a]
    BY DEF ReadsAsWritten
  <2>1. ASSUME NEW y \in Assets, NEW f \in Dates, f <= e, Exists(b, y, f)
        PROVE  c[y][f].to = b[y][f].to
    <3>1. CASE f # d
      BY <1>0, <3>1 DEF VoidedRow
    <3>2. CASE f = d
      <4>1. c[y][f].to = f /\ Exists(c, y, f)
        BY <1>0, <2>1, <3>2 DEF VoidedRow
      <4>2. w[f].targets[y] = 0
        BY <2>1, <4>1, DateFacts, SMT DEF NothingVoid
      <4>3. ~(f < b[y][f].to) /\ f <= b[y][f].to /\ b[y][f].to \in Nat
        BY <1>1, <2>1, <4>2, DateFacts, SMT DEF BookOK, RowsWritten, InOrder, Rows, Stints
      <4> QED BY <4>1, <4>3, DateFacts, SMT
    <3> QED BY <3>1, <3>2
  <2>2. \A y \in Assets, f \in Dates : Exists(c, y, f) <=> Exists(b, y, f)
    BY <1>0 DEF VoidedRow
  <2>3. NothingVoid(b, w, e)
    BY <2>1, <2>2 DEF NothingVoid
  <2>m. Marked(b, e)
    <3>1. \A y \in Assets, f \in Dates : Exists(c, y, f) /\ c[y][f].to = e =>
              b[y][f].to = e \/ (f = d /\ e = d)
      BY <1>0 DEF VoidedRow
    <3> QED BY <2>2, <3>1 DEF Marked
  <2>4. HeldWeight(b, a, e) = w[e].targets[a]
    BY <2>3, <2>m DEF BookOK, ReadsAsWritten
  <2>5. \A f \in Dates : Covers(c, a, f, e) <=> Covers(b, a, f, e)
    BY <2>1, <2>2 DEF Covers
  <2>6. \A f \in Dates : c[a][f].weight = b[a][f].weight /\ c[a][f].cost = b[a][f].cost
    BY <1>0 DEF VoidedRow
  <2>7. c \in Rows
    BY VoidedType
  <2>8. Held(c, a, e) = Held(b, a, e)
    BY <2>5, <2>6, <2>7, SameReading
  <2> QED BY <2>4, <2>8 DEF HeldWeight
<1> QED BY <1>1, <1>2, <1>4, <1>5 DEF BookOK

\* Before d, a table reset from d reads as it did.
LEMMA ResetReadsBefore ==
    ASSUME NEW b \in Rows, NEW d \in Dates, NEW a \in Assets, NEW e \in Dates, e < d
    PROVE  Held(ResetFrom(b, d), a, e) = Held(b, a, e)
<1> DEFINE c == ResetFrom(b, d)
<1>1. Cut(d, e) = e
  BY DEF Cut
<1>2. \A f \in Dates : Covers(c, a, f, e) <=> Covers(b, a, f, e)
  BY <1>1, ResetCovers
<1>3. \A f \in Dates : Covers(c, a, f, e) =>
          c[a][f].weight = b[a][f].weight /\ c[a][f].cost = b[a][f].cost
  BY ResetRows DEF ResetRow, Covers
<1>4. c \in Rows
  BY ResetType
<1> QED BY <1>2, <1>3, <1>4, SameReading

\* The ledger of a reset table forgets what the table forgets.
ForgetFrom(w, d) == [f \in Dates |-> IF f >= d THEN NoWrite ELSE w[f]]

LEMMA ResetBook ==
    ASSUME NEW b \in Rows, NEW w \in Ledgers, NEW d \in Dates,
           BookOK(b, w, Dates), NothingVoid(b, w, LastDate)
    PROVE  /\ BookOK(ResetFrom(b, d), ForgetFrom(w, d), Dates)
           /\ NothingVoid(ResetFrom(b, d), ForgetFrom(w, d), LastDate)
<1> DEFINE c == ResetFrom(b, d)
           v == ForgetFrom(w, d)
<1>0. \A a \in Assets, f \in Dates : ResetRow(b, d, a, f)
  BY ResetRows
<1>1. TableOK(c, Dates)
  BY ResetOK DEF BookOK
<1>2. ASSUME NEW a \in Assets, NEW f \in Dates, Exists(c, a, f)
      PROVE  /\ Exists(b, a, f) /\ f < d /\ v[f] = w[f]
             /\ c[a][f].weight = b[a][f].weight
             /\ f < c[a][f].to <=> f < b[a][f].to
             /\ ~IsOpen(c, a, f) =>
                  /\ c[a][f].to = b[a][f].to /\ ~IsOpen(b, a, f)
                  /\ c[a][f].to \in Dates /\ c[a][f].to < d /\ v[c[a][f].to] = w[c[a][f].to]
  <2>1. Exists(b, a, f) /\ f < d /\ c[a][f].weight = b[a][f].weight
    BY <1>0, <1>2 DEF ResetRow
  <2>2. v[f] = w[f]
    BY <2>1, DateFacts, SMT DEF ForgetFrom
  <2>3. CASE IsOpen(c, a, f)
    <3>1. c[a][f].to = Open /\ d <= b[a][f].to /\ b[a][f].to \in Nat
      BY <1>0, <2>3, DateFacts, SMT DEF ResetRow, IsOpen, Rows, Stints
    <3>2. f < c[a][f].to /\ f < b[a][f].to
      <4> DEFINE to == b[a][f].to
      <4>1. f \in Nat /\ d \in Nat /\ to \in Nat /\ f < Open /\ f < d /\ d <= to
        BY <2>1, <3>1, DateFacts
      <4>2. c[a][f].to = Open
        BY <3>1
      <4> HIDE DEF to
      <4>3. f < to
        BY <4>1, SMT
      <4> QED BY <4>1, <4>2, <4>3 DEF to
    <3> QED BY <2>1, <2>2, <2>3, <3>2
  <2>4. CASE ~IsOpen(c, a, f)
    <3> DEFINE to == b[a][f].to
    <3>1. c[a][f].to = to /\ to < d
      BY <1>0, <1>2, <2>4 DEF ResetRow
    <3>2. ~IsOpen(b, a, f)
      BY <1>2, <2>4, <3>1 DEF IsOpen
    <3>3. to \in Dates
      BY <2>1, <3>2, RowEnds
    <3> HIDE DEF to
    <3>4. v[to] = w[to]
      BY <3>1, <3>3, DateFacts, SMT DEF ForgetFrom
    <3> QED BY <2>1, <2>2, <2>4, <3>1, <3>2, <3>3, <3>4 DEF to
  <2> QED BY <2>3, <2>4
<1> HIDE DEF c, v
<1>3. RowsWritten(c, v)
  BY <1>2 DEF BookOK, RowsWritten
<1>4. NothingVoid(c, v, LastDate)
  BY <1>2 DEF NothingVoid
<1>5. VoidIsPast(c, v)
  <2> SUFFICES ASSUME NEW a \in Assets, NEW f \in Dates, Exists(c, a, f), c[a][f].to = f,
                      v[f].targets[a] # 0
               PROVE  FALSE
    BY DEF VoidIsPast
  <2>1. f <= LastDate
    BY DateFacts
  <2> QED BY <1>4, <2>1, DateFacts, SMT DEF NothingVoid
<1>6. ReadsAsWritten(c, v)
  <2> SUFFICES ASSUME NEW e \in Dates, v[e].wrote, Marked(c, e), NEW a \in Assets
               PROVE  HeldWeight(c, a, e) = v[e].targets[a]
    BY DEF ReadsAsWritten
  <2>0. ASSUME NEW x \in Assets, NEW f \in Dates, Exists(c, x, f), c[x][f].to = e
        PROVE  Exists(b, x, f) /\ b[x][f].to = e /\ e < d /\ v[e] = w[e]
    <3>1. ~IsOpen(c, x, f)
      BY <2>0, DateFacts DEF IsOpen
    <3> QED BY <1>2, <2>0, <3>1
  <2>1. Marked(b, e) /\ e < d /\ v[e] = w[e]
    BY <1>2, <2>0 DEF Marked
  <2>2. NothingVoid(b, w, e)
    <3>1. \A f \in Dates : f <= LastDate
      BY DateFacts
    <3> QED BY <3>1 DEF NothingVoid
  <2>3. HeldWeight(b, a, e) = w[e].targets[a]
    BY <2>1, <2>2 DEF BookOK, ReadsAsWritten
  <2>4. Held(c, a, e) = Held(b, a, e)
    BY <2>1, ResetReadsBefore DEF c
  <2> QED BY <2>1, <2>3, <2>4 DEF HeldWeight
<1> QED BY <1>1, <1>3, <1>4, <1>5, <1>6 DEF BookOK, c, v

-----------------------------------------------------------------------------
(* No order of runs makes two stints overlap *)

BooksInv ==
    /\ \A k \in Kinds : ~late[k] => TableOK(book[k], HeldOn(k))
    /\ \A k \in Kinds : Sound(k) => BookOK(book[k], synced[k], HeldOn(k))
    /\ \A k \in Kinds : k # "live" /\ Sound(k) => NothingVoid(book[k], synced[k], LastDate)

LEMMA HeldOnDates == \A k \in Kinds : HeldOn(k) \subseteq Dates /\ LastDate \in HeldOn(k)
BY DateFacts DEF HeldOn

LEMMA InitBooks == Init => BooksInv
<1> SUFFICES ASSUME Init PROVE BooksInv
  OBVIOUS
<1>1. ASSUME NEW k \in Kinds
      PROVE  /\ BookOK(book[k], synced[k], HeldOn(k))
             /\ NothingVoid(book[k], synced[k], LastDate)
  <2>1. \A a \in Assets, f \in Dates : ~Exists(book[k], a, f)
    BY DEF Init, Exists, NoStint
  <2>2. TableOK(book[k], HeldOn(k))
    BY <2>1 DEF TableOK, InOrder, NewestIsHeld
  <2> QED BY <2>1, <2>2 DEF BookOK, RowsWritten, VoidIsPast, ReadsAsWritten, NothingVoid, Marked
<1> QED BY <1>1 DEF BooksInv, BookOK

\* An undo that reweights nothing voids its run.
LEMMA UndoVoids ==
    ASSUME TypeOK, NEW d \in Dates, Undo(d), ~reweighted', InOrder(book["live"])
    PROVE  book'["live"] = Voided(book["live"], d)
<1> DEFINE b == book["live"]
           chosen == [f \in Dates |-> run["live"][f].ranking]
<1>1. "live" \in Kinds /\ b \in Rows
  BY DEF Undo, TypeOK
<1>2. chosen \in [Dates -> Book] /\ \A f \in Dates : chosen[f] = run["live"][f].ranking
  BY <1>1 DEF TypeOK, Runs
<1>3. book'["live"] = Undone(b, d, chosen)
  BY <1>1 DEF Undo, TypeOK
<1>4. \A a \in Assets, f \in Dates :
         f # d /\ IsOpen(b, a, f) => chosen[f][a] \in {0, b[a][f].weight}
  BY <1>2 DEF Undo, Reweighs
<1> HIDE DEF b, chosen
<1> QED BY <1>1, <1>2, <1>3, <1>4, UndoneIsVoided DEF b

LEMMA NextBooks ==
    ASSUME TypeOK, BooksInv, [Next]_vars
    PROVE  BooksInv'
<1>0. ASSUME UNCHANGED <<book, synced, late, reweighted>>
      PROVE  BooksInv'
  BY <1>0 DEF BooksInv, Sound
<1>1. CASE SyncPositions
  <2>1. attempt.at \in Places
    BY <1>1 DEF SyncPositions, Places
  <2>2. PICK k \in Kinds, d \in Dates, t \in Book, b \in Rows :
          k = attempt.kind /\ d = attempt.date /\ t = attempt.targets /\ b = Table
    BY <2>1, Attempting
  <2> DEFINE w == synced[k]
             c == Sync(b, d, t)
             v == Written(w, d, t)
  <2>3. ~Newer(b, d) /\ ~Collides(b, d, t)
    BY <1>1, <2>2 DEF SyncPositions, SyncRefused
  <2>4. w \in Ledgers /\ b = book[k]
    BY <2>2 DEF TypeOK, Ledgers, Table
  <2>5. \A l \in Kinds : /\ book'[l] = IF l = k THEN c ELSE book[l]
                         /\ synced'[l] = IF l = k THEN v ELSE synced[l]
    <3>1. book' = [book EXCEPT ![k] = c]
      BY <1>1, <2>2 DEF SyncPositions
    <3>2. synced' = [synced EXCEPT ![k] = v]
      BY <1>1, <2>2 DEF SyncPositions, TypeOK, Written
    <3> HIDE DEF c, v
    <3> QED BY <2>2, <3>1, <3>2 DEF TypeOK
  <2>6. /\ \A l \in Kinds : l # k => late'[l] = late[l]
        /\ ~late'[k] => ~late[k] /\ NoneEmptiedAfter(b, d)
        /\ UNCHANGED reweighted
    BY <1>1, <2>2 DEF SyncPositions, TypeOK, NoneEmptiedAfter
  <2>7. HeldOn(k) \subseteq Dates /\ LastDate \in HeldOn(k)
    BY <2>2, HeldOnDates
  <2>8. ASSUME ~late'[k] PROVE TableOK(c, HeldOn(k))
    <3>1. TableOK(b, HeldOn(k)) /\ NoneEmptiedAfter(b, d)
      BY <2>2, <2>4, <2>6, <2>8 DEF BooksInv
    <3> QED BY <2>2, <2>3, <2>7, <3>1, SyncOK
  <2>9. ASSUME Sound(k)'
        PROVE  /\ Sound(k) /\ BookOK(c, v, HeldOn(k))
               /\ \A e \in Dates : NothingVoid(c, v, e) <=> NothingVoid(b, w, e)
    <3>1. Sound(k) /\ NoneEmptiedAfter(b, d)
      BY <2>2, <2>6, <2>9 DEF Sound
    <3>2. BookOK(b, w, HeldOn(k))
      BY <2>2, <2>4, <3>1 DEF BooksInv
    <3> HIDE DEF w
    <3> QED BY <2>2, <2>3, <2>4, <2>7, <3>1, <3>2, SyncBook
  <2>10. \A l \in Kinds : l # k => (Sound(l)' <=> Sound(l))
    BY <2>6 DEF Sound
  <2>11. ASSUME NEW l \in Kinds, l # "live", Sound(l)'
         PROVE  NothingVoid(book'[l], synced'[l], LastDate)
    <3>1. CASE l = k
      <4>1. NothingVoid(b, w, LastDate)
        BY <2>2, <2>4, <2>9, <2>11, <3>1 DEF BooksInv
      <4> QED BY <2>5, <2>9, <2>11, <3>1, <4>1, DateFacts
    <3>2. CASE l # k
      BY <2>5, <2>10, <2>11, <3>2 DEF BooksInv
    <3> QED BY <3>1, <3>2
  <2>12. ASSUME NEW l \in Kinds, ~late'[l] PROVE TableOK(book'[l], HeldOn(l))
    BY <2>5, <2>6, <2>8, <2>12 DEF BooksInv
  <2>13. ASSUME NEW l \in Kinds, Sound(l)' PROVE BookOK(book'[l], synced'[l], HeldOn(l))
    BY <2>5, <2>9, <2>10, <2>13 DEF BooksInv
  <2> QED BY <2>11, <2>12, <2>13 DEF BooksInv
<1>2. ASSUME NEW d \in Dates, ResetReplayRange(d) PROVE BooksInv'
  <2> DEFINE b == book["replay"]
             w == synced["replay"]
             c == ResetFrom(b, d)
             v == ForgetFrom(w, d)
  <2>1. "replay" \in Kinds /\ b \in Rows /\ w \in Ledgers
    BY <1>2 DEF ResetReplayRange, TypeOK, Ledgers
  <2>2. \A l \in Kinds : /\ book'[l] = IF l = "replay" THEN c ELSE book[l]
                         /\ synced'[l] = IF l = "replay" THEN v ELSE synced[l]
                         /\ late'[l] = IF l = "replay" THEN late[l] /\ d # 1 ELSE late[l]
    BY <1>2, <2>1 DEF ResetReplayRange, TypeOK, ForgetFrom
  <2>3. reweighted' = reweighted /\ HeldOn("replay") = Dates
    BY <1>2 DEF ResetReplayRange, HeldOn
  <2>4. ASSUME ~late'["replay"] PROVE BookOK(c, v, Dates) /\ NothingVoid(c, v, LastDate)
    <3>1. CASE ~late["replay"]
      <4>1. BookOK(b, w, Dates) /\ NothingVoid(b, w, LastDate)
        BY <2>1, <2>3, <3>1 DEF BooksInv, Sound
      <4> HIDE DEF b, w
      <4> QED BY <2>1, <4>1, ResetBook
    <3>2. CASE d = 1
      <4>1. \A a \in Assets, f \in Dates : ~Exists(c, a, f)
        <5>1. \A f \in Dates : ~(f < d)
          BY <3>2, DateFacts, SMT
        <5> QED BY <2>1, <5>1, ResetRows DEF ResetRow
      <4> HIDE DEF c, v
      <4> QED BY <4>1 DEF BookOK, TableOK, InOrder, NewestIsHeld, RowsWritten, VoidIsPast,
                          ReadsAsWritten, NothingVoid, Marked
    <3> QED BY <2>1, <2>2, <2>4, <3>1, <3>2
  <2>5. \A l \in Kinds : l # "replay" => (Sound(l)' <=> Sound(l))
    BY <2>2, <2>3 DEF Sound
  <2>6. Sound("replay")' => ~late'["replay"]
    BY DEF Sound
  <2> HIDE DEF b, w, c, v
  <2>7. ASSUME NEW l \in Kinds, ~late'[l] PROVE TableOK(book'[l], HeldOn(l))
    BY <2>2, <2>3, <2>4, <2>7 DEF BooksInv, BookOK
  <2>8. ASSUME NEW l \in Kinds, Sound(l)' PROVE BookOK(book'[l], synced'[l], HeldOn(l))
    BY <2>2, <2>3, <2>4, <2>5, <2>6, <2>8 DEF BooksInv
  <2>9. ASSUME NEW l \in Kinds, l # "live", Sound(l)'
        PROVE  NothingVoid(book'[l], synced'[l], LastDate)
    BY <2>2, <2>4, <2>5, <2>6, <2>9 DEF BooksInv
  <2> QED BY <2>7, <2>8, <2>9 DEF BooksInv
<1>3. ASSUME NEW d \in Undoable, Undo(d) PROVE BooksInv'
  <2> DEFINE b == book["live"]
             chosen == [f \in Dates |-> run["live"][f].ranking]
  <2>1. "live" \in Kinds /\ d \in Dates /\ b \in Rows /\ synced["live"] \in Ledgers
    BY <1>3, BookAssumption DEF Undo, TypeOK, Ledgers
  <2>2. OutOfOrder(b, d) /\ HeldOn("live") = {LastDate}
    BY <1>3 DEF Undo, CanUndo, OutOfOrder, HeldOn
  <2>3. /\ \A l \in Kinds : l # "live" => book'[l] = book[l]
        /\ book'["live"] = Undone(b, d, chosen)
    BY <1>3, <2>1 DEF Undo, TypeOK
  <2>4. synced' = synced /\ late' = late /\ (~reweighted' => ~reweighted)
    BY <1>3 DEF Undo
  <2>5. chosen \in [Dates -> Book]
    BY <2>1 DEF TypeOK, Runs
  <2>6. ASSUME ~late["live"] PROVE TableOK(book'["live"], {LastDate})
    <3>1. TableOK(b, {LastDate})
      BY <2>1, <2>2, <2>6 DEF BooksInv
    <3> HIDE DEF b, chosen
    <3> QED BY <2>1, <2>2, <2>3, <2>5, <3>1, UndoneOK
  <2>7. ASSUME Sound("live")' PROVE BookOK(book'["live"], synced["live"], {LastDate})
    <3>1. BookOK(b, synced["live"], {LastDate}) /\ ~reweighted'
      BY <2>1, <2>2, <2>4, <2>7 DEF BooksInv, Sound
    <3>2. book'["live"] = Voided(b, d)
      BY <1>3, <2>1, <3>1, UndoVoids DEF BookOK, TableOK
    <3> HIDE DEF b
    <3> QED BY <2>1, <2>2, <3>1, <3>2, VoidedBook
  <2>8. \A l \in Kinds : l # "live" => (Sound(l)' <=> Sound(l))
    BY <2>4 DEF Sound
  <2> HIDE DEF b, chosen
  <2>9. ASSUME NEW l \in Kinds, ~late'[l] PROVE TableOK(book'[l], HeldOn(l))
    BY <2>2, <2>3, <2>4, <2>6, <2>9 DEF BooksInv
  <2>10. ASSUME NEW l \in Kinds, Sound(l)' PROVE BookOK(book'[l], synced'[l], HeldOn(l))
    BY <2>2, <2>3, <2>4, <2>7, <2>8, <2>10 DEF BooksInv
  <2>11. ASSUME NEW l \in Kinds, l # "live", Sound(l)'
         PROVE  NothingVoid(book'[l], synced'[l], LastDate)
    BY <2>3, <2>4, <2>8, <2>11 DEF BooksInv
  <2> QED BY <2>9, <2>10, <2>11 DEF BooksInv
<1>4. CASE \/ \E k \in Kinds, d \in Dates, s \in Settings : Begin(k, d, s) \/ BeginDone(k, d, s)
           \/ GuardPasses \/ GuardRefuses \/ Record \/ SyncRaises
           \/ WriteRanking \/ Checkpoint \/ FinishCycle \/ Abort \/ Crash \/ UNCHANGED vars
  BY <1>0, <1>4 DEF Begin, BeginDone, GuardPasses, GuardRefuses, Record, SyncRaises, WriteRanking,
       Checkpoint, FinishCycle, Abort, Crash, Fail, vars, history
<1> QED BY <1>1, <1>2, <1>3, <1>4 DEF Next

\* No order of selections, backfills, crashes, resumes, --allow-backdated, undos and
\* --force makes two stints of an asset overlap in a table in which no run wrote a
\* date before one that a run had emptied.
THEOREM NoOverlap == Spec => []StintsNeverOverlap
<1>1. Init => TypeOK /\ BooksInv
  BY InitType, InitBooks
<1>2. TypeOK /\ BooksInv /\ [Next]_vars => (TypeOK /\ BooksInv)'
  BY NextType, NextBooks
<1>3. BooksInv => StintsNeverOverlap
  BY DEF BooksInv, TableOK, StintsNeverOverlap
<1> QED BY <1>1, <1>2, <1>3, PTL DEF Spec

-----------------------------------------------------------------------------
(* What an undo takes out of the book *)

\* In order, at most one stint of an asset covers a date.
LEMMA OneCovers ==
    ASSUME NEW b \in Rows, InOrder(b), NEW a \in Assets, NEW e \in Dates,
           NEW f \in Dates, NEW g \in Dates, Covers(b, a, f, e), Covers(b, a, g, e)
    PROVE  f = g
<1>1. ASSUME NEW h \in Dates, NEW i \in Dates, Covers(b, a, h, e), Covers(b, a, i, e), h < i
      PROVE  FALSE
  <2>1. b[a][h].to <= i
    BY <1>1 DEF InOrder, Covers
  <2>2. i <= e /\ e < b[a][h].to
    BY <1>1 DEF Covers
  <2>3. b[a][h].to \in 0..Open
    BY DEF Rows, Stints
  <2> DEFINE to == b[a][h].to
  <2>4. to \in Nat /\ i \in Nat /\ e \in Nat
    BY <2>3, DateFacts
  <2> HIDE DEF to
  <2> QED BY <2>1, <2>2, <2>4, SMT DEF to
<1>2. f \in Nat /\ g \in Nat
  BY DateFacts
<1>3. ~(f < g) /\ ~(g < f)
  BY <1>1
<1> QED BY <1>2, <1>3, SMT

LEMMA VoidedReads ==
    ASSUME NEW b \in Rows, NEW d \in Dates, InOrder(b), NEW a \in Assets, NEW e \in Dates
    PROVE  Held(Voided(b, d), a, e) = IF Covers(b, a, d, e) THEN [weight |-> 0, cost |-> 0]
                                      ELSE Held(b, a, e)
<1> DEFINE c == Voided(b, d)
<1>1. \A f \in Dates : Covers(c, a, f, e) <=> f # d /\ Covers(b, a, f, e)
  BY VoidedCovers
<1>2. CASE Covers(b, a, d, e)
  <2>1. \A f \in Dates : ~Covers(c, a, f, e)
    BY <1>1, <1>2, OneCovers
  <2>2. {f \in Dates : Covers(c, a, f, e)} = {}
    BY <2>1
  <2>3. Held(c, a, e) = [weight |-> 0, cost |-> 0]
    <3> HIDE DEF c
    <3> QED BY <2>2 DEF Held, NoStint
  <2> QED BY <1>2, <2>3
<1>3. CASE ~Covers(b, a, d, e)
  <2>1. \A f \in Dates : Covers(c, a, f, e) <=> Covers(b, a, f, e)
    BY <1>1, <1>3
  <2>2. \A f \in Dates : c[a][f].weight = b[a][f].weight /\ c[a][f].cost = b[a][f].cost
    BY VoidedRows DEF VoidedRow
  <2>3. Held(c, a, e) = Held(b, a, e)
    BY <2>1, <2>2, VoidedType, SameReading
  <2> QED BY <1>3, <2>3
<1> QED BY <1>2, <1>3

\* An undo that reweights nothing takes the stints its run opened out of the live
\* book and changes no other reading, if no run wrote a date before an emptied one.
THEOREM UndoTakesItsRun == Spec => UndoTakesOneRun
<1> DEFINE Taken == \A d \in Dates : Undo(d) /\ Sound("live")' =>
             \A a \in Assets, e \in Dates :
                Held(book["live"], a, e)' =
                    IF Covers(book["live"], a, d, e) THEN [weight |-> 0, cost |-> 0]
                    ELSE Held(book["live"], a, e)
<1>1. TypeOK /\ BooksInv /\ [Next]_vars => [Taken]_vars
  <2> SUFFICES ASSUME TypeOK, BooksInv, NEW d \in Dates, Undo(d), Sound("live")',
                      NEW a \in Assets, NEW e \in Dates
               PROVE  Held(book'["live"], a, e) =
                        IF Covers(book["live"], a, d, e) THEN [weight |-> 0, cost |-> 0]
                        ELSE Held(book["live"], a, e)
    OBVIOUS
  <2> DEFINE b == book["live"]
  <2>1. b \in Rows /\ BookOK(b, synced["live"], {LastDate})
    <3>1. Sound("live") /\ "live" \in Kinds
      BY DEF Undo, Sound
    <3> QED BY <3>1 DEF TypeOK, BooksInv, HeldOn
  <2>2. InOrder(b)
    BY <2>1 DEF BookOK, TableOK
  <2>3. book'["live"] = Voided(b, d)
    BY <2>2, UndoVoids DEF Sound
  <2> HIDE DEF b
  <2> QED BY <2>1, <2>2, <2>3, VoidedReads DEF b
<1>2. UndoTakesOneRun <=> [][Taken]_vars
  BY DEF UndoTakesOneRun
<1>3. Init => TypeOK /\ BooksInv
  BY InitType, InitBooks
<1>4. TypeOK /\ BooksInv /\ [Next]_vars => (TypeOK /\ BooksInv)'
  BY NextType, NextBooks
<1> HIDE DEF Taken
<1> QED BY <1>1, <1>2, <1>3, <1>4, PTL DEF Spec

-----------------------------------------------------------------------------
(* The book of a date is the selection its run recorded *)

\* What the place of an attempt says of its run and of what it has written.
AsAttempted ==
    /\ attempt.at \in Places \ {"finish"} => ~Row.done
    /\ attempt.at \in {"rank", "checkpoint"} =>
         synced[attempt.kind][attempt.date] = [wrote |-> TRUE, targets |-> attempt.targets]
    /\ attempt.at = "checkpoint" => Row.ranking = attempt.targets

\* A run that is done has recorded what it last wrote.
Recorded(k, d) ==
    run[k][d].done => synced[k][d].wrote /\ run[k][d].ranking = synced[k][d].targets

SelectedInv == AsAttempted /\ \A k \in Kinds, d \in Dates : Recorded(k, d)

\* A change of run rows that leaves done and the ranking alone.
RowsKept == \A k \in Kinds, d \in Dates : /\ run'[k][d].done = run[k][d].done
                                          /\ run'[k][d].ranking = run[k][d].ranking

LEMMA RecordedKept ==
    ASSUME SelectedInv, UNCHANGED synced, RowsKept
    PROVE  \A k \in Kinds, d \in Dates : Recorded(k, d)'
BY DEF SelectedInv, Recorded, RowsKept

LEMMA RowKept ==
    ASSUME TypeOK, NEW k \in Kinds, NEW d \in Dates, NEW row,
           row.done = run[k][d].done, row.ranking = run[k][d].ranking, SetRow(k, d, row)
    PROVE  RowsKept
BY DEF SetRow, TypeOK, RowsKept

LEMMA StatusKept ==
    ASSUME TypeOK, NEW k \in Kinds, NEW d \in Dates, NEW status, SetStatus(k, d, status)
    PROVE  RowsKept
<1>1. run[k][d] \in Runs
  BY DEF TypeOK
<1>2. /\ [run[k][d] EXCEPT !.status = status].done = run[k][d].done
      /\ [run[k][d] EXCEPT !.status = status].ranking = run[k][d].ranking
  BY <1>1 DEF Runs
<1> QED BY <1>2, RowKept DEF SetStatus

LEMMA IdleIsAttempted == attempt' = Idle => AsAttempted'
BY DEF Idle, AsAttempted, Places

LEMMA InitSelected == Init => SelectedInv
BY DEF Init, SelectedInv, Recorded, AsAttempted, NoRun, Idle, Places

LEMMA NextSelected ==
    ASSUME TypeOK, SelectedInv, [Next]_vars
    PROVE  SelectedInv'
<1>1. ASSUME NEW k \in Kinds, NEW d \in Dates, NEW s \in Settings, Begin(k, d, s)
      PROVE  SelectedInv'
  <2>1. RowsKept
    BY <1>1, StatusKept DEF Begin, history
  <2>2. attempt'.at = "check" /\ attempt'.kind = k /\ attempt'.date = d
    BY <1>1 DEF Begin, history
  <2>3. AsAttempted'
    BY <1>1, <2>1, <2>2 DEF Begin, history, RowsKept, AsAttempted, Row
  <2> QED BY <1>1, <2>1, <2>3, RecordedKept DEF Begin, history, SelectedInv
<1>2. ASSUME NEW k \in Kinds, NEW d \in Dates, NEW s \in Settings, BeginDone(k, d, s)
      PROVE  SelectedInv'
  <2>1. RowsKept
    BY <1>2, StatusKept DEF BeginDone, history
  <2>2. AsAttempted'
    BY <1>2, Attempting, IdleIsAttempted DEF BeginDone, history
  <2> QED BY <1>2, <2>1, <2>2, RecordedKept DEF BeginDone, history, SelectedInv
<1>3. ASSUME Fail, attempt # Idle \/ attempt.at \in Places PROVE SelectedInv'
  <2>1. attempt.kind \in Kinds /\ attempt.date \in Dates
    BY <1>3, Attempting
  <2>2. SetStatus(attempt.kind, attempt.date, "failed")
    BY <1>3 DEF Fail, history, SetRun, SetStatus, Row
  <2>3. RowsKept
    BY <2>1, <2>2, StatusKept
  <2> QED BY <1>3, <2>3, RecordedKept, IdleIsAttempted DEF Fail, history, SelectedInv
<1>4. CASE GuardRefuses \/ SyncRaises \/ Abort
  BY <1>3, <1>4 DEF GuardRefuses, SyncRaises, Abort, Places
<1>5. ASSUME attempt.at \in Places, NEW place, Goto(place)
      PROVE  /\ attempt \in Attempts /\ attempt.kind \in Kinds /\ attempt.date \in Dates
             /\ attempt'.at = place /\ attempt'.kind = attempt.kind
             /\ attempt'.date = attempt.date /\ attempt'.targets = attempt.targets
             /\ Row \in Runs
  BY <1>5, Attempting DEF Goto, Attempts
<1>6. CASE GuardPasses
  <2>1. attempt.at = "check" /\ attempt.at \in Places
    BY <1>6 DEF GuardPasses, history, Places
  <2>2. ~Row.done
    BY <2>1 DEF SelectedInv, AsAttempted, Places
  <2>3. AsAttempted'
    BY <1>5, <1>6, <2>1, <2>2 DEF GuardPasses, history, AsAttempted, Row
  <2> QED BY <1>6, <2>3 DEF GuardPasses, history, SelectedInv, Recorded
<1>7. CASE Record
  <2>1. attempt.at = "record" /\ attempt.at \in Places
    BY <1>7 DEF Record, history, Places
  <2>2. ~Row.done
    BY <2>1 DEF SelectedInv, AsAttempted, Places
  <2>3. RowsKept
    <3> DEFINE row == [Row EXCEPT !.construction = attempt.setting]
    <3>1. row.done = Row.done /\ row.ranking = Row.ranking
      BY <1>5, <1>7, <2>1 DEF Record, history, Runs
    <3>2. SetRow(attempt.kind, attempt.date, row)
      BY <1>7 DEF Record, history, SetRun
    <3> HIDE DEF row
    <3> QED BY <1>5, <1>7, <2>1, <3>1, <3>2, RowKept DEF Record, history, Row
  <2>4. AsAttempted'
    BY <1>5, <1>7, <2>1, <2>2, <2>3 DEF Record, history, RowsKept, AsAttempted, Row
  <2> QED BY <1>7, <2>3, <2>4, RecordedKept DEF Record, history, SelectedInv
<1>8. CASE SyncPositions
  <2> DEFINE k == attempt.kind
             d == attempt.date
             written == [wrote |-> TRUE, targets |-> attempt.targets]
  <2>1. attempt.at = "sync" /\ attempt.at \in Places
    BY <1>8 DEF SyncPositions, Places
  <2>2. k \in Kinds /\ d \in Dates /\ ~run[k][d].done
    BY <2>1, Attempting DEF SelectedInv, AsAttempted, Places, Row
  <2>3. \A l \in Kinds, e \in Dates :
          synced'[l][e] = IF l = k /\ e = d THEN written ELSE synced[l][e]
    BY <1>8, <2>2 DEF SyncPositions, TypeOK
  <2>4. /\ attempt'.at = "rank" /\ attempt'.kind = k
        /\ attempt'.date = d /\ attempt'.targets = attempt.targets
    BY <1>5, <1>8, <2>1 DEF SyncPositions
  <2>5. run' = run
    BY <1>8 DEF SyncPositions
  <2>6. AsAttempted'
    BY <2>2, <2>3, <2>4, <2>5 DEF AsAttempted, Row
  <2>7. \A l \in Kinds, e \in Dates : Recorded(l, e)'
    BY <2>2, <2>3, <2>5 DEF SelectedInv, Recorded
  <2> QED BY <2>6, <2>7 DEF SelectedInv
<1>9. CASE WriteRanking
  <2>1. attempt.at = "rank" /\ attempt.at \in Places
    BY <1>9 DEF WriteRanking, history, Places
  <2>2. ~Row.done /\ synced[attempt.kind][attempt.date] =
                           [wrote |-> TRUE, targets |-> attempt.targets]
    BY <2>1 DEF SelectedInv, AsAttempted, Places
  <2>3. run' = [run EXCEPT ![attempt.kind] =
                  [@ EXCEPT ![attempt.date] = [Row EXCEPT !.ranking = attempt.targets]]]
    BY <1>9 DEF WriteRanking, history, SetRun, SetRow
  <2>4. /\ run'[attempt.kind][attempt.date].ranking = attempt.targets
        /\ ~run'[attempt.kind][attempt.date].done
    BY <1>5, <1>9, <2>1, <2>2, <2>3 DEF TypeOK, Runs, WriteRanking, history
  <2>5. \A l \in Kinds, e \in Dates :
          l # attempt.kind \/ e # attempt.date => run'[l][e] = run[l][e]
    BY <1>5, <1>9, <2>1, <2>3 DEF TypeOK, WriteRanking, history
  <2>6. AsAttempted'
    BY <1>5, <1>9, <2>1, <2>2, <2>4 DEF WriteRanking, history, AsAttempted, Row
  <2>7. \A l \in Kinds, e \in Dates : Recorded(l, e)'
    BY <1>9, <2>4, <2>5 DEF SelectedInv, Recorded, WriteRanking, history
  <2> QED BY <2>6, <2>7 DEF SelectedInv
<1>10. CASE Checkpoint
  <2>1. attempt.at = "checkpoint" /\ attempt.at \in Places
    BY <1>10 DEF Checkpoint, history, Places
  <2>2. /\ Row.ranking = attempt.targets
        /\ synced[attempt.kind][attempt.date] = [wrote |-> TRUE, targets |-> attempt.targets]
    BY <2>1 DEF SelectedInv, AsAttempted
  <2>3. run' = [run EXCEPT ![attempt.kind] =
                  [@ EXCEPT ![attempt.date] = [Row EXCEPT !.done = TRUE]]]
    BY <1>10 DEF Checkpoint, history, SetRun, SetRow
  <2>4. run'[attempt.kind][attempt.date].ranking = attempt.targets
    BY <1>5, <1>10, <2>1, <2>2, <2>3 DEF TypeOK, Runs, Checkpoint, history
  <2>5. \A l \in Kinds, e \in Dates :
          l # attempt.kind \/ e # attempt.date => run'[l][e] = run[l][e]
    BY <1>5, <1>10, <2>1, <2>3 DEF TypeOK, Checkpoint, history
  <2>6. AsAttempted'
    BY <1>5, <1>10, <2>1 DEF Checkpoint, history, AsAttempted
  <2>7. ASSUME NEW l \in Kinds, NEW e \in Dates PROVE Recorded(l, e)'
    <3>1. synced' = synced
      BY <1>10 DEF Checkpoint, history
    <3>2. CASE l = attempt.kind /\ e = attempt.date
      BY <2>2, <2>4, <3>1, <3>2 DEF Recorded
    <3>3. CASE ~(l = attempt.kind /\ e = attempt.date)
      BY <2>5, <3>1, <3>3 DEF SelectedInv, Recorded
    <3> QED BY <3>2, <3>3
  <2> QED BY <2>6, <2>7 DEF SelectedInv
<1>11. CASE FinishCycle
  <2>1. attempt.at \in Places
    BY <1>11 DEF FinishCycle, history, Places
  <2>2. SetStatus(attempt.kind, attempt.date, "completed")
    BY <1>11 DEF FinishCycle, history, SetRun, SetStatus, Row
  <2>3. RowsKept
    BY <2>1, <2>2, Attempting, StatusKept
  <2> QED BY <1>11, <2>3, RecordedKept, IdleIsAttempted DEF FinishCycle, history, SelectedInv
<1>12. CASE Crash
  BY <1>12, IdleIsAttempted DEF Crash, history, SelectedInv, Recorded
<1>13. ASSUME NEW d \in Dates, ResetReplayRange(d) PROVE SelectedInv'
  <2>1. "replay" \in Kinds
    BY <1>13 DEF ResetReplayRange
  <2>2. \A l \in Kinds, e \in Dates :
          /\ run'[l][e] = IF l = "replay" /\ e >= d THEN NoRun ELSE run[l][e]
          /\ synced'[l][e] = IF l = "replay" /\ e >= d THEN NoWrite ELSE synced[l][e]
    BY <1>13, <2>1 DEF ResetReplayRange, TypeOK
  <2>3. AsAttempted'
    BY <1>13, IdleIsAttempted DEF ResetReplayRange
  <2>4. ~NoRun.done
    BY DEF NoRun
  <2>5. ASSUME NEW l \in Kinds, NEW e \in Dates PROVE Recorded(l, e)'
    BY <2>2, <2>4 DEF SelectedInv, Recorded
  <2> QED BY <2>3, <2>5 DEF SelectedInv
<1>14. ASSUME NEW d \in Undoable, Undo(d) PROVE SelectedInv'
  <2>1. "live" \in Kinds /\ d \in Dates
    BY <1>14, BookAssumption DEF Undo
  <2>2. RowsKept
    BY <1>14, <2>1, StatusKept DEF Undo
  <2> QED BY <1>14, <2>2, RecordedKept, IdleIsAttempted DEF Undo, SelectedInv
<1>15. CASE UNCHANGED vars
  BY <1>15 DEF vars, history, SelectedInv, Recorded, AsAttempted, Row
<1> QED BY <1>1, <1>2, <1>4, <1>6, <1>7, <1>8, <1>9, <1>10, <1>11, <1>12, <1>13, <1>14, <1>15
        DEF Next

\* What an attempt, its run and what it has written owe to the settings recorded.
SettingsInv ==
    /\ attempt # Idle =>
         /\ attempt.targets \in Targets[attempt.date][attempt.setting]
         /\ Row.construction \in {"none", attempt.setting}
         /\ attempt.at \notin {"check", "record"} => Row.construction = attempt.setting
    /\ \A k \in Kinds, d \in Dates : OfRecordedSettings(k, d)

\* A change of run rows that leaves the settings and the ranking alone.
SettingsKept ==
    \A k \in Kinds, d \in Dates : /\ run'[k][d].construction = run[k][d].construction
                                  /\ run'[k][d].ranking = run[k][d].ranking

LEMMA OfSettingsKept ==
    ASSUME SettingsInv, UNCHANGED synced, SettingsKept
    PROVE  \A k \in Kinds, d \in Dates : OfRecordedSettings(k, d)'
BY DEF SettingsInv, SettingsKept, OfRecordedSettings

LEMMA RowSettingsKept ==
    ASSUME TypeOK, NEW k \in Kinds, NEW d \in Dates, NEW row, SetRow(k, d, row),
           row.construction = run[k][d].construction, row.ranking = run[k][d].ranking
    PROVE  SettingsKept
BY DEF SetRow, TypeOK, SettingsKept

LEMMA StatusSettingsKept ==
    ASSUME TypeOK, NEW k \in Kinds, NEW d \in Dates, NEW status, SetStatus(k, d, status)
    PROVE  SettingsKept
<1>1. run[k][d] \in Runs
  BY DEF TypeOK
<1>2. /\ [run[k][d] EXCEPT !.status = status].construction = run[k][d].construction
      /\ [run[k][d] EXCEPT !.status = status].ranking = run[k][d].ranking
  BY <1>1 DEF Runs
<1> QED BY <1>2, RowSettingsKept DEF SetStatus

\* The attempt goes on, its row's settings unchanged.
LEMMA AttemptGoesOn ==
    ASSUME TypeOK, SettingsInv, attempt.at \in Places \ {"check", "record"},
           NEW place, Goto(place), SettingsKept, \A k \in Kinds, d \in Dates : OfRecordedSettings(k, d)'
    PROVE  SettingsInv'
<1>1. attempt \in Attempts /\ attempt # Idle /\ attempt.kind \in Kinds /\ attempt.date \in Dates
  BY Attempting
<1>2. /\ attempt'.kind = attempt.kind /\ attempt'.date = attempt.date
      /\ attempt'.targets = attempt.targets /\ attempt'.setting = attempt.setting
  BY <1>1 DEF Goto, Attempts
<1>3. Row'.construction = Row.construction
  BY <1>1, <1>2 DEF SettingsKept, Row
<1> QED BY <1>1, <1>2, <1>3 DEF SettingsInv

LEMMA InitSettings == Init => SettingsInv
BY DEF Init, SettingsInv, OfRecordedSettings, NoRun, NoWrite

LEMMA NextSettings ==
    ASSUME TypeOK, SettingsInv, [Next]_vars
    PROVE  SettingsInv'
<1> DEFINE Of == \A k \in Kinds, d \in Dates : OfRecordedSettings(k, d)
<1>1. ASSUME NEW k \in Kinds, NEW d \in Dates, NEW s \in Settings, Begin(k, d, s)
      PROVE  SettingsInv'
  <2>1. SettingsKept
    BY <1>1, StatusSettingsKept DEF Begin
  <2>2. PICK t \in Targets[d][s], o \in BOOLEAN :
          attempt' = [at |-> "check", kind |-> k, date |-> d, setting |-> s,
                      targets |-> t, override |-> o]
    BY <1>1, BookAssumption DEF Begin
  <2>3. Row'.construction \in {"none", s}
    BY <1>1, <2>1, <2>2 DEF Begin, SameConstruction, SettingsKept, Row
  <2>4. Of'
    BY <1>1, <2>1, OfSettingsKept DEF Begin, history
  <2> QED BY <2>2, <2>3, <2>4 DEF SettingsInv
<1>2. ASSUME Of', attempt' = Idle PROVE SettingsInv'
  BY <1>2 DEF SettingsInv
<1>3. ASSUME NEW k \in Kinds, NEW d \in Dates, NEW s \in Settings, BeginDone(k, d, s)
      PROVE  SettingsInv'
  <2>1. SettingsKept
    BY <1>3, StatusSettingsKept DEF BeginDone
  <2> QED BY <1>2, <1>3, <2>1, OfSettingsKept DEF BeginDone, history
<1>4. ASSUME Fail, attempt # Idle \/ attempt.at \in Places PROVE SettingsInv'
  <2>1. attempt.kind \in Kinds /\ attempt.date \in Dates
    BY <1>4, Attempting
  <2>2. SetStatus(attempt.kind, attempt.date, "failed")
    BY <1>4 DEF Fail, SetRun, SetStatus, Row
  <2>3. SettingsKept
    BY <2>1, <2>2, StatusSettingsKept
  <2> QED BY <1>2, <1>4, <2>3, OfSettingsKept DEF Fail, history
<1>5. CASE GuardRefuses \/ SyncRaises \/ Abort
  BY <1>4, <1>5 DEF GuardRefuses, SyncRaises, Abort, Places
<1>6. CASE GuardPasses
  <2>1. attempt.at = "check" /\ attempt.at \in Places
    BY <1>6 DEF GuardPasses, Places
  <2>2. attempt \in Attempts /\ attempt # Idle
    BY <2>1, Attempting
  <2>3. /\ attempt'.kind = attempt.kind /\ attempt'.date = attempt.date
        /\ attempt'.targets = attempt.targets /\ attempt'.setting = attempt.setting
        /\ attempt'.at = "record"
    BY <1>6, <2>2 DEF GuardPasses, Goto, Attempts
  <2> QED BY <1>6, <2>2, <2>3 DEF GuardPasses, history, SettingsInv, OfRecordedSettings, Row
<1>7. CASE Record
  <2>1. attempt.at = "record" /\ attempt.at \in Places
    BY <1>7 DEF Record, Places
  <2>2. PICK k \in Kinds, d \in Dates, s \in Settings :
          k = attempt.kind /\ d = attempt.date /\ s = attempt.setting
    BY <2>1, Attempting
  <2>3. attempt \in Attempts /\ attempt # Idle /\ run[k][d] \in Runs
    BY <2>1, <2>2, Attempting DEF Row
  <2>4. /\ attempt'.kind = k /\ attempt'.date = d
        /\ attempt'.targets = attempt.targets /\ attempt'.setting = s
    BY <1>7, <2>2, <2>3 DEF Record, Goto, Attempts
  <2>5. /\ run'[k][d].construction = s /\ run'[k][d].ranking = run[k][d].ranking
        /\ \A l \in Kinds, e \in Dates : l # k \/ e # d => run'[l][e] = run[l][e]
    <3>1. run' = [run EXCEPT ![k] = [@ EXCEPT ![d] = [run[k][d] EXCEPT !.construction = s]]]
      BY <1>7, <2>2 DEF Record, SetRun, SetRow, Row
    <3> QED BY <2>3, <3>1 DEF TypeOK, Runs
  <2>6. run[k][d].construction \in {"none", s} /\ "none" \notin Settings
    BY <2>2, <2>3, BookAssumption DEF SettingsInv, Row
  <2>7. synced' = synced
    BY <1>7 DEF Record, history
  <2>8. OfRecordedSettings(k, d)'
    <3>1. OfRecordedSettings(k, d)
      BY DEF SettingsInv
    <3>2. CASE run[k][d].construction = s
      BY <2>5, <2>7, <3>1, <3>2 DEF OfRecordedSettings
    <3>3. CASE run[k][d].construction = "none"
      <4>1. ~synced[k][d].wrote /\ run[k][d].ranking = Nothing
        BY <2>6, <3>1, <3>3 DEF OfRecordedSettings
      <4> QED BY <2>5, <2>7, <4>1 DEF OfRecordedSettings
    <3> QED BY <2>6, <3>2, <3>3
  <2>9. Of'
    BY <2>5, <2>7, <2>8 DEF SettingsInv, OfRecordedSettings
  <2> QED BY <2>2, <2>3, <2>4, <2>5, <2>9 DEF SettingsInv, Row
<1>8. ASSUME NEW k \in Kinds, NEW d \in Dates, k = attempt.kind, d = attempt.date,
             attempt.at \in Places \ {"check", "record"}
      PROVE  /\ attempt.targets \in UNION {Targets[d][s] : s \in {run[k][d].construction} \cap Settings}
             /\ run[k][d] \in Runs /\ attempt.targets \in Book
  <2>1. attempt # Idle /\ attempt.setting \in Settings /\ run[k][d] \in Runs /\ attempt.targets \in Book
    BY <1>8, Attempting DEF Row
  <2> QED BY <1>8, <2>1 DEF SettingsInv, Row
<1>9. CASE SyncPositions
  <2>1. attempt.at \in Places \ {"check", "record"} /\ attempt.at \in Places
    BY <1>9 DEF SyncPositions, Places
  <2>2. PICK k \in Kinds, d \in Dates : k = attempt.kind /\ d = attempt.date
    BY <2>1, Attempting
  <2>3. \A l \in Kinds, e \in Dates :
          synced'[l][e] = IF l = k /\ e = d THEN [wrote |-> TRUE, targets |-> attempt.targets]
                          ELSE synced[l][e]
    BY <1>9, <2>2 DEF SyncPositions, TypeOK
  <2>4. run' = run /\ Goto("rank")
    BY <1>9 DEF SyncPositions
  <2>5. ASSUME NEW l \in Kinds, NEW e \in Dates PROVE OfRecordedSettings(l, e)'
    <3>1. OfRecordedSettings(l, e)
      BY DEF SettingsInv
    <3>2. CASE l = k /\ e = d
      <4>1. synced'[l][e].targets = attempt.targets
        BY <2>3, <3>2
      <4>2. attempt.targets \in UNION {Targets[e][s] : s \in {run[l][e].construction} \cap Settings}
        BY <1>8, <2>1, <2>2, <3>2
      <4> QED BY <2>4, <3>1, <4>1, <4>2 DEF OfRecordedSettings
    <3>3. CASE ~(l = k /\ e = d)
      BY <2>3, <2>4, <3>1, <3>3 DEF OfRecordedSettings
    <3> QED BY <3>2, <3>3
  <2>6. SettingsKept
    BY <2>4 DEF SettingsKept
  <2> QED BY <2>1, <2>4, <2>5, <2>6, AttemptGoesOn
<1>10. CASE WriteRanking
  <2>1. attempt.at \in Places \ {"check", "record"} /\ attempt.at \in Places
    BY <1>10 DEF WriteRanking, Places
  <2>2. PICK k \in Kinds, d \in Dates : k = attempt.kind /\ d = attempt.date
    BY <2>1, Attempting
  <2>3. attempt \in Attempts /\ attempt # Idle /\ run[k][d] \in Runs
    BY <2>1, <2>2, Attempting DEF Row
  <2>4. /\ run'[k][d].construction = run[k][d].construction
        /\ run'[k][d].ranking = attempt.targets
        /\ \A l \in Kinds, e \in Dates : l # k \/ e # d => run'[l][e] = run[l][e]
    <3>1. run' = [run EXCEPT ![k] = [@ EXCEPT ![d] =
                     [run[k][d] EXCEPT !.ranking = attempt.targets]]]
      BY <1>10, <2>2 DEF WriteRanking, SetRun, SetRow, Row
    <3> QED BY <2>3, <3>1 DEF TypeOK, Runs
  <2>5. synced' = synced
    BY <1>10 DEF WriteRanking, history
  <2>6. ASSUME NEW l \in Kinds, NEW e \in Dates PROVE OfRecordedSettings(l, e)'
    <3>1. OfRecordedSettings(l, e)
      BY DEF SettingsInv
    <3>2. CASE l = k /\ e = d
      <4>1. attempt.targets \in UNION {Targets[e][s] : s \in {run[l][e].construction} \cap Settings}
        BY <1>8, <2>1, <2>2, <3>2
      <4> QED BY <2>4, <2>5, <3>1, <3>2, <4>1 DEF OfRecordedSettings
    <3>3. CASE ~(l = k /\ e = d)
      BY <2>4, <2>5, <3>1, <3>3 DEF OfRecordedSettings
    <3> QED BY <3>2, <3>3
  <2>7. /\ attempt'.kind = k /\ attempt'.date = d
        /\ attempt'.targets = attempt.targets /\ attempt'.setting = attempt.setting
    BY <1>10, <2>2, <2>3 DEF WriteRanking, Goto, Attempts
  <2> QED BY <2>1, <2>2, <2>3, <2>4, <2>6, <2>7 DEF SettingsInv, Row
<1>11. CASE Checkpoint
  <2>1. attempt.at \in Places \ {"check", "record"} /\ attempt.at \in Places
    BY <1>11 DEF Checkpoint, Places
  <2>2. attempt.kind \in Kinds /\ attempt.date \in Dates /\ Row \in Runs
    BY <2>1, Attempting
  <2>3. SettingsKept
    <3> DEFINE row == [Row EXCEPT !.done = TRUE]
    <3>1. row.construction = Row.construction /\ row.ranking = Row.ranking
      BY <2>2 DEF Runs
    <3>2. SetRow(attempt.kind, attempt.date, row)
      BY <1>11 DEF Checkpoint, SetRun
    <3> HIDE DEF row
    <3> QED BY <2>2, <3>1, <3>2, RowSettingsKept DEF Row
  <2> QED BY <1>11, <2>1, <2>3, AttemptGoesOn, OfSettingsKept DEF Checkpoint, history
<1>12. CASE FinishCycle
  <2>1. attempt.at \in Places
    BY <1>12 DEF FinishCycle, Places
  <2>2. SetStatus(attempt.kind, attempt.date, "completed")
    BY <1>12 DEF FinishCycle, SetRun, SetStatus, Row
  <2>3. SettingsKept
    BY <2>1, <2>2, Attempting, StatusSettingsKept
  <2> QED BY <1>2, <1>12, <2>3, OfSettingsKept DEF FinishCycle, history
<1>13. CASE Crash
  BY <1>2, <1>13 DEF Crash, history, SettingsInv, OfRecordedSettings
<1>14. ASSUME NEW d \in Dates, ResetReplayRange(d) PROVE SettingsInv'
  <2>1. "replay" \in Kinds
    BY <1>14 DEF ResetReplayRange
  <2>2. \A l \in Kinds, e \in Dates :
          /\ run'[l][e] = IF l = "replay" /\ e >= d THEN NoRun ELSE run[l][e]
          /\ synced'[l][e] = IF l = "replay" /\ e >= d THEN NoWrite ELSE synced[l][e]
    BY <1>14, <2>1 DEF ResetReplayRange, TypeOK
  <2>3. ~NoWrite.wrote /\ NoRun.ranking = Nothing
    BY DEF NoWrite, NoRun
  <2>4. ASSUME NEW l \in Kinds, NEW e \in Dates PROVE OfRecordedSettings(l, e)'
    <3>1. OfRecordedSettings(l, e)
      BY DEF SettingsInv
    <3>2. CASE l = "replay" /\ e >= d
      BY <2>2, <2>3, <3>2 DEF OfRecordedSettings
    <3>3. CASE ~(l = "replay" /\ e >= d)
      BY <2>2, <3>1, <3>3 DEF OfRecordedSettings
    <3> QED BY <3>2, <3>3
  <2> QED BY <1>2, <1>14, <2>4 DEF ResetReplayRange
<1>15. ASSUME NEW d \in Undoable, Undo(d) PROVE SettingsInv'
  <2>1. "live" \in Kinds /\ d \in Dates
    BY <1>15, BookAssumption DEF Undo
  <2>2. SettingsKept
    BY <1>15, <2>1, StatusSettingsKept DEF Undo
  <2> QED BY <1>2, <1>15, <2>2, OfSettingsKept DEF Undo
<1>16. CASE UNCHANGED vars
  BY <1>16 DEF vars, history, SettingsInv, OfRecordedSettings, Row
<1> QED BY <1>1, <1>3, <1>5, <1>6, <1>7, <1>9, <1>10, <1>11, <1>12, <1>13, <1>14, <1>15, <1>16
        DEF Next

\* A run whose positions are done and left a trace is, for ever, what the table holds
\* on its date, undos that reweight nothing and void nothing chosen by then included,
\* if no run wrote a date before an emptied one: no crash, resume, later run,
\* backdated run or --force parts the point-in-time view from the selection it
\* recorded, and no resume leaves the book of other settings.
THEOREM BookOfItsDate == Spec => []AsOfBookIsSelected
<1> DEFINE Inv == TypeOK /\ BooksInv /\ SelectedInv /\ SettingsInv
<1>1. Init => Inv
  BY InitType, InitBooks, InitSelected, InitSettings
<1>2. Inv /\ [Next]_vars => Inv'
  BY NextType, NextBooks, NextSelected, NextSettings
<1>3. Inv => AsOfBookIsSelected
  <2> SUFFICES ASSUME BooksInv, SelectedInv, NEW k \in Kinds, NEW d \in Dates,
                      run[k][d].done, Marked(book[k], d), Sound(k),
                      k = "live" => NothingUndone(k, d), NEW a \in Assets
               PROVE  HeldWeight(book[k], a, d) = run[k][d].ranking[a]
    BY DEF AsOfBookIsSelected, SettingsInv
  <2>1. NothingVoid(book[k], synced[k], d)
    <3>1. CASE k = "live"
      BY <3>1 DEF NothingUndone, NothingVoid
    <3>2. CASE k # "live"
      <4>1. \A f \in Dates : f <= LastDate
        BY DateFacts
      <4> QED BY <3>2, <4>1 DEF BooksInv, NothingVoid
    <3> QED BY <3>1, <3>2
  <2>2. synced[k][d].wrote /\ run[k][d].ranking = synced[k][d].targets
    BY DEF SelectedInv, Recorded
  <2> QED BY <2>1, <2>2 DEF BooksInv, BookOK, ReadsAsWritten
<1> HIDE DEF Inv
<1> QED BY <1>1, <1>2, <1>3, PTL DEF Spec

-----------------------------------------------------------------------------
(* Recursion and induction over dates *)

Upto == 0..LastDate

LEMMA UptoFacts ==
    /\ 0 \in Upto /\ LastDate \in Upto /\ Dates \subseteq Upto /\ 0 \notin Dates
    /\ \A n \in Upto : n # 0 => n \in Dates
    /\ \A d \in Dates : d - 1 \in Upto /\ d - 1 \in Nat /\ d - 1 < d /\ d - 1 # d
BY BookAssumption, SMT DEF Dates, Upto

\* Induction: what holds before every date and passes from date to date.
LEMMA DatesInduction ==
    ASSUME NEW S, 0 \in S, \A d \in Dates : d - 1 \in S => d \in S
    PROVE  Upto \subseteq S
<1> DEFINE T == Upto \ S
<1> SUFFICES ASSUME T # {} PROVE FALSE
  OBVIOUS
<1>1. T \subseteq Nat
  BY DateFacts DEF Upto
<1>2. PICK n \in T : \A m \in T : ~(<<m, n>> \in OpToRel(<, Nat))
  BY <1>1, WFMin, NatLessThanWellFounded
<1>3. n \in Dates /\ n \in Nat
  BY <1>1, UptoFacts
<1>4. <<n - 1, n>> \in OpToRel(<, Nat)
  BY <1>3, UptoFacts DEF OpToRel
<1>5. n - 1 \in S
  BY <1>2, <1>3, <1>4, UptoFacts
<1> QED BY <1>2, <1>3, <1>5

\* g begins with base and takes the step F of each date.
TakesSteps(g, base, F) ==
    g[0] = base /\ \A d \in Dates : g[d] = F[<<g[d - 1], d>>]

\* A step F on the values V and a value to begin with define one value per date.
LEMMA StepsDefine ==
    ASSUME NEW V, NEW base \in V, NEW F \in [V \X Dates -> V]
    PROVE  \E g \in [Upto -> V] : TakesSteps(g, base, F)
<1> DEFINE Defines(g, n) == /\ g \in [0..n -> V] /\ g[0] = base
                            /\ \A d \in Dates : d <= n => g[d] = F[<<g[d - 1], d>>]
           S == {n \in Upto : \E g : Defines(g, n)}
<1>1. 0 \in S
  <2> DEFINE g == [d \in 0..0 |-> base]
  <2>1. Defines(g, 0)
    BY DateFacts, SMT DEF Dates
  <2> QED BY <2>1, UptoFacts
<1>2. ASSUME NEW d \in Dates, d - 1 \in S
      PROVE  d \in S
  <2>1. PICK g : Defines(g, d - 1)
    BY <1>2
  <2>2. d \in Nat /\ d - 1 \in Nat /\ d \in Upto
    BY DateFacts, UptoFacts
  <2> DEFINE h == [e \in 0..d |-> IF e = d THEN F[<<g[d - 1], d>>] ELSE g[e]]
  <2>3. g[d - 1] \in V
    BY <2>1, <2>2
  <2>4. F[<<g[d - 1], d>>] \in V
    BY <2>3
  <2>5. h \in [0..d -> V] /\ h[0] = base
    <3>1. \A e \in 0..d : e # d => e \in 0..(d - 1)
      BY <2>2
    <3>2. 0 \in 0..d /\ 0 # d
      BY <2>2, UptoFacts
    <3> QED BY <2>1, <2>4, <3>1, <3>2
  <2>6. ASSUME NEW e \in Dates, e <= d
        PROVE  h[e] = F[<<h[e - 1], e>>]
    <3>1. e \in 0..d /\ e - 1 \in 0..d /\ e - 1 # d /\ (e # d => e <= d - 1)
      BY <2>2, <2>6, SMT DEF Dates
    <3>2. h[e - 1] = g[e - 1]
      BY <3>1
    <3>3. CASE e = d
      BY <3>1, <3>2, <3>3
    <3>4. CASE e # d
      <4>1. h[e] = g[e]
        BY <3>1, <3>4
      <4>2. g[e] = F[<<g[e - 1], e>>]
        BY <2>1, <3>1, <3>4
      <4> QED BY <3>2, <4>1, <4>2
    <3> QED BY <3>3, <3>4
  <2>7. Defines(h, d)
    BY <2>5, <2>6
  <2> QED BY <2>2, <2>7
<1>3. LastDate \in S
  <2>1. Upto \subseteq S
    <3> HIDE DEF S
    <3> QED BY <1>1, <1>2, DatesInduction
  <2> QED BY <2>1, UptoFacts
<1>4. PICK g : Defines(g, LastDate)
  BY <1>3
<1> QED BY <1>4, DateFacts DEF Upto, TakesSteps

-----------------------------------------------------------------------------
(* The replay book is what one clean backfill would have written *)

\* Rebuilt, of any ledger.
RebuiltBy(w) ==
    LET upTo[n \in 0..LastDate] ==
          IF n = 0 THEN [a \in Assets |-> [f \in Dates |-> NoStint]]
          ELSE IF w[n].wrote THEN Sync(upTo[n - 1], n, w[n].targets)
          ELSE upTo[n - 1]
    IN  upTo

EmptyTable == [a \in Assets |-> [f \in Dates |-> NoStint]]

\* One date of it.
RebuiltNext(w, b, n) == IF w[n].wrote THEN Sync(b, n, w[n].targets) ELSE b

\* The recursion has a solution: it starts from an empty table and goes on date by
\* date.
LEMMA RebuiltSteps ==
    ASSUME NEW w \in Ledgers
    PROVE  LET R == RebuiltBy(w)
           IN  /\ R \in [Upto -> Rows] /\ R[0] = EmptyTable
               /\ \A d \in Dates : R[d] = RebuiltNext(w, R[d - 1], d)
<1> DEFINE F == [p \in Rows \X Dates |-> RebuiltNext(w, p[1], p[2])]
           Body(h) == [n \in 0..LastDate |->
                         IF n = 0 THEN [a \in Assets |-> [f \in Dates |-> NoStint]]
                         ELSE IF w[n].wrote THEN Sync(h[n - 1], n, w[n].targets)
                         ELSE h[n - 1]]
<1>1. EmptyTable \in Rows
  BY NoStintType DEF EmptyTable, Rows
<1>2. ASSUME NEW b \in Rows, NEW d \in Dates
      PROVE  RebuiltNext(w, b, d) \in Rows
  <2>1. w[d].targets \in Book
    BY DEF Ledgers, Writes
  <2> QED BY <2>1, SyncType DEF RebuiltNext
<1>3. F \in [Rows \X Dates -> Rows]
  BY <1>2
<1>4. PICK g \in [Upto -> Rows] : TakesSteps(g, EmptyTable, F)
  <2> HIDE DEF F
  <2> QED BY <1>1, <1>3, StepsDefine
<1>5. ASSUME NEW n \in Upto, n # 0
      PROVE  g[n] = RebuiltNext(w, g[n - 1], n)
  <2>1. n \in Dates /\ n - 1 \in Upto
    BY <1>5, UptoFacts
  <2> QED BY <1>4, <2>1 DEF TakesSteps
<1>6. g = Body(g)
  <2>1. \A n \in Upto : g[n] = Body(g)[n]
    BY <1>4, <1>5 DEF RebuiltNext, TakesSteps, EmptyTable, Upto
  <2> QED BY <1>4, <2>1 DEF Upto
<1>7. RebuiltBy(w) = CHOOSE h : h = Body(h)
  BY DEF RebuiltBy
<1> HIDE DEF Body
<1>8. RebuiltBy(w) = Body(RebuiltBy(w))
  BY <1>6, <1>7
<1>9. ASSUME NEW R, R = Body(R)
      PROVE  /\ R \in [Upto -> Rows] /\ R[0] = EmptyTable
             /\ \A d \in Dates : R[d] = RebuiltNext(w, R[d - 1], d)
  <2>1. R[0] = EmptyTable
    BY <1>9, UptoFacts DEF Body, EmptyTable, Upto
  <2>2. \A d \in Dates : R[d] = RebuiltNext(w, R[d - 1], d)
    <3> SUFFICES ASSUME NEW d \in Dates PROVE R[d] = RebuiltNext(w, R[d - 1], d)
      OBVIOUS
    <3>1. d \in 0..LastDate /\ d # 0
      BY UptoFacts DEF Upto
    <3>2. Body(R)[d] = IF w[d].wrote THEN Sync(R[d - 1], d, w[d].targets) ELSE R[d - 1]
      BY <3>1 DEF Body
    <3> QED BY <1>9, <3>2 DEF RebuiltNext
  <2>3. \A n \in Upto : R[n] \in Rows
    <3> DEFINE S == {n \in Upto : R[n] \in Rows}
    <3>1. 0 \in S
      BY <1>1, <2>1, UptoFacts
    <3>2. \A d \in Dates : d - 1 \in S => d \in S
      BY <1>2, <2>2, UptoFacts
    <3> HIDE DEF S
    <3>3. Upto \subseteq S
      BY <3>1, <3>2, DatesInduction
    <3> QED BY <3>3 DEF S
  <2>4. R = [n \in Upto |-> R[n]]
    BY <1>9 DEF Body, Upto
  <2> QED BY <2>1, <2>2, <2>3, <2>4
<1> QED BY <1>8, <1>9

\* The latest of the dates up to n that were written, if any was.
NoneBy(w, n) == \A q \in Dates : q <= n => ~w[q].wrote
IsLast(w, p, n) == /\ w[p].wrote /\ p <= n
                   /\ \A q \in Dates : p < q /\ q <= n => ~w[q].wrote

LEMMA LastOrNone ==
    ASSUME NEW w \in Ledgers, NEW n \in Upto
    PROVE  NoneBy(w, n) \/ \E p \in Dates : IsLast(w, p, n)
<1> DEFINE S == {m \in Upto : NoneBy(w, m) \/ \E p \in Dates : IsLast(w, p, m)}
<1>1. 0 \in S
  <2>1. NoneBy(w, 0)
    BY DateFacts, SMT DEF NoneBy
  <2> QED BY <2>1, UptoFacts
<1>2. ASSUME NEW d \in Dates, d - 1 \in S PROVE d \in S
  <2>0. d \in Nat /\ \A q \in Dates : q \in Nat
    BY DateFacts
  <2>1. CASE w[d].wrote
    <3>1. IsLast(w, d, d)
      BY <2>0, <2>1, SMT DEF IsLast
    <3> QED BY <3>1, UptoFacts
  <2>2. CASE ~w[d].wrote
    <3>1. \A q \in Dates : q <= d => q = d \/ q <= d - 1
      BY <2>0, SMT
    <3>2. CASE NoneBy(w, d - 1)
      <4>1. NoneBy(w, d)
        BY <2>2, <3>1, <3>2 DEF NoneBy
      <4> QED BY <4>1, UptoFacts
    <3>3. ASSUME NEW p \in Dates, IsLast(w, p, d - 1) PROVE IsLast(w, p, d)
      <4>1. p <= d
        BY <2>0, <3>3, SMT DEF IsLast
      <4> QED BY <2>2, <3>1, <3>3, <4>1 DEF IsLast
    <3> QED BY <1>2, <3>2, <3>3, UptoFacts
  <2> QED BY <2>1, <2>2
<1> HIDE DEF S
<1>3. Upto \subseteq S
  BY <1>1, <1>2, DatesInduction
<1> QED BY <1>3 DEF S

\* On e the table holds the book of the latest of the dates up to n.
HoldsLast(b, w, n, e) ==
    /\ NoneBy(w, n) => \A a \in Assets : HeldWeight(b, a, e) = 0
    /\ \A p \in Dates : IsLast(w, p, n) =>
         \A a \in Assets : HeldWeight(b, a, e) = w[p].targets[a]

\* Rows start and end only on dates that were written: between two of them the
\* table reads as on the first.
LEMMA TableHoldsLast ==
    ASSUME NEW b \in Rows, NEW w \in Ledgers, BookOK(b, w, Dates),
           NothingVoid(b, w, LastDate),
           \A d \in Dates : w[d].wrote => Marked(b, d),
           NEW e \in Dates
    PROVE  HoldsLast(b, w, e, e)
<1>1. \A a \in Assets, f \in Dates : Exists(b, a, f) => w[f].wrote
  BY DEF BookOK, RowsWritten
<1>2. ASSUME NoneBy(w, e), NEW a \in Assets PROVE HeldWeight(b, a, e) = 0
  <2>1. {f \in Dates : Covers(b, a, f, e)} = {}
    BY <1>1, <1>2 DEF Covers, NoneBy
  <2> QED BY <2>1 DEF HeldWeight, Held, NoStint
<1>3. ASSUME NEW p \in Dates, IsLast(w, p, e), NEW a \in Assets
      PROVE  HeldWeight(b, a, e) = w[p].targets[a]
  <2>1. ASSUME NEW f \in Dates PROVE Covers(b, a, f, e) <=> Covers(b, a, f, p)
    <3> SUFFICES ASSUME Exists(b, a, f) PROVE Covers(b, a, f, e) <=> Covers(b, a, f, p)
      BY DEF Covers
    <3>1. /\ p <= e /\ (f <= e => f <= p)
          /\ p \in Nat /\ e \in Nat /\ f \in Nat /\ p < Open /\ e < Open /\ Open \in Nat
      BY <1>1, <1>3, DateFacts, SMT DEF IsLast
    <3>2. CASE IsOpen(b, a, f)
      BY <3>1, <3>2, SMT DEF Covers, IsOpen
    <3>3. CASE ~IsOpen(b, a, f)
      <4> DEFINE to == b[a][f].to
      <4>1. to \in Dates
        BY <3>3, RowEnds
      <4>2. w[to].wrote /\ to \in Nat
        BY <3>3, <4>1, DateFacts DEF BookOK, RowsWritten
      <4>3. ~(p < to /\ to <= e)
        BY <1>3, <4>1, <4>2 DEF IsLast
      <4> HIDE DEF to
      <4>4. e < to <=> p < to
        BY <3>1, <4>2, <4>3, SMT
      <4>5. f <= e <=> f <= p
        BY <3>1, SMT
      <4> QED BY <4>4, <4>5 DEF Covers, to
    <3> QED BY <3>2, <3>3
  <2>2. Held(b, a, e) = Held(b, a, p)
    <3>1. {f \in Dates : Covers(b, a, f, e)} = {f \in Dates : Covers(b, a, f, p)}
      BY <2>1
    <3> DEFINE stint(rows) == IF rows = {} THEN NoStint ELSE b[a][CHOOSE f \in rows : TRUE]
               held(rows)  == [weight |-> stint(rows).weight, cost |-> stint(rows).cost]
    <3>2. /\ Held(b, a, e) = held({f \in Dates : Covers(b, a, f, e)})
          /\ Held(b, a, p) = held({f \in Dates : Covers(b, a, f, p)})
      BY DEF Held
    <3> HIDE DEF held
    <3> QED BY <3>1, <3>2
  <2>3. NothingVoid(b, w, p)
    BY DateFacts DEF NothingVoid
  <2>4. HeldWeight(b, a, p) = w[p].targets[a]
    BY <1>3, <2>3 DEF BookOK, ReadsAsWritten, IsLast
  <2> QED BY <2>2, <2>4 DEF HeldWeight
<1> QED BY <1>2, <1>3 DEF HoldsLast

Least(e, n) == IF e < n THEN e ELSE n

\* What the clean backfill has written up to n.
LEMMA RebuiltHoldsLast ==
    ASSUME NEW w \in Ledgers, NEW e \in Dates
    PROVE  HoldsLast(RebuiltBy(w)[LastDate], w, e, e)
<1> DEFINE R == RebuiltBy(w)
           Reads(n) == \A x \in Dates : HoldsLast(R[n], w, Least(x, n), x)
           S == {n \in Upto : /\ InOrder(R[n]) /\ StartsBy(R[n], n) /\ EndsBy(R[n], n)
                              /\ Reads(n)}
<1>0. /\ R \in [Upto -> Rows] /\ R[0] = EmptyTable
      /\ \A d \in Dates : R[d] = RebuiltNext(w, R[d - 1], d)
  BY RebuiltSteps
<1> HIDE DEF R
<1>1. 0 \in S
  <2>1. \A a \in Assets, f \in Dates : ~Exists(R[0], a, f)
    BY <1>0 DEF Exists, EmptyTable, NoStint
  <2>2. InOrder(R[0]) /\ StartsBy(R[0], 0) /\ EndsBy(R[0], 0)
    BY <2>1 DEF InOrder, StartsBy, EndsBy
  <2>3. ASSUME NEW x \in Dates PROVE HoldsLast(R[0], w, Least(x, 0), x)
    <3>1. Least(x, 0) = 0 /\ \A p \in Dates : ~(p <= 0)
      BY DateFacts, SMT DEF Least
    <3>2. \A p \in Dates : ~IsLast(w, p, 0)
      BY <3>1 DEF IsLast
    <3>3. \A a \in Assets : HeldWeight(R[0], a, x) = 0
      <4> SUFFICES ASSUME NEW a \in Assets PROVE HeldWeight(R[0], a, x) = 0
        OBVIOUS
      <4>1. {f \in Dates : Covers(R[0], a, f, x)} = {}
        BY <2>1 DEF Covers
      <4> QED BY <4>1 DEF HeldWeight, Held, NoStint
    <3> QED BY <3>1, <3>2, <3>3 DEF HoldsLast
  <2> QED BY <2>2, <2>3, UptoFacts
<1>2. ASSUME NEW d \in Dates, d - 1 \in S PROVE d \in S
  <2> DEFINE b == R[d - 1]
             c == R[d]
             t == w[d].targets
  <2>1. /\ b \in Rows /\ t \in Book /\ d \in Nat /\ d - 1 \in Nat
        /\ \A x \in Dates : x \in Nat
    BY <1>0, UptoFacts, DateFacts DEF Ledgers, Writes
  <2>2. InOrder(b) /\ StartsBy(b, d - 1) /\ EndsBy(b, d - 1) /\ Reads(d - 1)
    BY <1>2
  <2>3. \A a \in Assets, f \in Dates : Exists(b, a, f) => f <= d /\ f # d
    <3>1. \A f \in Dates : f <= d - 1 => f <= d /\ f # d
      BY <2>1, SMT
    <3> QED BY <2>2, <3>1 DEF StartsBy
  <2>4. StartsBy(b, d) /\ EndsBy(b, d)
    <3>1. \A f \in Dates : f <= d - 1 => f <= d
      BY <2>1, SMT
    <3> QED BY <2>2, <2>3, <3>1 DEF StartsBy, EndsBy
  <2>5. ASSUME NEW x \in Dates
        PROVE  /\ x < d => Least(x, d) = x /\ Least(x, d - 1) = x
               /\ ~(x < d) => d <= x /\ Least(x, d) = d /\ Least(x, d - 1) = d - 1
    BY <2>1, SMT DEF Least
  <2> HIDE DEF S
  <2>6. CASE w[d].wrote
    <3>1. c = Sync(b, d, t)
      BY <1>0, <2>6 DEF RebuiltNext
    <3>2. ~Collides(b, d, t)
      BY <2>3 DEF Collides
    <3> HIDE DEF b, c, t
    <3>3. StartsBy(c, d)
      <4>1. d <= d
        BY <2>1
      <4>2. \A a \in Assets, f \in Dates : Exists(c, a, f) => Exists(b, a, f) \/ f = d
        BY <2>1, <2>2, <3>1, <3>2, SyncRow DEF SyncedRow
      <4> QED BY <2>3, <4>1, <4>2 DEF StartsBy
    <3>4. InOrder(c) /\ EndsBy(c, d)
      BY <2>1, <2>2, <2>4, <3>1, <3>2, SyncInOrder, SyncEndsBy
    <3>5. ASSUME NEW x \in Dates PROVE HoldsLast(c, w, Least(x, d), x)
      <4>1. CASE x < d
        <5>1. \A a \in Assets : Held(c, a, x) = Held(b, a, x)
          BY <2>1, <3>1, <4>1, SyncReadsBefore
        <5>2. HoldsLast(b, w, x, x)
          BY <2>2, <2>5, <4>1 DEF b
        <5>3. HoldsLast(c, w, x, x)
          BY <5>1, <5>2 DEF HoldsLast, HeldWeight
        <5> QED BY <2>5, <4>1, <5>3
      <4>2. CASE ~(x < d)
        <5>1. \A a \in Assets : HeldWeight(c, a, x) = t[a]
          BY <2>1, <2>2, <2>4, <2>5, <3>1, <3>2, <4>2, SyncHolds
        <5>2. ~NoneBy(w, d)
          BY <2>1, <2>6 DEF NoneBy
        <5>3. ASSUME NEW p \in Dates, IsLast(w, p, d) PROVE p = d
          <6>1. ~(p < d /\ d <= d) /\ p <= d
            BY <2>6, <5>3 DEF IsLast
          <6> QED BY <2>1, <6>1, SMT
        <5>4. HoldsLast(c, w, d, x)
          BY <5>1, <5>2, <5>3 DEF HoldsLast, t
        <5> QED BY <2>5, <4>2, <5>4
      <4> QED BY <4>1, <4>2
    <3> QED BY <3>3, <3>4, <3>5, UptoFacts DEF S, c
  <2>7. CASE ~w[d].wrote
    <3>1. c = b
      BY <1>0, <2>7 DEF RebuiltNext
    <3> HIDE DEF b, c, t
    <3>2. ASSUME NEW x \in Dates PROVE HoldsLast(b, w, Least(x, d), x)
      <4>1. HoldsLast(b, w, Least(x, d - 1), x)
        BY <2>2 DEF b
      <4>2. CASE x < d
        BY <2>5, <4>1, <4>2
      <4>3. CASE ~(x < d)
        <5>1. \A q \in Dates : q <= d => q = d \/ q <= d - 1
          BY <2>1, SMT
        <5>2. \A q \in Dates : q <= d - 1 => q <= d
          BY <2>1, SMT
        <5>3. NoneBy(w, d) => NoneBy(w, d - 1)
          BY <5>2 DEF NoneBy
        <5>4. \A p \in Dates : IsLast(w, p, d) => IsLast(w, p, d - 1)
          BY <2>7, <5>1, <5>2 DEF IsLast
        <5>5. HoldsLast(b, w, d - 1, x)
          BY <2>5, <4>1, <4>3
        <5>6. HoldsLast(b, w, d, x)
          BY <5>3, <5>4, <5>5 DEF HoldsLast
        <5> QED BY <2>5, <4>3, <5>6
      <4> QED BY <4>2, <4>3
    <3> QED BY <2>2, <2>4, <3>1, <3>2, UptoFacts DEF S, c
  <2> QED BY <2>6, <2>7
<1> HIDE DEF S
<1>3. Upto \subseteq S
  BY <1>1, <1>2, DatesInduction
<1>4. LastDate \in S
  BY <1>3, UptoFacts
<1>5. Least(e, LastDate) = e
  BY DateFacts, SMT DEF Least
<1> QED BY <1>4, <1>5 DEF S, R

\* When every date that was written shows in the table and none was late, the replay
\* book weighs every asset on every date as one backfill of the same dates in order
\* would, whatever the crashes, resumes, refusals and --force before.
THEOREM ReplayIsRebuilt == Spec => []BookIsReplayOfRuns
<1>1. Init => TypeOK /\ BooksInv
  BY InitType, InitBooks
<1>2. TypeOK /\ BooksInv /\ [Next]_vars => (TypeOK /\ BooksInv)'
  BY NextType, NextBooks
<1>3. TypeOK /\ BooksInv => BookIsReplayOfRuns
  <2> SUFFICES ASSUME TypeOK, BooksInv, NEW k \in Kinds, k # "live", Sound(k),
                      \A d \in Dates : synced[k][d].wrote => Marked(book[k], d),
                      NEW a \in Assets, NEW e \in Dates
               PROVE  HeldWeight(book[k], a, e) = HeldWeight(Rebuilt(k), a, e)
    BY DEF BookIsReplayOfRuns
  <2> DEFINE b == book[k]
             w == synced[k]
  <2>1. b \in Rows /\ w \in Ledgers
    BY DEF TypeOK, Ledgers
  <2>2. BookOK(b, w, Dates) /\ NothingVoid(b, w, LastDate)
    BY DEF BooksInv, HeldOn
  <2>3. \A d \in Dates : w[d].wrote => Marked(b, d)
    OBVIOUS
  <2>4. Rebuilt(k) = RebuiltBy(w)[LastDate]
    BY DEF Rebuilt, RebuiltBy
  <2> HIDE DEF b, w
  <2>5. HoldsLast(b, w, e, e) /\ HoldsLast(RebuiltBy(w)[LastDate], w, e, e)
    BY <2>1, <2>2, <2>3, TableHoldsLast, RebuiltHoldsLast
  <2>6. NoneBy(w, e) \/ \E p \in Dates : IsLast(w, p, e)
    BY <2>1, LastOrNone, UptoFacts
  <2>7. HeldWeight(b, a, e) = HeldWeight(RebuiltBy(w)[LastDate], a, e)
    BY <2>5, <2>6 DEF HoldsLast
  <2> QED BY <2>4, <2>7 DEF b
<1> QED BY <1>1, <1>2, <1>3, PTL DEF Spec
=============================================================================

------------------------- MODULE BasingPointsProofs -------------------------
(***************************************************************************)
(* Type correctness of BasingPoints, its two invariants and that stops     *)
(* only move up, for any bars, decision dates, distances and windows.      *)
(***************************************************************************)
EXTENDS BasingPoints, FiniteSetTheorems, WellFoundedInduction, TLAPS

-----------------------------------------------------------------------------
(* What the rules do to a machine, field by field *)

Rising(m, b) == b.high > m.high

Newly(m, b) == m.high > 0 /\ b.high <= m.high /\ ~m.recognized

PeakAfter(m, b) == IF Newly(m, b) THEN m.high ELSE m.peak

Breaks(m, b) ==
    /\ rule = "bp4" /\ PeakAfter(m, b) # 0
    /\ Newly(m, b) \/ ~m.used
    /\ 100 * b.close > 103 * PeakAfter(m, b)

Opens(m, s, b) ==
    /\ ~Rising(m, b) /\ m.highAt < s /\ m.bp < s
    /\ m.cand = 0 \/ b.low < bars[m.cand].low

IsAway(m, b) == m.cand # 0 /\ b.low > bars[m.cand].high

-----------------------------------------------------------------------------
(* The inductive invariant *)

\* What a machine points at, it has taken in; a Basing Point has a level.
Bounded ==
    machine # NoMachine =>
        /\ machine.start <= machine.seen + 1
        /\ machine.cand <= machine.seen
        /\ machine.bp # machine.start => machine.bp <= machine.seen /\ machine.level > 0

\* A machine is built within the session it enters on, and one that is live took in
\* every bar but that of a session still to be looked at.
InStep ==
    /\ due => Now > 0
    /\ machine.at = "build" => due /\ machine.entry = Now /\ machine.start = WindowStart
    /\ machine.at = "live" =>
         /\ due => machine.entry < Now /\ machine.seen < Now
         /\ \A s \in 1..Now : machine.seen < s /\ Present(s) => due /\ s = Now

IInv == TypeOK /\ Bounded /\ InStep

-----------------------------------------------------------------------------
(* Lemmas about the constants and the operators *)

\* Bars are whole numbers, each low at most the close and each close at most the high.
LEMMA Constants ==
    /\ LastSession \in Nat /\ FALLBACK_SESSIONS \in Nat \ {0} /\ AWAY_DAYS \in Nat \ {0}
    /\ TRACKING_SESSIONS \in Nat
    /\ \A b \in Bars :
         /\ b.high \in Nat /\ b.low \in Nat /\ b.close \in Nat
         /\ 0 < b.low /\ b.low <= b.close /\ b.close <= b.high
BY BasingAssumption

\* A session that is present has one of the bars.
LEMMA BarOfPresent ==
    ASSUME TypeOK, NEW s \in 1..Now, Present(s)
    PROVE  /\ bars[s] \in Bars
           /\ bars[s].high \in Nat /\ bars[s].low \in Nat /\ bars[s].close \in Nat
           /\ 0 < bars[s].low /\ bars[s].low <= bars[s].close
           /\ bars[s].close <= bars[s].high
<1>1. bars[s] \in Bars \cup {NoBar}
  BY DEF TypeOK, Now
<1> QED BY <1>1, Constants DEF Present

\* A stop under a low is a natural number, not over a hundred times the low, and not
\* zero under a low that is not.
LEMMA StopUnderLow ==
    ASSUME TypeOK, NEW l \in Nat
    PROVE  /\ StopUnder(l) \in Nat
           /\ StopUnder(l) <= 100 * l
           /\ l > 0 => StopUnder(l) > 0
<1>1. PICK k \in 1..100 : k = 100 - distance
  BY DEF TypeOK
<1>2. l * k \in Nat
  BY <1>1
<1>3. l * k <= 100 * l
  BY <1>1
<1>4. l > 0 => l * k > 0
  BY <1>1
<1> QED BY <1>1, <1>2, <1>3, <1>4 DEF StopUnder

\* A set of lows that is not empty has a lowest one.
LEMMA LowestLow ==
    ASSUME NEW L \in SUBSET Nat, L # {}
    PROVE  /\ (CHOOSE l \in L : \A k \in L : l <= k) \in L
           /\ \A k \in L : (CHOOSE l \in L : \A j \in L : l <= j) <= k
<1>1. PICK l \in L : \A k \in L : ~(<<k, l>> \in OpToRel(<, Nat))
  BY WFMin, NatLessThanWellFounded
<1>2. \A k \in L : l <= k
  <2> SUFFICES ASSUME NEW k \in L PROVE l <= k
    OBVIOUS
  <2>1. ~(k < l)
    BY <1>1 DEF OpToRel
  <2> QED BY <2>1
<1> QED BY <1>2

\* Recognizing a peak and rule 4 leave the running high and all that is not theirs.
LEMMA FirstRules ==
    ASSUME NEW m \in Machines, NEW s \in Sessions, NEW b \in Bars,
           NEW n, n = Rule4(Recognize(m, b), s, b)
    PROVE  /\ n \in Machines
           /\ n.high = m.high /\ n.highAt = m.highAt /\ n.at = m.at /\ n.start = m.start
           /\ n.entry = m.entry /\ n.stop = m.stop
           /\ n.peak = PeakAfter(m, b)
           /\ n.recognized <=> m.recognized \/ Newly(m, b)
           /\ n.used <=> (m.used /\ ~Newly(m, b)) \/ Breaks(m, b)
           /\ Breaks(m, b) => n.cand = 0 /\ n.away = 0 /\ n.bp = s /\ n.level = b.low
           /\ ~Breaks(m, b) => /\ n.cand = m.cand /\ n.away = m.away
                               /\ n.bp = m.bp /\ n.level = m.level
<1> DEFINE o == Recognize(m, b)
<1>1. /\ o \in Machines
      /\ o.high = m.high /\ o.highAt = m.highAt /\ o.at = m.at /\ o.start = m.start
      /\ o.entry = m.entry /\ o.stop = m.stop
      /\ o.peak = PeakAfter(m, b)
      /\ o.recognized <=> m.recognized \/ Newly(m, b)
      /\ o.used <=> m.used /\ ~Newly(m, b)
      /\ o.cand = m.cand /\ o.away = m.away /\ o.bp = m.bp /\ o.level = m.level
  <2>1. CASE Newly(m, b)
    <3>1. o = [m EXCEPT !.peak = m.high, !.recognized = TRUE, !.used = FALSE]
      BY <2>1 DEF Recognize, Newly
    <3> QED BY <2>1, <3>1 DEF Machines, PeakAfter
  <2>2. CASE ~Newly(m, b)
    <3>1. o = m
      BY <2>2 DEF Recognize, Newly
    <3> QED BY <2>2, <3>1 DEF Machines, PeakAfter
  <2> QED BY <2>1, <2>2
<1> HIDE DEF o
<1>2. n = Rule4(o, s, b)
  BY DEF o
<1>3. CASE Breaks(m, b)
  <2> DEFINE p == Based(o, s, b.low)
  <2>1. p = [o EXCEPT !.bp = s, !.level = b.low, !.cand = 0, !.away = 0]
    BY DEF Based
  <2> HIDE DEF p
  <2>2. n = [p EXCEPT !.used = TRUE]
    BY <1>1, <1>2, <1>3 DEF Rule4, Breaks, p
  <2>3. b.low \in Nat /\ 0 \in 0..AWAY_DAYS - 1 /\ 0 \in 0..LastSession
    BY Constants
  <2> QED BY <1>1, <1>3, <2>1, <2>2, <2>3 DEF Machines
<1>4. CASE ~Breaks(m, b)
  <2>1. n = o
    BY <1>1, <1>2, <1>4 DEF Rule4, Breaks
  <2> QED BY <1>1, <1>4, <2>1
<1> QED BY <1>3, <1>4

\* The running high leaves all that is not its own.
LEMMA HighRule ==
    ASSUME NEW m \in Machines, NEW s \in Sessions, NEW b \in Bars,
           NEW n, n = RunHigh(m, s, b)
    PROVE  /\ n \in Machines
           /\ n.high = (IF Rising(m, b) THEN b.high ELSE m.high)
           /\ n.highAt = (IF Rising(m, b) THEN s ELSE m.highAt)
           /\ n.recognized <=> m.recognized /\ ~Rising(m, b)
           /\ n.at = m.at /\ n.start = m.start /\ n.entry = m.entry /\ n.stop = m.stop
           /\ n.cand = m.cand /\ n.away = m.away /\ n.bp = m.bp /\ n.level = m.level
           /\ n.peak = m.peak /\ n.used = m.used
<1>1. CASE Rising(m, b)
  <2>1. n = [m EXCEPT !.high = b.high, !.highAt = s, !.recognized = FALSE]
    BY <1>1 DEF RunHigh, Rising
  <2> QED BY <1>1, <2>1, Constants DEF Machines
<1>2. CASE ~Rising(m, b)
  <2>1. n = m
    BY <1>2 DEF RunHigh, Rising
  <2> QED BY <1>2, <2>1 DEF Machines
<1> QED BY <1>1, <1>2

\* A session the machine takes in: what it does to each field.
LEMMA Taken ==
    ASSUME TypeOK, NEW m \in Machines, NEW s \in Sessions, s \in 1..Now, Present(s),
           m.cand # 0 => m.cand \in 1..Now /\ Present(m.cand),
           NEW b, b = bars[s], NEW n, n = TakeIn(m, s)
    PROVE  /\ n \in Machines
           /\ n.at = m.at /\ n.start = m.start /\ n.entry = m.entry /\ n.stop = m.stop
           /\ n.seen = s
           /\ n.high = (IF Rising(m, b) THEN b.high ELSE m.high)
           /\ n.highAt = (IF Rising(m, b) THEN s ELSE m.highAt)
           /\ n.peak = PeakAfter(m, b)
           /\ n.recognized <=> ~Rising(m, b) /\ (m.recognized \/ Newly(m, b))
           /\ n.used <=> (m.used /\ ~Newly(m, b)) \/ Breaks(m, b)
           /\ Breaks(m, b) => n.cand = 0 /\ n.away = 0 /\ n.bp = s /\ n.level = b.low
           /\ ~Breaks(m, b) =>
                /\ Opens(m, s, b) =>
                     n.cand = s /\ n.away = 0 /\ n.bp = m.bp /\ n.level = m.level
                /\ ~Opens(m, s, b) /\ IsAway(m, b) =>
                     IF m.away + 1 >= AWAY_DAYS
                     THEN /\ n.cand = 0 /\ n.away = 0 /\ n.bp = s
                          /\ n.level = bars[m.cand].low
                     ELSE /\ n.cand = m.cand /\ n.away = m.away + 1
                          /\ n.bp = m.bp /\ n.level = m.level
                /\ ~Opens(m, s, b) /\ ~IsAway(m, b) =>
                     n.cand = m.cand /\ n.away = m.away /\ n.bp = m.bp /\ n.level = m.level
<1>1. b \in Bars
  BY BarOfPresent
<1>2. PICK o : o = Rule4(Recognize(m, b), s, b)
  OBVIOUS
<1>3. PICK p : p = RunHigh(o, s, b)
  OBVIOUS
<1>4. PICK q : q = Rule3(p, s, b)
  OBVIOUS
<1>5. n = [q EXCEPT !.seen = s]
  BY <1>2, <1>3, <1>4 DEF TakeIn
<1>6. /\ o \in Machines
      /\ o.high = m.high /\ o.highAt = m.highAt /\ o.at = m.at /\ o.start = m.start
      /\ o.entry = m.entry /\ o.stop = m.stop
      /\ o.peak = PeakAfter(m, b)
      /\ o.recognized <=> m.recognized \/ Newly(m, b)
      /\ o.used <=> (m.used /\ ~Newly(m, b)) \/ Breaks(m, b)
      /\ Breaks(m, b) => o.cand = 0 /\ o.away = 0 /\ o.bp = s /\ o.level = b.low
      /\ ~Breaks(m, b) => /\ o.cand = m.cand /\ o.away = m.away
                          /\ o.bp = m.bp /\ o.level = m.level
  BY <1>1, <1>2, FirstRules
<1>7. Rising(o, b) <=> Rising(m, b)
  BY <1>6 DEF Rising
<1>8. /\ p \in Machines
      /\ p.high = (IF Rising(m, b) THEN b.high ELSE m.high)
      /\ p.highAt = (IF Rising(m, b) THEN s ELSE m.highAt)
      /\ p.recognized <=> o.recognized /\ ~Rising(m, b)
      /\ p.at = m.at /\ p.start = m.start /\ p.entry = m.entry /\ p.stop = m.stop
      /\ p.cand = o.cand /\ p.away = o.away /\ p.bp = o.bp /\ p.level = o.level
      /\ p.peak = PeakAfter(m, b) /\ p.used = o.used
  BY <1>1, <1>3, <1>6, <1>7, HighRule
<1>9. /\ m.cand # 0 => bars[m.cand].low \in Nat
      /\ s \in 0..LastSession /\ 0 \in 0..LastSession /\ 0 \in 0..AWAY_DAYS - 1
      /\ s \in Int /\ m.bp \in Int /\ m.away \in Nat /\ m.cand \in Nat
  BY BarOfPresent, Constants DEF Machines, Sessions
<1>10. CASE Breaks(m, b)
  <2>1. q = p
    BY <1>4, <1>6, <1>8, <1>9, <1>10 DEF Rule3
  <2> QED BY <1>5, <1>6, <1>8, <1>9, <1>10, <2>1 DEF Machines
<1>11. CASE ~Breaks(m, b) /\ Opens(m, s, b)
  <2>1. q = [p EXCEPT !.cand = s, !.away = 0]
    BY <1>4, <1>6, <1>8, <1>11 DEF Rule3, Opens
  <2> QED BY <1>5, <1>6, <1>8, <1>9, <1>11, <2>1 DEF Machines
<1>12. ~Breaks(m, b) /\ ~Opens(m, s, b) =>
         ~(p.highAt < s /\ p.bp < s /\ (p.cand = 0 \/ b.low < bars[p.cand].low))
  BY <1>6, <1>8, <1>9 DEF Opens
<1>13. CASE ~Breaks(m, b) /\ ~Opens(m, s, b) /\ IsAway(m, b)
  <2>1. q = IF m.away + 1 >= AWAY_DAYS THEN Based(p, s, bars[m.cand].low)
            ELSE [p EXCEPT !.away = @ + 1]
    BY <1>4, <1>6, <1>8, <1>12, <1>13 DEF Rule3, IsAway
  <2>2. CASE m.away + 1 >= AWAY_DAYS
    <3>1. q = [p EXCEPT !.bp = s, !.level = bars[m.cand].low, !.cand = 0, !.away = 0]
      BY <2>1, <2>2 DEF Based
    <3>2. bars[m.cand].low \in Nat
      BY <1>9, <1>13 DEF IsAway
    <3>3. /\ n \in Machines /\ n.seen = s
          /\ n.at = p.at /\ n.start = p.start /\ n.entry = p.entry /\ n.stop = p.stop
          /\ n.high = p.high /\ n.highAt = p.highAt /\ n.peak = p.peak
          /\ n.recognized = p.recognized /\ n.used = p.used
          /\ n.cand = 0 /\ n.away = 0 /\ n.bp = s /\ n.level = bars[m.cand].low
      BY <1>5, <1>8, <1>9, <3>1, <3>2 DEF Machines
    <3> QED BY <1>6, <1>8, <1>13, <2>2, <3>3
  <2>3. CASE ~(m.away + 1 >= AWAY_DAYS)
    <3>1. p.away = m.away /\ q = [p EXCEPT !.away = m.away + 1]
      BY <1>6, <1>8, <1>13, <2>1, <2>3
    <3>2. m.away + 1 \in 0..AWAY_DAYS - 1
      BY <1>9, <2>3, Constants
    <3>3. /\ n \in Machines /\ n.seen = s
          /\ n.at = p.at /\ n.start = p.start /\ n.entry = p.entry /\ n.stop = p.stop
          /\ n.high = p.high /\ n.highAt = p.highAt /\ n.peak = p.peak
          /\ n.recognized = p.recognized /\ n.used = p.used
          /\ n.cand = m.cand /\ n.away = m.away + 1 /\ n.bp = m.bp /\ n.level = m.level
      <4>1. p.cand = m.cand /\ p.bp = m.bp /\ p.level = m.level
        BY <1>6, <1>8, <1>13
      <4> QED BY <1>5, <1>8, <1>9, <3>1, <3>2, <4>1 DEF Machines
    <3> QED BY <1>6, <1>8, <1>13, <2>3, <3>3
  <2> QED BY <2>2, <2>3
<1>14. CASE ~Breaks(m, b) /\ ~Opens(m, s, b) /\ ~IsAway(m, b)
  <2>1. q = p
    BY <1>4, <1>6, <1>8, <1>12, <1>14 DEF Rule3, IsAway
  <2> QED BY <1>5, <1>6, <1>8, <1>9, <1>14, <2>1 DEF Machines
<1> QED BY <1>10, <1>11, <1>13, <1>14

-----------------------------------------------------------------------------
(* The inductive invariant is one *)

\* A machine that is anywhere is a typed one.
LEMMA SomeMachine ==
    /\ \A m \in Machines : m # NoMachine /\ m.at \in {"build", "live", "out"}
    /\ NoMachine.at = "none"
    /\ TypeOK /\ machine.at # "none" => machine \in Machines /\ machine # NoMachine
BY DEF Machines, NoMachine, TypeOK

\* A window starts within the sessions there are.
LEMMA Window ==
    ASSUME TypeOK, Now > 0
    PROVE  WindowStart \in Sessions /\ WindowStart \in 1..Now /\ Now \in Sessions
BY Constants DEF TypeOK, WindowStart, Now, Sessions

\* Nothing has happened.
LEMMA InvInit == Init => IInv
<1> SUFFICES ASSUME Init PROVE IInv
  OBVIOUS
<1>1. bars = <<>> /\ Now = 0 /\ bars \in Seq(Bars \cup {NoBar})
  BY DEF Init, Now
<1>2. TypeOK
  <2>1. Now <= LastSession /\ distance \in 0..99 /\ rule \in Rules
    BY <1>1, Constants DEF Init
  <2>2. held \in BOOLEAN /\ due \in BOOLEAN /\ machine = NoMachine
    BY DEF Init
  <2> QED BY <1>1, <2>1, <2>2 DEF TypeOK
<1>3. machine.at = "none" /\ machine = NoMachine /\ ~due
  BY DEF Init, NoMachine
<1> QED BY <1>1, <1>2, <1>3 DEF IInv, Bounded, InStep

\* A session that closes leaves the bars before it where they are.
LEMMA Closed ==
    ASSUME TypeOK, NEW b \in Bars \cup {NoBar}, NEW r \in BOOLEAN, Close(b, r)
    PROVE  /\ bars' \in Seq(Bars \cup {NoBar}) /\ Now' = Now + 1 /\ Now' <= LastSession
           /\ \A s \in 1..Now : bars'[s] = bars[s]
           /\ Now \in Nat
BY Constants DEF TypeOK, Close, Now

\* A new machine.
LEMMA BlankTyped ==
    ASSUME TypeOK, Now > 0
    PROVE  Blank \in Machines
BY Window, Constants DEF Blank, Machines, Sessions

\* A session taken in keeps what the machine points at.
LEMMA TakenBounded ==
    ASSUME IInv, machine \in Machines, NEW s \in 1..Now, machine.seen < s, Present(s),
           NEW n, n = TakeIn(machine, s)
    PROVE  /\ n \in Machines /\ n.seen = s
           /\ n.at = machine.at /\ n.entry = machine.entry /\ n.start = machine.start
           /\ n.stop = machine.stop
           /\ n.start <= n.seen + 1 /\ n.cand <= n.seen
           /\ n.cand # 0 => n.cand \in 1..Now /\ Present(n.cand)
           /\ n.bp # n.start => n.bp <= n.seen /\ n.level > 0
<1>1. /\ machine # NoMachine /\ machine.seen \in Nat /\ machine.cand \in Nat
      /\ machine.start \in Nat /\ machine.bp \in Nat /\ Now \in Nat /\ s \in Sessions
  <2>1. Now \in Nat /\ Now <= LastSession /\ LastSession \in Nat
    BY Constants DEF IInv, TypeOK, Now
  <2> QED BY <2>1, SomeMachine DEF Machines, Sessions
<1>2. machine.cand # 0 => machine.cand \in 1..Now /\ Present(machine.cand)
  BY <1>1 DEF IInv, TypeOK, Bounded
<1>3. /\ bars[s].low > 0
      /\ machine.cand # 0 => bars[machine.cand].low > 0
  BY <1>2, BarOfPresent DEF IInv
<1>4. PICK b : b = bars[s]
  OBVIOUS
<1>5. TypeOK
  BY DEF IInv
<1>6. /\ machine.start <= machine.seen + 1 /\ machine.cand <= machine.seen
      /\ machine.bp # machine.start => machine.bp <= machine.seen /\ machine.level > 0
  BY <1>1 DEF IInv, Bounded
<1>7. /\ n \in Machines
      /\ n.at = machine.at /\ n.start = machine.start /\ n.entry = machine.entry
      /\ n.stop = machine.stop /\ n.seen = s
  BY <1>1, <1>2, <1>4, <1>5, Taken
<1>8. Breaks(machine, b) =>
        n.cand = 0 /\ n.away = 0 /\ n.bp = s /\ n.level = b.low
  BY <1>1, <1>2, <1>4, <1>5, Taken
<1>9. ~Breaks(machine, b) =>
        /\ Opens(machine, s, b) => n.cand = s /\ n.bp = machine.bp /\ n.level = machine.level
        /\ ~Opens(machine, s, b) /\ IsAway(machine, b) =>
             \/ n.cand = 0 /\ n.bp = s /\ n.level = bars[machine.cand].low
             \/ n.cand = machine.cand /\ n.bp = machine.bp /\ n.level = machine.level
        /\ ~Opens(machine, s, b) /\ ~IsAway(machine, b) =>
             n.cand = machine.cand /\ n.bp = machine.bp /\ n.level = machine.level
  BY <1>1, <1>2, <1>4, <1>5, Taken
<1>10. \/ n.cand = 0 /\ n.bp = s /\ n.level > 0
       \/ /\ n.cand = s \/ n.cand = machine.cand
          /\ n.bp = machine.bp /\ n.level = machine.level
  BY <1>3, <1>4, <1>8, <1>9 DEF IsAway
<1> QED BY <1>1, <1>2, <1>6, <1>7, <1>10

\* A session closes on a machine that is waiting for it.
LEMMA InvClose ==
    ASSUME IInv, NEW b \in Bars \cup {NoBar}, NEW r \in BOOLEAN, Close(b, r)
    PROVE  IInv'
<1>1. TypeOK
  BY DEF IInv
<1>2. /\ bars' \in Seq(Bars \cup {NoBar}) /\ Now' = Now + 1 /\ Now' <= LastSession
      /\ \A s \in 1..Now : bars'[s] = bars[s]
      /\ Now \in Nat
  BY <1>1, Closed
<1>3. machine' = machine /\ due' = TRUE /\ rule' = rule /\ ~due
  BY DEF Close
<1>4. held' \in BOOLEAN /\ distance' \in 0..99
  BY <1>1, BasingAssumption DEF Close, TypeOK
<1>5. machine # NoMachine =>
        /\ machine \in Machines
        /\ machine.seen \in Nat /\ machine.cand \in Nat /\ machine.entry \in Nat
        /\ machine.seen <= Now /\ machine.cand <= machine.seen
        /\ machine.entry <= Now /\ machine.start <= machine.entry
        /\ machine.cand # 0 => Present(machine.cand)
  BY <1>1 DEF IInv, TypeOK, Bounded, Machines, Sessions
<1>6. machine # NoMachine /\ machine.cand # 0 => Present(machine.cand)'
  BY <1>2, <1>3, <1>5 DEF Present
<1>7. TypeOK'
  BY <1>1, <1>2, <1>3, <1>4, <1>5, <1>6 DEF TypeOK
<1>8. Bounded'
  BY <1>3 DEF IInv, Bounded
<1>9. InStep'
  <2>1. machine.at # "build"
    BY <1>3 DEF IInv, InStep
  <2>2. ASSUME machine.at = "live"
        PROVE  /\ machine.entry < Now' /\ machine.seen < Now'
               /\ \A s \in 1..Now' : machine.seen < s /\ Present(s)' => s = Now'
    <3>1. machine # NoMachine
      BY <2>2, SomeMachine
    <3>2. \A s \in 1..Now : machine.seen < s => ~Present(s)
      BY <1>3, <2>2 DEF IInv, InStep
    <3> QED BY <1>2, <1>5, <3>1, <3>2 DEF Present
  <2> QED BY <1>2, <1>3, <2>1, <2>2 DEF InStep
<1> QED BY <1>7, <1>8, <1>9 DEF IInv

\* A machine is begun, anew or for the first time.
LEMMA InvBlank ==
    ASSUME IInv, due, machine' = Blank, UNCHANGED <<bars, held, distance, rule, due>>
    PROVE  IInv'
<1>1. TypeOK /\ Now > 0 /\ Now' = Now /\ WindowStart' = WindowStart
  BY DEF IInv, InStep, Now, WindowStart
<1>2. Blank \in Machines /\ WindowStart \in 1..Now /\ Now \in Nat
  BY <1>1, BlankTyped, Window DEF Sessions
<1>3. /\ machine' \in Machines /\ machine'.at = "build"
      /\ machine'.seen = WindowStart - 1 /\ machine'.entry = Now
      /\ machine'.start = WindowStart /\ machine'.cand = 0 /\ machine'.bp = WindowStart
  BY <1>2 DEF Blank
<1>4. TypeOK'
  BY <1>1, <1>2, <1>3 DEF TypeOK
<1>5. Bounded'
  BY <1>2, <1>3 DEF Bounded
<1>6. InStep'
  BY <1>1, <1>3 DEF InStep
<1> QED BY <1>4, <1>5, <1>6 DEF IInv

\* A session that the overlay has looked at, and left the machine or dropped it.
LEMMA InvLooked ==
    ASSUME IInv, due, Evaluated, machine' = machine \/ machine' = NoMachine,
           machine' = machine =>
             machine.at # "build" /\ (machine.at = "live" => ~Present(Now))
    PROVE  IInv'
<1>1. Now' = Now /\ bars' = bars /\ due' = FALSE /\ UNCHANGED <<held, distance, rule>>
  BY DEF Evaluated, Now
<1>2. TypeOK'
  BY <1>1 DEF IInv, TypeOK, Present
<1>3. Bounded'
  BY DEF IInv, Bounded
<1>4. InStep'
  BY <1>1, SomeMachine DEF IInv, InStep, Present
<1> QED BY <1>2, <1>3, <1>4 DEF IInv

\* The scan goes on by a session.
LEMMA InvScan ==
    ASSUME IInv, Scan
    PROVE  IInv'
<1>1. /\ Now' = Now /\ bars' = bars /\ due' = due /\ WindowStart' = WindowStart
      /\ UNCHANGED <<held, distance, rule>>
      /\ machine.at = "build" /\ machine.seen < Now
  BY DEF Scan, Now, WindowStart
<1>2. machine \in Machines /\ machine # NoMachine
  BY <1>1, SomeMachine DEF IInv
<1>3. PICK s : s = machine.seen + 1
  OBVIOUS
<1>4. s \in 1..Now /\ machine.seen < s /\ Now \in Nat /\ Now <= LastSession
      /\ LastSession \in Nat /\ machine.start \in Nat /\ machine.cand \in Nat
      /\ machine.bp \in Nat /\ machine.seen \in Nat
  BY <1>1, <1>2, <1>3, Constants DEF IInv, TypeOK, Machines, Sessions, Now
<1>5. CASE Present(s)
  <2>1. machine' = TakeIn(machine, s)
    BY <1>3, <1>5 DEF Scan
  <2>2. /\ machine' \in Machines /\ machine'.seen = s /\ machine'.at = "build"
        /\ machine'.entry = machine.entry /\ machine'.start = machine.start
        /\ machine'.start <= machine'.seen + 1 /\ machine'.cand <= machine'.seen
        /\ machine'.cand # 0 => machine'.cand \in 1..Now /\ Present(machine'.cand)
        /\ machine'.bp # machine'.start =>
              machine'.bp <= machine'.seen /\ machine'.level > 0
    <3> HIDE DEF TakeIn
    <3> QED BY <1>1, <1>2, <1>4, <1>5, <2>1, TakenBounded
  <2>3. TypeOK'
    BY <1>1, <1>2, <1>4, <2>2 DEF IInv, TypeOK, Present
  <2> QED BY <1>1, <1>2, <2>2, <2>3 DEF IInv, Bounded, InStep
<1>6. CASE ~Present(s)
  <2>1. machine' = [machine EXCEPT !.seen = s]
    BY <1>3, <1>6 DEF Scan
  <2>2. /\ machine' \in Machines /\ machine'.seen = s /\ machine'.at = "build"
        /\ machine'.entry = machine.entry /\ machine'.start = machine.start
        /\ machine'.cand = machine.cand /\ machine'.bp = machine.bp
        /\ machine'.level = machine.level
    BY <1>1, <1>2, <1>4, <2>1 DEF Machines
  <2>3. TypeOK'
    BY <1>1, <1>2, <1>4, <2>2 DEF IInv, TypeOK, Present
  <2> QED BY <1>1, <1>2, <1>3, <1>4, <2>2, <2>3 DEF IInv, Bounded, InStep
<1> QED BY <1>5, <1>6

\* The level of a Basing Point or the fallback, a stop is a natural number.
LEMMA StopTyped ==
    ASSUME TypeOK, machine \in Machines
    PROVE  Fallback \in Nat /\ InitialStop \in Nat
<1>1. FallbackLows \in SUBSET Nat
  BY Constants, BarOfPresent DEF FallbackLows, WindowStart, TypeOK, Now
<1>2. Fallback \in Nat
  BY <1>1, LowestLow, StopUnderLow DEF Fallback
<1>3. machine.level \in Nat
  BY DEF Machines
<1> QED BY <1>2, <1>3, StopUnderLow DEF InitialStop

\* The name enters.
LEMMA InvEnter ==
    ASSUME IInv, Enter
    PROVE  IInv'
<1>1. /\ Now' = Now /\ bars' = bars /\ due' = FALSE /\ UNCHANGED <<held, distance, rule>>
      /\ machine.at = "build" /\ machine.seen = Now
      /\ machine' = [machine EXCEPT !.at = "live", !.stop = InitialStop]
  BY DEF Enter, Evaluated, Now
<1>2. machine \in Machines /\ machine # NoMachine
  BY <1>1, SomeMachine DEF IInv
<1>3. InitialStop \in Nat
  BY <1>2, StopTyped DEF IInv
<1>4. /\ machine' \in Machines /\ machine'.seen = Now /\ machine'.at = "live"
      /\ machine'.entry = machine.entry /\ machine'.start = machine.start
      /\ machine'.cand = machine.cand /\ machine'.bp = machine.bp
      /\ machine'.level = machine.level
  BY <1>1, <1>2, <1>3 DEF Machines
<1>5. TypeOK'
  BY <1>1, <1>2, <1>4 DEF IInv, TypeOK, Present
<1>6. \A s \in 1..Now : ~(Now < s)
  BY DEF IInv, TypeOK, Now
<1> QED BY <1>1, <1>2, <1>4, <1>5, <1>6 DEF IInv, Bounded, InStep

\* What an advance makes of the machine, once it took the session in.
LEMMA Advanced ==
    ASSUME IInv, Advance, NEW t, t = TakeIn(machine, Now)
    PROVE  /\ machine \in Machines /\ machine # NoMachine /\ machine.at = "live"
           /\ Now \in 1..Now /\ Present(Now)
           /\ machine.entry < Now /\ machine.seen < Now
           /\ t \in Machines /\ machine' \in Machines
           /\ machine'.stop >= machine.stop
           /\ machine'.at = (IF 100 * bars[Now].close < machine'.stop THEN "out" ELSE "live")
           /\ machine'.start = t.start /\ machine'.entry = t.entry /\ machine'.seen = t.seen
           /\ machine'.high = t.high /\ machine'.highAt = t.highAt /\ machine'.cand = t.cand
           /\ machine'.away = t.away /\ machine'.bp = t.bp /\ machine'.level = t.level
           /\ machine'.peak = t.peak /\ machine'.recognized = t.recognized
           /\ machine'.used = t.used
<1>1. due /\ machine.at = "live" /\ Present(Now) /\ TypeOK
  BY DEF Advance, IInv
<1>2. /\ machine \in Machines /\ machine # NoMachine
      /\ machine.entry < Now /\ machine.seen < Now
  BY <1>1, SomeMachine DEF IInv, InStep
<1>3. Now \in 1..Now
  BY <1>1 DEF IInv, InStep, TypeOK, Now
<1>4. t \in Machines /\ t.stop = machine.stop /\ t.at = "live"
  BY <1>1, <1>2, <1>3, TakenBounded
<1>5. PICK m : m = Raised(t)
  OBVIOUS
<1>6. /\ m \in Machines /\ m.stop >= t.stop /\ m.at = "live"
      /\ m.start = t.start /\ m.entry = t.entry /\ m.seen = t.seen
      /\ m.high = t.high /\ m.highAt = t.highAt /\ m.cand = t.cand
      /\ m.away = t.away /\ m.bp = t.bp /\ m.level = t.level
      /\ m.peak = t.peak /\ m.recognized = t.recognized /\ m.used = t.used
  <2>1. CASE t.bp = Now /\ StopUnder(t.level) > t.stop
    <3>1. t.level \in Nat /\ t.stop \in Nat
      BY <1>4 DEF Machines
    <3>2. StopUnder(t.level) \in Nat
      BY <1>1, <3>1, StopUnderLow
    <3>3. m = [t EXCEPT !.stop = StopUnder(t.level)]
      BY <1>5, <2>1 DEF Raised
    <3> QED BY <1>4, <2>1, <3>1, <3>2, <3>3 DEF Machines
  <2>2. CASE ~(t.bp = Now /\ StopUnder(t.level) > t.stop)
    <3>1. m = t
      BY <1>5, <2>2 DEF Raised
    <3> QED BY <1>4, <3>1 DEF Machines
  <2> QED BY <2>1, <2>2
<1>7. machine' = IF 100 * bars[Now].close < m.stop THEN [m EXCEPT !.at = "out"] ELSE m
  BY <1>5 DEF Advance
<1>8. CASE 100 * bars[Now].close < m.stop
  <2>1. machine' = [m EXCEPT !.at = "out"]
    BY <1>7, <1>8
  <2>2. /\ machine' \in Machines /\ machine'.stop = m.stop /\ machine'.at = "out"
        /\ machine'.start = m.start /\ machine'.entry = m.entry /\ machine'.seen = m.seen
        /\ machine'.high = m.high /\ machine'.highAt = m.highAt /\ machine'.cand = m.cand
        /\ machine'.away = m.away /\ machine'.bp = m.bp /\ machine'.level = m.level
        /\ machine'.peak = m.peak /\ machine'.recognized = m.recognized
        /\ machine'.used = m.used
    BY <1>6, <2>1 DEF Machines
  <2> QED BY <1>1, <1>2, <1>3, <1>4, <1>6, <1>8, <2>2
<1>9. CASE ~(100 * bars[Now].close < m.stop)
  <2>1. machine' = m
    BY <1>7, <1>9
  <2> QED BY <1>1, <1>2, <1>3, <1>4, <1>6, <1>9, <2>1
<1> QED BY <1>8, <1>9

\* The overlay takes in a session of a live machine.
LEMMA InvAdvance ==
    ASSUME IInv, Advance
    PROVE  IInv'
<1>1. Now' = Now /\ bars' = bars /\ due' = FALSE /\ UNCHANGED <<held, distance, rule>>
  BY DEF Advance, Evaluated, Now
<1>2. PICK t : t = TakeIn(machine, Now)
  OBVIOUS
<1>3. /\ machine \in Machines /\ machine # NoMachine /\ Now \in 1..Now /\ Present(Now)
      /\ machine.seen < Now /\ machine' \in Machines
      /\ machine'.at \in {"live", "out"}
      /\ machine'.start = t.start /\ machine'.entry = t.entry /\ machine'.seen = t.seen
      /\ machine'.cand = t.cand /\ machine'.bp = t.bp /\ machine'.level = t.level
  BY <1>2, Advanced
<1>4. /\ t.seen = Now /\ t.entry = machine.entry /\ t.start = machine.start
      /\ t.start <= t.seen + 1 /\ t.cand <= t.seen
      /\ t.cand # 0 => t.cand \in 1..Now /\ Present(t.cand)
      /\ t.bp # t.start => t.bp <= t.seen /\ t.level > 0
  BY <1>2, <1>3, TakenBounded
<1>5. TypeOK'
  <2>1. /\ machine'.seen <= Now /\ machine'.entry <= Now /\ machine'.start <= machine'.entry
        /\ machine'.cand # 0 => Present(machine'.cand)
    BY <1>3, <1>4 DEF IInv, TypeOK
  <2> QED BY <1>1, <1>3, <2>1 DEF IInv, TypeOK, Present
<1>6. \A s \in 1..Now : ~(Now < s)
  BY DEF IInv, TypeOK, Now
<1> QED BY <1>1, <1>3, <1>4, <1>5, <1>6 DEF IInv, Bounded, InStep

\* A step of any kind.
LEMMA InvStep == IInv /\ [Next]_vars => IInv'
<1> SUFFICES ASSUME IInv, [Next]_vars PROVE IInv'
  OBVIOUS
<1>1. CASE \E b \in Bars \cup {NoBar}, r \in BOOLEAN : Close(b, r)
  BY <1>1, InvClose
<1>2. CASE Establish
  BY <1>2, InvBlank DEF Establish
<1>3. CASE FailOpen
  BY <1>3, InvLooked, SomeMachine DEF FailOpen
<1>4. CASE Reseed
  BY <1>4, InvBlank DEF Reseed
<1>5. CASE StaysOut
  BY <1>5, InvLooked DEF StaysOut
<1>6. CASE Drop
  <2>1. machine' = machine => machine.at = "none"
    BY <1>6, SomeMachine DEF Drop
  <2> QED BY <1>6, <2>1, InvLooked DEF Drop
<1>7. CASE Scan
  BY <1>7, InvScan
<1>8. CASE Enter
  BY <1>8, InvEnter
<1>9. CASE Miss
  BY <1>9, InvLooked DEF Miss
<1>10. CASE Advance
  BY <1>10, InvAdvance
<1>11. CASE UNCHANGED vars
  BY <1>11 DEF vars, IInv, TypeOK, Bounded, InStep, Now, Present, WindowStart
<1> QED BY <1>1, <1>2, <1>3, <1>4, <1>5, <1>6, <1>7, <1>8, <1>9, <1>10, <1>11 DEF Next

\* Bars, distances and machines keep their types, whatever the bars of the sessions and
\* whenever the name enters, leaves and comes back.
THEOREM TypeCorrect == Spec => []TypeOK
<1>1. IInv => TypeOK
  BY DEF IInv
<1> QED BY <1>1, InvInit, InvStep, PTL DEF Spec

\* A stop never falls while its machine lives, at no new distance and no lower Basing
\* Point.
THEOREM StopsRise == Spec => StopsOnlyMoveUp
<1> DEFINE Body == machine.at = "live" /\ machine'.at \in {"live", "out"} =>
                     machine'.stop >= machine.stop
<1>1. IInv /\ [Next]_vars => [Body]_vars
  <2> SUFFICES ASSUME IInv, [Next]_vars, machine.at = "live",
                      machine'.at \in {"live", "out"}
               PROVE  machine'.stop >= machine.stop
    BY DEF Body
  <2>1. machine.stop \in Nat
    BY SomeMachine DEF IInv, Machines
  <2>2. CASE Advance
    BY <2>2, Advanced
  <2>3. CASE UNCHANGED machine
    BY <2>1, <2>3
  <2> QED BY <2>2, <2>3, SomeMachine
        DEF Next, vars, Close, Establish, FailOpen, Reseed, StaysOut, Drop, Scan, Enter, Miss
<1>2. StopsOnlyMoveUp <=> [][Body]_vars
  BY DEF StopsOnlyMoveUp
<1> HIDE DEF Body
<1> QED BY <1>1, <1>2, InvInit, InvStep, PTL DEF Spec

-----------------------------------------------------------------------------
(* The stop at entry *)

\* Of the bars of the window the last is the close at entry, and it is one of the last
\* sessions if any bar is.
LEMMA LastOfWindow ==
    ASSUME TypeOK, NEW s \in WindowStart..Now, Present(s),
           \A r \in WindowStart..Now : Present(r) => r <= s
    PROVE  /\ LastClose = bars[s].close
           /\ LastClose # 0
           /\ FallbackLows # {} => bars[s].low \in FallbackLows
<1>1. WindowStart \in Nat \ {0} /\ Now \in Nat
  BY Constants DEF WindowStart, TypeOK, Now
<1>2. SomeBar
  BY DEF SomeBar
<1>3. \A q \in WindowStart..Now :
        Present(q) /\ (\A r \in WindowStart..Now : Present(r) => r <= q) => q = s
  BY <1>1
<1>4. s = CHOOSE q \in WindowStart..Now :
            Present(q) /\ \A r \in WindowStart..Now : Present(r) => r <= q
  BY <1>3
<1>5. LastClose = bars[s].close
  BY <1>2, <1>4 DEF LastClose
<1>6. bars[s].low > 0 /\ bars[s].low <= bars[s].close /\ bars[s].low \in Nat
      /\ bars[s].close \in Nat
  BY <1>1, BarOfPresent
<1>7. ASSUME FallbackLows # {} PROVE bars[s].low \in FallbackLows
  <2>1. PICK r \in WindowStart..Now : r > Now - FALLBACK_SESSIONS /\ Present(r)
    BY <1>7 DEF FallbackLows
  <2>2. s > Now - FALLBACK_SESSIONS
    BY <1>1, <2>1, Constants
  <2> QED BY <2>2 DEF FallbackLows
<1> QED BY <1>5, <1>6, <1>7

\* The fallback is under the lowest of the last lows, and over nothing.
LEMMA FallbackUnder ==
    ASSUME TypeOK
    PROVE  /\ Fallback \in Nat
           /\ \A l \in FallbackLows : Fallback <= 100 * l
           /\ FallbackLows # {} => Fallback > 0
<1>1. \A l \in FallbackLows : l \in Nat /\ l > 0
  BY Constants, BarOfPresent DEF FallbackLows, WindowStart, TypeOK, Now
<1>2. CASE FallbackLows = {}
  BY <1>2 DEF Fallback
<1>3. CASE FallbackLows # {}
  <2>1. PICK l : l = CHOOSE j \in FallbackLows : \A k \in FallbackLows : j <= k
    OBVIOUS
  <2>2. l \in FallbackLows /\ \A k \in FallbackLows : l <= k
    BY <1>1, <1>3, <2>1, LowestLow
  <2>3. Fallback = StopUnder(l)
    BY <1>3, <2>1 DEF Fallback
  <2>4. Fallback \in Nat /\ Fallback <= 100 * l /\ Fallback > 0
    BY <1>1, <2>2, <2>3, StopUnderLow
  <2> QED BY <1>1, <2>2, <2>4
<1> QED BY <1>2, <1>3

\* The stop at entry is not over the last close, and over nothing.
LEMMA InitialUnder ==
    ASSUME IInv, machine \in Machines
    PROVE  /\ \A s \in WindowStart..Now :
                Present(s) /\ (\A r \in WindowStart..Now : Present(r) => r <= s)
                  => InitialStop <= 100 * bars[s].close
           /\ FallbackLows # {} => InitialStop > 0
<1>1. TypeOK /\ machine # NoMachine /\ WindowStart \in Nat \ {0} /\ Now \in Nat
  BY SomeMachine, Constants DEF IInv, TypeOK, WindowStart, Now
<1>2. machine.level \in Nat /\ (machine.bp # machine.start => machine.level > 0)
  BY <1>1 DEF Machines, IInv, Bounded
<1>3. /\ StopUnder(machine.level) \in Nat
      /\ machine.level > 0 => StopUnder(machine.level) > 0
  BY <1>1, <1>2, StopUnderLow
<1>4. /\ Fallback \in Nat
      /\ \A l \in FallbackLows : Fallback <= 100 * l
      /\ FallbackLows # {} => Fallback > 0
      /\ FallbackLows = {} => Fallback = 0
  BY <1>1, FallbackUnder DEF Fallback
<1>5. ASSUME NEW s \in WindowStart..Now, Present(s),
             \A r \in WindowStart..Now : Present(r) => r <= s
      PROVE  InitialStop <= 100 * bars[s].close
  <2>1. /\ LastClose = bars[s].close /\ LastClose # 0
        /\ FallbackLows # {} => bars[s].low \in FallbackLows
    BY <1>1, <1>5, LastOfWindow
  <2>2. bars[s].low <= bars[s].close /\ bars[s].low \in Nat /\ bars[s].close \in Nat
    BY <1>1, <1>5, BarOfPresent
  <2>3. Fallback <= 100 * bars[s].close
    <3>1. CASE FallbackLows = {}
      BY <1>4, <2>2, <3>1
    <3>2. CASE FallbackLows # {}
      <4>1. Fallback <= 100 * bars[s].low
        BY <1>4, <2>1, <3>2
      <4> QED BY <1>4, <2>2, <4>1
    <3> QED BY <3>1, <3>2
  <2>4. CASE machine.bp # machine.start /\ ~(StopUnder(machine.level) >= 100 * LastClose)
    <3>1. InitialStop = StopUnder(machine.level)
      BY <2>4 DEF InitialStop
    <3> QED BY <1>3, <2>1, <2>2, <2>4, <3>1
  <2>5. CASE ~(machine.bp # machine.start /\ ~(StopUnder(machine.level) >= 100 * LastClose))
    <3>1. InitialStop = Fallback
      BY <2>1, <2>5 DEF InitialStop
    <3> QED BY <2>3, <3>1
  <2> QED BY <2>4, <2>5
<1>6. FallbackLows # {} => InitialStop > 0
  BY <1>2, <1>3, <1>4 DEF InitialStop
<1> QED BY <1>5, <1>6

\* What EntersUnderTheMarket says of a machine, and that it stays true of the same one.
LEMMA UnderMarketStep == IInv /\ EntersUnderTheMarket /\ [Next]_vars => EntersUnderTheMarket'
<1> SUFFICES ASSUME IInv, EntersUnderTheMarket, [Next]_vars PROVE EntersUnderTheMarket'
  OBVIOUS
<1>1. CASE machine'.at \notin {"live", "out"}
  BY <1>1 DEF EntersUnderTheMarket
<1>2. ASSUME machine' = machine, machine.at \in {"live", "out"},
             \A s \in 1..Now : bars'[s] = bars[s]
      PROVE  EntersUnderTheMarket'
  <2>1. /\ machine.start \in Nat \ {0} /\ machine.entry \in Nat /\ machine.seen \in Nat
        /\ machine.entry <= Now /\ machine.seen <= Now /\ Now \in Nat
    BY <1>2, SomeMachine DEF IInv, TypeOK, Machines, Sessions, Now
  <2>2. \A s \in machine.start..machine.entry :
          bars'[s] = bars[s] /\ (Present(s)' <=> Present(s))
    BY <1>2, <2>1 DEF Present
  <2>3. machine.at = "out" => bars'[machine.seen] = bars[machine.seen]
    <3>1. machine.at = "out" => machine.seen \in 1..Now
      BY <2>1, SomeMachine DEF EntersUnderTheMarket, IInv, TypeOK, Machines, Sessions
    <3> QED BY <1>2, <3>1
  <2> QED BY <1>2, <2>2, <2>3 DEF EntersUnderTheMarket
<1>3. CASE \E b \in Bars \cup {NoBar}, r \in BOOLEAN : Close(b, r)
  <2>1. machine' = machine /\ \A s \in 1..Now : bars'[s] = bars[s]
    BY <1>3, Closed DEF Close, IInv
  <2> QED BY <1>1, <1>2, <2>1
<1>4. CASE Establish \/ Reseed
  <2>1. machine'.at = "build"
    BY <1>4 DEF Establish, Reseed, Blank
  <2> QED BY <1>1, <2>1
<1>5. CASE FailOpen \/ StaysOut \/ Miss \/ UNCHANGED vars
  <2>1. machine' = machine /\ bars' = bars
    BY <1>5 DEF FailOpen, StaysOut, Miss, Evaluated, vars
  <2> QED BY <1>1, <1>2, <2>1
<1>6. CASE Drop
  BY <1>1, <1>6, SomeMachine DEF Drop
<1>7. CASE Scan
  <2>1. machine.at = "build" /\ machine \in Machines
    BY <1>7, SomeMachine DEF Scan, IInv
  <2>2. PICK s : s = machine.seen + 1
    OBVIOUS
  <2>3. s \in 1..Now /\ machine.seen < s
    BY <1>7, <2>1, <2>2 DEF Scan, IInv, TypeOK, Machines, Now
  <2>4. Present(s) => TakeIn(machine, s).at = "build"
    BY <2>1, <2>3, TakenBounded
  <2>5. [machine EXCEPT !.seen = s].at = "build"
    BY <2>1 DEF Machines
  <2>6. machine' = IF Present(s) THEN TakeIn(machine, s) ELSE [machine EXCEPT !.seen = s]
    BY <1>7, <2>2 DEF Scan
  <2> QED BY <1>1, <2>4, <2>5, <2>6
<1>8. CASE Enter
  <2>1. /\ machine.at = "build" /\ machine.seen = Now /\ bars' = bars
        /\ machine' = [machine EXCEPT !.at = "live", !.stop = InitialStop]
    BY <1>8 DEF Enter, Evaluated
  <2>2. machine \in Machines /\ machine.entry = Now /\ machine.start = WindowStart
    BY <2>1, SomeMachine DEF IInv, InStep
  <2>3. PICK i : i = InitialStop
    OBVIOUS
  <2>4. /\ machine'.at = "live" /\ machine'.stop = i
        /\ machine'.entry = Now /\ machine'.start = WindowStart
    BY <2>1, <2>2, <2>3 DEF Machines
  <2>5. ASSUME NEW s \in machine'.start..machine'.entry, Present(s)',
               \A r \in machine'.start..machine'.entry : Present(r)' => r <= s
        PROVE  machine'.stop <= 100 * bars'[s].close
    <3>1. /\ s \in WindowStart..Now /\ Present(s)
          /\ \A r \in WindowStart..Now : Present(r) => r <= s
      BY <2>1, <2>4, <2>5 DEF Present
    <3>2. i <= 100 * bars[s].close
      BY <2>2, <2>3, <3>1, InitialUnder
    <3> QED BY <2>1, <2>4, <3>2
  <2>6. ASSUME NEW s \in machine'.start..machine'.entry,
               s > machine'.entry - FALLBACK_SESSIONS, Present(s)'
        PROVE  machine'.stop > 0
    <3>1. bars[s].low \in FallbackLows
      BY <2>1, <2>4, <2>6 DEF FallbackLows, Present
    <3>2. i > 0
      BY <2>2, <2>3, <3>1, InitialUnder
    <3> QED BY <2>4, <3>2
  <2> QED BY <2>4, <2>5, <2>6 DEF EntersUnderTheMarket
<1>9. CASE Advance
  <2>1. PICK t : t = TakeIn(machine, Now)
    OBVIOUS
  <2>2. /\ machine \in Machines /\ machine.entry < Now /\ Now \in 1..Now /\ Present(Now)
        /\ machine.seen < Now
        /\ machine'.at = (IF 100 * bars[Now].close < machine'.stop THEN "out" ELSE "live")
        /\ machine'.entry = t.entry /\ machine'.seen = t.seen
    BY <1>9, <2>1, Advanced
  <2>3. t.entry = machine.entry /\ t.seen = Now
    BY <2>1, <2>2, TakenBounded
  <2>4. bars' = bars
    BY <1>9 DEF Advance, Evaluated
  <2>5. machine.entry \in Nat /\ Now \in Nat
    BY <2>2 DEF Machines, Sessions, IInv, TypeOK, Now
  <2> QED BY <2>2, <2>3, <2>4, <2>5 DEF EntersUnderTheMarket
<1> QED BY <1>3, <1>4, <1>5, <1>6, <1>7, <1>8, <1>9 DEF Next

\* A name enters with a stop at or under the last close, and one over nothing where a
\* bar was there to put it under; it is out only by a later close under the stop.
THEOREM EntryUnderTheMarket == Spec => []EntersUnderTheMarket
<1>1. Init => EntersUnderTheMarket
  BY DEF Init, NoMachine, EntersUnderTheMarket
<1> QED BY <1>1, InvInit, InvStep, UnderMarketStep, PTL DEF Spec

-----------------------------------------------------------------------------
(* The machine is as defined: the four parts of MachineAsDefined, of any machine m and *)
(* sessions S *)

NewIn(S, s) == \A r \in S : r < s => bars[r].high < bars[s].high

LowerIn(S) == {s \in S : ~NewIn(S, s)}

HighOf(m, S) ==
    IF S = {} THEN m.high = 0
    ELSE /\ m.highAt \in S /\ NewIn(S, m.highAt)
         /\ m.high = bars[m.highAt].high
         /\ \A s \in S : bars[s].high <= m.high

CandidateOf(m, S) ==
    LET low == {s \in LowerIn(S) : s > m.bp}
    IN  IF m.cand = 0 THEN low = {} /\ m.away = 0
        ELSE /\ m.cand \in low
             /\ \A s \in low : /\ bars[m.cand].low <= bars[s].low
                               /\ s < m.cand => bars[m.cand].low < bars[s].low
             /\ m.away = Cardinality(Away(m.cand, S))

PeakOf(m, S) ==
    IF LowerIn(S) = {} THEN m.peak = 0 /\ ~m.recognized /\ ~m.used
    ELSE /\ \E q \in LowerIn(S), h \in S :
              /\ \A s \in LowerIn(S) : s <= q
              /\ h < q /\ m.peak = bars[h].high
              /\ \A s \in S : s <= q => bars[s].high <= m.peak
              /\ m.recognized <=> \A s \in S : s <= q
         /\ m.used <=> rule = "bp4" /\ \E s \in S : 100 * bars[s].close > 103 * m.peak

PointOf(m, S) ==
    m.bp # m.start =>
        /\ m.bp \in S
        /\ \/ \E c \in {s \in S : s <= m.bp} :
                 /\ m.level = bars[c].low
                 /\ m.bp \in Away(c, {s \in S : s <= m.bp})
                 /\ Cardinality(Away(c, {s \in S : s <= m.bp})) = AWAY_DAYS
           \/ rule = "bp4" /\ m.level = bars[m.bp].low

Scanned(m, S) == HighOf(m, S) /\ CandidateOf(m, S) /\ PeakOf(m, S) /\ PointOf(m, S)

\* These are the parts of MachineAsDefined.
LEMMA PartsOfMachine ==
    MachineAsDefined <=> (machine # NoMachine => Scanned(machine, Seen))
<1>1. HighAsDefined <=> HighOf(machine, Seen)
  BY DEF HighAsDefined, HighOf, NewHigh, NewIn
<1>2. {s \in LowerIn(Seen) : s > machine.bp} = {s \in Seen : s > machine.bp /\ ~NewHigh(s)}
  BY DEF LowerIn, NewHigh, NewIn
<1>3. CandidateAsDefined <=> CandidateOf(machine, Seen)
  BY <1>2 DEF CandidateAsDefined, CandidateOf
<1>4. LowerIn(Seen) = {s \in Seen : ~NewHigh(s)}
  BY DEF LowerIn, NewHigh, NewIn
<1>5. PeakAsDefined <=> PeakOf(machine, Seen)
  BY <1>4 DEF PeakAsDefined, PeakOf
<1>6. PointIsEarned <=> PointOf(machine, Seen)
  BY DEF PointIsEarned, PointOf
<1> QED BY <1>1, <1>3, <1>5, <1>6 DEF MachineAsDefined, Scanned

\* The sessions a machine has taken in, and one more.
LEMMA SeenSessions ==
    ASSUME IInv, machine \in Machines
    PROVE  /\ IsFiniteSet(Seen) /\ Seen \subseteq 1..Now
           /\ \A r \in Seen : /\ r \in Nat /\ Present(r) /\ r <= machine.seen
                              /\ bars[r].high \in Nat /\ bars[r].low \in Nat
                              /\ bars[r].close \in Nat
                              /\ bars[r].low <= bars[r].close
                              /\ bars[r].close <= bars[r].high /\ bars[r].high > 0
<1>1. machine.start \in Nat \ {0} /\ machine.seen \in Nat /\ machine.seen <= Now
      /\ Now \in Nat
  BY SomeMachine DEF IInv, TypeOK, Machines, Sessions, Now
<1>2. Seen \subseteq machine.start..machine.seen
  BY DEF Seen
<1>3. IsFiniteSet(Seen)
  <2>1. machine.start \in Int /\ machine.seen \in Int
    BY <1>1
  <2>2. IsFiniteSet(machine.start..machine.seen)
    BY <2>1, FS_Interval
  <2> QED BY <1>2, <2>2, FS_Subset
<1>4. \A r \in Seen : r \in 1..Now /\ Present(r) /\ r <= machine.seen
  BY <1>1 DEF Seen
<1>5. \A r \in 1..Now : Present(r) =>
        /\ bars[r].high \in Nat /\ bars[r].low \in Nat /\ bars[r].close \in Nat
        /\ bars[r].low <= bars[r].close /\ bars[r].close <= bars[r].high
        /\ bars[r].high > 0
  <2> SUFFICES ASSUME NEW r \in 1..Now, Present(r)
               PROVE  /\ bars[r].high \in Nat /\ bars[r].low \in Nat /\ bars[r].close \in Nat
                      /\ bars[r].low <= bars[r].close /\ bars[r].close <= bars[r].high
                      /\ bars[r].high > 0
    OBVIOUS
  <2>1. /\ bars[r].high \in Nat /\ bars[r].low \in Nat /\ bars[r].close \in Nat
        /\ 0 < bars[r].low /\ bars[r].low <= bars[r].close
        /\ bars[r].close <= bars[r].high
    BY BarOfPresent DEF IInv
  <2> QED BY <2>1
<1> QED BY <1>1, <1>3, <1>4, <1>5

\* A session more leaves the order of the ones before it, and is a new high where the
\* running high rises.
LEMMA OneMore ==
    ASSUME IInv, machine \in Machines, HighOf(machine, Seen),
           NEW s \in 1..Now, machine.seen < s, Present(s), NEW b, b = bars[s],
           NEW T, T = Seen \cup {s}
    PROVE  /\ \A r \in Seen : NewIn(T, r) <=> NewIn(Seen, r)
           /\ NewIn(T, s) <=> Rising(machine, b)
           /\ LowerIn(T) = LowerIn(Seen) \cup (IF Rising(machine, b) THEN {} ELSE {s})
           /\ \A r \in Seen : r < s /\ bars[r].high <= machine.high
           /\ Seen = {} => Rising(machine, b)
<1>1. /\ s \in Nat /\ machine.seen \in Nat
      /\ b.high \in Nat /\ b.high > 0
      /\ machine.high \in Nat
  BY BarOfPresent DEF IInv, Machines
<1>2. \A r \in Seen : r \in Nat /\ r < s /\ bars[r].high \in Nat
  BY <1>1, SeenSessions
<1>3. \A r \in Seen : bars[r].high <= machine.high
  BY DEF HighOf
<1>4. \A r \in Seen : NewIn(T, r) <=> NewIn(Seen, r)
  BY <1>1, <1>2 DEF NewIn
<1>5. Seen = {} => Rising(machine, b)
  BY <1>1 DEF HighOf, Rising
<1>6. NewIn(T, s) <=> Rising(machine, b)
  <2>1. CASE Rising(machine, b)
    BY <1>1, <1>2, <1>3, <2>1 DEF NewIn, Rising
  <2>2. CASE ~Rising(machine, b)
    <3>1. machine.highAt \in Seen /\ machine.high = bars[machine.highAt].high
      BY <1>5, <2>2 DEF HighOf
    <3>2. machine.highAt < s /\ ~(bars[machine.highAt].high < bars[s].high)
      BY <1>1, <1>2, <2>2, <3>1 DEF Rising
    <3> QED BY <2>2, <3>1, <3>2 DEF NewIn
  <2> QED BY <2>1, <2>2
<1>7. LowerIn(T) = LowerIn(Seen) \cup (IF Rising(machine, b) THEN {} ELSE {s})
  BY <1>2, <1>4, <1>6 DEF LowerIn
<1> QED BY <1>2, <1>3, <1>4, <1>5, <1>6, <1>7

\* The running high goes on.
LEMMA HighGoesOn ==
    ASSUME IInv, machine \in Machines, HighOf(machine, Seen),
           NEW s \in 1..Now, machine.seen < s, Present(s), NEW b, b = bars[s],
           NEW T, T = Seen \cup {s}, NEW n,
           n.high = (IF Rising(machine, b) THEN b.high ELSE machine.high),
           n.highAt = (IF Rising(machine, b) THEN s ELSE machine.highAt)
    PROVE  HighOf(n, T)
<1>1. /\ \A r \in Seen : NewIn(T, r) <=> NewIn(Seen, r)
      /\ NewIn(T, s) <=> Rising(machine, b)
      /\ \A r \in Seen : r < s /\ bars[r].high <= machine.high
      /\ Seen = {} => Rising(machine, b)
  BY OneMore
<1>2. /\ b.high \in Nat /\ machine.high \in Nat
      /\ \A r \in Seen : bars[r].high \in Nat
  BY BarOfPresent, SeenSessions DEF IInv, Machines
<1>3. CASE Rising(machine, b)
  BY <1>1, <1>2, <1>3 DEF HighOf, Rising
<1>4. CASE ~Rising(machine, b)
  <2>1. /\ machine.highAt \in Seen /\ NewIn(Seen, machine.highAt)
        /\ machine.high = bars[machine.highAt].high
    BY <1>1, <1>4 DEF HighOf
  <2>2. n.highAt = machine.highAt /\ n.high = machine.high
    BY <1>4
  <2>3. \A r \in T : bars[r].high <= machine.high
    BY <1>1, <1>2, <1>4 DEF Rising
  <2> QED BY <1>1, <2>1, <2>2, <2>3 DEF HighOf
<1> QED BY <1>3, <1>4

\* The peak is the running high until a session makes none, and used by one close.
LEMMA PeakGoesOn ==
    ASSUME IInv, machine \in Machines, HighOf(machine, Seen), PeakOf(machine, Seen),
           NEW s \in 1..Now, machine.seen < s, Present(s), NEW b, b = bars[s],
           NEW T, T = Seen \cup {s}, NEW n,
           n.peak = PeakAfter(machine, b),
           n.recognized <=> ~Rising(machine, b) /\ (machine.recognized \/ Newly(machine, b)),
           n.used <=> (machine.used /\ ~Newly(machine, b)) \/ Breaks(machine, b)
    PROVE  PeakOf(n, T)
<1>1. /\ LowerIn(T) = LowerIn(Seen) \cup (IF Rising(machine, b) THEN {} ELSE {s})
      /\ \A r \in Seen : r < s /\ bars[r].high <= machine.high
      /\ Seen = {} => Rising(machine, b)
  BY OneMore
<1>2. /\ b.high \in Nat /\ b.close \in Nat /\ b.close <= b.high /\ b.high > 0
      /\ machine.high \in Nat /\ machine.peak \in Nat /\ s \in Nat
      /\ \A r \in Seen : /\ bars[r].high \in Nat /\ bars[r].close \in Nat /\ r \in Nat
                         /\ bars[r].close <= bars[r].high /\ bars[r].high > 0
      /\ machine.recognized \in BOOLEAN /\ machine.used \in BOOLEAN
  BY BarOfPresent, SeenSessions DEF IInv, Machines
<1>3. Rising(machine, b) => ~Newly(machine, b)
  BY <1>2 DEF Rising, Newly
<1>4. LowerIn(Seen) \subseteq Seen
  BY DEF LowerIn
<1>5. ~Rising(machine, b) =>
        /\ machine.highAt \in Seen /\ machine.high = bars[machine.highAt].high
        /\ machine.high > 0
  <2> SUFFICES ASSUME ~Rising(machine, b)
               PROVE  /\ machine.highAt \in Seen
                      /\ machine.high = bars[machine.highAt].high /\ machine.high > 0
    OBVIOUS
  <2> QED BY <1>1, <1>2 DEF HighOf, Rising
<1>6. CASE Rising(machine, b) /\ LowerIn(Seen) = {}
  <2>1. LowerIn(T) = {}
    BY <1>1, <1>6
  <2>2. n.peak = 0 /\ ~n.recognized /\ ~n.used
    BY <1>3, <1>6 DEF PeakOf, PeakAfter, Breaks
  <2> QED BY <2>1, <2>2 DEF PeakOf
<1>7. CASE Rising(machine, b) /\ LowerIn(Seen) # {}
  <2>1. LowerIn(T) = LowerIn(Seen)
    BY <1>1, <1>7
  <2>2. PICK q \in LowerIn(Seen), h \in Seen :
          /\ \A r \in LowerIn(Seen) : r <= q
          /\ h < q /\ machine.peak = bars[h].high
          /\ \A r \in Seen : r <= q => bars[r].high <= machine.peak
          /\ machine.recognized <=> \A r \in Seen : r <= q
    BY <1>7 DEF PeakOf
  <2>3. n.peak = machine.peak /\ ~n.recognized /\ q < s /\ q \in Nat
    BY <1>1, <1>2, <1>3, <1>4, <1>7, <2>2 DEF PeakAfter
  <2>4. \A r \in T : r <= q => bars[r].high <= n.peak
    BY <1>2, <2>2, <2>3
  <2>5. n.recognized <=> \A r \in T : r <= q
    BY <1>2, <2>3
  <2>6. n.used <=> rule = "bp4" /\ \E r \in T : 100 * bars[r].close > 103 * n.peak
    <3>1. machine.used <=>
            rule = "bp4" /\ \E r \in Seen : 100 * bars[r].close > 103 * machine.peak
      BY <1>7 DEF PeakOf
    <3>2. Breaks(machine, b) <=>
            rule = "bp4" /\ ~machine.used /\ 100 * b.close > 103 * machine.peak
      BY <1>2, <1>3, <1>7, <2>2 DEF Breaks, PeakAfter
    <3>3. n.used <=> machine.used \/ Breaks(machine, b)
      BY <1>3, <1>7
    <3> QED BY <2>3, <3>1, <3>2, <3>3
  <2> QED BY <2>1, <2>2, <2>3, <2>4, <2>5, <2>6, <1>7 DEF PeakOf
<1>8. CASE ~Rising(machine, b)
  <2>1. LowerIn(T) = LowerIn(Seen) \cup {s} /\ s \in LowerIn(T) /\ LowerIn(T) # {}
    BY <1>1, <1>8
  <2>2. \A r \in LowerIn(T) : r <= s
    BY <1>1, <1>2, <1>4, <2>1
  <2>3. n.recognized /\ \A r \in T : r <= s
    BY <1>1, <1>2, <1>5, <1>8 DEF Newly, Rising
  <2>4. /\ \E h \in Seen : n.peak = bars[h].high
        /\ \A r \in T : bars[r].high <= n.peak
    <3>1. CASE ~machine.recognized
      <4>1. Newly(machine, b) /\ n.peak = machine.high
        BY <1>2, <1>5, <1>8, <3>1 DEF Newly, Rising, PeakAfter
      <4> QED BY <1>1, <1>2, <1>5, <1>8, <4>1 DEF Rising
    <3>2. CASE machine.recognized
      <4>1. LowerIn(Seen) # {} /\ n.peak = machine.peak
        BY <3>2 DEF PeakOf, PeakAfter, Newly
      <4>2. PICK q \in LowerIn(Seen), h \in Seen :
              /\ machine.peak = bars[h].high
              /\ \A r \in Seen : r <= q => bars[r].high <= machine.peak
              /\ machine.recognized <=> \A r \in Seen : r <= q
        BY <4>1 DEF PeakOf
      <4>3. \A r \in Seen : bars[r].high <= machine.peak
        BY <3>2, <4>2
      <4>4. b.high <= machine.high /\ machine.high <= machine.peak
        BY <1>2, <1>5, <1>8, <4>3 DEF Rising
      <4> QED BY <1>2, <4>1, <4>2, <4>3, <4>4
    <3> QED BY <3>1, <3>2
  <2>6. n.peak \in Nat /\ n.peak > 0
    BY <1>2, <2>4
  <2>7. ~\E r \in T : 100 * bars[r].close > 103 * n.peak
    <3> SUFFICES ASSUME NEW r \in T PROVE ~(100 * bars[r].close > 103 * n.peak)
      OBVIOUS
    <3>1. bars[r].close \in Nat /\ bars[r].high \in Nat /\ bars[r].close <= bars[r].high
      BY <1>2
    <3> QED BY <2>4, <2>6, <3>1
  <2>8. ~n.used
    <3>1. ~Breaks(machine, b)
      BY <2>7 DEF Breaks
    <3>2. ~(machine.used /\ ~Newly(machine, b))
      <4> SUFFICES ASSUME machine.used, ~Newly(machine, b) PROVE FALSE
        OBVIOUS
      <4>1. LowerIn(Seen) # {} /\ n.peak = machine.peak
        BY DEF PeakOf, PeakAfter
      <4>2. \E r \in Seen : 100 * bars[r].close > 103 * machine.peak
        BY <4>1 DEF PeakOf
      <4> QED BY <2>7, <4>1, <4>2
    <3> QED BY <3>1, <3>2
  <2> QED BY <1>1, <2>1, <2>2, <2>3, <2>4, <2>7, <2>8 DEF PeakOf
<1> QED BY <1>6, <1>7, <1>8

\* One away day more, or none.
LEMMA AwayGoesOn ==
    ASSUME IInv, machine \in Machines, NEW s \in 1..Now, machine.seen < s,
           NEW T, T = Seen \cup {s}, NEW c \in Seen
    PROVE  /\ bars[s].low > bars[c].high =>
                 Cardinality(Away(c, T)) = Cardinality(Away(c, Seen)) + 1 /\ s \in Away(c, T)
           /\ ~(bars[s].low > bars[c].high) =>
                 Cardinality(Away(c, T)) = Cardinality(Away(c, Seen))
           /\ Away(s, T) = {}
<1>1. /\ \A r \in Seen : r \in Nat /\ r <= machine.seen
      /\ machine.seen \in Nat /\ s \in Nat /\ IsFiniteSet(Seen)
  BY SeenSessions DEF Machines
<1>2. s \notin Away(c, Seen) /\ IsFiniteSet(Away(c, Seen))
  <2>1. Away(c, Seen) \subseteq Seen
    BY DEF Away
  <2>2. IsFiniteSet(Away(c, Seen))
    BY <1>1, <2>1, FS_Subset
  <2> QED BY <1>1, <2>1, <2>2
<1>3. bars[s].low > bars[c].high => Away(c, T) = Away(c, Seen) \cup {s}
  BY <1>1 DEF Away
<1>4. ~(bars[s].low > bars[c].high) => Away(c, T) = Away(c, Seen)
  BY DEF Away
<1>5. Cardinality(Away(c, Seen) \cup {s}) = Cardinality(Away(c, Seen)) + 1
  BY <1>2, FS_AddElement
<1>6. Away(s, T) = {}
  BY <1>1 DEF Away
<1> QED BY <1>3, <1>4, <1>5, <1>6

\* The candidate, its away days and the last Basing Point go on.
LEMMA PointsGoOn ==
    ASSUME IInv, machine \in Machines, Scanned(machine, Seen),
           NEW s \in 1..Now, machine.seen < s, Present(s), NEW b, b = bars[s],
           NEW T, T = Seen \cup {s}, NEW n, n = TakeIn(machine, s)
    PROVE  CandidateOf(n, T) /\ PointOf(n, T)
<1> DEFINE Low(m, S) == {r \in LowerIn(S) : r > m.bp}
<1>1. /\ HighOf(machine, Seen) /\ CandidateOf(machine, Seen) /\ PointOf(machine, Seen)
      /\ TypeOK
  BY DEF Scanned, IInv
<1>2. /\ LowerIn(T) = LowerIn(Seen) \cup (IF Rising(machine, b) THEN {} ELSE {s})
      /\ \A r \in Seen : r < s
      /\ Seen = {} => Rising(machine, b)
  BY <1>1, OneMore
<1>3. /\ s \in Nat /\ s \in Sessions /\ machine.seen \in Nat /\ machine.cand \in Nat
      /\ machine.bp \in Nat /\ machine.start \in Nat /\ machine.away \in Nat
      /\ machine.away <= AWAY_DAYS - 1 /\ AWAY_DAYS \in Nat
      /\ machine # NoMachine /\ machine.start <= machine.seen + 1
      /\ machine.bp # machine.start => machine.bp <= machine.seen
  <2>1. Now \in Nat /\ Now <= LastSession /\ LastSession \in Nat
    BY <1>1, Constants DEF TypeOK, Now
  <2>2. machine # NoMachine /\ s \in Nat /\ s \in Sessions
    BY <2>1, SomeMachine DEF Sessions
  <2>3. /\ machine.start <= machine.seen + 1
        /\ machine.bp # machine.start => machine.bp <= machine.seen
    BY <2>2 DEF IInv, Bounded
  <2> QED BY <2>2, <2>3, Constants DEF Machines, Sessions
<1>4. /\ b.low \in Nat
      /\ \A r \in Seen : r \in Nat /\ Present(r) /\ bars[r].low \in Nat /\ bars[r].high \in Nat
  BY <1>1, BarOfPresent, SeenSessions
<1>5. machine.cand # 0 => /\ machine.cand \in Seen /\ machine.cand \in Low(machine, Seen)
                          /\ machine.cand > machine.bp
  BY <1>1 DEF CandidateOf, LowerIn
<1>6. machine.cand # 0 => machine.cand \in 1..Now /\ Present(machine.cand)
  BY <1>4, <1>5, SeenSessions
<1>7. /\ n.start = machine.start
      /\ Breaks(machine, b) => n.cand = 0 /\ n.away = 0 /\ n.bp = s /\ n.level = b.low
      /\ ~Breaks(machine, b) =>
           /\ Opens(machine, s, b) =>
                n.cand = s /\ n.away = 0 /\ n.bp = machine.bp /\ n.level = machine.level
           /\ ~Opens(machine, s, b) /\ IsAway(machine, b) =>
                IF machine.away + 1 >= AWAY_DAYS
                THEN /\ n.cand = 0 /\ n.away = 0 /\ n.bp = s
                     /\ n.level = bars[machine.cand].low
                ELSE /\ n.cand = machine.cand /\ n.away = machine.away + 1
                     /\ n.bp = machine.bp /\ n.level = machine.level
           /\ ~Opens(machine, s, b) /\ ~IsAway(machine, b) =>
                /\ n.cand = machine.cand /\ n.away = machine.away
                /\ n.bp = machine.bp /\ n.level = machine.level
  BY <1>1, <1>3, <1>6, Taken
\* Before a session that makes no new high the last high and the last point are past.
<1>8. ~Rising(machine, b) => machine.highAt < s /\ machine.bp < s
  <2> SUFFICES ASSUME ~Rising(machine, b) PROVE machine.highAt < s /\ machine.bp < s
    OBVIOUS
  <2>1. machine.highAt \in Seen
    BY <1>1, <1>2 DEF HighOf
  <2>2. machine.start <= machine.seen
    BY <1>3, <2>1 DEF Seen, Machines, Sessions
  <2> QED BY <1>2, <1>3, <2>1, <2>2
\* A point that stays, stays earned.
<1>9. n.bp = machine.bp /\ n.level = machine.level => PointOf(n, T)
  <2> SUFFICES ASSUME n.bp = machine.bp, n.level = machine.level, n.bp # n.start
               PROVE  /\ n.bp \in T
                      /\ \/ \E c \in {r \in T : r <= n.bp} :
                               /\ n.level = bars[c].low
                               /\ n.bp \in Away(c, {r \in T : r <= n.bp})
                               /\ Cardinality(Away(c, {r \in T : r <= n.bp})) = AWAY_DAYS
                         \/ rule = "bp4" /\ n.level = bars[n.bp].low
    BY DEF PointOf
  <2>1. {r \in T : r <= n.bp} = {r \in Seen : r <= machine.bp}
    BY <1>3, <1>4, <1>7
  <2> QED BY <1>1, <1>7, <2>1 DEF PointOf
\* A candidate that stays, stays the lowest.
<1>10. ASSUME n.cand = machine.cand, n.bp = machine.bp, ~Opens(machine, s, b),
              n.away = machine.away + (IF IsAway(machine, b) THEN 1 ELSE 0)
       PROVE  CandidateOf(n, T)
  <2>1. CASE machine.cand = 0
    <3>1. Rising(machine, b) /\ ~IsAway(machine, b)
      BY <1>8, <1>10, <2>1 DEF Opens, IsAway
    <3>2. {r \in LowerIn(T) : r > n.bp} = Low(machine, Seen)
      BY <1>2, <1>10, <3>1
    <3>3. Low(machine, Seen) = {} /\ machine.away = 0
      BY <1>1, <2>1 DEF CandidateOf
    <3>4. n.cand = 0 /\ n.away = 0
      BY <1>10, <2>1, <3>1, <3>3
    <3> QED BY <3>2, <3>3, <3>4 DEF CandidateOf
  <2>2. CASE machine.cand # 0
    <3>1. Rising(machine, b) \/ bars[machine.cand].low <= b.low
      BY <1>4, <1>5, <1>8, <1>10, <2>2 DEF Opens
    <3>2. machine.cand < s /\ machine.cand \in Low(machine, Seen)
      BY <1>2, <1>5, <2>2
    <3>3. \A r \in {r \in LowerIn(T) : r > n.bp} :
            r \in Low(machine, Seen) \/ (r = s /\ ~Rising(machine, b))
      BY <1>2, <1>10
    <3>4. Low(machine, Seen) \subseteq {r \in LowerIn(T) : r > n.bp}
      BY <1>2, <1>10
    <3>5. \A r \in Low(machine, Seen) :
            /\ bars[machine.cand].low <= bars[r].low
            /\ r < machine.cand => bars[machine.cand].low < bars[r].low
      BY <1>1, <2>2 DEF CandidateOf
    <3>6. n.away = Cardinality(Away(machine.cand, T))
      <4>1. machine.away = Cardinality(Away(machine.cand, Seen)) /\ machine.cand \in Seen
        BY <1>1, <1>5, <2>2 DEF CandidateOf
      <4>2. IsAway(machine, b) <=> bars[s].low > bars[machine.cand].high
        BY <2>2 DEF IsAway
      <4>3. /\ bars[s].low > bars[machine.cand].high =>
                 Cardinality(Away(machine.cand, T)) = machine.away + 1
            /\ ~(bars[s].low > bars[machine.cand].high) =>
                 Cardinality(Away(machine.cand, T)) = machine.away
        BY <4>1, AwayGoesOn
      <4> QED BY <1>3, <1>10, <4>2, <4>3
    <3>7. \A r \in {r \in LowerIn(T) : r > n.bp} :
            /\ bars[machine.cand].low <= bars[r].low
            /\ r < machine.cand => bars[machine.cand].low < bars[r].low
      <4> SUFFICES ASSUME NEW r \in {r \in LowerIn(T) : r > n.bp}
                   PROVE  /\ bars[machine.cand].low <= bars[r].low
                          /\ r < machine.cand => bars[machine.cand].low < bars[r].low
        OBVIOUS
      <4>1. CASE r \in Low(machine, Seen)
        BY <3>5, <4>1
      <4>2. CASE r = s /\ ~Rising(machine, b)
        BY <1>3, <3>1, <3>2, <4>2
      <4> QED BY <3>3, <4>1, <4>2
    <3> HIDE DEF Low
    <3> QED BY <1>10, <2>2, <3>2, <3>4, <3>6, <3>7 DEF CandidateOf
  <2> QED BY <2>1, <2>2
<1>11. CASE Breaks(machine, b)
  <2>1. {r \in LowerIn(T) : r > s} = {}
    BY <1>2, <1>3, <1>4 DEF LowerIn
  <2>2. s \in T /\ rule = "bp4"
    BY <1>11 DEF Breaks
  <2> QED BY <1>7, <1>11, <2>1, <2>2 DEF CandidateOf, PointOf
<1>12. CASE ~Breaks(machine, b) /\ Opens(machine, s, b)
  <2>1. /\ n.cand = s /\ n.away = 0 /\ n.bp = machine.bp /\ n.level = machine.level
        /\ ~Rising(machine, b) /\ machine.bp < s
        /\ machine.cand = 0 \/ b.low < bars[machine.cand].low
    BY <1>7, <1>12 DEF Opens
  <2>2. {r \in LowerIn(T) : r > n.bp} = Low(machine, Seen) \cup {s}
    BY <1>2, <1>3, <2>1
  <2>3. \A r \in Low(machine, Seen) : b.low < bars[r].low
    <3>1. CASE machine.cand = 0
      BY <1>1, <3>1 DEF CandidateOf
    <3>2. CASE machine.cand # 0
      <4>1. \A r \in Low(machine, Seen) : bars[machine.cand].low <= bars[r].low
        BY <1>1, <3>2 DEF CandidateOf
      <4>2. \A r \in Low(machine, Seen) : r \in Seen
        BY DEF LowerIn
      <4> QED BY <1>4, <1>5, <2>1, <3>2, <4>1, <4>2
    <3> QED BY <3>1, <3>2
  <2>4. n.away = Cardinality(Away(s, T))
    <3>1. PICK c : c \in Seen
      BY <1>2, <2>1
    <3>2. Away(s, T) = {}
      BY <3>1, AwayGoesOn
    <3> QED BY <2>1, <3>2, FS_EmptySet
  <2>5. CandidateOf(n, T)
    <3>1. s # 0 /\ \A r \in Low(machine, Seen) : b.low <= bars[r].low
      <4>1. \A r \in Low(machine, Seen) : r \in Seen
        BY DEF LowerIn
      <4> QED BY <1>4, <2>3, <4>1
    <3>2. b.low <= b.low /\ ~(s < s)
      BY <1>3, <1>4
    <3> HIDE DEF Low
    <3> QED BY <2>1, <2>2, <2>3, <2>4, <3>1, <3>2 DEF CandidateOf
  <2> QED BY <1>9, <2>1, <2>5
<1>13. CASE ~Breaks(machine, b) /\ ~Opens(machine, s, b) /\ IsAway(machine, b)
            /\ machine.away + 1 >= AWAY_DAYS
  <2>1. /\ n.cand = 0 /\ n.away = 0 /\ n.bp = s /\ n.level = bars[machine.cand].low
        /\ machine.cand # 0 /\ bars[s].low > bars[machine.cand].high
    BY <1>7, <1>13 DEF IsAway
  <2>2. {r \in LowerIn(T) : r > s} = {} /\ {r \in T : r <= s} = T
    BY <1>2, <1>3, <1>4 DEF LowerIn
  <2>3. machine.cand \in T /\ machine.cand \in Seen
    BY <1>5, <2>1
  <2>4. s \in Away(machine.cand, T) /\ Cardinality(Away(machine.cand, T)) = AWAY_DAYS
    <3>1. machine.away = Cardinality(Away(machine.cand, Seen))
      BY <1>1, <2>1 DEF CandidateOf
    <3>2. /\ Cardinality(Away(machine.cand, T)) = machine.away + 1
          /\ s \in Away(machine.cand, T)
      BY <2>1, <2>3, <3>1, AwayGoesOn
    <3> QED BY <1>3, <1>13, <3>2
  <2> QED BY <2>1, <2>2, <2>3, <2>4 DEF CandidateOf, PointOf
<1>14. CASE ~Breaks(machine, b) /\ ~Opens(machine, s, b)
            /\ ~(IsAway(machine, b) /\ machine.away + 1 >= AWAY_DAYS)
  <2>1. /\ n.cand = machine.cand /\ n.bp = machine.bp /\ n.level = machine.level
        /\ n.away = machine.away + (IF IsAway(machine, b) THEN 1 ELSE 0)
    BY <1>3, <1>7, <1>14
  <2> QED BY <1>9, <1>10, <1>14, <2>1
<1> QED BY <1>11, <1>12, <1>13, <1>14

\* A machine that is as defined by bars that are still there is as defined afterwards.
LEMMA Carried ==
    ASSUME NEW n, NEW T, Scanned(n, T),
           \A r \in T : bars'[r] = bars[r], rule' = rule, Seen' = T,
           n.high = machine'.high, n.highAt = machine'.highAt, n.cand = machine'.cand,
           n.away = machine'.away, n.bp = machine'.bp, n.level = machine'.level,
           n.peak = machine'.peak, n.recognized = machine'.recognized,
           n.used = machine'.used, n.start = machine'.start
    PROVE  MachineAsDefined'
<1>1. \A r \in T : NewHigh(r)' <=> NewIn(T, r)
  BY DEF NewHigh, NewIn
<1>2. \A c \in T : \A S \in SUBSET T : Away(c, S)' = Away(c, S)
  BY DEF Away
<1>3. HighAsDefined'
  BY <1>1 DEF Scanned, HighOf, HighAsDefined
<1>4. {r \in T : r > n.bp /\ ~NewHigh(r)'} = {r \in LowerIn(T) : r > n.bp}
  BY <1>1 DEF LowerIn
<1>5. CandidateAsDefined'
  <2>1. CASE n.cand = 0
    BY <1>4, <2>1 DEF Scanned, CandidateOf, CandidateAsDefined
  <2>2. CASE n.cand # 0
    <3>1. n.cand \in T /\ \A r \in {r \in LowerIn(T) : r > n.bp} : r \in T
      BY <2>2 DEF Scanned, CandidateOf, LowerIn
    <3>2. Away(n.cand, T)' = Away(n.cand, T)
      BY <1>2, <3>1
    <3> QED BY <1>4, <2>2, <3>1, <3>2 DEF Scanned, CandidateOf, CandidateAsDefined
  <2> QED BY <2>1, <2>2
<1>6. {r \in T : ~NewHigh(r)'} = LowerIn(T) /\ LowerIn(T) \subseteq T
  BY <1>1 DEF LowerIn
<1>7. PeakAsDefined'
  BY <1>6 DEF Scanned, PeakOf, PeakAsDefined
<1>8. PointIsEarned'
  <2> SUFFICES ASSUME n.bp # n.start PROVE PointIsEarned'
    BY DEF PointIsEarned
  <2> DEFINE U == {r \in T : r <= n.bp}
  <2>1. n.bp \in T
    BY DEF Scanned, PointOf
  <2>2. CASE \E c \in U : /\ n.level = bars[c].low /\ n.bp \in Away(c, U)
                          /\ Cardinality(Away(c, U)) = AWAY_DAYS
    <3>1. PICK c \in U : /\ n.level = bars[c].low /\ n.bp \in Away(c, U)
                        /\ Cardinality(Away(c, U)) = AWAY_DAYS
      BY <2>2
    <3>2. U \in SUBSET T /\ c \in T /\ bars'[c] = bars[c]
      OBVIOUS
    <3>3. Away(c, U)' = Away(c, U)
      BY <1>2, <3>2
    <3> QED BY <2>1, <3>1, <3>2, <3>3 DEF PointIsEarned
  <2>3. CASE rule = "bp4" /\ n.level = bars[n.bp].low
    BY <2>1, <2>3 DEF PointIsEarned
  <2> QED BY <2>2, <2>3 DEF Scanned, PointOf
<1> QED BY <1>3, <1>5, <1>7, <1>8 DEF MachineAsDefined

\* A session that the machine takes in, wherever it is taken in.
LEMMA TakenAsDefined ==
    ASSUME IInv, MachineAsDefined, machine \in Machines,
           NEW s \in 1..Now, machine.seen < s, Present(s),
           \A r \in 1..Now : machine.seen < r /\ r < s => ~Present(r),
           NEW n, n = TakeIn(machine, s), NEW T, T = Seen \cup {s}
    PROVE  /\ Scanned(n, T) /\ T \subseteq 1..Now
           /\ T = {r \in machine.start..s : Present(r)}
           /\ n.start = machine.start /\ n.seen = s
<1>1. machine # NoMachine /\ Scanned(machine, Seen) /\ TypeOK
  BY SomeMachine, PartsOfMachine DEF IInv
<1>2. /\ machine.cand # 0 => machine.cand \in 1..Now /\ Present(machine.cand)
      /\ s \in Sessions
      /\ machine.start \in Nat \ {0} /\ machine.start <= machine.seen + 1
      /\ machine.seen \in Nat /\ s \in Nat /\ Now \in Nat
  <2>1. Now \in Nat /\ Now <= LastSession /\ LastSession \in Nat
    BY <1>1, Constants DEF TypeOK, Now
  <2>2. machine.cand # 0 => machine.cand \in Seen
    BY <1>1 DEF Scanned, CandidateOf, LowerIn
  <2>3. machine.start <= machine.seen + 1
    BY <1>1 DEF IInv, Bounded
  <2> QED BY <2>1, <2>2, <2>3, SeenSessions DEF Machines, Sessions
<1>3. PICK b : b = bars[s]
  OBVIOUS
<1>4. /\ n.start = machine.start /\ n.seen = s
      /\ n.high = (IF Rising(machine, b) THEN b.high ELSE machine.high)
      /\ n.highAt = (IF Rising(machine, b) THEN s ELSE machine.highAt)
      /\ n.peak = PeakAfter(machine, b)
      /\ n.recognized <=> ~Rising(machine, b) /\ (machine.recognized \/ Newly(machine, b))
      /\ n.used <=> (machine.used /\ ~Newly(machine, b)) \/ Breaks(machine, b)
  BY <1>1, <1>2, <1>3, Taken
<1>5. HighOf(n, T)
  BY <1>1, <1>3, <1>4, HighGoesOn DEF Scanned
<1>6. PeakOf(n, T)
  BY <1>1, <1>3, <1>4, PeakGoesOn DEF Scanned
<1>7. CandidateOf(n, T) /\ PointOf(n, T)
  BY <1>1, <1>3, PointsGoOn
<1>8. T \subseteq 1..Now
  BY SeenSessions
<1>9. T = {r \in machine.start..s : Present(r)}
  BY <1>2 DEF Seen
<1> QED BY <1>4, <1>5, <1>6, <1>7, <1>8, <1>9 DEF Scanned

\* The same machine, or one at another place, of the same bars.
LEMMA StaysAsDefined ==
    ASSUME IInv, MachineAsDefined, machine \in Machines,
           \A r \in 1..Now : bars'[r] = bars[r], rule' = rule,
           machine.seen \in Nat,
           machine'.start = machine.start,
           \A r \in machine.start..machine'.seen : r \in machine.start..machine.seen \/
                (r \in 1..Now /\ ~Present(r)),
           machine'.seen >= machine.seen, machine'.seen \in Nat,
           machine'.high = machine.high, machine'.highAt = machine.highAt,
           machine'.cand = machine.cand, machine'.away = machine.away,
           machine'.bp = machine.bp, machine'.level = machine.level,
           machine'.peak = machine.peak, machine'.recognized = machine.recognized,
           machine'.used = machine.used
    PROVE  MachineAsDefined'
<1>1. Scanned(machine, Seen) /\ Seen \subseteq 1..Now
  BY SomeMachine, PartsOfMachine, SeenSessions DEF IInv
<1>2. Seen' = Seen
  <2>1. machine.start \in Nat \ {0} /\ machine.seen <= Now /\ Now \in Nat
    BY SomeMachine DEF IInv, TypeOK, Machines, Sessions, Now
  <2>2. \A r \in 1..Now : Present(r)' <=> Present(r)
    BY DEF Present
  <2>3. Seen' = {r \in machine.start..machine'.seen : Present(r)'}
    BY DEF Seen
  <2> QED BY <2>1, <2>2, <2>3 DEF Seen
<1>3. PICK n, T : n = machine /\ T = Seen
  OBVIOUS
<1> QED BY <1>1, <1>2, <1>3, Carried

\* A new machine has taken nothing in.
LEMMA BlankAsDefined ==
    ASSUME IInv, due, machine' = Blank, UNCHANGED <<bars, held, distance, rule, due>>
    PROVE  MachineAsDefined'
<1>1. TypeOK /\ Now > 0
  BY DEF IInv, InStep
<1>2. WindowStart \in Nat \ {0}
  BY <1>1, Window DEF Sessions
<1>3. /\ machine'.start = WindowStart /\ machine'.seen = WindowStart - 1
      /\ machine'.high = 0 /\ machine'.cand = 0 /\ machine'.away = 0
      /\ machine'.bp = WindowStart /\ machine'.peak = 0
      /\ machine'.recognized = FALSE /\ machine'.used = FALSE
  BY DEF Blank
<1>4. Seen' = {}
  BY <1>2, <1>3 DEF Seen
<1> QED BY <1>3, <1>4
        DEF MachineAsDefined, HighAsDefined, CandidateAsDefined, PeakAsDefined, PointIsEarned

\* A step of any kind leaves or makes a machine that is as defined.
LEMMA AsDefinedStep == IInv /\ MachineAsDefined /\ [Next]_vars => MachineAsDefined'
<1> SUFFICES ASSUME IInv, MachineAsDefined, [Next]_vars PROVE MachineAsDefined'
  OBVIOUS
<1>1. CASE machine' = NoMachine
  BY <1>1 DEF MachineAsDefined
<1>2. ASSUME machine' = machine, \A r \in 1..Now : bars'[r] = bars[r], rule' = rule
      PROVE  MachineAsDefined'
  <2>1. CASE machine = NoMachine
    BY <1>1, <1>2, <2>1
  <2>2. CASE machine # NoMachine
    <3>1. machine \in Machines /\ machine.seen \in Nat /\ machine.seen >= machine.seen
      BY <2>2 DEF IInv, TypeOK, Machines
    <3> QED BY <1>2, <3>1, StaysAsDefined
  <2> QED BY <2>1, <2>2
<1>3. CASE \E b \in Bars \cup {NoBar}, r \in BOOLEAN : Close(b, r)
  <2>1. machine' = machine /\ rule' = rule /\ \A s \in 1..Now : bars'[s] = bars[s]
    BY <1>3, Closed DEF Close, IInv
  <2> QED BY <1>2, <2>1
<1>4. CASE Establish \/ Reseed
  BY <1>4, BlankAsDefined DEF Establish, Reseed
<1>5. CASE FailOpen \/ StaysOut \/ Miss \/ UNCHANGED vars
  <2>1. machine' = machine /\ bars' = bars /\ rule' = rule
    BY <1>5 DEF FailOpen, StaysOut, Miss, Evaluated, vars
  <2> QED BY <1>2, <2>1
<1>6. CASE Drop
  BY <1>1, <1>6 DEF Drop
<1>7. CASE Scan
  <2>1. machine.at = "build" /\ machine \in Machines /\ machine.seen < Now
        /\ bars' = bars /\ rule' = rule
    BY <1>7, SomeMachine DEF Scan, IInv
  <2>2. PICK s : s = machine.seen + 1
    OBVIOUS
  <2>3. s \in 1..Now /\ machine.seen < s /\ machine.seen \in Nat /\ Now \in Nat
    BY <2>1, <2>2 DEF IInv, TypeOK, Machines, Now
  <2>4. CASE Present(s)
    <3>1. PICK n, T : n = TakeIn(machine, s) /\ T = Seen \cup {s}
      OBVIOUS
    <3>2. machine' = n
      BY <1>7, <2>2, <2>4, <3>1 DEF Scan
    <3>3. /\ Scanned(n, T) /\ T = {r \in machine.start..s : Present(r)}
          /\ n.start = machine.start /\ n.seen = s
      BY <2>1, <2>2, <2>3, <2>4, <3>1, TakenAsDefined
    <3>4. Seen' = T
      BY <2>1, <3>2, <3>3 DEF Seen, Present
    <3> QED BY <2>1, <3>2, <3>3, <3>4, Carried
  <2>5. CASE ~Present(s)
    <3>1. machine' = [machine EXCEPT !.seen = s]
      BY <1>7, <2>2, <2>5 DEF Scan
    <3>2. /\ machine'.seen = s /\ machine'.start = machine.start
          /\ machine'.high = machine.high /\ machine'.highAt = machine.highAt
          /\ machine'.cand = machine.cand /\ machine'.away = machine.away
          /\ machine'.bp = machine.bp /\ machine'.level = machine.level
          /\ machine'.peak = machine.peak /\ machine'.recognized = machine.recognized
          /\ machine'.used = machine.used
      BY <2>1, <3>1 DEF Machines
    <3>3. machine.start \in Nat \ {0}
      BY <2>1 DEF Machines, Sessions
    <3>4. \A r \in machine.start..machine'.seen :
            r \in machine.start..machine.seen \/ (r \in 1..Now /\ ~Present(r))
      BY <2>2, <2>3, <2>5, <3>2, <3>3
    <3>5. machine'.seen >= machine.seen /\ machine'.seen \in Nat
      BY <2>3, <3>2
    <3> QED BY <2>1, <2>3, <3>2, <3>4, <3>5, StaysAsDefined
  <2> QED BY <2>4, <2>5
<1>8. CASE Enter
  <2>1. /\ machine.at = "build" /\ machine \in Machines /\ bars' = bars /\ rule' = rule
        /\ machine' = [machine EXCEPT !.at = "live", !.stop = InitialStop]
    BY <1>8, SomeMachine DEF Enter, Evaluated, IInv
  <2>2. /\ machine'.seen = machine.seen /\ machine'.start = machine.start
        /\ machine'.high = machine.high /\ machine'.highAt = machine.highAt
        /\ machine'.cand = machine.cand /\ machine'.away = machine.away
        /\ machine'.bp = machine.bp /\ machine'.level = machine.level
        /\ machine'.peak = machine.peak /\ machine'.recognized = machine.recognized
        /\ machine'.used = machine.used
    BY <2>1 DEF Machines
  <2>3. machine.seen \in Nat /\ machine.seen >= machine.seen
    BY <2>1 DEF Machines
  <2> QED BY <2>1, <2>2, <2>3, StaysAsDefined
<1>9. CASE Advance
  <2>1. PICK n, T : n = TakeIn(machine, Now) /\ T = Seen \cup {Now}
    OBVIOUS
  <2>2. /\ machine \in Machines /\ machine.at = "live" /\ Now \in 1..Now /\ Present(Now)
        /\ machine.seen < Now
        /\ machine'.start = n.start /\ machine'.seen = n.seen
        /\ machine'.high = n.high /\ machine'.highAt = n.highAt /\ machine'.cand = n.cand
        /\ machine'.away = n.away /\ machine'.bp = n.bp /\ machine'.level = n.level
        /\ machine'.peak = n.peak /\ machine'.recognized = n.recognized
        /\ machine'.used = n.used
    BY <1>9, <2>1, Advanced
  <2>3. bars' = bars /\ rule' = rule
    BY <1>9 DEF Advance, Evaluated
  <2>4. \A r \in 1..Now : machine.seen < r /\ r < Now => ~Present(r)
    BY <2>2 DEF IInv, InStep
  <2>5. /\ Scanned(n, T) /\ T = {r \in machine.start..Now : Present(r)}
        /\ n.start = machine.start /\ n.seen = Now
    BY <2>1, <2>2, <2>4, TakenAsDefined
  <2>6. Seen' = T
    BY <2>2, <2>3, <2>5 DEF Seen, Present
  <2> QED BY <2>2, <2>3, <2>5, <2>6, Carried
<1> QED BY <1>3, <1>4, <1>5, <1>6, <1>7, <1>8, <1>9 DEF Next

\* A machine is what the rules say of the bars from its window's start on: the scan of a
\* window and the advances of a session at a time come to the same, whenever the name
\* entered and whatever bars are missing.
THEOREM MachineIsAsDefined == Spec => []MachineAsDefined
<1>1. Init => MachineAsDefined
  BY DEF Init, MachineAsDefined
<1> QED BY <1>1, InvInit, InvStep, AsDefinedStep, PTL DEF Spec
=============================================================================

---------------------------- MODULE BasingPoints ----------------------------
(***************************************************************************)
(* The Basing Points stop of GUARD's layer 1 (stop_rule bp3 or bp4): one   *)
(* satellite name, whose stop machine is built from the last bars when the *)
(* name enters the reference weights, advanced after every close, and      *)
(* built anew when a stopped name is still wanted at a decision date.      *)
(*                                                                         *)
(* src/src/cycle/guard/basing.py and _layer1_bp of guard/core.py, fed by   *)
(* backtest/engine.py and driver.py.  The scan of the bars at entry is one *)
(* step per session, as the loop of _initial_machine.  Prices are natural  *)
(* numbers, and a stop is in hundredths of a price.                        *)
(***************************************************************************)
EXTENDS Integers, Sequences, FiniteSets

CONSTANTS
    Bars,               \* the bars a session may have
    LastSession,        \* bound: the sessions are 1..LastSession
    Decisions,          \* the decision dates
    Distances,          \* stop distances, per cent
    Rules,              \* of {"bp3", "bp4"}
    TRACKING_SESSIONS, FALLBACK_SESSIONS, AWAY_DAYS

Sessions == 1..LastSession

ASSUME BasingAssumption ==
    /\ LastSession \in Nat /\ Decisions \subseteq Sessions
    /\ Distances \subseteq 0..99
    /\ Rules \subseteq {"bp3", "bp4"}
    /\ TRACKING_SESSIONS \in Nat /\ FALLBACK_SESSIONS \in Nat \ {0}
    /\ AWAY_DAYS \in Nat \ {0}
    /\ \A b \in Bars :                              \* _check_bar
         /\ b \in [high : Nat, low : Nat, close : Nat]
         /\ 0 < b.low /\ b.low <= b.close /\ b.close <= b.high

VARIABLES
    bars,      \* the bars so far, one per session
    held,      \* the name is in the reference weights of the last session
    distance,  \* the stop distance in force
    due,       \* the session closed and the overlay has not looked at it yet
    rule,      \* stop_rule
    machine    \* the name's BasingPointState

vars == <<bars, held, distance, due, rule, machine>>

NoBar == [high |-> 0, low |-> 0, close |-> 0]
Now   == Len(bars)
Present(s) == bars[s] # NoBar

\* start is the first session of the history it was built from, seen the last it
\* took in; cand is the session of the candidate low, bp that of the last Basing
\* Point and level its low.  0 stands for None.
Machines ==
    [at : {"build", "live", "out"}, start : Sessions, entry : Sessions,
     seen : 0..LastSession, high : Nat, highAt : Sessions, cand : 0..LastSession,
     away : 0..AWAY_DAYS - 1, bp : Sessions, level : Nat, peak : Nat,
     recognized : BOOLEAN, used : BOOLEAN, stop : Nat]
NoMachine == [at |-> "none"]

TypeOK ==
    /\ bars \in Seq(Bars \cup {NoBar}) /\ Now <= LastSession
    /\ held \in BOOLEAN /\ due \in BOOLEAN
    /\ distance \in 0..99 /\ rule \in Rules
    /\ machine \in Machines \cup {NoMachine}
    /\ machine # NoMachine =>
         /\ machine.seen <= Now /\ machine.entry <= Now /\ machine.start <= machine.entry
         /\ machine.cand # 0 => Present(machine.cand)

Init ==
    /\ bars = <<>>
    /\ held = FALSE /\ distance = 10 /\ due = FALSE
    /\ rule \in Rules
    /\ machine = NoMachine

-----------------------------------------------------------------------------
(* The rules, of a machine that takes in the bar of session s *)

\* (i) A session without a new high recognizes the pending peak.
Recognize(m, b) ==
    IF m.high > 0 /\ b.high <= m.high /\ ~m.recognized
    THEN [m EXCEPT !.peak = m.high, !.recognized = TRUE, !.used = FALSE]
    ELSE m

\* A Basing Point at s with this low: the candidate is consumed.
Based(m, s, low) == [m EXCEPT !.bp = s, !.level = low, !.cand = 0, !.away = 0]

\* (ii) Rule 4: a close more than 3% above the recognized peak, once per peak.
Rule4(m, s, b) ==
    IF rule = "bp4" /\ m.peak # 0 /\ ~m.used /\ 100 * b.close > 103 * m.peak
    THEN [Based(m, s, b.low) EXCEPT !.used = TRUE]
    ELSE m

\* (iii) The running high; the recognized level stays.
RunHigh(m, s, b) ==
    IF b.high > m.high
    THEN [m EXCEPT !.high = b.high, !.highAt = s, !.recognized = FALSE]
    ELSE m

\* Mutant: the last away day is counted and not acted on.
Rule3ADayLate(m, s, b) ==
    IF m.highAt < s /\ m.bp < s /\ (m.cand = 0 \/ b.low < bars[m.cand].low)
    THEN [m EXCEPT !.cand = s, !.away = 0]
    ELSE IF m.cand # 0 /\ b.low > bars[m.cand].high
    THEN IF m.away >= AWAY_DAYS
         THEN Based(m, s, bars[m.cand].low)
         ELSE [m EXCEPT !.away = @ + 1]
    ELSE m

\* (iv) A strictly lower low is the new candidate, a session above the candidate's
\* high an away day, and enough of these make it a Basing Point: rule 3.
Rule3(m, s, b) ==
    IF m.highAt < s /\ m.bp < s /\ (m.cand = 0 \/ b.low < bars[m.cand].low)
    THEN [m EXCEPT !.cand = s, !.away = 0]
    ELSE IF m.cand # 0 /\ b.low > bars[m.cand].high
    THEN IF m.away + 1 >= AWAY_DAYS
         THEN Based(m, s, bars[m.cand].low)
         ELSE [m EXCEPT !.away = @ + 1]
    ELSE m

\* Mutant: the running high first, and then the peak.
TakeInHighFirst(m, s) ==
    LET b == bars[s]
        moved == Rule4(Recognize(RunHigh(m, s, b), b), s, b)
    IN  [Rule3(moved, s, b) EXCEPT !.seen = s]

\* The rules in their order.
TakeIn(m, s) ==
    LET b == bars[s]
        moved == RunHigh(Rule4(Recognize(m, b), s, b), s, b)
    IN  [Rule3(moved, s, b) EXCEPT !.seen = s]

StopUnder(low) == low * (100 - distance)

-----------------------------------------------------------------------------
(* The sessions *)

\* A session closes.  The reference is the NOGUARD twin's: a new target at a
\* decision, and else what it holds: a name may be sold at any close, and a suspended
\* one, which cannot be, comes back.  The distance is set at a decision, 0.10 for a name
\* it does not want.
Close(b, reference) ==
    /\ ~due /\ Now < LastSession
    /\ bars' = Append(bars, b)
    /\ held' = reference
    /\ distance' \in IF Now + 1 \notin Decisions THEN {distance}
                    ELSE IF reference THEN Distances ELSE {10}
    /\ Now + 1 \in Decisions \/ b = NoBar \/ (reference => held)
    /\ due' = TRUE
    /\ UNCHANGED <<rule, machine>>

Evaluated == due' = FALSE /\ UNCHANGED <<bars, held, distance, rule>>

\* The bars of the tracking window.
WindowStart == IF Now > TRACKING_SESSIONS THEN Now - TRACKING_SESSIONS ELSE 1
SomeBar == \E s \in WindowStart..Now : Present(s)

\* The machine of _initial_machine before its loop.
Blank ==
    [at |-> "build", start |-> WindowStart, entry |-> Now, seen |-> WindowStart - 1,
     high |-> 0, highAt |-> WindowStart, cand |-> 0, away |-> 0,
     bp |-> WindowStart, level |-> 0, peak |-> 0, recognized |-> FALSE,
     used |-> FALSE, stop |-> 0]

\* A name first seen in the reference; without any bar it waits, unstopped.
Establish ==
    /\ due /\ machine = NoMachine /\ held
    /\ SomeBar
    /\ machine' = Blank
    /\ UNCHANGED <<bars, held, distance, rule, due>>

FailOpen ==
    /\ due /\ machine = NoMachine /\ held
    /\ ~SomeBar
    /\ Evaluated /\ UNCHANGED machine

\* A stopped name that a decision still wants.
Reseed ==
    /\ due /\ machine.at = "out" /\ held /\ Now \in Decisions
    /\ machine' = Blank
    /\ UNCHANGED <<bars, held, distance, rule, due>>

StaysOut ==
    /\ due /\ machine.at = "out" /\ Now \notin Decisions
    /\ Evaluated /\ UNCHANGED machine

\* A name that leaves the reference; a stopped one leaves at a decision.
Drop ==
    /\ due /\ ~held
    /\ machine.at = "out" => Now \in Decisions
    /\ machine' = NoMachine
    /\ Evaluated

\* The loop of _initial_machine.
Scan ==
    /\ machine.at = "build" /\ machine.seen < Now
    /\ LET s == machine.seen + 1
       IN  machine' = IF Present(s) THEN TakeIn(machine, s) ELSE [machine EXCEPT !.seen = s]
    /\ UNCHANGED <<bars, held, distance, rule, due>>

\* The close at entry: the last one there is, 0 for none.
LastClose ==
    IF SomeBar
    THEN bars[CHOOSE s \in WindowStart..Now :
                Present(s) /\ \A r \in WindowStart..Now : Present(r) => r <= s].close
    ELSE 0

\* The lows of the last FALLBACK_SESSIONS sessions of the window.
FallbackLows ==
    {bars[s].low :
        s \in {r \in WindowStart..Now : r > Now - FALLBACK_SESSIONS /\ Present(r)}}

Fallback ==
    IF FallbackLows = {} THEN 0
    ELSE StopUnder(CHOOSE l \in FallbackLows : \A k \in FallbackLows : l <= k)

\* Mutant: a Basing Point is taken wherever the close is.
InitialStopOfPoint ==
    IF machine.bp # machine.start THEN StopUnder(machine.level) ELSE Fallback

\* Under the latest Basing Point of the window, unless there is none or the close
\* is there already.
InitialStop ==
    IF /\ machine.bp # machine.start
       /\ ~(LastClose # 0 /\ StopUnder(machine.level) >= 100 * LastClose)
    THEN StopUnder(machine.level)
    ELSE Fallback

Enter ==
    /\ machine.at = "build" /\ machine.seen = Now
    /\ machine' = [machine EXCEPT !.at = "live", !.stop = InitialStop]
    /\ Evaluated

\* A session without a bar neither updates nor triggers.
Miss ==
    /\ due /\ machine.at = "live" /\ held /\ ~Present(Now)
    /\ Evaluated /\ UNCHANGED machine

Raised(m) ==
    IF m.bp = Now /\ StopUnder(m.level) > m.stop
    THEN [m EXCEPT !.stop = StopUnder(m.level)]
    ELSE m

Advance ==
    /\ due /\ machine.at = "live" /\ held /\ Present(Now)
    /\ LET m == Raised(TakeIn(machine, Now))
       IN  machine' = IF 100 * bars[Now].close < m.stop THEN [m EXCEPT !.at = "out"] ELSE m
    /\ Evaluated

Next ==
    \/ \E b \in Bars \cup {NoBar}, reference \in BOOLEAN : Close(b, reference)
    \/ Establish \/ FailOpen \/ Reseed \/ StaysOut \/ Drop
    \/ Scan \/ Enter \/ Miss \/ Advance

Spec == Init /\ [][Next]_vars

-----------------------------------------------------------------------------
(* Properties *)

\* The bars the machine has taken in, and those of them that made a new high.
Seen == {s \in machine.start..machine.seen : Present(s)}
NewHigh(s) == \A r \in Seen : r < s => bars[r].high < bars[s].high

\* The sessions of some that lie wholly above the bar of c.
Away(c, S) == {s \in S : s > c /\ bars[s].low > bars[c].high}

HighAsDefined ==
    IF Seen = {} THEN machine.high = 0
    ELSE /\ machine.highAt \in Seen /\ NewHigh(machine.highAt)
         /\ machine.high = bars[machine.highAt].high
         /\ \A s \in Seen : bars[s].high <= machine.high

\* The candidate is the first session with the lowest low of those after the last
\* Basing Point that did not make a new high.
CandidateAsDefined ==
    LET low == {s \in Seen : s > machine.bp /\ ~NewHigh(s)}
        c   == machine.cand
    IN  IF c = 0 THEN low = {} /\ machine.away = 0
        ELSE /\ c \in low
             /\ \A s \in low : /\ bars[c].low <= bars[s].low
                               /\ s < c => bars[c].low < bars[s].low
             /\ machine.away = Cardinality(Away(c, Seen))

\* The peak is the running high as of the last session that made no new one, and is
\* used once a close is more than 3% above it.
PeakAsDefined ==
    LET lower == {s \in Seen : ~NewHigh(s)}
    IN  IF lower = {} THEN machine.peak = 0 /\ ~machine.recognized /\ ~machine.used
        ELSE /\ \E q \in lower, h \in Seen :
                  /\ \A s \in lower : s <= q
                  /\ h < q /\ machine.peak = bars[h].high
                  /\ \A s \in Seen : s <= q => bars[s].high <= machine.peak
                  /\ machine.recognized <=> \A s \in Seen : s <= q
             /\ machine.used <=>
                  rule = "bp4" /\ \E s \in Seen : 100 * bars[s].close > 103 * machine.peak

\* The last Basing Point has its away days, the last of them the session it was
\* established on, or is the low of a session that rule 4 saw.
PointIsEarned ==
    machine.bp # machine.start =>
        LET upTo == {s \in Seen : s <= machine.bp}
        IN  /\ machine.bp \in Seen
            /\ \/ \E c \in upTo :
                     /\ machine.level = bars[c].low
                     /\ machine.bp \in Away(c, upTo)
                     /\ Cardinality(Away(c, upTo)) = AWAY_DAYS
               \/ rule = "bp4" /\ machine.level = bars[machine.bp].low

\* The machine is what its rules say of the bars from its start on, wherever the
\* name entered, whatever bars are missing: _initial_machine, which scans a window,
\* and advance, which takes a session at a time, come to the same.
MachineAsDefined ==
    machine # NoMachine =>
        HighAsDefined /\ CandidateAsDefined /\ PeakAsDefined /\ PointIsEarned

\* A name enters with its stop at or under the last close, and over nothing if there
\* is a bar to put it under; it is out only by a later close under its stop.
EntersUnderTheMarket ==
    LET window == machine.start..machine.entry
        last(s) == Present(s) /\ \A r \in window : Present(r) => r <= s
        recent  == {s \in window : s > machine.entry - FALLBACK_SESSIONS /\ Present(s)}
    IN  /\ machine.at = "live" /\ machine.seen = machine.entry =>
             /\ \A s \in window : last(s) => machine.stop <= 100 * bars[s].close
             /\ recent # {} => machine.stop > 0
        /\ machine.at = "out" =>
             /\ machine.seen > machine.entry
             /\ 100 * bars[machine.seen].close < machine.stop

\* "Stops only move up": a new distance or a lower Basing Point lowers none.
StopsOnlyMoveUp ==
    [][machine.at = "live" /\ machine'.at \in {"live", "out"} =>
         machine'.stop >= machine.stop]_vars
=============================================================================

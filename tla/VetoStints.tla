----------------------------- MODULE VetoStints -----------------------------
(***************************************************************************)
(* The veto table of the cycle: stints (raised_on .. cleared_on) of an     *)
(* asset under a rule, written by the veto step of select, monitor and     *)
(* backfill, read point in time by the ranking, and reset by               *)
(* `backfill --force`.                                                     *)
(*                                                                         *)
(* writers.write_vetoes and restore_expiries_from (src/src/cycle),         *)
(* replay.reset_replay_range and the guard and the reads of                *)
(* src/src/kg_schema/queries.py.  A write is one transaction, and nothing  *)
(* of the step is kept by a crash before its commit; a crash after it, a   *)
(* second cycle type or a reset date writes the same date again, so any    *)
(* date may be written any number of times.                                *)
(***************************************************************************)
EXTENDS Integers

CONSTANTS
    Keys,       \* an asset under a rule
    Hold,       \* Hold[k]: hold_days of the rule in cycle dates, 0: not temporal
    Opinions,   \* what the rules may say together on a date
    LastDate    \* cycle dates are 1..LastDate; 0 is a date before any of them

\* What a rule says of an asset on a cycle date.  A disabled rule is not asked.
Verdicts == {"hit", "gone", "unknown", "disabled"}

ASSUME VetoAssumption ==
    /\ LastDate \in Nat \ {0}
    /\ Hold \in [Keys -> Nat]
    /\ Opinions \subseteq [Keys -> Verdicts]

Dates  == 1..LastDate
Raises == 0..LastDate
Open   == LastDate + 1        \* cleared_on IS NULL
None   == 0                   \* no row, and expires_on IS NULL

VARIABLES
    veto,    \* the table: veto[k][f] is the stint of k raised on f
    ran,     \* history: what the rules last said on each date written
    late     \* history: some date was first written, or rewritten, after a later one

vars == <<veto, ran, late>>

-----------------------------------------------------------------------------
(* Types *)

Expiries == {None} \cup {d + Hold[k] : d \in Dates, k \in Keys}
Moves    == [on : Dates, was : Expiries]     \* expiry_history_json
Stints   == [to : {None} \cup Dates \cup {Open}, seen : Raises,
             expires : Expiries, moved : SUBSET Moves]
NoStint  == [to |-> None, seen |-> 0, expires |-> None, moved |-> {}]

NotRun == [k \in Keys |-> "unknown"]
Ran    == [wrote : BOOLEAN, said : [Keys -> Verdicts]]

TypeOK ==
    /\ veto \in [Keys -> [Raises -> Stints]]
    /\ ran \in [Dates -> Ran]
    /\ late \in BOOLEAN

\* A stint raised before T-070 has no expiry, its rule temporal or not.
Legacy == [NoStint EXCEPT !.to = Open]

Init ==
    /\ \E old \in SUBSET Keys :
         veto = [k \in Keys |-> [f \in Raises |->
                    IF f = 0 /\ k \in old THEN Legacy ELSE NoStint]]
    /\ ran = [d \in Dates |-> [wrote |-> FALSE, said |-> NotRun]]
    /\ late = FALSE

-----------------------------------------------------------------------------
(* Reading *)

Exists(v, k, f) == v[k][f].to # None
IsOpen(v, k, f) == v[k][f].to = Open

\* hard_vetoed_as_of and active_soft_vetoes at a cutoff.
Active(v, k, cutoff) ==
    \E f \in Raises : Exists(v, k, f) /\ f <= cutoff /\ cutoff < v[k][f].to

\* Mutant: no guard.
NeverRefused(v, d) == FALSE

\* veto_out_of_order_reason: a transition is recorded after d.
OutOfOrder(v, d) ==
    \E k \in Keys, f \in Raises :
        /\ Exists(v, k, f)
        /\ \/ f > d
           \/ ~IsOpen(v, k, f) /\ v[k][f].to > d
           \/ v[k][f].seen > d

-----------------------------------------------------------------------------
(* Writing *)

\* Mutant: the extensions stay.
RestoreNothing(stint, d) == stint

\* restore_expiries_from: the extensions on or after d are taken back.
RestoreExpiry(stint, d) ==
    LET dropped == {m \in stint.moved : m.on >= d}
        first   == CHOOSE m \in dropped : \A n \in dropped : m.on <= n.on
    IN  IF dropped = {} THEN stint
        ELSE [stint EXCEPT !.expires = first.was, !.moved = @ \ dropped]

\* write_vetoes first undoes what an earlier write of d did.
Undone(v, d) ==
    [k \in Keys |-> [f \in Raises |->
        LET stint == v[k][f]
        IN  IF f = d \/ stint.to = None THEN NoStint
            ELSE RestoreExpiry(IF stint.to = d THEN [stint EXCEPT !.to = Open] ELSE stint, d)]]

\* Mutant: the hold ends one date early.
HeldUntilEve(k, stint, d) == Hold[k] # 0 /\ stint.expires # None /\ d + 1 < stint.expires

\* A temporal stint before its expiry; one with no expiry is not held.
Held(k, stint, d) == Hold[k] # 0 /\ stint.expires # None /\ d < stint.expires

\* Mutant: every hit pushes the expiry further.
PushedOn(k, stint, d) ==
    IF Hold[k] = 0 THEN [stint EXCEPT !.seen = d]
    ELSE [stint EXCEPT !.seen = d, !.expires = @ + Hold[k],
                       !.moved = @ \cup {[on |-> d, was |-> stint.expires]}]

\* A hit on an open stint: seen again, and extended once its expiry is reached.
SeenAgain(k, stint, d) ==
    IF Hold[k] = 0 \/ Held(k, stint, d) THEN [stint EXCEPT !.seen = d]
    ELSE [stint EXCEPT !.seen = d, !.expires = d + Hold[k],
                       !.moved = @ \cup {[on |-> d, was |-> stint.expires]}]

\* A hit with no open stint.
Raised(k, d) ==
    [to |-> Open, seen |-> d, expires |-> IF Hold[k] = 0 THEN None ELSE d + Hold[k],
     moved |-> {}]

\* An open stint after the rules spoke on d.
Judged(k, stint, d, verdict) ==
    IF verdict = "hit" THEN SeenAgain(k, stint, d)
    ELSE IF verdict = "disabled" \/ (verdict = "gone" /\ ~Held(k, stint, d))
         THEN [stint EXCEPT !.to = d]
    ELSE stint

Applied(v, d, said) ==
    [k \in Keys |-> [f \in Raises |->
        IF IsOpen(v, k, f) THEN Judged(k, v[k][f], d, said[k])
        ELSE IF f = d /\ said[k] = "hit" /\ ~\E g \in Raises : IsOpen(v, k, g)
             THEN Raised(k, d)
        ELSE v[k][f]]]

\* The veto step of a cycle at d.  Refused after a later transition; under
\* --allow-backdated-veto it then evaluates and writes nothing.
WriteVetoes(d, said) ==
    /\ ~OutOfOrder(veto, d)
    /\ veto' = Applied(Undone(veto, d), d, said)
    /\ ran' = [ran EXCEPT ![d] = [wrote |-> TRUE, said |-> said]]
    /\ late' = (late \/ \E e \in Dates : e > d /\ ran[e].wrote)

\* Mutant: last_seen_on survives the reset.
ResetButSeen(v, d) ==
    [k \in Keys |-> [f \in Raises |->
        LET stint == v[k][f]
        IN  IF f >= d \/ stint.to = None THEN NoStint
            ELSE RestoreExpiry(
                   IF stint.to >= d THEN [stint EXCEPT !.to = Open] ELSE stint, d)]]

\* Mutant: stints cleared from d on are dropped with those raised from d on.
ResetDropsCleared(v, d) ==
    [k \in Keys |-> [f \in Raises |->
        LET stint == v[k][f]
        IN  IF f >= d \/ stint.to = None \/ (stint.to >= d /\ stint.to # Open) THEN NoStint
            ELSE RestoreExpiry([stint EXCEPT !.seen = IF @ >= d THEN f ELSE @], d)]]

\* The veto part of reset_replay_range.
ResetFrom(v, d) ==
    [k \in Keys |-> [f \in Raises |->
        LET stint == v[k][f]
        IN  IF f >= d \/ stint.to = None THEN NoStint
            ELSE RestoreExpiry(
                   [stint EXCEPT !.to = IF @ >= d THEN Open ELSE @,
                                 !.seen = IF @ >= d THEN f ELSE @], d)]]

ResetReplayRange(d) ==
    /\ veto' = ResetFrom(veto, d)
    /\ ran' = [e \in Dates |-> IF e >= d THEN [wrote |-> FALSE, said |-> NotRun] ELSE ran[e]]
    /\ UNCHANGED late

Next ==
    \/ \E d \in Dates, said \in Opinions : WriteVetoes(d, said)
    \/ \E d \in Dates : ResetReplayRange(d)

Spec == Init /\ [][Next]_vars

-----------------------------------------------------------------------------
(* Properties *)

\* "At most one open stint per (asset_id, rule_id)": the stints of a key are
\* disjoint and never touch, in whatever order dates are written and reset.
StintsAreDisjoint ==
    \A k \in Keys, f \in Raises :
        Exists(veto, k, f) =>
            /\ f < veto[k][f].to
            /\ \A g \in Raises : f < g /\ Exists(veto, k, g) => veto[k][f].to < g

\* A temporal stint "cannot clear before expires_on", through extensions, same-date
\* rewrites and resets; only a disabled rule ends it early.
HeldToExpiry ==
    \A k \in Keys, f \in Raises :
        LET stint == veto[k][f] IN
        Exists(veto, k, f) /\ ~IsOpen(veto, k, f) /\ Hold[k] # 0 /\ stint.expires # None =>
            stint.to >= stint.expires \/ ran[stint.to].said[k] = "disabled"

\* The T-1 reads are reproducible: the vetoes active on a date change only by a write
\* or a reset of that date or of an earlier one, so the ranking of d reads the same
\* before and after its veto step and every later one.
PastReadsStand ==
    [][\A k \in Keys, cutoff \in Raises :
         Active(veto, k, cutoff)' # Active(veto, k, cutoff) =>
            \E d \in Dates : /\ d <= cutoff
                             /\ WriteVetoes(d, ran'[d].said) \/ ResetReplayRange(d)]_vars

\* What the rules mean, date by date and with no table: a hit vetoes until the first
\* date, not before the end of the hold, on which the condition is gone; a hit past
\* the end holds anew; an unknown changes nothing; a disabled rule vetoes nothing.
Meant(k, old) ==
    LET on[d \in Raises] ==
          LET eve == on[d - 1] IN
          IF d = 0 THEN [on |-> old, until |-> 0]
          ELSE IF ~ran[d].wrote \/ ran[d].said[k] = "unknown" THEN eve
          ELSE IF ran[d].said[k] = "disabled" THEN [on |-> FALSE, until |-> 0]
          ELSE IF eve.on /\ d < eve.until THEN eve
          ELSE IF ran[d].said[k] = "hit" THEN [on |-> TRUE, until |-> d + Hold[k]]
          ELSE [on |-> FALSE, until |-> 0]
    IN  on

\* When no date is written after a later one, every point-in-time read is what the
\* rules meant by their last word on each date: a rewrite of a date and a reset leave
\* nothing of what they replace, the expiries included.
VetoesAreMeant ==
    ~late =>
        \A k \in Keys, cutoff \in Raises :
            Active(veto, k, cutoff) <=> Meant(k, Exists(veto, k, 0))[cutoff].on

\* --force clears the way: no date from d on is refused after it.
ForceClearsTheWay ==
    [][\A d \in Dates :
         ResetReplayRange(d) => \A e \in Dates : e >= d => ~OutOfOrder(veto, e)']_vars
=============================================================================

----------------------------- MODULE RunLedger ------------------------------
(***************************************************************************)
(* What the run lock and the provenance tables promise to a reader of      *)
(* orchestrator_run and orchestrator_step: one run at a time owns the      *)
(* database, only the owner writes the two tables, a run is opened only    *)
(* when none is open, its steps move forward to an outcome that stays, but *)
(* for one exception (Revoke), and it is closed 'completed' only when      *)
(* nothing in it was left undone.                                          *)
(***************************************************************************)
EXTENDS Integers

CONSTANTS Runs, Steps

VARIABLES
    owner,   \* the runs that may write the database: at most one
    run,     \* orchestrator_run.status
    row      \* orchestrator_step.status

vars == <<owner, run, row>>

Init ==
    /\ owner = {}
    /\ run = [r \in Runs |-> "none"]
    /\ row = [r \in Runs |-> [s \in Steps |-> "none"]]

Begin(r) ==
    /\ owner = {} /\ run[r] = "none"
    /\ owner' = {r}
    /\ UNCHANGED <<run, row>>

\* The owner closes what dead runs left open, all of it at once.
Abandon(r) ==
    /\ owner = {r} /\ run[r] = "none"
    /\ run' = [q \in Runs |-> IF run[q] = "running" THEN "abandoned" ELSE run[q]]
    /\ row' = [q \in Runs |->
                 IF run[q] # "running" THEN row[q]
                 ELSE [s \in Steps |-> CASE row[q][s] = "running" -> "abandoned"
                                         [] row[q][s] = "pending" -> "not_run"
                                         [] OTHER -> row[q][s]]]
    /\ UNCHANGED owner

Open(r) ==
    /\ owner = {r} /\ run[r] = "none"
    /\ \A q \in Runs : run[q] # "running"
    /\ run' = [run EXCEPT ![r] = "running"]
    /\ \E plan \in (SUBSET Steps) \ {{}} :
         row' = [row EXCEPT ![r] = [s \in Steps |-> IF s \in plan THEN "pending" ELSE "none"]]
    /\ UNCHANGED owner

\* Forward only.
After(status) ==
    CASE status = "pending" -> {"running", "blocked", "skipped", "not_run", "failed"}
      [] status = "running" -> {"completed", "failed"}
      [] OTHER -> {}

Record(r) ==
    /\ owner = {r} /\ run[r] = "running"
    /\ \E s \in Steps : \E status \in After(row[r][s]) :
         row' = [row EXCEPT ![r][s] = status]
    /\ UNCHANGED <<owner, run>>

\* The one outcome that does not stay: a write that fails after a step is recorded
\* 'completed' makes it 'failed', as long as no later step has begun.
Revoke(r) ==
    /\ owner = {r} /\ run[r] = "running"
    /\ \E s \in Steps :
         /\ row[r][s] = "completed"
         /\ \A t \in Steps : t > s => row[r][t] \in {"pending", "none"}
         /\ row' = [row EXCEPT ![r][s] = "failed"]
    /\ UNCHANGED <<owner, run>>

Close(r) ==
    /\ owner = {r} /\ run[r] = "running"
    /\ \/ run' = [run EXCEPT ![r] = "failed"]
       \/ /\ \A s \in Steps : row[r][s] \in {"none", "completed", "skipped"}
          /\ run' = [run EXCEPT ![r] = "completed"]
    /\ UNCHANGED <<owner, row>>

\* The owner is done, or it and its children are dead.
Leave(r) ==
    /\ owner = {r}
    /\ owner' = {}
    /\ UNCHANGED <<run, row>>

Next == \E r \in Runs : \/ Begin(r) \/ Abandon(r) \/ Open(r)
                        \/ Record(r) \/ Revoke(r) \/ Close(r) \/ Leave(r)

Spec == Init /\ [][Next]_vars
=============================================================================

---------------------------- MODULE MCVetoStints ----------------------------
(***************************************************************************)
(* Instances of VetoStints for TLC: one temporal rule held for two cycle   *)
(* dates (the pilot's weekly cycles under a ten-session hold) and one      *)
(* rule without a hold.                                                    *)
(***************************************************************************)
EXTENDS VetoStints, TLC

CONSTANTS shock, distress

Held2 == (shock :> 2) @@ (distress :> 0)

\* Everything may be said of the temporal rule, the other always has its data.
Heard == {said \in [{shock, distress} -> Verdicts] : said[distress] \in {"hit", "gone"}}
=============================================================================

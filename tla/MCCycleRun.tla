----------------------------- MODULE MCCycleRun -----------------------------
(***************************************************************************)
(* An instance of CycleRun for TLC: any two runs of the three types on two *)
(* dates that share their newest filing.                                   *)
(***************************************************************************)
EXTENDS CycleRun, TLC

OneScore  == <<"TECHNICAL">>
OneFiling == [d \in 1..2 |-> "10-K"]

Setting(w, c, b) == [manifest |-> "m1", weights |-> w, cut |-> c, book |-> b]

\* Other weights, another cut and another book than the first.
ThreeSettings ==
    {Setting("w1", "T-1", "b1"), Setting("w2", "T-1", "b1"), Setting("w1", "T", "b2")}
=============================================================================

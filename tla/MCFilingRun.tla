---------------------------- MODULE MCFilingRun ----------------------------
(***************************************************************************)
(* An instance of FilingRun for TLC: an annual report, then a quarter with *)
(* a second original a day later.                                          *)
(***************************************************************************)
EXTENDS FilingRun

AnnualThenQuarters == <<1, 2, 2>>
SecondOriginal     == <<1, 2, 2>>
LastLate           == <<1, 1, 2>>

MetricsOnly  == [Scored EXCEPT !.metrics = TRUE]
FreshLimited == [Scored EXCEPT !.fresh = TRUE, !.limited = TRUE]
TwoModes     == {MetricsOnly, FreshLimited}
=============================================================================

--------------------------- MODULE MCBasingPoints ---------------------------
(***************************************************************************)
(* An instance of BasingPoints for TLC: five shapes of bar around 100, a   *)
(* window of four sessions, two away days.                                 *)
(***************************************************************************)
EXTENDS BasingPoints

Bar(h, l, c) == [high |-> h, low |-> l, close |-> c]

\* A flat day, a pullback, a day above it without and with 3% over the first's
\* high, and a fall below them all.
Shapes == {Bar(100, 98, 99), Bar(96, 90, 92), Bar(103, 101, 102), Bar(110, 104, 108),
           Bar(95, 80, 82)}
=============================================================================

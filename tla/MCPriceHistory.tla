--------------------------- MODULE MCPriceHistory ---------------------------
(***************************************************************************)
(* An instance of PriceHistory for TLC.                                    *)
(***************************************************************************)
EXTENDS PriceHistory

Stores       == [observe |-> FALSE, allow |-> FALSE]
AcceptsJumps  == [observe |-> TRUE, allow |-> TRUE]
TwoModes     == {Stores, AcceptsJumps}
=============================================================================

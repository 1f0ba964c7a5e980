--------------------------- MODULE MCPositionBook ---------------------------
(***************************************************************************)
(* Instances of PositionBook for TLC: three assets, three dates, books of  *)
(* six units or empty, as build_book returns them.                         *)
(***************************************************************************)
EXTENDS PositionBook, TLC

CONSTANTS x, y, z

Holding(m, n) == (x :> m) @@ (y :> n) @@ (z :> 6 - m - n)

\* A resume on date 2 may find other prices and build other weights; the book of
\* date 3 changes some names of one of them.  The settings "excluding" leave no name
\* eligible: an empty book, which changes nothing where the last one was empty too.
Moving ==
    <<[proportional |-> {Holding(6, 0)}, excluding |-> {}],
      [proportional |-> {Holding(2, 4), Holding(1, 5)}, excluding |-> {Nothing}],
      [proportional |-> {Holding(1, 4)}, excluding |-> {Nothing}]>>

\* The two tables never meet, so an instance with both is their product: here a
\* behaviour is about one of them.
OneTable == \E k \in Kinds : \A d \in Dates : run[k][d] = NoRun
OneTableSpec == Init /\ [][Next /\ OneTable']_vars
=============================================================================

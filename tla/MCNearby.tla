------------------------------ MODULE MCNearby ------------------------------
(***************************************************************************)
(* A small instance of Nearby: two places of one cell, of which only one   *)
(* reaches the far place, and two cells, of which the cache keeps one.     *)
(***************************************************************************)
EXTENDS Nearby, TLC

CONSTANTS x1, x2, y, cx, cy

MCCellOf == (x1 :> cx) @@ (x2 :> cx) @@ (y :> cy)

MCReach == (x1 :> {x1, x2}) @@ (x2 :> {x1, x2, y}) @@ (y :> {x2, y})

Symmetry == Permutations(Queries)
=============================================================================

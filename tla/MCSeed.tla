------------------------------- MODULE MCSeed -------------------------------
(***************************************************************************)
(* A small instance of Seed: three accounts in batches of two, two batches *)
(* of two jobs, and two runs.                                              *)
(***************************************************************************)
EXTENDS Seed, TLC

Small == [weight_kg |-> 10, floors |-> 0, carry_distance_m |-> 50]
Large == [weight_kg |-> 200, floors |-> 10, carry_distance_m |-> 500]

MCDraws == {[state |-> "COMPLETED", order |-> Small],
            [state |-> "COMPLETED", order |-> Large],
            [state |-> "CREATED", order |-> Large]}

Symmetry == Permutations(Phones)
=============================================================================

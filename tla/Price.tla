------------------------------- MODULE Price --------------------------------
(***************************************************************************)
(* What a job costs: JobsService.calculatePrice, for the requests that     *)
(* CalculatePriceDto and CreateJobDto let through, and the copy of the     *)
(* formula in 03_seed_jobs.js.  Amounts are whole VND.                     *)
(***************************************************************************)
EXTENDS Integers

\* A request as the validated DTO delivers it.
Order == [weight_kg : 1..2000, floors : 0..50, carry_distance_m : 0..10000]

\* calculatePrice: the breakdown and its total.
Breakdown(o) ==
  [base     |-> 15000,
   weight   |-> o.weight_kg * 1500,
   floors   |-> o.floors * 10000,
   distance |-> o.carry_distance_m * 500]

Total(o) ==
  LET b == Breakdown(o) IN b.base + b.weight + b.floors + b.distance

\* What createJob is asked for (CreateJobDto), but for the place.
JobOrder == [weight_kg : 1..2000, floors : 0..50, carry_distance_m : 0..10000]

\* createJob answers with the total, and stores the breakdown without it.
Created(o) == [price |-> Total(o), stored |-> Breakdown(o)]

\* The price that the seed script books for a job.
SeedPrice(o) ==
  15000 + o.weight_kg * 1500 + o.floors * 10000 + o.carry_distance_m * 500
=============================================================================

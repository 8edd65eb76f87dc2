---------------------------- MODULE MCCreateJob -----------------------------
(***************************************************************************)
(* A small instance of CreateJob: three requests in two processes, and a   *)
(* queue with room for two of the jobs.                                    *)
(***************************************************************************)
EXTENDS CreateJob

CONSTANTS c1, c2, c3, p1, p2, j1, j2, j3

\* c1 and c2 compete for the one client of p1; c3 runs elsewhere.
MCHome == (c1 :> p1) @@ (c2 :> p1) @@ (c3 :> p2)

MCNewJob == (c1 :> j1) @@ (c2 :> j2) @@ (c3 :> j3)

MCSeedJobs == [j \in {j1, j2, j3} |-> NoRow]
=============================================================================

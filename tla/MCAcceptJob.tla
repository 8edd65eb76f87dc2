---------------------------- MODULE MCAcceptJob -----------------------------
(***************************************************************************)
(* A small instance of AcceptJob: three requests in two processes for one  *)
(* job.                                                                    *)
(***************************************************************************)
EXTENDS AcceptJob, TLC

CONSTANTS a1, a2, a3, p1, p2, j1, u1, u2

\* a1 and a2 compete for the one client of p1; a3 runs elsewhere.
MCHome == (a1 :> p1) @@ (a2 :> p1) @@ (a3 :> p2)

MCSeedJobs == (j1 :> [state |-> "CREATED", worker |-> NoWorker])

\* A worker, who may ask more than once, and a user who is not a worker.
MCBids == {[actor |-> u, job |-> j1] : u \in {u1, u2}}
=============================================================================

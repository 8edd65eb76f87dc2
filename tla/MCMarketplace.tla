--------------------------- MODULE MCMarketplace ----------------------------
(***************************************************************************)
(* Small instances of Marketplace: one job on offer and one that c1        *)
(* creates, both paid for and accepted meanwhile, in two processes.        *)
(***************************************************************************)
EXTENDS MarketplaceProofs, TLC

CONSTANTS r1, r2, a1, a2, c1, p1, p2, j1, j2, u1, u2, k1, k2

\* The instance with synchronous commits.
SyncInit == Init /\ syncCommit = TRUE
SyncSpec == SyncInit /\ [][Next]_vars

MCHome == (c1 :> p1) @@ (r1 :> p1) @@ (a1 :> p1) @@ (r2 :> p2) @@ (a2 :> p2)

MCSeedJobs == (j1 :> [state |-> "CREATED", worker |-> NoWorker]) @@ (j2 :> NoRow)

\* With and without the request of c1.
MCNewJob == (c1 :> j2)
NoNewJob == [c \in {} |-> j2]

Body(k, j) == [key |-> k, job |-> j, amount |-> 1, status |-> "SUCCESS"]

\* Two workers and two payments after the job on offer.
OneJob     == {Body(k1, j1), Body(k2, j1)}
OneJobBids == {[actor |-> u, job |-> j1] : u \in {u1, u2}}

\* A payment, delivered twice, and a worker after the job that c1 creates.
NewJobBodies == {Body(k1, j2)}
NewJobBids   == {[actor |-> u1, job |-> j2]}
=============================================================================

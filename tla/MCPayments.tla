----------------------------- MODULE MCPayments -----------------------------
(***************************************************************************)
(* Small instances of Payments: three deliveries in two processes.  The    *)
(* cfgs choose the bodies.                                                 *)
(***************************************************************************)
EXTENDS Payments, TLC

CONSTANTS r1, r2, r3, p1, p2, j1, j2, u1, k1, k2, k3

Body(k, j, st) == [key |-> k, job |-> j, amount |-> 1, status |-> st]

\* r1 and r2 compete for the clients of p1; r3 runs elsewhere.
MCHome == (r1 :> p1) @@ (r2 :> p1) @@ (r3 :> p2)

\* j1 has been accepted by worker u1; j2 has no row.
MCSeedJobs == (j1 :> [state |-> "ACCEPTED", worker |-> u1]) @@ (j2 :> NoRow)

\* One transaction that is pending and then succeeds, another that succeeds
\* for the same job, and one for a job that does not exist.
MixedBodies == {Body(k1, j1, "PENDING"), Body(k1, j1, "SUCCESS"),
                Body(k2, j1, "SUCCESS"), Body(k3, j2, "SUCCESS")}

\* One transaction that is pending and then succeeds.
OneKey == {Body(k1, j1, st) : st \in {"PENDING", "SUCCESS"}}
=============================================================================

--------------------------- MODULE CreateRequests ---------------------------
(***************************************************************************)
(* The requests that CreateJob serves, alone or in Marketplace, and what   *)
(* is known of the ids they draw: a BIGSERIAL gives each insert an id of   *)
(* its own, which no seeded row has.                                       *)
(***************************************************************************)
EXTENDS Postgres

CONSTANTS
  Creates,    \* POST /jobs requests: a finite number of them
  NewJob,     \* NewJob[c]: the BIGSERIAL id that the insert of request c draws
  QueueMax    \* entries that fit in redis-queue (noeviction) and nobody pops

ASSUME CreateAssumption ==
  /\ Creates \subseteq Clients
  /\ NewJob \in [Creates -> JobIds]
  /\ \A c, d \in Creates : NewJob[c] = NewJob[d] => c = d
  /\ \A c \in Creates : SeedJobs[NewJob[c]] = NoRow
  /\ QueueMax \in Nat
=============================================================================

---------------------------- MODULE Marketplace -----------------------------
(***************************************************************************)
(* The life of a job across the services: customers create it (CreateJob), *)
(* workers accept it (AcceptJob) and gateways pay for it (Payments), in    *)
(* the same processes, with the same pools, on the same tables.  Nothing   *)
(* orders them: a gateway may pay for a job that nobody has accepted, or   *)
(* that has not been created, and a worker may accept while the payment is *)
(* being booked.                                                           *)
(*                                                                         *)
(* A step is a step of one service, or the death of a process or a restart *)
(* of the database server, which all the services suffer together.         *)
(***************************************************************************)
EXTENDS CreateRequests

CONSTANTS
  Requests, Notifications, NoDto,     \* of Payments
  Accepts, Bids, NoBid, NoActor       \* of AcceptJob

\* What Payments and AcceptJob assume of their constants.  A client is one HTTP
\* request, and an HTTP request is for one endpoint.
ASSUME MarketplaceAssumption ==
  /\ Requests \subseteq Clients /\ Accepts \subseteq Clients
  /\ Requests \cap Accepts = {} /\ (Requests \cup Accepts) \cap Creates = {}
  /\ Notifications \subseteq Notification /\ NoDto \notin Notification
  /\ Bids \subseteq [actor : Users, job : JobIds] /\ NoBid \notin Bids
  /\ NoActor \notin Users

VARIABLES
  pc, dto,                  \* of Payments
  stage, bid, acceptKey,    \* of AcceptJob
  at, queue                 \* of CreateJob

P == INSTANCE Payments
A == INSTANCE AcceptJob
C == INSTANCE CreateJob

payVars    == <<pc, dto>>
acceptVars == <<stage, bid, acceptKey>>
createVars == <<at, queue>>
vars == <<payVars, acceptVars, createVars, pgVars, syncCommit>>

TypeOK == P!TypeOK /\ A!TypeOK /\ C!TypeOK

Init == PgInit /\ P!LocalInit /\ A!LocalInit /\ C!LocalInit

Pay    == P!Local /\ UNCHANGED <<acceptVars, createVars>>
Accept == A!Local /\ UNCHANGED <<payVars, createVars>>
Create == C!Local /\ UNCHANGED <<payVars, acceptVars>>

\* A process of the cluster dies with all it serves.
Crash(p) ==
  /\ P!Serving(p) \/ A!Serving(p) \/ C!Serving(p)
  /\ P!Die(p) /\ A!Die(p) /\ C!Die(p)
  /\ ConnectionsLost(p)

PgCrash ==
  /\ P!LoseServer /\ A!LoseServer /\ C!LoseServer
  /\ PgRestart

Flush == WalFlush /\ UNCHANGED <<payVars, acceptVars, createVars>>

Next ==
  /\ \/ Pay
     \/ Accept
     \/ Create
     \/ \E p \in Procs : Crash(p)
     \/ PgCrash
     \/ Flush
  /\ SettingKept

Spec == Init /\ [][Next]_vars

\* Each service's handlers run on, as they do alone.
FairSpec ==
  /\ Spec
  /\ \A r \in Requests :
       WF_vars(P!Handle(r) /\ SettingKept /\ UNCHANGED <<acceptVars, createVars>>)
  /\ \A a \in Accepts :
       WF_vars((A!Handle(a) \/ A!TimesOut(a)) /\ SettingKept
                 /\ UNCHANGED <<payVars, createVars>>)
  /\ \A c \in Creates :
       WF_vars(C!Handle(c) /\ SettingKept /\ UNCHANGED <<payVars, acceptVars>>)
-----------------------------------------------------------------------------
(* Correctness *)

(***************************************************************************)
(* Accepting and creating jobs does not disturb the settlement: the ledger,*)
(* the IPN log and the PAID jobs agree whatever the services do to one     *)
(* job at the same time.                                                   *)
(***************************************************************************)
SettlementAtomic == P!SettlementAtomic

(***************************************************************************)
(* A payment booked around an accept - its UPDATE reads the row before the *)
(* accept or waits for it - never takes the job from the worker who has    *)
(* been told that it is his, nor gives it to two, if commits are           *)
(* synchronous.                                                            *)
(***************************************************************************)
AcceptedByOne == A!AcceptedByOne

(***************************************************************************)
(* The audit log agrees with the jobs table while payments rewrite the     *)
(* rows that it is about, if commits are synchronous.                      *)
(***************************************************************************)
AuditMatchesJob == A!AuditMatchesJob

(***************************************************************************)
(* A job only moves forward: it does not disappear once created, is not    *)
(* CREATED again once accepted or paid, keeps the worker who took it, and  *)
(* is never un-paid, though acceptJob and handleWebhook each write the     *)
(* state without knowing of the other - if commits are synchronous.        *)
(***************************************************************************)
Rank(row) ==
  IF row = NoRow THEN 0
  ELSE IF row.state = "CREATED" THEN 1
  ELSE IF row.state = "PAID" THEN 3 ELSE 2

JobsMoveForward ==
  [][syncCommit => \A j \in JobIds :
       LET old == db.jobs[j]
           new == db'.jobs[j]
       IN  /\ Rank(new) >= Rank(old)
           /\ Rank(old) > 0 /\ old.worker # NoWorker /\ old.state # "CREATED" =>
                new.worker = old.worker]_vars

(***************************************************************************)
(* Matching never sees a job that is not there, although the job may be    *)
(* paid for and accepted before, while and after it is queued: whatever is *)
(* in the queue has a committed row, if commits are synchronous.           *)
(***************************************************************************)
QueuedJobExists == C!QueuedJobExists

(***************************************************************************)
(* A client that is told "created" has a job, and neither a restart of the *)
(* server nor another service takes it away, if commits are synchronous.   *)
(***************************************************************************)
CreatedIsDurable == C!CreatedIsDurable

(***************************************************************************)
(* The three services share the pools of their processes and none of them  *)
(* leaks a client, so that one service's failures do not starve another.   *)
(***************************************************************************)
ClientsAccounted ==
  /\ held = {r \in Requests : pc[r] \in P!InTxn}
              \cup {a \in Accepts : stage[a] \in A!Querying}
              \cup {c \in Creates : at[c] \in C!Holding}
  /\ \A p \in Procs : Cardinality(HeldIn(p)) <= PoolMax

(***************************************************************************)
(* Waits on the pool, on the unique index and on job rows that span the    *)
(* services never close a circle: every request of every service ends.     *)
(***************************************************************************)
EveryRequestEnds ==
  /\ P!EveryDeliveryEnds
  /\ A!EveryAcceptEnds
  /\ C!EveryCreateEnds
=============================================================================

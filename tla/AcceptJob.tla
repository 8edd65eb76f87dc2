----------------------------- MODULE AcceptJob ------------------------------
(***************************************************************************)
(* JobsService.acceptJob: workers compete for a job.  A key in redis-cache *)
(* (SET NX EX 300) lets one of them through to an UPDATE that takes the    *)
(* job only while it is CREATED; the audit row is a statement of its own.  *)
(*                                                                         *)
(* Each query goes to the pool, not to a transaction: it checks a client   *)
(* out, commits by itself and gives the client back.                       *)
(***************************************************************************)
EXTENDS Postgres

CONSTANTS
  Accepts,   \* POST /jobs/:id/accept requests: a finite number of them
  Bids,      \* which actor accepts which job
  NoBid,     \* a request that has not been sent
  NoActor    \* the Redis key does not exist

ASSUME AcceptAssumption ==
  /\ Accepts \subseteq Clients
  /\ Bids \subseteq [actor : Users, job : JobIds]
  /\ NoBid \notin Bids
  /\ NoActor \notin Users

VARIABLES
  stage,      \* stage[a]: control point of request a
  bid,        \* bid[a]: its actor (user.sub, a users.id) and job
  acceptKey   \* acceptKey[j]: the value of job:accept:<j> in redis-cache

acceptVars == <<stage, bid, acceptKey>>
vars == <<stage, bid, acceptKey, db, disk, txn, held, syncCommit>>

\* The stages at which a request holds a pool client.
Querying == {"update", "audit", "release"}
Waiting  == {"setnx", "connect", "del", "connectAudit"}
Answered == {"accepted", "conflict", "unavailable", "error", "dead"}

TypeOK ==
  /\ PgTypeOK
  /\ stage \in [Accepts -> {"idle"} \cup Waiting \cup Querying \cup Answered]
  /\ bid \in [Accepts -> Bids \cup {NoBid}]
  /\ acceptKey \in [JobIds -> Users \cup {NoActor}]

LocalInit ==
  /\ stage = [a \in Accepts |-> "idle"]
  /\ bid = [a \in Accepts |-> NoBid]
  /\ acceptKey = [j \in JobIds |-> NoActor]

Init == PgInit /\ LocalInit

Step(a, from, to) ==
  /\ stage[a] = from
  /\ stage' = [stage EXCEPT ![a] = to]
  /\ UNCHANGED bid

\* Mutant of Available: the UPDATE trusts the Redis key and has no "state =
\* 'CREATED'".
AvailableToHolder(a) == db.jobs[bid[a].job] # NoRow

\* What request a's UPDATE finds committed.
Available(a) ==
  /\ db.jobs[bid[a].job] # NoRow
  /\ db.jobs[bid[a].job].state = "CREATED"
-----------------------------------------------------------------------------
(* The handler *)

Arrive(a) ==
  /\ stage[a] = "idle"
  /\ stage' = [stage EXCEPT ![a] = "setnx"]
  /\ \E b \in Bids : bid' = [bid EXCEPT ![a] = b]
  /\ UNCHANGED <<acceptKey, pgVars>>

\* Mutant of SetNx: the value is the job, not the worker.
SetNxJob(a) ==
  /\ stage[a] = "setnx"
  /\ acceptKey[bid[a].job] = NoActor
  /\ Step(a, "setnx", "connect")
  /\ acceptKey' = [acceptKey EXCEPT ![bid[a].job] = bid[a].job]
  /\ UNCHANGED pgVars

\* Mutant of SetNx: a loser tries again until the key is gone.
SetNxSpinning(a) ==
  /\ stage[a] = "setnx"
  /\ acceptKey[bid[a].job] = NoActor
  /\ Step(a, "setnx", "connect")
  /\ acceptKey' = [acceptKey EXCEPT ![bid[a].job] = bid[a].actor]
  /\ UNCHANGED pgVars

\* SET job:accept:<id> <worker> EX 300 NX.
SetNx(a) ==
  /\ stage[a] = "setnx"
  /\ LET j == bid[a].job
     IN  \/ /\ acceptKey[j] = NoActor
            /\ Step(a, "setnx", "connect")
            /\ acceptKey' = [acceptKey EXCEPT ![j] = bid[a].actor]
         \/ /\ acceptKey[j] # NoActor
            /\ Step(a, "setnx", "conflict")
            /\ UNCHANGED acceptKey
  /\ UNCHANGED pgVars

\* The SET takes effect but its answer is lost: ioredis reconnects and sends it
\* again.
SetNxUnanswered(a) ==
  /\ stage[a] = "setnx"
  /\ acceptKey[bid[a].job] = NoActor
  /\ acceptKey' = [acceptKey EXCEPT ![bid[a].job] = bid[a].actor]
  /\ UNCHANGED <<stage, bid, pgVars>>

\* The UPDATE's call of pool.query gets its client.
Connect(a) ==
  /\ Step(a, "connect", "update")
  /\ CheckOut(a)
  /\ UNCHANGED <<acceptKey, db, disk, txn>>

\* UPDATE ... WHERE id = $2 AND state = 'CREATED' RETURNING: it waits for a
\* transaction that has updated the row, and then looks at the state again.
TakeJob(a) ==
  /\ Step(a, "update", "connectAudit")
  /\ Available(a)
  /\ ~ RowLocked(a, bid[a].job)
  /\ bid[a].actor \in Workers
  /\ Apply([NoWrites EXCEPT !.jobs[bid[a].job] =
              [state |-> "ACCEPTED", worker |-> bid[a].actor]])
  /\ Release(a)
  /\ UNCHANGED <<acceptKey, txn>>

FindNothing(a) ==
  /\ Step(a, "update", "del")
  /\ ~ Available(a)
  /\ Release(a)
  /\ UNCHANGED <<acceptKey, db, disk, txn>>

\* Mutant of NotAWorker: the error is passed on without giving the client back.
NotAWorkerLeaking(a) ==
  /\ Step(a, "update", "error")
  /\ Available(a)
  /\ ~ RowLocked(a, bid[a].job)
  /\ bid[a].actor \notin Workers
  /\ UNCHANGED <<acceptKey, pgVars>>

\* jobs.worker_id references workers, and the actor is only known to be a user.
NotAWorker(a) ==
  /\ Step(a, "update", "release")
  /\ Available(a)
  /\ ~ RowLocked(a, bid[a].job)
  /\ bid[a].actor \notin Workers
  /\ UNCHANGED <<acceptKey, pgVars>>

\* DEL job:accept:<id>, whoever set it.
Del(a, end) ==
  /\ Step(a, "del", end)
  /\ acceptKey' = [acceptKey EXCEPT ![bid[a].job] = NoActor]
  /\ UNCHANGED pgVars

\* The audit's call of pool.query gets its client.
ConnectAudit(a) ==
  /\ Step(a, "connectAudit", "audit")
  /\ CheckOut(a)
  /\ UNCHANGED <<acceptKey, db, disk, txn>>

Audit(a, end) ==
  /\ Step(a, "audit", end)
  /\ Apply([NoWrites EXCEPT !.audit =
              {[id |-> a, actor |-> bid[a].actor, job |-> bid[a].job]}])
  /\ Release(a)
  /\ UNCHANGED <<acceptKey, txn>>

\* A call to Redis or to the pool rejects before it has taken effect; there is
\* no try, so the request ends with the error and leaves all as it is.
CallFails(a) ==
  /\ \E s \in Waiting : Step(a, s, "error")
  /\ UNCHANGED <<acceptKey, pgVars>>

QueryFails(a) ==
  /\ \E s \in {"update", "audit"} : Step(a, s, "release")
  /\ UNCHANGED <<acceptKey, pgVars>>

\* The last call takes effect but its answer is lost.  (The answer to the UPDATE
\* is lost by CallFails at "connectAudit", that to the SET by SetNxUnanswered.)
EndUnanswered(a) == Del(a, "error") \/ Audit(a, "error")

GiveBack(a) ==
  /\ Step(a, "release", "error")
  /\ Release(a)
  /\ UNCHANGED <<acceptKey, db, disk, txn>>
-----------------------------------------------------------------------------
(* Failures around the handler *)

\* The key expires, is evicted (allkeys-lru) or goes with a restart of
\* redis-cache, which persists nothing.
KeyLost(j) ==
  /\ acceptKey[j] # NoActor
  /\ acceptKey' = [acceptKey EXCEPT ![j] = NoActor]
  /\ UNCHANGED <<stage, bid, pgVars>>

Die(p) ==
  /\ stage' = [a \in Accepts |->
                 IF Home[a] = p /\ stage[a] \in Waiting \cup Querying
                 THEN "dead" ELSE stage[a]]
  /\ UNCHANGED <<bid, acceptKey>>

LoseServer ==
  /\ stage' = [a \in Accepts |-> IF stage[a] \in Querying THEN "release" ELSE stage[a]]
  /\ UNCHANGED <<bid, acceptKey>>

Serving(p) == \E a \in Accepts : Home[a] = p /\ stage[a] \in Waiting \cup Querying

Crash(p) ==
  /\ Serving(p)
  /\ Die(p)
  /\ ConnectionsLost(p)

PgCrash == LoseServer /\ PgRestart

Flush == WalFlush /\ UNCHANGED acceptVars
-----------------------------------------------------------------------------
Handle(a) ==
  \/ SetNx(a) \/ Connect(a) \/ TakeJob(a) \/ FindNothing(a) \/ NotAWorker(a)
  \/ Del(a, "unavailable") \/ ConnectAudit(a) \/ Audit(a, "accepted") \/ GiveBack(a)

\* pool.query gives up after connectionTimeoutMillis, so a wait for a client ends.
TimesOut(a) == stage[a] \in {"connect", "connectAudit"} /\ CallFails(a)

Local ==
  \/ \E a \in Accepts : Arrive(a) \/ Handle(a) \/ SetNxUnanswered(a)
                          \/ CallFails(a) \/ QueryFails(a) \/ EndUnanswered(a)
  \/ \E j \in JobIds : KeyLost(j)

Next ==
  /\ \/ Local
     \/ \E p \in Procs : Crash(p)
     \/ PgCrash
     \/ Flush
  /\ SettingKept

Spec == Init /\ [][Next]_vars

\* The handler runs on, and a wait for a pool client ends with the timeout.
\* Nothing makes a worker send, a call fail, a key disappear or a process die.
FairSpec ==
  Spec /\ \A a \in Accepts : WF_vars((Handle(a) \/ TimesOut(a)) /\ SettingKept)
-----------------------------------------------------------------------------
(* Correctness *)

Taken(row) == row # NoRow /\ row.state # "CREATED"

(***************************************************************************)
(* Whatever becomes of the Redis key - it may expire, be evicted, or be    *)
(* deleted by a loser of an earlier race - two requests are never both     *)
(* told that they have the job, and the one that is told has it - if       *)
(* commits are synchronous.                                                *)
(***************************************************************************)
AcceptedByOne ==
  syncCommit => \A a, b \in Accepts :
    stage[a] = "accepted" =>
      /\ Taken(db.jobs[bid[a].job]) /\ db.jobs[bid[a].job].worker = bid[a].actor
      /\ stage[b] = "accepted" /\ bid[b].job = bid[a].job => b = a

(***************************************************************************)
(* The audit log, written after the UPDATE and outside its transaction,    *)
(* never names a worker who does not have the job, nor two for one job, if *)
(* commits are synchronous.  (If not, a server that restarts between the   *)
(* two statements may lose the first and keep the second.)                 *)
(***************************************************************************)
AuditMatchesJob ==
  syncCommit => \A s \in {db, disk} : \A x \in s.audit :
    /\ Taken(s.jobs[x.job]) /\ s.jobs[x.job].worker = x.actor
    /\ \A y \in s.audit : y.job = x.job => y = x

(***************************************************************************)
(* No path through the handler, and no death of its process, leaks a pool  *)
(* client: the requests that hold one are those with a query to answer.    *)
(***************************************************************************)
ClientsAccounted ==
  /\ held = {a \in Accepts : stage[a] \in Querying}
  /\ \A p \in Procs : Cardinality(HeldIn(p)) <= PoolMax

(***************************************************************************)
(* Every accept that reaches the API is answered or loses its connection.  *)
(***************************************************************************)
EveryAcceptEnds ==
  \A a \in Accepts : (stage[a] # "idle") ~> (stage[a] \in Answered)
=============================================================================

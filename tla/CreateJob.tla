----------------------------- MODULE CreateJob ------------------------------
(***************************************************************************)
(* JobsService.createJob: a customer's request inserts a job in a          *)
(* transaction of its own, and then, while it still holds the pool client, *)
(* pushes the job to the matching queue in redis-queue and asks redis-geo  *)
(* for workers nearby.  One action per awaited call.                       *)
(***************************************************************************)
EXTENDS CreateRequests, SequencesExt

VARIABLES
  at,      \* at[c]: control point of request c
  queue    \* the list queue:matching, its head first

createVars == <<at, queue>>
vars == <<at, queue, db, disk, txn, held, syncCommit>>

InTxn    == {"insert", "commit"}
OnRedis  == {"push", "search"}
Holding  == InTxn \cup OnRedis \cup {"abort"}
Finished == {"created", "error", "dead"}

TypeOK ==
  /\ PgTypeOK
  /\ at \in [Creates -> {"idle", "connecting"} \cup Holding \cup Finished]
  /\ queue \in Seq(JobIds)

LocalInit ==
  /\ at = [c \in Creates |-> "idle"]
  /\ queue = <<>>

Init == PgInit /\ LocalInit

Step(c, from, to) ==
  /\ at[c] = from
  /\ at' = [at EXCEPT ![c] = to]
-----------------------------------------------------------------------------
(* The handler *)

Ask(c) ==
  /\ Step(c, "idle", "connecting")
  /\ UNCHANGED <<queue, pgVars>>

\* connect() and BEGIN.
Connect(c) ==
  /\ Step(c, "connecting", "insert")
  /\ CheckOut(c)
  /\ UNCHANGED <<queue, db, disk, txn>>

\* connect() rejects, outside the try: a timeout of the pool or no server.
ConnectFails(c) ==
  /\ Step(c, "connecting", "error")
  /\ UNCHANGED <<queue, pgVars>>

\* Mutant of Insert: the job is pushed before it is committed.
InsertPushing(c) ==
  /\ Step(c, "insert", "commit")
  /\ Write(c, [NoWrites EXCEPT !.jobs[NewJob[c]] =
                 [state |-> "CREATED", worker |-> NoWorker]])
  /\ queue' = <<NewJob[c]>> \o queue
  /\ UNCHANGED <<db, disk, held>>

Insert(c) ==
  /\ Step(c, "insert", "commit")
  /\ Write(c, [NoWrites EXCEPT !.jobs[NewJob[c]] =
                 [state |-> "CREATED", worker |-> NoWorker]])
  /\ UNCHANGED <<queue, db, disk, held>>

\* Mutant of Commit: the COMMIT is sent only when the client is released.
CommitLater(c) ==
  /\ Step(c, "commit", "push")
  /\ UNCHANGED <<queue, pgVars>>

Commit(c) ==
  /\ Step(c, "commit", "push")
  /\ CommitTxn(c)
  /\ UNCHANGED <<queue, held>>

\* Mutant of Push: the payload carries the request, not the job.
PushRequest(c) ==
  /\ Step(c, "push", "search")
  /\ Len(queue) < QueueMax
  /\ queue' = <<c>> \o queue
  /\ UNCHANGED pgVars

\* LPUSH queue:matching.
Push(c) ==
  /\ Step(c, "push", "search")
  /\ Len(queue) < QueueMax
  /\ queue' = <<NewJob[c]>> \o queue
  /\ UNCHANGED pgVars

\* The LPUSH takes effect but its answer is lost: ioredis sends it again.
PushUnanswered(c) ==
  /\ at[c] = "push"
  /\ Len(queue) < QueueMax
  /\ queue' = <<NewJob[c]>> \o queue
  /\ UNCHANGED <<at, pgVars>>

\* Mutant of PushRejected: the request waits for room in the list.
PushWaits(c) == FALSE

\* The list is full: Redis rejects the LPUSH (OOM).
PushRejected(c) ==
  /\ Len(queue) >= QueueMax
  /\ Step(c, "push", "abort")
  /\ UNCHANGED <<queue, pgVars>>

\* GEOSEARCH; the answer names the job; finally releases the client.
Search(c) ==
  /\ Step(c, "search", "created")
  /\ Release(c)
  /\ UNCHANGED <<queue, db, disk, txn>>

\* A call rejects: a query of the transaction, a call to Redis after its three
\* retries, or a COMMIT or an LPUSH whose effect stands but whose answer is lost.
CallFails(c) ==
  /\ \E s \in InTxn \cup OnRedis : Step(c, s, "abort")
  /\ AbortTxn(c)
  /\ UNCHANGED <<queue, db, disk, held>>

\* Mutant of Abort: there is no finally.
AbortLeaking(c) ==
  /\ Step(c, "abort", "error")
  /\ UNCHANGED <<queue, pgVars>>

\* catch: ROLLBACK, which undoes nothing that has been committed; finally.
Abort(c) ==
  /\ Step(c, "abort", "error")
  /\ Release(c)
  /\ UNCHANGED <<queue, db, disk, txn>>
-----------------------------------------------------------------------------
(* Failures around the handler *)

\* redis-queue restarts: it persists nothing.
QueueLost ==
  /\ queue # <<>>
  /\ queue' = <<>>
  /\ UNCHANGED <<at, pgVars>>

Die(p) ==
  /\ at' = [c \in Creates |->
              IF Home[c] = p /\ at[c] \in {"connecting"} \cup Holding
              THEN "dead" ELSE at[c]]
  /\ UNCHANGED queue

\* A request that waits for Redis does not notice that its client is gone.
LoseServer ==
  /\ at' = [c \in Creates |-> IF at[c] \in InTxn THEN "abort" ELSE at[c]]
  /\ UNCHANGED queue

Serving(p) == \E c \in Creates : Home[c] = p /\ at[c] \in {"connecting"} \cup Holding

Crash(p) ==
  /\ Serving(p)
  /\ Die(p)
  /\ ConnectionsLost(p)

PgCrash == LoseServer /\ PgRestart

Flush == WalFlush /\ UNCHANGED createVars
-----------------------------------------------------------------------------
Handle(c) ==
  \/ Connect(c) \/ ConnectFails(c) \/ Insert(c) \/ Commit(c) \/ Push(c)
  \/ PushRejected(c) \/ Search(c) \/ Abort(c)

Local ==
  \/ \E c \in Creates : Ask(c) \/ Handle(c) \/ PushUnanswered(c) \/ CallFails(c)
  \/ QueueLost

Next ==
  /\ \/ Local
     \/ \E p \in Procs : Crash(p)
     \/ PgCrash
     \/ Flush
  /\ SettingKept

Spec == Init /\ [][Next]_vars

\* The handler runs on: its calls are answered, or rejected after their retries
\* or timeouts.
FairSpec == Spec /\ \A c \in Creates : WF_vars(Handle(c) /\ SettingKept)
-----------------------------------------------------------------------------
(* Correctness *)

(***************************************************************************)
(* Matching never sees a job that is not there: whatever is in the queue   *)
(* has a committed row, because the COMMIT is awaited before the LPUSH.    *)
(* If commits are not synchronous, a restart of the server can lose the    *)
(* row of a job that is queued.                                            *)
(***************************************************************************)
QueuedJobExists ==
  syncCommit => \A j \in ToSet(queue) : db.jobs[j] # NoRow

(***************************************************************************)
(* A client that is told "created" has a job, and no restart of the server *)
(* takes it away, if commits are synchronous: the answer comes after the   *)
(* COMMIT.                                                                 *)
(***************************************************************************)
CreatedIsDurable ==
  syncCommit => \A c \in Creates : at[c] = "created" => disk.jobs[NewJob[c]] # NoRow

(***************************************************************************)
(* No path through the handler, and no death of its process, leaks the     *)
(* client that it holds over the calls to Redis.                           *)
(***************************************************************************)
ClientsAccounted ==
  /\ held = {c \in Creates : at[c] \in Holding}
  /\ \A p \in Procs : Cardinality(HeldIn(p)) <= PoolMax

(***************************************************************************)
(* Every request ends, though the pool is shared and the queue fills up.   *)
(***************************************************************************)
EveryCreateEnds ==
  \A c \in Creates : (at[c] # "idle") ~> (at[c] \in Finished)

(***************************************************************************)
(* "Publish matching request to queue (non-blocking, fire-and-forget)"     *)
(* (jobs.service.ts): the push decides nothing, so a request that ends     *)
(* with an error has created no job.                                       *)
(***************************************************************************)
ErrorMeansNoJob ==
  \A c \in Creates : at[c] = "error" => db.jobs[NewJob[c]] = NoRow
=============================================================================

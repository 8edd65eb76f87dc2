---------------------------- MODULE CreateProofs ----------------------------
(***************************************************************************)
(* Proofs about CreateJob: for any requests, processes, pool and queue     *)
(* sizes, what is queued exists, what is acknowledged is on disk, and no   *)
(* client of the pool is leaked.                                           *)
(***************************************************************************)
EXTENDS CreateJob, FiniteSetTheorems, TLAPS

-----------------------------------------------------------------------------
(* Types *)

Points == {"idle", "connecting"} \cup Holding \cup Finished

\* An empty write set is a write set.
LEMMA NoWritesType == NoWrites \in Tables
  BY DEF NoWrites, Tables

\* The row that an insert writes is a row.
LEMMA NewRowType ==
  /\ [state |-> "CREATED", worker |-> NoWorker] \in JobRow
  /\ [state |-> "CREATED", worker |-> NoWorker] # NoRow
<1>1. [state |-> "CREATED", worker |-> NoWorker] \in JobRow
  BY DEF JobRow, JobStates
<1>. QED BY <1>1, SeedAssumption

\* A job at the head of the queue leaves a queue.
LEMMA PushType ==
  ASSUME NEW j \in JobIds, NEW q \in Seq(JobIds)
  PROVE  <<j>> \o q \in Seq(JobIds) /\ ToSet(<<j>> \o q) \subseteq {j} \cup ToSet(q)
<1>1. <<j>> \in Seq(JobIds) /\ Len(<<j>>) = 1 /\ <<j>>[1] = j
  OBVIOUS
<1>2. <<j>> \o q \in Seq(JobIds)
  BY <1>1
<1>3. ASSUME NEW i \in DOMAIN (<<j>> \o q)
      PROVE  (<<j>> \o q)[i] \in {j} \cup ToSet(q)
  <2>1. i \in 1..(Len(q) + 1)
    BY <1>1, <1>3
  <2>2. CASE i = 1
    BY <1>1, <2>2
  <2>3. CASE i # 1
    <3>1. i - 1 \in DOMAIN q /\ (<<j>> \o q)[i] = q[i - 1]
      BY <1>1, <2>1, <2>3
    <3>. QED BY <3>1 DEF ToSet
  <2>. QED BY <2>2, <2>3
<1>. QED BY <1>2, <1>3 DEF ToSet

\* The initial state: nothing has been sent.
LEMMA InitType == Init => TypeOK
<1>. SUFFICES ASSUME Init
              PROVE  TypeOK
  OBVIOUS
<1>1. db \in Tables
  BY SeedAssumption DEF Init, PgInit, NoWrites, Tables
<1>2. PgTypeOK
  BY <1>1, NoWritesType DEF Init, PgInit, PgTypeOK
<1>. QED BY <1>2 DEF Init, LocalInit, TypeOK

\* Every step keeps the types: one step per action.
LEMMA TypeStep == TypeOK /\ [Next]_vars => TypeOK'
<1>. SUFFICES ASSUME TypeOK, [Next]_vars
              PROVE  TypeOK'
  OBVIOUS
<1>0. /\ db \in Tables /\ disk \in Tables /\ txn \in [Clients -> Tables]
      /\ held \in SUBSET Clients /\ syncCommit' \in BOOLEAN
      /\ at \in [Creates -> Points] /\ queue \in Seq(JobIds)
      /\ Creates \subseteq Clients /\ NewJob \in [Creates -> JobIds]
  BY CreateAssumption DEF TypeOK, PgTypeOK, Next, SettingKept, vars, Points
<1>a. ASSUME at' \in [Creates -> Points], queue' \in Seq(JobIds),
             db' \in Tables, disk' \in Tables, txn' \in [Clients -> Tables],
             held' \in SUBSET Clients
      PROVE  TypeOK'
  BY <1>0, <1>a DEF TypeOK, PgTypeOK, Points
<1>b. ASSUME NEW c \in Creates, NEW from, NEW to \in Points, Step(c, from, to)
      PROVE  at' \in [Creates -> Points]
  BY <1>0, <1>b DEF Step
<1>1. ASSUME NEW c \in Creates, Ask(c) \/ Connect(c) \/ ConnectFails(c) PROVE TypeOK'
  <2>1. at' \in [Creates -> Points]
    BY <1>1, <1>b DEF Ask, Connect, ConnectFails, Points, Holding, InTxn, Finished
  <2>. QED BY <1>0, <1>1, <1>a, <2>1 DEF Ask, Connect, ConnectFails, CheckOut, pgVars
<1>2. ASSUME NEW c \in Creates, Insert(c) PROVE TypeOK'
  <2>1. at' \in [Creates -> Points]
    BY <1>2, <1>b DEF Insert, Points, Holding, InTxn
  <2>2. [NoWrites EXCEPT !.jobs[NewJob[c]] = [state |-> "CREATED", worker |-> NoWorker]]
          \in Tables
    BY <1>0, NewRowType DEF NoWrites, Tables
  <2>3. txn' \in [Clients -> Tables]
    BY <1>0, <1>2, <2>2 DEF Insert, Write
  <2>. QED BY <1>0, <1>2, <1>a, <2>1, <2>3 DEF Insert
<1>3. ASSUME NEW c \in Creates, Commit(c) PROVE TypeOK'
  <2>1. at' \in [Creates -> Points]
    BY <1>3, <1>b DEF Commit, Points, Holding, OnRedis
  <2>2. Merge(db, txn[c]) \in Tables
    <3>1. txn[c] \in Tables
      BY <1>0
    <3>. QED BY <1>0, <3>1 DEF Merge, Tables
  <2>3. db' \in Tables /\ disk' \in Tables /\ txn' \in [Clients -> Tables]
    BY <1>0, <1>3, <2>2, NoWritesType DEF Commit, CommitTxn, Apply, Write
  <2>. QED BY <1>0, <1>3, <1>a, <2>1, <2>3 DEF Commit
<1>4. ASSUME NEW c \in Creates, Push(c) \/ PushUnanswered(c) PROVE TypeOK'
  <2>1. at' \in [Creates -> Points]
    BY <1>0, <1>4, <1>b DEF Push, PushUnanswered, Points, Holding, OnRedis
  <2>2. NewJob[c] \in JobIds
    BY <1>0
  <2>3. queue' \in Seq(JobIds)
    BY <1>0, <1>4, <2>2, PushType DEF Push, PushUnanswered
  <2>. QED BY <1>0, <1>4, <1>a, <2>1, <2>3 DEF Push, PushUnanswered, pgVars
<1>5. ASSUME NEW c \in Creates, PushRejected(c) \/ Search(c) \/ Abort(c) PROVE TypeOK'
  <2>1. at' \in [Creates -> Points]
    BY <1>5, <1>b DEF PushRejected, Search, Abort, Points, Holding, Finished
  <2>. QED BY <1>0, <1>5, <1>a, <2>1 DEF PushRejected, Search, Abort, Release, pgVars
<1>6. ASSUME NEW c \in Creates, CallFails(c) PROVE TypeOK'
  <2>1. at' \in [Creates -> Points]
    BY <1>6, <1>b DEF CallFails, Points, Holding
  <2>2. txn' \in [Clients -> Tables]
    BY <1>0, <1>6, NoWritesType DEF CallFails, AbortTxn, Write
  <2>. QED BY <1>0, <1>6, <1>a, <2>1, <2>2 DEF CallFails
<1>7. CASE QueueLost
  BY <1>0, <1>7, <1>a DEF QueueLost, pgVars
<1>8. ASSUME NEW p \in Procs, Crash(p) PROVE TypeOK'
  <2>1. at' \in [Creates -> Points]
    BY <1>0, <1>8 DEF Crash, Die, Points, Finished
  <2>2. txn' \in [Clients -> Tables] /\ held' \in SUBSET Clients
    BY <1>0, <1>8, NoWritesType DEF Crash, ConnectionsLost
  <2>. QED BY <1>0, <1>8, <1>a, <2>1, <2>2 DEF Crash, Die, ConnectionsLost
<1>9. CASE PgCrash
  <2>1. at' \in [Creates -> Points]
    BY <1>0, <1>9 DEF PgCrash, LoseServer, Points, Holding
  <2>2. txn' \in [Clients -> Tables]
    BY <1>9, NoWritesType DEF PgCrash, PgRestart
  <2>. QED BY <1>0, <1>9, <1>a, <2>1, <2>2 DEF PgCrash, LoseServer, PgRestart
<1>10. CASE Flush
  BY <1>0, <1>10, <1>a DEF Flush, WalFlush, createVars
<1>11. CASE UNCHANGED vars
  BY <1>0, <1>11, <1>a DEF vars
<1>. QED BY <1>1, <1>2, <1>3, <1>4, <1>5, <1>6, <1>7, <1>8, <1>9, <1>10, <1>11
         DEF Next, Local, Handle

\* createJob: every variable keeps its type, for any requests, jobs and queue sizes.
THEOREM TypeCorrect == Spec => []TypeOK
  BY InitType, TypeStep, PTL DEF Spec

-----------------------------------------------------------------------------
(* What is queued or acknowledged *)

\* A request that is about to commit has inserted its job.
Inserted == \A c \in Creates : at[c] = "commit" => txn[c].jobs[NewJob[c]] # NoRow

\* With synchronous commits, what is past its COMMIT, and what is queued, is there.
Stored ==
  /\ disk = db
  /\ \A c \in Creates : at[c] \in OnRedis \cup {"created"} => db.jobs[NewJob[c]] # NoRow
  /\ \A j \in ToSet(queue) : db.jobs[j] # NoRow

CreateInv == Inserted /\ (syncCommit => Stored)

\* The initial state: nobody has inserted, and the queue is empty.
LEMMA InitInv == Init => CreateInv
<1>. SUFFICES ASSUME Init
              PROVE  CreateInv
  OBVIOUS
<1>1. disk = db /\ queue = <<>> /\ \A c \in Creates : at[c] = "idle"
  BY DEF Init, PgInit, LocalInit
<1>2. ToSet(queue) = {}
  BY <1>1 DEF ToSet
<1>. QED BY <1>1, <1>2 DEF CreateInv, Inserted, Stored, OnRedis

\* A step that takes no row from the tables, lets no request past its COMMIT and
\* queues nothing keeps what is stored.
LEMMA StoredQuiet ==
  ASSUME Stored, db' = db, disk' = db \/ disk' = disk,
         ToSet(queue)' \subseteq ToSet(queue),
         \A c \in Creates : at'[c] \in OnRedis \cup {"created"} => at[c] \in OnRedis \cup {"created"}
  PROVE  Stored'
  BY DEF Stored, OnRedis

\* A commit loses no row, and stores that of its request.
LEMMA CommitStores ==
  ASSUME TypeOK, Inserted, NEW c \in Creates, Commit(c)
  PROVE  /\ \A j \in JobIds : db.jobs[j] # NoRow => db'.jobs[j] # NoRow
         /\ db'.jobs[NewJob[c]] # NoRow
         /\ syncCommit => disk' = db'
<1>1. db' = Merge(db, txn[c]) /\ (syncCommit => disk' = db')
  BY DEF Commit, CommitTxn, Apply
<1>2. txn[c].jobs[NewJob[c]] # NoRow /\ NewJob[c] \in JobIds
  BY CreateAssumption DEF Inserted, Commit, Step
<1>. QED BY <1>1, <1>2 DEF Merge

\* Every step keeps the invariant.
LEMMA CreateStep == TypeOK /\ CreateInv /\ [Next]_vars => CreateInv'
<1>. SUFFICES ASSUME TypeOK, CreateInv, [Next]_vars
              PROVE  CreateInv'
  OBVIOUS
<1>0. /\ at \in [Creates -> Points] /\ txn \in [Clients -> Tables] /\ queue \in Seq(JobIds)
      /\ Creates \subseteq Clients /\ NewJob \in [Creates -> JobIds]
      /\ syncCommit' = syncCommit /\ db \in Tables
      /\ Inserted /\ (syncCommit => Stored)
  BY CreateAssumption DEF TypeOK, PgTypeOK, Next, SettingKept, vars, Points, CreateInv
<1>a. ASSUME Inserted', syncCommit /\ Stored => Stored' PROVE CreateInv'
  <2>1. syncCommit' => Stored'
    BY <1>0, <1>a, Zenon
  <2>. QED BY <1>a, <2>1, Zenon DEF CreateInv
<1>b. ASSUME NEW c \in Creates, NEW from, NEW to \in Points, Step(c, from, to),
             \/ to \notin OnRedis \cup {"created", "commit"}
             \/ from \in OnRedis /\ to # "commit",
             UNCHANGED <<queue, db, disk>>,
             \A d \in Creates \ {c} : txn'[d] = txn[d]
      PROVE  CreateInv'
  <2>1. Inserted'
    BY <1>0, <1>b DEF Step, Inserted, OnRedis
  <2>2. \A d \in Creates : at'[d] \in OnRedis \cup {"created"} => at[d] \in OnRedis \cup {"created"}
    BY <1>0, <1>b DEF Step
  <2>3. ToSet(queue)' = ToSet(queue)
    BY <1>b DEF ToSet
  <2>4. Stored => Stored'
    BY <1>b, <2>2, <2>3, StoredQuiet
  <2>. QED BY <1>a, <2>1, <2>4
<1>1. ASSUME NEW c \in Creates, Ask(c) \/ Connect(c) \/ ConnectFails(c) PROVE CreateInv'
  BY <1>1, <1>b DEF Ask, Connect, ConnectFails, pgVars, Points, Holding, InTxn, OnRedis, Finished
<1>2. ASSUME NEW c \in Creates, Insert(c) PROVE CreateInv'
  <2>1. txn'[c].jobs[NewJob[c]] # NoRow /\ \A d \in Creates \ {c} : txn'[d] = txn[d]
    <3>1. txn'[c] = [NoWrites EXCEPT !.jobs[NewJob[c]] = [state |-> "CREATED", worker |-> NoWorker]]
            /\ \A d \in Creates \ {c} : txn'[d] = txn[d]
      BY <1>0, <1>2 DEF Insert, Write
    <3>2. NewJob[c] \in JobIds
      BY <1>0
    <3>. QED BY <3>1, <3>2, NewRowType DEF NoWrites
  <2>2. Inserted'
    BY <1>0, <1>2, <2>1 DEF Insert, Step, Inserted
  <2>3. \A d \in Creates : at'[d] \in OnRedis \cup {"created"} => at[d] \in OnRedis \cup {"created"}
    BY <1>0, <1>2 DEF Insert, Step, OnRedis
  <2>4. ToSet(queue)' = ToSet(queue) /\ UNCHANGED <<db, disk>>
    BY <1>2 DEF Insert, ToSet
  <2>5. Stored => Stored'
    BY <2>3, <2>4, StoredQuiet
  <2>. QED BY <1>a, <2>2, <2>5
<1>3. ASSUME NEW c \in Creates, Commit(c) PROVE CreateInv'
  <2>1. Inserted'
    BY <1>0, <1>3 DEF Commit, CommitTxn, Write, Step, Inserted, OnRedis
  <2>2. ASSUME syncCommit, Stored PROVE Stored'
    <3>1. queue' = queue /\ at' = [at EXCEPT ![c] = "push"]
      BY <1>3 DEF Commit, Step
    <3>2. ToSet(queue)' = ToSet(queue) /\ ToSet(queue) \subseteq JobIds
      BY <1>0, <3>1 DEF ToSet
    <3>3. \A d \in Creates : at'[d] \in OnRedis \cup {"created"} => db'.jobs[NewJob[d]] # NoRow
      BY <1>0, <1>3, <2>2, <3>1, CommitStores DEF Stored
    <3>. QED BY <1>0, <1>3, <2>2, <3>2, <3>3, CommitStores DEF Stored
  <2>. QED BY <1>a, <2>1, <2>2
<1>4. ASSUME NEW c \in Creates, Push(c) \/ PushUnanswered(c) PROVE CreateInv'
  <2>1. /\ at[c] = "push" /\ queue' = <<NewJob[c]>> \o queue
        /\ UNCHANGED <<db, disk, txn>>
        /\ at' = at \/ at' = [at EXCEPT ![c] = "search"]
    BY <1>4 DEF Push, PushUnanswered, Step, pgVars
  <2>2. Inserted'
    BY <1>0, <2>1 DEF Inserted
  <2>3. ASSUME Stored PROVE Stored'
    <3>1. ToSet(queue)' \subseteq {NewJob[c]} \cup ToSet(queue)
      <4>1. ToSet(queue)' = ToSet(<<NewJob[c]>> \o queue)
        BY <2>1 DEF ToSet
      <4>. QED BY <1>0, <4>1, PushType
    <3>2. db.jobs[NewJob[c]] # NoRow
      BY <2>1, <2>3 DEF Stored, OnRedis
    <3>3. \A d \in Creates : at'[d] \in OnRedis \cup {"created"} => at[d] \in OnRedis \cup {"created"}
      BY <1>0, <2>1 DEF OnRedis
    <3>. QED BY <2>1, <2>3, <3>1, <3>2, <3>3 DEF Stored
  <2>. QED BY <1>a, <2>2, <2>3
<1>5. ASSUME NEW c \in Creates, PushRejected(c) \/ Search(c) \/ Abort(c) \/ CallFails(c)
      PROVE  CreateInv'
  <2>1. \A d \in Creates \ {c} : txn'[d] = txn[d]
    BY <1>0, <1>5 DEF PushRejected, Search, Abort, CallFails, AbortTxn, Write, pgVars
  <2>2. UNCHANGED <<queue, db, disk>>
    BY <1>5 DEF PushRejected, Search, Abort, CallFails, pgVars
  <2>3. \/ \E from : Step(c, from, "abort") \/ Step(c, from, "error")
        \/ Step(c, "search", "created")
    BY <1>5 DEF PushRejected, Search, Abort, CallFails
  <2>. QED BY <1>b, <2>1, <2>2, <2>3 DEF Points, Holding, InTxn, OnRedis, Finished
<1>6. CASE QueueLost
  <2>1. UNCHANGED <<at, db, disk, txn>> /\ ToSet(queue)' = {}
    BY <1>6 DEF QueueLost, pgVars, ToSet
  <2>2. Inserted' /\ (Stored => Stored')
    BY <1>0, <2>1, StoredQuiet DEF Inserted
  <2>. QED BY <1>a, <2>2
<1>7. ASSUME NEW p \in Procs, Crash(p) PROVE CreateInv'
  <2>1. UNCHANGED <<db, disk, queue>>
    BY <1>7 DEF Crash, Die, ConnectionsLost
  <2>2. \A c \in Creates : at'[c] # "dead" => at'[c] = at[c]
    BY <1>0, <1>7 DEF Crash, Die
  <2>3. \A c \in Creates : at'[c] = "commit" => txn'[c] = txn[c]
    BY <1>0, <1>7 DEF Crash, Die, ConnectionsLost, Holding, InTxn
  <2>4. Inserted' /\ (Stored => Stored')
    <3>1. ToSet(queue)' = ToSet(queue)
      BY <2>1 DEF ToSet
    <3>2. Inserted'
      BY <1>0, <2>2, <2>3 DEF Inserted
    <3>3. \A c \in Creates : at'[c] \in OnRedis \cup {"created"} => at[c] \in OnRedis \cup {"created"}
      BY <2>2 DEF OnRedis
    <3>. QED BY <2>1, <3>1, <3>2, <3>3, StoredQuiet
  <2>. QED BY <1>a, <2>4
<1>8. CASE PgCrash
  <2>1. db' = disk /\ disk' = disk /\ queue' = queue /\ ToSet(queue)' = ToSet(queue)
    BY <1>8 DEF PgCrash, PgRestart, LoseServer, ToSet
  <2>2. \A c \in Creates : at'[c] # "commit" /\ (at'[c] # "abort" => at'[c] = at[c])
    BY <1>0, <1>8 DEF PgCrash, LoseServer, InTxn
  <2>3. Inserted' /\ (Stored => Stored')
    <3>1. Stored => db' = db
      BY <2>1 DEF Stored
    <3>2. \A c \in Creates : at'[c] \in OnRedis \cup {"created"} => at[c] \in OnRedis \cup {"created"}
      BY <2>2 DEF OnRedis
    <3>. QED BY <2>1, <2>2, <3>1, <3>2, StoredQuiet DEF Inserted
  <2>. QED BY <1>a, <2>3
<1>9. CASE Flush
  <2>1. UNCHANGED <<at, queue, db, txn>> /\ disk' = db /\ ToSet(queue)' = ToSet(queue)
    BY <1>9 DEF Flush, WalFlush, createVars, ToSet
  <2>2. Inserted' /\ (Stored => Stored')
    BY <1>0, <2>1, StoredQuiet DEF Inserted
  <2>. QED BY <1>a, <2>2
<1>10. CASE UNCHANGED vars
  <2>1. UNCHANGED <<at, queue, db, disk, txn>> /\ ToSet(queue)' = ToSet(queue)
    BY <1>10 DEF vars, ToSet
  <2>2. Inserted' /\ (Stored => Stored')
    BY <1>0, <2>1, StoredQuiet DEF Inserted
  <2>. QED BY <1>a, <2>2
<1>. QED BY <1>1, <1>2, <1>3, <1>4, <1>5, <1>6, <1>7, <1>8, <1>9, <1>10 DEF Next, Local, Handle

\* The invariant holds in every state that requests, deaths and restarts lead to.
THEOREM CreateInvariance == Spec => []CreateInv
  BY InitType, TypeStep, InitInv, CreateStep, PTL DEF Spec

\* createJob: with synchronous commits whatever is in queue:matching has a row.
THEOREM QueuedExists == Spec => []QueuedJobExists
<1>1. CreateInv => QueuedJobExists
  BY DEF CreateInv, Stored, QueuedJobExists
<1>. QED BY <1>1, CreateInvariance, PTL

\* createJob: with synchronous commits an acknowledged job is on disk.
THEOREM CreatedStays == Spec => []CreatedIsDurable
<1>1. CreateInv => CreatedIsDurable
  BY DEF CreateInv, Stored, CreatedIsDurable
<1>. QED BY <1>1, CreateInvariance, PTL

-----------------------------------------------------------------------------
(* The pool *)

\* The clients that a process has out are finitely many.
LEMMA HeldFinite ==
  ASSUME held \in SUBSET Clients, NEW p
  PROVE  IsFiniteSet(HeldIn(p)) /\ Cardinality(HeldIn(p)) \in Nat
  BY PoolAssumption, FS_Subset, FS_CardinalityType DEF HeldIn

\* A step that checks out no client keeps every process within its pool.
LEMMA FewerHeld ==
  ASSUME held \in SUBSET Clients, held' \subseteq held, NEW p,
         Cardinality(HeldIn(p)) <= PoolMax
  PROVE  Cardinality(HeldIn(p)') <= PoolMax
<1>1. IsFiniteSet(HeldIn(p)) /\ Cardinality(HeldIn(p)) \in Nat
  BY HeldFinite
<1>2. HeldIn(p)' \subseteq HeldIn(p)
  BY DEF HeldIn
<1>3. Cardinality(HeldIn(p)') \in Nat /\ Cardinality(HeldIn(p)') <= Cardinality(HeldIn(p))
  BY <1>1, <1>2, FS_Subset, FS_CardinalityType
<1>. QED BY <1>1, <1>3, PoolAssumption

\* Checking out a client takes one of its process that is not out.
LEMMA CheckOutFits ==
  ASSUME held \in SUBSET Clients, NEW c \in Clients, CheckOut(c), NEW p,
         Cardinality(HeldIn(p)) <= PoolMax
  PROVE  Cardinality(HeldIn(p)') <= PoolMax
<1>1. IsFiniteSet(HeldIn(p)) /\ Cardinality(HeldIn(p)) \in Nat
  BY HeldFinite
<1>2. CASE Home[c] # p
  <2>1. HeldIn(p)' = HeldIn(p)
    BY <1>2 DEF HeldIn, CheckOut
  <2>. QED BY <2>1
<1>3. CASE Home[c] = p
  <2>1. HeldIn(p)' = HeldIn(p) \cup {c}
    BY <1>3 DEF HeldIn, CheckOut
  <2>2. Cardinality(HeldIn(p)) < PoolMax
    BY <1>3 DEF CheckOut
  <2>3. \/ Cardinality(HeldIn(p)') = Cardinality(HeldIn(p))
        \/ Cardinality(HeldIn(p)') = Cardinality(HeldIn(p)) + 1
    BY <1>1, <2>1, FS_AddElement
  <2>. QED BY <1>1, <2>2, <2>3, PoolAssumption
<1>. QED BY <1>2, <1>3

\* Nobody holds a client before the first request.
LEMMA InitClients == Init => ClientsAccounted
<1>. SUFFICES ASSUME Init
              PROVE  ClientsAccounted
  OBVIOUS
<1>1. held = {} /\ \A c \in Creates : at[c] = "idle"
  BY DEF Init, PgInit, LocalInit
<1>2. \A p \in Procs : HeldIn(p) = {}
  BY <1>1 DEF HeldIn
<1>. QED BY <1>1, <1>2, FS_EmptySet, PoolAssumption DEF ClientsAccounted, Holding, InTxn, OnRedis

\* Every step gives the client back exactly when the request ends.
LEMMA ClientsStep == TypeOK /\ ClientsAccounted /\ [Next]_vars => ClientsAccounted'
<1>. SUFFICES ASSUME TypeOK, ClientsAccounted, [Next]_vars
              PROVE  ClientsAccounted'
  OBVIOUS
<1>. USE DEF Holding, InTxn, OnRedis
<1>0. /\ at \in [Creates -> Points] /\ held \in SUBSET Clients /\ Creates \subseteq Clients
      /\ held = {c \in Creates : at[c] \in Holding}
      /\ \A p \in Procs : Cardinality(HeldIn(p)) <= PoolMax
  BY CreateAssumption DEF TypeOK, PgTypeOK, ClientsAccounted, Points
<1>a. ASSUME held' = {c \in Creates : at'[c] \in Holding}, held' \subseteq held
      PROVE  ClientsAccounted'
  BY <1>0, <1>a, FewerHeld DEF ClientsAccounted
<1>b. ASSUME NEW c \in Creates, NEW from, NEW to, Step(c, from, to),
             \/ from \in Holding /\ to \in Holding /\ held' = held
             \/ from \notin Holding /\ to \notin Holding /\ held' = held
             \/ to \notin Holding /\ Release(c)
      PROVE  ClientsAccounted'
  <2>1. at' = [at EXCEPT ![c] = to] /\ at[c] = from
    BY <1>b DEF Step
  <2>2. held' = {d \in Creates : at'[d] \in Holding}
    BY <1>0, <1>b, <2>1 DEF Release
  <2>3. held' \subseteq held
    BY <1>b DEF Release
  <2>. QED BY <1>a, <2>2, <2>3
<1>1. ASSUME NEW c \in Creates, Connect(c) PROVE ClientsAccounted'
  <2>1. held' = held \cup {c} /\ CheckOut(c) /\ at' = [at EXCEPT ![c] = "insert"]
    BY <1>1 DEF Connect, CheckOut, Step
  <2>2. held' = {d \in Creates : at'[d] \in Holding}
    BY <1>0, <2>1
  <2>3. \A p \in Procs : Cardinality(HeldIn(p)') <= PoolMax
    BY <1>0, <2>1, CheckOutFits
  <2>. QED BY <2>2, <2>3 DEF ClientsAccounted
<1>2. ASSUME NEW c \in Creates,
             \/ Ask(c) \/ ConnectFails(c) \/ Insert(c) \/ Commit(c) \/ Push(c)
             \/ PushRejected(c) \/ Search(c) \/ CallFails(c) \/ Abort(c)
      PROVE  ClientsAccounted'
  BY <1>2, <1>b DEF Ask, ConnectFails, Insert, Commit, Push, PushRejected, Search, CallFails,
                    Abort, pgVars
<1>3. ASSUME UNCHANGED <<at, held>> PROVE ClientsAccounted'
  BY <1>0, <1>3, <1>a
<1>4. ASSUME NEW c \in Creates, PushUnanswered(c) PROVE ClientsAccounted'
  BY <1>3, <1>4 DEF PushUnanswered, pgVars
<1>5. CASE QueueLost \/ Flush \/ UNCHANGED vars
  BY <1>3, <1>5 DEF QueueLost, Flush, WalFlush, createVars, pgVars, vars
<1>6. ASSUME NEW p \in Procs, Crash(p) PROVE ClientsAccounted'
  BY <1>0, <1>6, <1>a DEF Crash, Die, ConnectionsLost
<1>7. CASE PgCrash
  BY <1>0, <1>7, <1>a DEF PgCrash, LoseServer, PgRestart
<1>. QED BY <1>1, <1>2, <1>4, <1>5, <1>6, <1>7 DEF Next, Local, Handle

\* createJob: no path leaks the client that is held over the calls to Redis, and no
\* process has more clients out than the pool allows.
THEOREM NoClientLeaks == Spec => []ClientsAccounted
<1>1. Init => TypeOK /\ ClientsAccounted
  BY InitType, InitClients
<1>2. TypeOK /\ ClientsAccounted /\ [Next]_vars => (TypeOK /\ ClientsAccounted)'
  BY TypeStep, ClientsStep
<1>. QED BY <1>1, <1>2, PTL DEF Spec
=============================================================================

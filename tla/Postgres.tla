------------------------------ MODULE Postgres ------------------------------
(***************************************************************************)
(* The PostgreSQL server and the per-process client pools, as the services *)
(* of api/src use them: committed tables, the part of them the WAL has on  *)
(* disk, the write set of each open transaction, and the pool clients that *)
(* are checked out.                                                        *)
(*                                                                         *)
(* A client is one HTTP request.  It runs in the cluster process           *)
(* Home[client] and holds at most one pool client.  A row that a request   *)
(* inserts carries the request as its id: it stands for the BIGSERIAL id,  *)
(* which is unique to the statement that inserted the row.                 *)
(*                                                                         *)
(* The operators below are the statements; the service modules say when    *)
(* each is issued.                                                         *)
(***************************************************************************)
EXTENDS Naturals, FiniteSets

CONSTANTS
  Clients,      \* every request that may use the database
  Procs,        \* the API processes of cluster.ts
  Home,         \* Home[c]: the process that serves request c
  PoolMax,      \* pool clients per process ("max: 10")
  JobIds,       \* job ids, those with a row and those without
  SeedJobs,     \* SeedJobs[j]: the row of job j before the first request, or NoRow
  NoRow,        \* there is no such row
  Users,        \* rows of users
  Workers,      \* rows of workers; a worker and a user may share an id
  NoWorker,     \* jobs.worker_id IS NULL
  Keys          \* values of (gateway, transaction_id)

ASSUME PoolAssumption ==
  /\ IsFiniteSet(Clients)
  /\ Home \in [Clients -> Procs]
  /\ PoolMax \in Nat \ {0}

JobStates ==
  {"CREATED", "MATCHED", "ACCEPTED", "IN_PROGRESS", "COMPLETED", "PAID"}

JobRow == [state : JobStates, worker : Workers \cup {NoWorker}]

Statuses == {"SUCCESS", "FAILED", "PENDING"}

\* The body of a payment webhook; it is also the payload column of the IPN log.
Notification == [key : Keys, job : JobIds, amount : Nat \ {0}, status : Statuses]

IpnRow    == [id : Clients, note : Notification]
LedgerRow == [id : Clients, job : JobIds, type : {"debit", "credit"}, amount : Nat]
AuditRow  == [id : Clients, actor : Users, job : JobIds]

ASSUME SeedAssumption ==
  /\ NoRow \notin JobRow
  /\ SeedJobs \in [JobIds -> JobRow \cup {NoRow}]
  /\ \A j \in JobIds : SeedJobs[j] # NoRow => SeedJobs[j].state # "PAID"

\* The tables, and equally the rows a transaction has written to them: ledger
\* leaves out the rows that 03_seed_jobs.js books for its COMPLETED jobs.  In a
\* write set, jobs[j] = NoRow says that the transaction has not written job j.
Tables == [ipn    : SUBSET IpnRow,
           ledger : SUBSET LedgerRow,
           audit  : SUBSET AuditRow,
           jobs   : [JobIds -> JobRow \cup {NoRow}]]

VARIABLES
  db,     \* the committed rows
  disk,   \* the rows a restart of the server recovers
  txn,    \* txn[c]: the uncommitted writes of request c
  held,   \* the requests that hold a pool client
  syncCommit   \* synchronous_commit: is a commit on disk before it is acknowledged?

pgVars == <<db, disk, txn, held>>

NoWrites == [ipn |-> {}, ledger |-> {}, audit |-> {},
             jobs |-> [j \in JobIds |-> NoRow]]

PgTypeOK ==
  /\ db \in Tables
  /\ disk \in Tables
  /\ txn \in [Clients -> Tables]
  /\ held \in SUBSET Clients
  /\ syncCommit \in BOOLEAN

PgInit ==
  /\ db = [NoWrites EXCEPT !.jobs = SeedJobs]
  /\ disk = db
  /\ txn = [c \in Clients |-> NoWrites]
  /\ held = {}
  /\ syncCommit \in BOOLEAN

\* The setting stays as the server was started: docker-compose.yml starts it
\* with off, and rollback.sh sets it to on.
SettingKept == UNCHANGED syncCommit
-----------------------------------------------------------------------------
(* The pool *)

HeldIn(p) == {c \in held : Home[c] = p}

\* pool.connect(): a process waits while all its clients are checked out.
CheckOut(c) ==
  /\ Cardinality(HeldIn(Home[c])) < PoolMax
  /\ held' = held \cup {c}

Release(c) == held' = held \ {c}
-----------------------------------------------------------------------------
(* Statements *)

\* The keys that the unique index on (gateway, transaction_id) finds committed.
RecordedKeys(s) == {row.note.key : row \in s.ipn}

\* Mutant of KeyInFlight: the table has no unique index to wait on.
NoIndex(c, k) == FALSE

\* An INSERT of a key that another open transaction has inserted waits until
\* that transaction ends.
KeyInFlight(c, k) == \E d \in Clients \ {c} : k \in RecordedKeys(txn[d])

\* Mutant of RowLocked: an UPDATE writes over a row that is being updated.
NoRowLock(c, j) == FALSE

\* An UPDATE of a row that another open transaction has updated waits likewise.
RowLocked(c, j) == \E d \in Clients \ {c} : txn[d].jobs[j] # NoRow

Merge(s, w) ==
  [ipn    |-> s.ipn \cup w.ipn,
   ledger |-> s.ledger \cup w.ledger,
   audit  |-> s.audit \cup w.audit,
   jobs   |-> [j \in JobIds |-> IF w.jobs[j] = NoRow THEN s.jobs[j] ELSE w.jobs[j]]]

\* A statement of request c inside its transaction: w is its write set so far.
Write(c, w) == txn' = [txn EXCEPT ![c] = w]

\* Mutant of Apply: a commit is acknowledged before it is on disk, whatever the
\* setting says.
ApplyLazily(w) == db' = Merge(db, w) /\ UNCHANGED disk

\* Makes w visible to everyone.  With synchronous_commit=off the WAL reaches
\* the disk later.
Apply(w) ==
  /\ db' = Merge(db, w)
  /\ disk' = IF syncCommit THEN Merge(db, w) ELSE disk

CommitTxn(c) == Apply(txn[c]) /\ Write(c, NoWrites)

\* Mutant of AbortTxn: the catch releases the client without a ROLLBACK.
LeaveOpen(c) == UNCHANGED txn

\* ROLLBACK, an error inside the transaction, or the loss of its connection.
AbortTxn(c) == Write(c, NoWrites)
-----------------------------------------------------------------------------
(* The server and its surroundings *)

\* The WAL writer catches up.  Flushing after any commit makes every prefix of
\* the commit order a possible content of the disk.
WalFlush ==
  /\ disk # db
  /\ disk' = db
  /\ UNCHANGED <<db, txn, held>>

\* The server restarts: open transactions are gone, and so is every commit the
\* disk does not have.  The pool clients stay checked out until their requests
\* notice.
PgRestart ==
  /\ db' = disk
  /\ txn' = [c \in Clients |-> NoWrites]
  /\ UNCHANGED <<disk, held>>

\* Process p dies: the server aborts the transactions of its connections.
ConnectionsLost(p) ==
  /\ txn' = [c \in Clients |-> IF Home[c] = p THEN NoWrites ELSE txn[c]]
  /\ held' = {c \in held : Home[c] # p}
  /\ UNCHANGED <<db, disk>>
=============================================================================

-------------------------------- MODULE Seed --------------------------------
(***************************************************************************)
(* 03_seed_jobs.js: run-all.sh starts it before every load test, and again *)
(* after it has failed, on the tables that earlier runs have left.  Worker *)
(* users and profiles are inserted in batches that commit by themselves,   *)
(* the profiles are loaded into the GEO set of redis-geo, and historical   *)
(* jobs are inserted with their ledger entries, one transaction per batch. *)
(*                                                                         *)
(* One action per awaited statement.  A row's id is what makes it unique:  *)
(* a phone for a user, user and run for a profile, and run, batch and      *)
(* position for a job.                                                     *)
(***************************************************************************)
EXTENDS Price, FiniteSets

CONSTANTS
  Phones,       \* phones of the worker accounts (500 000)
  BatchSize,    \* rows per INSERT (BATCH_SIZE)
  GeoBatch,     \* members per GEOADD (REDIS_BATCH)
  JobBatches,   \* JOB_COUNT / BATCH_SIZE
  Draws,        \* what a job may be drawn to be
  MaxRuns       \* bound on the runs of the script

ASSUME SeedScriptAssumption ==
  /\ IsFiniteSet(Phones)
  /\ BatchSize \in Nat \ {0} /\ GeoBatch \in Nat \ {0} /\ JobBatches \in Nat \ {0}
  /\ MaxRuns \in Nat
  /\ Draws \subseteq [state : {"CREATED", "MATCHED", "ACCEPTED", "IN_PROGRESS", "COMPLETED"},
                      order : Order]

VARIABLES
  users,       \* phones with a row in users, of type worker
  profiles,    \* rows of workers
  geo,         \* members of workers:geo:active
  jobs,        \* jobs[id]: the draw of each job
  ledger,      \* rows of ledger_entries
  customers,   \* has 02_seed_workers.sql inserted its customers?
  at,          \* control point of the script
  run,         \* which run this is
  todo,        \* what the stage has still to insert
  batch,       \* the number of the batch of jobs
  txn,         \* the open transaction: the jobs and the entries it has inserted
  geoLost      \* has redis-geo restarted during this run? (history)

tables == <<users, profiles, geo, jobs, ledger, customers>>
script == <<at, run, todo, batch, txn>>
vars == <<tables, script, geoLost>>

Profile == Phones \X (1..MaxRuns)
JobId   == (1..MaxRuns) \X (1..JobBatches) \X (1..BatchSize)
JobRow  == [id : JobId, draw : Draws]
Entry   == [job : JobId, type : {"debit", "credit"}, amount : Nat]

Stages  == {"users", "profiles", "geo", "jobs", "ledger", "commit", "counts"}
Stopped == {"idle", "done", "failed"}

TypeOK ==
  /\ users \in SUBSET Phones
  /\ profiles \in SUBSET Profile
  /\ geo \in SUBSET Profile
  /\ jobs \in SUBSET JobRow
  /\ ledger \in SUBSET Entry
  /\ customers \in BOOLEAN
  /\ at \in Stages \cup Stopped
  /\ run \in 0..MaxRuns
  /\ todo \in (SUBSET Phones) \cup (SUBSET Profile)
  /\ batch \in 1..JobBatches
  /\ txn \in [jobs : SUBSET JobRow, ledger : SUBSET Entry]
  /\ geoLost \in BOOLEAN

NoTxn == [jobs |-> {}, ledger |-> {}]

\* run-all.sh goes on when the schema or the customers have not been inserted.
Init ==
  /\ users = {} /\ profiles = {} /\ geo = {} /\ jobs = {} /\ ledger = {}
  /\ customers \in BOOLEAN
  /\ at = "idle" /\ run = 0 /\ todo = {} /\ batch = 1 /\ txn = NoTxn
  /\ geoLost = FALSE

\* Step 3 of run-all.sh.
Start ==
  /\ at \in Stopped
  /\ run < MaxRuns
  /\ at' = "users" /\ run' = run + 1 /\ todo' = Phones /\ batch' = 1
  /\ geoLost' = FALSE
  /\ UNCHANGED <<tables, txn>>
-----------------------------------------------------------------------------
(* Users, profiles, positions *)

\* The next n of what is to be done, or what is left of it.
Slices(n) ==
  {S \in SUBSET todo : Cardinality(S) = IF Cardinality(todo) < n THEN Cardinality(todo) ELSE n}

Inserts(S) ==
  /\ todo # {}
  /\ todo' = todo \ S
  /\ UNCHANGED <<at, run, batch, txn, geoLost>>

\* INSERT INTO users ... ON CONFLICT (phone) DO NOTHING.
InsertUsers ==
  /\ at = "users"
  /\ \E S \in Slices(BatchSize) : Inserts(S) /\ users' = users \cup S
  /\ UNCHANGED <<profiles, geo, jobs, ledger, customers>>

Turn(from, to, work) ==
  /\ at = from
  /\ todo = {}
  /\ at' = to
  /\ todo' = work
  /\ UNCHANGED <<tables, run, batch, txn, geoLost>>

\* SELECT id FROM users WHERE type = 'worker': those of earlier runs as well.
SelectUsers == Turn("users", "profiles", users)

\* INSERT INTO workers ... ON CONFLICT DO NOTHING.  workers has no unique
\* column but its id: there is never a conflict, and a user may get a profile
\* from every run.
InsertProfiles ==
  /\ at = "profiles"
  /\ \E S \in Slices(BatchSize) : Inserts(S) /\ profiles' = profiles \cup (S \X {run})
  /\ UNCHANGED <<users, geo, jobs, ledger, customers>>

\* Mutant of SelectProfiles: the positions are loaded of what this run inserted.
SelectOwnProfiles == Turn("profiles", "geo", {p \in profiles : p[2] = run})

\* SELECT id, last_lat, last_lon FROM workers.
SelectProfiles == Turn("profiles", "geo", profiles)

\* GEOADD workers:geo:active.
GeoAdd ==
  /\ at = "geo"
  /\ \E S \in Slices(GeoBatch) : Inserts(S) /\ geo' = geo \cup S
  /\ UNCHANGED <<users, profiles, jobs, ledger, customers>>

\* The SELECTs of seedJobs: without customers the script exits.
SelectCustomers == Turn("geo", IF customers THEN "jobs" ELSE "failed", {})
-----------------------------------------------------------------------------
(* Jobs and their ledger entries *)

JobsStep(from, to) ==
  /\ at = from
  /\ at' = to
  /\ UNCHANGED <<users, profiles, geo, customers, run, todo, geoLost>>

\* connect(), BEGIN and INSERT INTO jobs, of a batch that is drawn at random.
InsertJobs ==
  /\ JobsStep("jobs", "ledger")
  /\ \E drawn \in [1..BatchSize -> Draws] :
       txn' = [NoTxn EXCEPT !.jobs =
                 {[id |-> <<run, batch, i>>, draw |-> drawn[i]] : i \in 1..BatchSize}]
  /\ UNCHANGED <<jobs, ledger, batch>>

Completed(rows) == {r \in rows : r.draw.state = "COMPLETED"}

Entries(r, amount) ==
  {[job |-> r.id, type |-> t, amount |-> amount] : t \in {"debit", "credit"}}

\* Mutant of Amount: the place among the COMPLETED jobs is taken for the place in
\* the batch.
AmountByPlace(r) ==
  LET before == {c \in Completed(txn.jobs) : c.id[3] <= r.id[3]}
      other  == CHOOSE b \in txn.jobs : b.id[3] = Cardinality(before)
  IN  SeedPrice(other.draw.order)

\* The price at the job's own place in the batch.
Amount(r) == SeedPrice(r.draw.order)

\* INSERT INTO ledger_entries, if any of the jobs is COMPLETED.
InsertLedger ==
  /\ JobsStep("ledger", "commit")
  /\ txn' = [txn EXCEPT !.ledger =
               UNION {Entries(r, Amount(r)) : r \in Completed(txn.jobs)}]
  /\ UNCHANGED <<jobs, ledger, batch>>

\* Mutant of CommitBatch: the loop counts one batch too many.
CommitOneMore ==
  /\ JobsStep("commit", IF batch > JobBatches THEN "counts" ELSE "jobs")
  /\ batch' = batch + 1
  /\ jobs' = jobs \cup txn.jobs
  /\ ledger' = ledger \cup txn.ledger
  /\ txn' = NoTxn

\* COMMIT, and the next batch or none.
CommitBatch ==
  /\ JobsStep("commit", IF batch = JobBatches THEN "counts" ELSE "jobs")
  /\ batch' = IF batch = JobBatches THEN batch ELSE batch + 1
  /\ jobs' = jobs \cup txn.jobs
  /\ ledger' = ledger \cup txn.ledger
  /\ txn' = NoTxn

\* The counts and the GEORADIUS that only report.
Report ==
  /\ JobsStep("counts", "done")
  /\ UNCHANGED <<jobs, ledger, batch, txn>>
-----------------------------------------------------------------------------
(* Failures *)

\* A statement rejects, and main() exits: the open batch is rolled back, the
\* earlier ones stay.  A killed script leaves the same.
Fail ==
  /\ at \in Stages
  /\ at' = "failed" /\ todo' = {} /\ txn' = NoTxn
  /\ UNCHANGED <<tables, run, batch, geoLost>>

\* redis-geo restarts: it persists nothing.
GeoRestarts ==
  /\ geo # {}
  /\ geo' = {}
  /\ geoLost' = TRUE
  /\ UNCHANGED <<users, profiles, jobs, ledger, customers, script>>
-----------------------------------------------------------------------------
Step ==
  \/ InsertUsers \/ SelectUsers \/ InsertProfiles \/ SelectProfiles
  \/ GeoAdd \/ SelectCustomers
  \/ InsertJobs \/ InsertLedger \/ CommitBatch \/ Report

Next == Start \/ Step \/ Fail \/ GeoRestarts

Spec == Init /\ [][Next]_vars
-----------------------------------------------------------------------------
(* Correctness *)

(***************************************************************************)
(* The ledger that the API starts with is balanced: a COMPLETED job has its*)
(* debit and its credit, of the price that the API would have asked for    *)
(* it, and nothing else is booked - whichever runs failed, and wherever.   *)
(***************************************************************************)
LedgerMatchesJobs ==
  ledger = UNION {Entries(r, Total(r.draw.order)) : r \in Completed(jobs)}

(***************************************************************************)
(* "Seed Complete" means it, also after failed runs: every account is      *)
(* there and has a profile, every profile - those that a failed run has    *)
(* left included - can be found nearby unless redis-geo has restarted, and *)
(* the jobs of this run are all there.                                     *)
(***************************************************************************)
CompleteMeansUsable ==
  at = "done" =>
    /\ users = Phones
    /\ {p[1] : p \in profiles} = Phones
    /\ geo = profiles \/ geoLost
    /\ {r.id : r \in {s \in jobs : s.id[1] = run}} = {run} \X (1..JobBatches) \X (1..BatchSize)

=============================================================================

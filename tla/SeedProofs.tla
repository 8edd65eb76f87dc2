----------------------------- MODULE SeedProofs -----------------------------
(***************************************************************************)
(* Proofs about Price and Seed: for any accounts, batch sizes, draws and   *)
(* number of runs, the seeded ledger is balanced, and a run that completes *)
(* leaves accounts, profiles, positions and jobs that belong together.     *)
(***************************************************************************)
EXTENDS Seed, TLAPS

-----------------------------------------------------------------------------
(* The price *)

(***************************************************************************)
(* The seed script books for a job what the API asks for it: its copy of   *)
(* the formula is that of calculatePrice.                                  *)
(***************************************************************************)
THEOREM SeedPriceIsPrice == \A o \in Order : SeedPrice(o) = Total(o)
<1>. SUFFICES ASSUME NEW o \in Order
              PROVE  SeedPrice(o) = Total(o)
  OBVIOUS
<1>1. Total(o) = 15000 + o.weight_kg * 1500 + o.floors * 10000 + o.carry_distance_m * 500
  BY SMT DEF Total, Breakdown
<1>. QED BY <1>1 DEF SeedPrice

\* The formula over the ranges that the DTOs allow.
LEMMA PriceRange ==
  ASSUME NEW o \in Order
  PROVE  SeedPrice(o) \in Int /\ SeedPrice(o) >= 16500 /\ SeedPrice(o) <= 8515 * 1000
<1>. DEFINE w == o.weight_kg
            f == o.floors
            d == o.carry_distance_m
<1>1. w \in 1..2000 /\ f \in 0..50 /\ d \in 0..10000
  BY DEF Order
<1>2. SeedPrice(o) = 15000 + w * 1500 + f * 10000 + d * 500
  BY DEF SeedPrice
<1>. HIDE DEF w, f, d
<1>3. /\ w \in Int /\ w >= 1 /\ w <= 2000
      /\ f \in Int /\ f >= 0 /\ f <= 50
      /\ d \in Int /\ d >= 0 /\ d <= 10000
  BY <1>1, SMT
<1>4. SeedPrice(o) \in Int
  BY <1>2, <1>3, SMT
<1>5. SeedPrice(o) >= 16500
  BY <1>2, <1>3, SMT
<1>6. SeedPrice(o) <= 8515 * 1000
  BY <1>2, <1>3, SMT
<1>. QED BY <1>4, <1>5, <1>6

(***************************************************************************)
(* A job that createJob accepts is one that calculatePrice could have      *)
(* quoted, its price is what is quoted and the sum of what is stored, and  *)
(* no price leaves the range of a 32-bit integer, let alone BIGINT.        *)
(***************************************************************************)
THEOREM PriceIsQuoted ==
  ASSUME NEW o \in JobOrder
  PROVE  /\ o \in Order
         /\ Created(o).price = Total(o)
         /\ Created(o).stored.base + Created(o).stored.weight + Created(o).stored.floors
              + Created(o).stored.distance = Created(o).price
         /\ Total(o) >= 16500 /\ Total(o) <= 8515 * 1000
<1>1. o \in Order
  BY DEF JobOrder, Order
<1>2. SeedPrice(o) = Total(o)
  BY <1>1, SeedPriceIsPrice
<1>3. SeedPrice(o) >= 16500 /\ SeedPrice(o) <= 8515 * 1000
  BY <1>1, PriceRange
<1>4. Total(o) >= 16500 /\ Total(o) <= 8515 * 1000
  BY <1>2, <1>3
<1>5. Created(o).price = Total(o)
  BY SMT DEF Created
<1>6. Created(o).stored.base + Created(o).stored.weight + Created(o).stored.floors
        + Created(o).stored.distance = Created(o).price
  BY SMT DEF Created, Total, Breakdown
<1>. QED BY <1>1, <1>4, <1>5, <1>6

-----------------------------------------------------------------------------
(* Types *)

\* The sizes of batches are positive, and the draws are as in the script.
LEMMA SeedConstants ==
  /\ BatchSize \in Nat /\ BatchSize > 0
  /\ JobBatches \in Nat /\ JobBatches > 0
  /\ MaxRuns \in Nat
  /\ Draws \subseteq [state : {"CREATED", "MATCHED", "ACCEPTED", "IN_PROGRESS", "COMPLETED"},
                      order : Order]
  BY SeedScriptAssumption

\* A price is a natural number.
LEMMA PriceType ==
  ASSUME NEW o \in Order
  PROVE  SeedPrice(o) \in Nat
<1>1. SeedPrice(o) \in Int /\ SeedPrice(o) >= 16500
  BY PriceRange
<1>. QED BY <1>1, SMT

\* The entries of a job are rows of the ledger.
LEMMA EntriesType ==
  ASSUME NEW R \in SUBSET JobRow
  PROVE  UNION {Entries(r, Amount(r)) : r \in Completed(R)} \in SUBSET Entry
<1>1. ASSUME NEW r \in R
      PROVE  Entries(r, Amount(r)) \in SUBSET Entry
  <2>1. r.id \in JobId /\ r.draw.order \in Order
    BY SeedConstants DEF JobRow
  <2>2. Amount(r) \in Nat
    BY <2>1, PriceType DEF Amount
  <2>. QED BY <2>1, <2>2 DEF Entries, Entry
<1>. QED BY <1>1 DEF Completed

\* A batch of drawn jobs is a set of rows.
LEMMA BatchType ==
  ASSUME NEW drawn \in [1..BatchSize -> Draws], run \in 1..MaxRuns, batch \in 1..JobBatches
  PROVE  {[id |-> <<run, batch, i>>, draw |-> drawn[i]] : i \in 1..BatchSize} \in SUBSET JobRow
  BY DEF JobRow, JobId

(***************************************************************************)
(* A run is under way from its Start on, and a batch is open only between  *)
(* its INSERT and its COMMIT.                                              *)
(***************************************************************************)
Running ==
  /\ at # "idle" => run \in 1..MaxRuns
  /\ at \notin {"ledger", "commit"} => txn = NoTxn
  /\ at = "ledger" => txn.ledger = {}
  /\ at = "users" => todo \in SUBSET Phones
  /\ at = "profiles" => todo \in SUBSET Phones
  /\ at = "geo" => todo \in SUBSET Profile
  /\ at \notin {"users", "profiles", "geo"} => todo = {}

TypeInv == TypeOK /\ Running

\* The script starts with nothing.
LEMMA TypeInit == Init => TypeInv
<1>. SUFFICES ASSUME Init
              PROVE  TypeInv
  OBVIOUS
<1>1. todo \in SUBSET Phones /\ todo \in SUBSET Profile /\ todo = {}
  BY DEF Init
<1>2. txn = NoTxn /\ txn \in [jobs : SUBSET JobRow, ledger : SUBSET Entry]
  BY DEF Init, NoTxn
<1>3. /\ users \in SUBSET Phones /\ profiles \in SUBSET Profile /\ geo \in SUBSET Profile
      /\ jobs \in SUBSET JobRow /\ ledger \in SUBSET Entry /\ at = "idle"
  BY DEF Init
<1>4. customers \in BOOLEAN /\ geoLost \in BOOLEAN
  BY Zenon DEF Init
<1>5. run \in 0..MaxRuns /\ batch \in 1..JobBatches
  BY SeedConstants, SMT DEF Init
<1>. QED BY <1>1, <1>2, <1>3, <1>4, <1>5 DEF TypeInv, TypeOK, Running, Stages, Stopped

\* Every step keeps the types.
LEMMA TypeStep == TypeInv /\ [Next]_vars => TypeInv'
<1>. SUFFICES ASSUME TypeInv, [Next]_vars
              PROVE  TypeInv'
  OBVIOUS
<1>. USE SeedConstants DEF TypeInv, TypeOK, Running, NoTxn, Stages, Stopped, tables, script
<1>1. CASE Start
  <2>1. todo' \in SUBSET Phones /\ at' = "users"
    BY <1>1 DEF Start
  <2>2. txn' = NoTxn /\ txn \in [jobs : SUBSET JobRow, ledger : SUBSET Entry]
    BY <1>1 DEF Start
  <2>3. run' \in 1..MaxRuns /\ batch' \in 1..JobBatches
    BY <1>1 DEF Start
  <2>4. geoLost' \in BOOLEAN /\ tables' = tables
    BY <1>1, Zenon DEF Start
  <2>. QED BY <2>1, <2>2, <2>3, <2>4
<1>2. CASE InsertUsers
  BY <1>2 DEF InsertUsers, Inserts, Slices
<1>3. CASE SelectUsers
  BY <1>3 DEF SelectUsers, Turn
<1>4. CASE InsertProfiles
  <2>1. PICK S \in Slices(BatchSize) : Inserts(S) /\ profiles' = profiles \cup (S \X {run})
    BY <1>4 DEF InsertProfiles
  <2>2. at = "profiles" /\ S \subseteq todo /\ todo \subseteq Phones
    BY <1>4 DEF InsertProfiles, Slices
  <2>3. S \X {run} \in SUBSET Profile
    BY <2>2 DEF Profile
  <2>. QED BY <1>4, <2>1, <2>2, <2>3 DEF InsertProfiles, Inserts
<1>5. CASE SelectProfiles
  <2>1. todo' \in SUBSET Profile /\ at' = "geo" /\ at = "profiles"
    BY <1>5 DEF SelectProfiles, Turn
  <2>. QED BY <1>5, <2>1 DEF SelectProfiles, Turn
<1>6. CASE GeoAdd
  BY <1>6 DEF GeoAdd, Inserts, Slices
<1>7. CASE SelectCustomers
  BY <1>7 DEF SelectCustomers, Turn
<1>8. CASE InsertJobs
  <2>1. PICK drawn \in [1..BatchSize -> Draws] :
          txn' = [NoTxn EXCEPT !.jobs =
                    {[id |-> <<run, batch, i>>, draw |-> drawn[i]] : i \in 1..BatchSize}]
    BY <1>8 DEF InsertJobs
  <2>2. at = "jobs" /\ run \in 1..MaxRuns /\ batch \in 1..JobBatches
    BY <1>8 DEF InsertJobs, JobsStep
  <2>3. {[id |-> <<run, batch, i>>, draw |-> drawn[i]] : i \in 1..BatchSize} \in SUBSET JobRow
    BY <2>2, BatchType
  <2>. QED BY <1>8, <2>1, <2>2, <2>3 DEF InsertJobs, JobsStep
<1>9. CASE InsertLedger
  <2>1. UNION {Entries(r, Amount(r)) : r \in Completed(txn.jobs)} \in SUBSET Entry
    BY EntriesType
  <2>. QED BY <1>9, <2>1 DEF InsertLedger, JobsStep
<1>10. CASE CommitBatch
  BY <1>10 DEF CommitBatch, JobsStep
<1>11. CASE Report
  BY <1>11 DEF Report, JobsStep
<1>12. CASE Fail
  BY <1>12 DEF Fail
<1>13. CASE GeoRestarts
  BY <1>13 DEF GeoRestarts
<1>14. CASE UNCHANGED vars
  BY <1>14 DEF vars
<1>. QED BY <1>1, <1>2, <1>3, <1>4, <1>5, <1>6, <1>7, <1>8, <1>9, <1>10, <1>11, <1>12,
            <1>13, <1>14 DEF Next, Step

(***************************************************************************)
(* Every variable keeps its type (the control points of 03_seed_jobs.js,   *)
(* its batches and what it inserts).                                       *)
(***************************************************************************)
THEOREM TypeCorrect == Spec => []TypeOK
<1>1. Init => TypeInv
  BY TypeInit
<1>2. TypeInv /\ [Next]_vars => TypeInv'
  BY TypeStep
<1>3. TypeInv => TypeOK
  BY DEF TypeInv
<1>. QED BY <1>1, <1>2, <1>3, PTL DEF Spec

-----------------------------------------------------------------------------
(* The ledger *)

\* What is to be booked for a set of jobs.
Booked(rows) == UNION {Entries(r, Total(r.draw.order)) : r \in Completed(rows)}

(***************************************************************************)
(* While a batch is open, what it has booked is for its own jobs.          *)
(***************************************************************************)
BatchBooked == txn.ledger = IF at = "commit" THEN Booked(txn.jobs) ELSE {}

LedgerInv == LedgerMatchesJobs /\ BatchBooked

\* The amount of an entry is what the API asks for the job.
LEMMA AmountIsTotal ==
  ASSUME NEW R \in SUBSET JobRow
  PROVE  UNION {Entries(r, Amount(r)) : r \in Completed(R)} = Booked(R)
<1>1. ASSUME NEW r \in Completed(R)
      PROVE  Amount(r) = Total(r.draw.order)
  <2>1. r.draw.order \in Order
    BY <1>1, SeedConstants DEF JobRow, Completed
  <2>. QED BY <2>1, SeedPriceIsPrice DEF Amount
<1>. QED BY <1>1 DEF Booked

\* Jobs that are inserted together are booked together.
LEMMA BookedTogether ==
  ASSUME NEW A, NEW B
  PROVE  Booked(A \cup B) = Booked(A) \cup Booked(B)
<1>1. Completed(A \cup B) = Completed(A) \cup Completed(B)
  BY DEF Completed
<1>. QED BY <1>1 DEF Booked

\* Steps that touch neither the rows nor the batch.
LEMMA LedgerQuiet ==
  ASSUME LedgerInv, UNCHANGED <<jobs, ledger, txn>>, (at = "commit") <=> (at' = "commit")
  PROVE  LedgerInv'
  BY DEF LedgerInv, LedgerMatchesJobs, BatchBooked, Booked

\* Every step keeps the ledger balanced.
LEMMA LedgerStep == TypeInv /\ LedgerInv /\ [Next]_vars => LedgerInv'
<1>. SUFFICES ASSUME TypeInv, LedgerInv, [Next]_vars
              PROVE  LedgerInv'
  OBVIOUS
<1>1. CASE Start
  <2>1. at # "commit" /\ at' # "commit" /\ UNCHANGED <<jobs, ledger, txn>>
    BY <1>1 DEF Start, Stopped, tables
  <2>. QED BY <2>1, LedgerQuiet
<1>2. CASE InsertUsers \/ InsertProfiles \/ GeoAdd
  <2>1. UNCHANGED <<at, jobs, ledger, txn>>
    BY <1>2 DEF InsertUsers, InsertProfiles, GeoAdd, Inserts
  <2>. QED BY <2>1, LedgerQuiet
<1>3. CASE SelectUsers \/ SelectProfiles \/ SelectCustomers
  <2>1. at # "commit" /\ at' # "commit" /\ UNCHANGED <<jobs, ledger, txn>>
    BY <1>3 DEF SelectUsers, SelectProfiles, SelectCustomers, Turn, tables
  <2>. QED BY <2>1, LedgerQuiet
<1>4. CASE InsertJobs
  <2>1. txn'.ledger = {} /\ at' = "ledger" /\ UNCHANGED <<jobs, ledger>>
    BY <1>4 DEF InsertJobs, JobsStep, NoTxn
  <2>. QED BY <2>1 DEF LedgerInv, LedgerMatchesJobs, BatchBooked
<1>5. CASE InsertLedger
  <2>1. txn.jobs \in SUBSET JobRow
    BY DEF TypeInv, TypeOK
  <2>2. UNION {Entries(r, Amount(r)) : r \in Completed(txn.jobs)} = Booked(txn.jobs)
    BY <2>1, AmountIsTotal
  <2>3. txn' = [txn EXCEPT !.ledger = Booked(txn.jobs)]
    BY <1>5, <2>2 DEF InsertLedger
  <2>4. txn'.jobs = txn.jobs /\ txn'.ledger = Booked(txn.jobs)
    BY <2>3 DEF TypeInv, TypeOK
  <2>5. at' = "commit" /\ UNCHANGED <<jobs, ledger>>
    BY <1>5 DEF InsertLedger, JobsStep
  <2>. QED BY <2>4, <2>5 DEF LedgerInv, LedgerMatchesJobs, BatchBooked, Booked
<1>6. CASE CommitBatch
  <2>1. txn.ledger = Booked(txn.jobs) /\ ledger = Booked(jobs)
    BY <1>6 DEF CommitBatch, JobsStep, LedgerInv, BatchBooked, LedgerMatchesJobs, Booked
  <2>2. ledger' = Booked(jobs \cup txn.jobs)
    BY <1>6, <2>1, BookedTogether DEF CommitBatch
  <2>3. jobs' = jobs \cup txn.jobs /\ at' # "commit" /\ txn'.ledger = {}
    BY <1>6 DEF CommitBatch, JobsStep, NoTxn
  <2>. QED BY <2>2, <2>3 DEF LedgerInv, LedgerMatchesJobs, BatchBooked, Booked
<1>7. CASE Report
  <2>1. at # "commit" /\ at' # "commit" /\ UNCHANGED <<jobs, ledger, txn>>
    BY <1>7 DEF Report, JobsStep
  <2>. QED BY <2>1, LedgerQuiet
<1>8. CASE Fail
  <2>1. txn'.ledger = {} /\ at' = "failed" /\ UNCHANGED <<jobs, ledger>>
    BY <1>8 DEF Fail, NoTxn, tables
  <2>. QED BY <2>1 DEF LedgerInv, LedgerMatchesJobs, BatchBooked
<1>9. CASE GeoRestarts \/ UNCHANGED vars
  <2>1. UNCHANGED <<at, jobs, ledger, txn>>
    BY <1>9 DEF GeoRestarts, vars, tables, script
  <2>. QED BY <2>1, LedgerQuiet
<1>. QED BY <1>1, <1>2, <1>3, <1>4, <1>5, <1>6, <1>7, <1>8, <1>9 DEF Next, Step

(***************************************************************************)
(* The seeded ledger is balanced at the prices of the API, whichever runs  *)
(* fail and wherever they fail (the transactions of seedJobs).             *)
(***************************************************************************)
THEOREM LedgerIsBalanced == Spec => []LedgerMatchesJobs
<1>1. Init => TypeInv /\ LedgerInv
  <2>1. Init => LedgerInv
    BY DEF Init, LedgerInv, LedgerMatchesJobs, BatchBooked, NoTxn, Completed
  <2>. QED BY <2>1, TypeInit
<1>2. TypeInv /\ LedgerInv /\ [Next]_vars => (TypeInv /\ LedgerInv)'
  BY TypeStep, LedgerStep
<1>3. TypeInv /\ LedgerInv => LedgerMatchesJobs
  BY DEF LedgerInv
<1>. QED BY <1>1, <1>2, <1>3, PTL DEF Spec

-----------------------------------------------------------------------------
(* Completeness *)

AfterUsers    == {"profiles", "geo", "jobs", "ledger", "commit", "counts", "done"}
AfterProfiles == AfterUsers \ {"profiles"}
AfterGeo      == AfterProfiles \ {"geo"}
Owners        == {p[1] : p \in profiles}

(***************************************************************************)
(* What each stage has done when it ends is what it has not still to do.   *)
(***************************************************************************)
Accounts ==
  /\ at = "users" => Phones \subseteq users \cup todo
  /\ at \in AfterUsers => users = Phones
  /\ at = "profiles" => Phones \subseteq Owners \cup todo
  /\ at \in AfterProfiles => Phones \subseteq Owners

Positions ==
  /\ geo \subseteq profiles
  /\ at = "geo" => todo \subseteq profiles
  /\ at = "geo" => profiles \subseteq geo \cup todo \/ geoLost
  /\ at \in AfterGeo => profiles \subseteq geo \/ geoLost

\* The ids of the jobs of this run, and of the first n batches of it.
RunIds == {r.id : r \in {s \in jobs : s.id[1] = run}}
Batches(n) == {run} \X (1..n) \X (1..BatchSize)

(***************************************************************************)
(* The batches that have been committed are those before the open one.     *)
(***************************************************************************)
Counted ==
  /\ \A r \in jobs : r.id[1] <= run
  /\ at \in {"users", "profiles", "geo"} => batch = 1 /\ \A r \in jobs : r.id[1] < run
  /\ at \in {"jobs", "ledger", "commit"} => RunIds = Batches(batch - 1)
  /\ at \in {"ledger", "commit"} => {r.id : r \in txn.jobs} = {run} \X {batch} \X (1..BatchSize)
  /\ at \in {"counts", "done"} => RunIds = Batches(JobBatches)

UsableInv == Accounts /\ Positions /\ Counted

\* The invariant is what is asked of a run that has completed.
LEMMA UsableIsUsable == TypeInv /\ UsableInv => CompleteMeansUsable
<1>. SUFFICES ASSUME TypeInv, UsableInv, at = "done"
              PROVE  /\ users = Phones
                     /\ {p[1] : p \in profiles} = Phones
                     /\ geo = profiles \/ geoLost
                     /\ RunIds = Batches(JobBatches)
  BY DEF CompleteMeansUsable, RunIds, Batches
<1>1. users = Phones /\ Phones \subseteq Owners
  BY DEF UsableInv, Accounts, AfterUsers, AfterProfiles
<1>2. Owners \subseteq Phones
  BY DEF TypeInv, TypeOK, Profile, Owners
<1>3. geo = profiles \/ geoLost
  BY DEF UsableInv, Positions, AfterUsers, AfterProfiles, AfterGeo
<1>4. RunIds = Batches(JobBatches)
  BY DEF UsableInv, Counted
<1>. QED BY <1>1, <1>2, <1>3, <1>4 DEF Owners

\* Every stage accounts for the phones.
LEMMA AccountsStep == TypeInv /\ Accounts /\ [Next]_vars => Accounts'
<1>. SUFFICES ASSUME TypeInv, Accounts, [Next]_vars
              PROVE  Accounts'
  OBVIOUS
<1>. USE DEF Accounts, AfterUsers, AfterProfiles, Owners
<1>1. CASE Start
  BY <1>1 DEF Start
<1>2. CASE InsertUsers
  BY <1>2 DEF InsertUsers, Inserts, TypeInv, TypeOK, Slices
<1>3. CASE SelectUsers
  <2>1. at = "users" /\ todo = {} /\ users = Phones
    BY <1>3 DEF SelectUsers, Turn, TypeInv, TypeOK
  <2>2. at' = "profiles" /\ todo' = Phones /\ UNCHANGED <<users, profiles>>
    BY <1>3, <2>1 DEF SelectUsers, Turn, tables
  <2>. QED BY <2>1, <2>2
<1>4. CASE InsertProfiles
  <2>1. PICK S \in Slices(BatchSize) : Inserts(S) /\ profiles' = profiles \cup (S \X {run})
    BY <1>4 DEF InsertProfiles
  <2>2. at = "profiles" /\ at' = "profiles" /\ users' = users /\ todo' = todo \ S
    BY <1>4, <2>1 DEF InsertProfiles, Inserts
  <2>3. S \subseteq Owners'
    <3>1. ASSUME NEW ph \in S
          PROVE  ph \in Owners'
      <4>1. <<ph, run>> \in profiles'
        BY <2>1
      <4>. QED BY <4>1
    <3>. QED BY <3>1
  <2>4. Owners \subseteq Owners'
    BY <2>1
  <2>. QED BY <2>2, <2>3, <2>4
<1>5. CASE SelectProfiles
  BY <1>5 DEF SelectProfiles, Turn, tables
<1>6. CASE GeoAdd
  BY <1>6 DEF GeoAdd, Inserts
<1>7. CASE SelectCustomers
  BY <1>7 DEF SelectCustomers, Turn, tables
<1>8. CASE InsertJobs \/ InsertLedger \/ CommitBatch \/ Report
  BY <1>8 DEF InsertJobs, InsertLedger, CommitBatch, Report, JobsStep
<1>9. CASE Fail
  BY <1>9 DEF Fail
<1>10. CASE GeoRestarts
  BY <1>10 DEF GeoRestarts, script
<1>11. CASE UNCHANGED vars
  BY <1>11 DEF vars, tables, script
<1>. QED BY <1>1, <1>2, <1>3, <1>4, <1>5, <1>6, <1>7, <1>8, <1>9, <1>10, <1>11 DEF Next, Step

\* Every stage accounts for the profiles.
LEMMA PositionsStep == TypeInv /\ Positions /\ [Next]_vars => Positions'
<1>. SUFFICES ASSUME TypeInv, Positions, [Next]_vars
              PROVE  Positions'
  OBVIOUS
<1>. USE DEF Positions, AfterUsers, AfterProfiles, AfterGeo
<1>1. CASE Start
  BY <1>1 DEF Start, tables
<1>2. CASE InsertUsers
  BY <1>2 DEF InsertUsers, Inserts
<1>3. CASE SelectUsers
  BY <1>3 DEF SelectUsers, Turn, tables
<1>4. CASE InsertProfiles
  BY <1>4 DEF InsertProfiles, Inserts
<1>5. CASE SelectProfiles
  BY <1>5 DEF SelectProfiles, Turn, tables
<1>6. CASE GeoAdd
  BY <1>6 DEF GeoAdd, Inserts, Slices
<1>7. CASE SelectCustomers
  BY <1>7 DEF SelectCustomers, Turn, tables
<1>8. CASE InsertJobs \/ InsertLedger \/ CommitBatch \/ Report
  BY <1>8 DEF InsertJobs, InsertLedger, CommitBatch, Report, JobsStep
<1>9. CASE Fail
  BY <1>9 DEF Fail, tables
<1>10. CASE GeoRestarts
  BY <1>10, Zenon DEF GeoRestarts, script
<1>11. CASE UNCHANGED vars
  BY <1>11 DEF vars, tables, script
<1>. QED BY <1>1, <1>2, <1>3, <1>4, <1>5, <1>6, <1>7, <1>8, <1>9, <1>10, <1>11 DEF Next, Step

\* Every batch that is committed is one more of the run's.
LEMMA CountedStep == TypeInv /\ Counted /\ [Next]_vars => Counted'
<1>. SUFFICES ASSUME TypeInv, Counted, [Next]_vars
              PROVE  Counted'
  OBVIOUS
<1>0. run \in Nat /\ batch \in Nat /\ batch >= 1 /\ JobBatches \in Nat
  BY SeedConstants, SMT DEF TypeInv, TypeOK
<1>1. CASE Start
  <2>1. jobs' = jobs /\ run' = run + 1 /\ at' = "users" /\ batch' = 1
    BY <1>1 DEF Start, tables
  <2>2. \A r \in jobs : r.id[1] \in Nat
    BY SMT DEF TypeInv, TypeOK, JobRow, JobId
  <2>3. \A r \in jobs : r.id[1] <= run
    BY DEF Counted
  <2>4. \A r \in jobs : r.id[1] < run + 1 /\ r.id[1] <= run + 1
    BY <1>0, <2>2, <2>3, SMT
  <2>. QED BY <2>1, <2>4 DEF Counted
<1>2. CASE InsertUsers \/ InsertProfiles \/ GeoAdd
  <2>1. UNCHANGED <<at, run, batch, txn, jobs>>
    BY <1>2 DEF InsertUsers, InsertProfiles, GeoAdd, Inserts
  <2>. QED BY <2>1 DEF Counted, RunIds, Batches
<1>3. CASE SelectUsers \/ SelectProfiles
  <2>1. UNCHANGED <<run, batch, txn, jobs>> /\ at \in {"users", "profiles"}
          /\ at' \in {"profiles", "geo"}
    BY <1>3 DEF SelectUsers, SelectProfiles, Turn, tables
  <2>. QED BY <2>1 DEF Counted
<1>4. CASE SelectCustomers
  <2>1. UNCHANGED <<run, batch, txn, jobs>> /\ at = "geo" /\ at' \in {"jobs", "failed"}
    BY <1>4 DEF SelectCustomers, Turn, tables
  <2>2. batch = 1 /\ \A r \in jobs : r.id[1] < run /\ r.id[1] \in Nat
    BY <2>1, SMT DEF Counted, TypeInv, TypeOK, JobRow, JobId
  <2>3. RunIds = {}
    BY <1>0, <2>2, SMT DEF RunIds
  <2>4. Batches(batch - 1) = {}
    BY <2>2, SMT DEF Batches
  <2>. QED BY <2>1, <2>3, <2>4 DEF Counted, RunIds, Batches
<1>5. CASE InsertJobs
  <2>1. PICK drawn \in [1..BatchSize -> Draws] :
          txn' = [NoTxn EXCEPT !.jobs =
                    {[id |-> <<run, batch, i>>, draw |-> drawn[i]] : i \in 1..BatchSize}]
    BY <1>5 DEF InsertJobs
  <2>2. txn'.jobs = {[id |-> <<run, batch, i>>, draw |-> drawn[i]] : i \in 1..BatchSize}
    BY <2>1 DEF NoTxn
  <2>3. {r.id : r \in txn'.jobs} = {<<run, batch, i>> : i \in 1..BatchSize}
    <3>. DEFINE Row(i) == [id |-> <<run, batch, i>>, draw |-> drawn[i]]
    <3>1. \A i \in 1..BatchSize : Row(i).id = <<run, batch, i>>
      OBVIOUS
    <3>2. txn'.jobs = {Row(i) : i \in 1..BatchSize}
      BY <2>2
    <3>. HIDE DEF Row
    <3>. QED BY <3>1, <3>2
  <2>4. {<<run, batch, i>> : i \in 1..BatchSize} = {run} \X {batch} \X (1..BatchSize)
    OBVIOUS
  <2>5. at = "jobs" /\ at' = "ledger" /\ UNCHANGED <<run, batch, jobs>>
    BY <1>5 DEF InsertJobs, JobsStep
  <2>. QED BY <2>3, <2>4, <2>5 DEF Counted, RunIds, Batches
<1>6. CASE InsertLedger
  <2>1. txn'.jobs = txn.jobs
    BY <1>6 DEF InsertLedger, TypeInv, TypeOK
  <2>2. at = "ledger" /\ at' = "commit" /\ UNCHANGED <<run, batch, jobs>>
    BY <1>6 DEF InsertLedger, JobsStep
  <2>. QED BY <2>1, <2>2 DEF Counted, RunIds, Batches
<1>7. CASE CommitBatch
  <2>1. /\ at = "commit" /\ run' = run /\ jobs' = jobs \cup txn.jobs
        /\ at' = IF batch = JobBatches THEN "counts" ELSE "jobs"
        /\ batch' = IF batch = JobBatches THEN batch ELSE batch + 1
    BY <1>7 DEF CommitBatch, JobsStep
  <2>2. /\ RunIds = Batches(batch - 1)
        /\ {r.id : r \in txn.jobs} = {run} \X {batch} \X (1..BatchSize)
    BY <2>1 DEF Counted
  <2>3. \A r \in txn.jobs : r.id[1] = run
    BY <2>2
  <2>4. RunIds' = RunIds \cup {r.id : r \in txn.jobs}
    BY <2>1, <2>3 DEF RunIds
  <2>5. 1..batch = (1..(batch - 1)) \cup {batch}
    BY <1>0, SMT
  <2>6. Batches(batch) = Batches(batch - 1) \cup ({run} \X {batch} \X (1..BatchSize))
    BY <2>5 DEF Batches
  <2>7. RunIds' = Batches(batch)
    BY <2>2, <2>4, <2>6
  <2>8. \A r \in jobs' : r.id[1] <= run
    <3>1. \A r \in jobs : r.id[1] <= run
      BY DEF Counted
    <3>2. \A r \in txn.jobs : r.id[1] <= run
      BY <1>0, <2>3, SMT
    <3>. QED BY <2>1, <3>1, <3>2
  <2>9. CASE batch = JobBatches
    <3>1. RunIds' = {run'} \X (1..JobBatches) \X (1..BatchSize)
      BY <2>1, <2>7, <2>9 DEF Batches
    <3>. QED BY <2>1, <2>8, <2>9, <3>1 DEF Counted, Batches
  <2>10. CASE batch # JobBatches
    <3>1. batch' - 1 = batch
      BY <1>0, <2>1, <2>10, SMT
    <3>2. RunIds' = {run'} \X (1..(batch' - 1)) \X (1..BatchSize)
      BY <2>1, <2>7, <3>1 DEF Batches
    <3>. QED BY <2>1, <2>8, <2>10, <3>2 DEF Counted, Batches
  <2>. QED BY <2>9, <2>10
<1>8. CASE Report
  <2>1. at = "counts" /\ at' = "done" /\ UNCHANGED <<run, batch, jobs>>
    BY <1>8 DEF Report, JobsStep
  <2>. QED BY <2>1 DEF Counted, RunIds, Batches
<1>9. CASE Fail
  <2>1. at' = "failed" /\ UNCHANGED <<run, jobs>>
    BY <1>9 DEF Fail, tables
  <2>. QED BY <2>1 DEF Counted
<1>10. CASE GeoRestarts \/ UNCHANGED vars
  <2>1. UNCHANGED <<at, run, batch, txn, jobs>>
    BY <1>10 DEF GeoRestarts, vars, tables, script
  <2>. QED BY <2>1 DEF Counted, RunIds, Batches
<1>. QED BY <1>1, <1>2, <1>3, <1>4, <1>5, <1>6, <1>7, <1>8, <1>9, <1>10 DEF Next, Step

(***************************************************************************)
(* A run of the script that reports "Seed Complete" has left accounts,     *)
(* profiles, positions and jobs that belong together, for any batch sizes  *)
(* and after any number of failed runs (main).                             *)
(***************************************************************************)
THEOREM CompleteIsUsable == Spec => []CompleteMeansUsable
<1>1. Init => TypeInv /\ UsableInv
  <2>1. Init => UsableInv
    BY DEF Init, UsableInv, Accounts, Positions, Counted, AfterUsers, AfterProfiles, AfterGeo
  <2>. QED BY <2>1, TypeInit
<1>2. TypeInv /\ UsableInv /\ [Next]_vars => (TypeInv /\ UsableInv)'
  BY TypeStep, AccountsStep, PositionsStep, CountedStep DEF UsableInv
<1>3. TypeInv /\ UsableInv => CompleteMeansUsable
  BY UsableIsUsable
<1>. QED BY <1>1, <1>2, <1>3, PTL DEF Spec
=============================================================================

-------------------------- MODULE MarketplaceProofs --------------------------
(***************************************************************************)
(* Proofs about Marketplace: what handleWebhook, acceptJob and createJob   *)
(* each keep alone they keep together, on the same tables and in the same  *)
(* pools, for any requests, jobs, processes, crashes and restarts.         *)
(*                                                                         *)
(* The services are instances, P, A and C, each with its own copy of the   *)
(* operators of Postgres.  The lemmas named ...Effect say what a step that *)
(* writes a table does in terms of Postgres itself.                        *)
(***************************************************************************)
EXTENDS Marketplace, Sequences, FiniteSetTheorems, TLAPS

-----------------------------------------------------------------------------
(* Types *)

Points == {"idle", "connecting", "ipn", "ledger", "job", "commit", "ack", "rollback", "abort",
           "processed", "duplicate", "error", "dead"}
Stages == {"idle", "setnx", "connect", "del", "connectAudit", "update", "audit", "release",
           "accepted", "conflict", "unavailable", "error", "dead"}
Places == {"idle", "connecting", "insert", "commit", "push", "search", "abort",
           "created", "error", "dead"}

\* The types of all the variables, those of the services spelled out.
Typed ==
  /\ db \in Tables /\ disk \in Tables /\ txn \in [Clients -> Tables]
  /\ held \in SUBSET Clients /\ syncCommit \in BOOLEAN
  /\ pc \in [Requests -> Points] /\ dto \in [Requests -> Notifications \cup {NoDto}]
  /\ stage \in [Accepts -> Stages] /\ bid \in [Accepts -> Bids \cup {NoBid}]
  /\ acceptKey \in [JobIds -> Users \cup {NoActor}]
  /\ at \in [Creates -> Places] /\ queue \in Seq(JobIds)

\* What has been sent has its body, and the job that handleWebhook is going to
\* update is there.
Sent ==
  /\ \A r \in Requests : pc[r] # "idle" => dto[r] \in Notifications
  /\ \A a \in Accepts : stage[a] # "idle" => bid[a] \in Bids
  /\ \A r \in Requests : pc[r] = "job" => db.jobs[dto[r].job] # NoRow

TypeInv == Typed /\ Sent

\* The three services agree on what a table is.
LEMMA SameTables == P!Tables = Tables /\ A!Tables = Tables /\ C!Tables = Tables
  BY DEF Tables, IpnRow, LedgerRow, AuditRow, JobRow, JobStates, Notification, Statuses,
         P!Tables, P!IpnRow, P!LedgerRow, P!AuditRow, P!JobRow, P!JobStates, P!Notification,
         P!Statuses,
         A!Tables, A!IpnRow, A!LedgerRow, A!AuditRow, A!JobRow, A!JobStates, A!Notification,
         A!Statuses,
         C!Tables, C!IpnRow, C!LedgerRow, C!AuditRow, C!JobRow, C!JobStates, C!Notification,
         C!Statuses

\* The type invariant of the composition is the types spelled out.
LEMMA TypedMeans == TypeOK <=> Typed
<1>1. Points = {"idle", "connecting"} \cup P!InTxn \cup P!Ended
  BY DEF Points, P!InTxn, P!Ended
<1>2. P!Points = Points
  BY <1>1 DEF P!Points
<1>3. Stages = {"idle"} \cup A!Waiting \cup A!Querying \cup A!Answered
  BY DEF Stages, A!Waiting, A!Querying, A!Answered
<1>4. Places = {"idle", "connecting"} \cup C!Holding \cup C!Finished
  BY DEF Places, C!Holding, C!InTxn, C!OnRedis, C!Finished
<1>5. P!TypeOK <=> /\ db \in Tables /\ disk \in Tables /\ txn \in [Clients -> Tables]
                   /\ held \in SUBSET Clients /\ syncCommit \in BOOLEAN
                   /\ pc \in [Requests -> Points] /\ dto \in [Requests -> Notifications \cup {NoDto}]
  BY <1>2, SameTables DEF P!TypeOK, P!PgTypeOK
<1>6. A!TypeOK <=> /\ db \in Tables /\ disk \in Tables /\ txn \in [Clients -> Tables]
                   /\ held \in SUBSET Clients /\ syncCommit \in BOOLEAN
                   /\ stage \in [Accepts -> Stages] /\ bid \in [Accepts -> Bids \cup {NoBid}]
                   /\ acceptKey \in [JobIds -> Users \cup {NoActor}]
  BY <1>3, SameTables DEF A!TypeOK, A!PgTypeOK
<1>7. C!TypeOK <=> /\ db \in Tables /\ disk \in Tables /\ txn \in [Clients -> Tables]
                   /\ held \in SUBSET Clients /\ syncCommit \in BOOLEAN
                   /\ at \in [Creates -> Places] /\ queue \in Seq(JobIds)
  BY <1>4, SameTables DEF C!TypeOK, C!PgTypeOK
<1>. QED BY <1>5, <1>6, <1>7 DEF TypeOK, Typed

\* An empty write set is a write set, and a merge of write sets too.
LEMMA MergeType ==
  /\ NoWrites \in Tables
  /\ \A s, w \in Tables : Merge(s, w) \in Tables
  BY DEF NoWrites, Merge, Tables

-----------------------------------------------------------------------------
(***************************************************************************)
(* The inductive invariant.                                                *)
(*                                                                         *)
(* The open transactions hold what their requests have written: those of   *)
(* handleWebhook what Payments says (PayWrites), those of createJob the    *)
(* new row and nothing else (CreateWrites).  What Payments needs of its    *)
(* tables alone, it needs here: new keys, keyed and settled tables.        *)
(*                                                                         *)
(* What only the composition needs is that nobody writes a job behind      *)
(* another's back.  The row that a payment is about to commit is the       *)
(* committed one, marked paid, and no two payments are about to commit the *)
(* same job (PaidOver): both are what the row lock of the UPDATE is for.   *)
(* And a job that is about to be created has no row, neither on disk nor   *)
(* in memory (Fresh), so that nobody can have paid for it or taken it.     *)
(***************************************************************************)
PayWrites ==
  \A r \in Requests : P!Wrote(r, txn[r], dto[r], pc[r]) /\ txn[r].audit = {}

PaysFor(r) == pc[r] = "commit" /\ dto[r].status = "SUCCESS"

PaidOver ==
  /\ \A r \in Requests : PaysFor(r) =>
       /\ db.jobs[dto[r].job] # NoRow
       /\ txn[r].jobs[dto[r].job] = [db.jobs[dto[r].job] EXCEPT !.state = "PAID"]
  /\ \A q, r \in Requests :
       PaysFor(q) /\ PaysFor(r) /\ dto[q].job = dto[r].job => q = r

\* The write that puts row on job j.
JobWrite(j, row) == [NoWrites EXCEPT !.jobs[j] = row]

NewRow == [state |-> "CREATED", worker |-> NoWorker]

CreateWrites ==
  \A c \in Creates :
    txn[c] = IF at[c] = "commit" THEN JobWrite(NewJob[c], NewRow) ELSE NoWrites

Unborn == {"idle", "connecting", "insert", "commit"}

Fresh ==
  \A c \in Creates : at[c] \in Unborn =>
    db.jobs[NewJob[c]] = NoRow /\ disk.jobs[NewJob[c]] = NoRow

Core ==
  /\ P!OnlySuccessIsBooked
  /\ PayWrites
  /\ P!NewKeys
  /\ P!Keyed(db) /\ P!Keyed(disk)
  /\ P!Settled(db) /\ P!Settled(disk)
  /\ PaidOver
  /\ CreateWrites
  /\ Fresh

IInv == TypeInv /\ Core

(***************************************************************************)
(* What synchronous commits add.  Who has come through the UPDATE of       *)
(* acceptJob has the job, alone; the audit log is of such requests, each   *)
(* once; and what is past the COMMIT of createJob, or queued, has a row.   *)
(***************************************************************************)
Won    == {"connectAudit", "audit", "accepted"}
Audits == {"connectAudit", "audit"}
Born   == {"push", "search", "created"}

Taken(row) == row # NoRow /\ row.state # "CREATED"

\* The job of bid b has been taken by the actor of b.
TakenBy(s, b) == Taken(s.jobs[b.job]) /\ s.jobs[b.job].worker = b.actor

Winners ==
  /\ \A a \in Accepts : stage[a] \in Won => TakenBy(db, bid[a])
  /\ \A a, b \in Accepts :
       stage[a] \in Won /\ stage[b] \in Won /\ bid[a].job = bid[b].job => a = b

Audited ==
  /\ \A x \in db.audit : TakenBy(db, x)
  /\ \A x, y \in db.audit : x.job = y.job => x = y
  /\ \A x \in db.audit, a \in Accepts : stage[a] \in Audits => bid[a].job # x.job

Stored ==
  /\ \A c \in Creates : at[c] \in Born => db.jobs[NewJob[c]] # NoRow
  /\ \A j \in C!ToSet(queue) : db.jobs[j] # NoRow

SyncInv == syncCommit => disk = db /\ Winners /\ Audited /\ Stored
-----------------------------------------------------------------------------
(* Every step keeps the types *)

\* The row that an insert writes, and the one that an accept writes, are rows.
LEMMA RowType ==
  /\ NewRow \in JobRow /\ NewRow # NoRow
  /\ \A w \in Workers : LET row == [state |-> "ACCEPTED", worker |-> w]
                        IN  row \in JobRow /\ row # NoRow
<1>1. NewRow \in JobRow
  BY DEF NewRow, JobRow, JobStates
<1>2. \A w \in Workers : [state |-> "ACCEPTED", worker |-> w] \in JobRow
  BY DEF JobRow, JobStates
<1>. QED BY <1>1, <1>2, SeedAssumption

\* A row marked paid is a row, of the same worker.
LEMMA PaidRowType ==
  ASSUME NEW row \in JobRow
  PROVE  LET new == [row EXCEPT !.state = "PAID"]
         IN  new \in JobRow /\ new # NoRow /\ new.state = "PAID" /\ new.worker = row.worker
<1>1. [row EXCEPT !.state = "PAID"] \in JobRow
  BY DEF JobRow, JobStates
<1>. QED BY <1>1, SeedAssumption DEF JobRow

\* A write of a row to one job is a write set.
LEMMA JobWriteType ==
  ASSUME NEW j \in JobIds, NEW row \in JobRow
  PROVE  /\ JobWrite(j, row) \in Tables
         /\ JobWrite(j, row).ipn = {} /\ JobWrite(j, row).ledger = {} /\ JobWrite(j, row).audit = {}
         /\ JobWrite(j, row).jobs[j] = row
         /\ \A i \in JobIds \ {j} : JobWrite(j, row).jobs[i] = NoRow
  BY DEF JobWrite, NoWrites, Tables

\* The two entries of a notification are ledger rows.
LEMMA EntriesType ==
  ASSUME NEW c \in Clients, NEW n \in Notification
  PROVE  P!Entries(c, n) \in SUBSET LedgerRow
  BY DEF P!Entries, LedgerRow, Notification

\* The initial state: nothing has been sent.
LEMMA InitType == Init => TypeInv
<1>. SUFFICES ASSUME Init
              PROVE  TypeInv
  OBVIOUS
<1>1. db \in Tables /\ disk \in Tables
  BY SeedAssumption DEF Init, PgInit, NoWrites, Tables
<1>2. txn \in [Clients -> Tables] /\ held = {} /\ syncCommit \in BOOLEAN
  BY MergeType DEF Init, PgInit
<1>3. /\ pc = [r \in Requests |-> "idle"] /\ dto = [r \in Requests |-> NoDto]
      /\ stage = [a \in Accepts |-> "idle"] /\ bid = [a \in Accepts |-> NoBid]
      /\ acceptKey = [j \in JobIds |-> NoActor]
      /\ at = [c \in Creates |-> "idle"] /\ queue = <<>>
  BY DEF Init, P!LocalInit, A!LocalInit, C!LocalInit
<1>4. Typed
  BY <1>1, <1>2, <1>3 DEF Typed, Points, Stages, Places
<1>. QED BY <1>3, <1>4 DEF TypeInv, Sent

\* A step of handleWebhook keeps the types: one step per action.
LEMMA PayType == TypeInv /\ Pay /\ SettingKept => TypeInv'
<1>. SUFFICES ASSUME TypeInv, NEW r \in Requests,
                     P!Receive(r) \/ P!Handle(r) \/ P!QueryFails(r),
                     UNCHANGED <<stage, bid, acceptKey, at, queue, syncCommit>>
              PROVE  TypeInv'
  BY DEF Pay, P!Local, acceptVars, createVars, SettingKept
<1>0. /\ Typed /\ Sent /\ r \in Clients
      /\ \A q \in Requests : pc[q] # "idle" =>
           dto[q] \in Notifications /\ dto[q] \in Notification /\ dto[q].job \in JobIds
  BY MarketplaceAssumption DEF TypeInv, Sent, Notification
<1>a. ASSUME pc' \in [Requests -> Points], dto' \in [Requests -> Notifications \cup {NoDto}],
             db' \in Tables, disk' \in Tables, txn' \in [Clients -> Tables], held' \in SUBSET Clients,
             \A q \in Requests : pc'[q] # "idle" => dto'[q] \in Notifications,
             \A q \in Requests : pc'[q] = "job" => db'.jobs[dto'[q].job] # NoRow
      PROVE  TypeInv'
  BY <1>0, <1>a DEF Typed, Sent, TypeInv
<1>b. ASSUME NEW to \in Points, pc[r] # "idle", pc' = [pc EXCEPT ![r] = to],
             to = "job" => db.jobs[dto[r].job] # NoRow,
             UNCHANGED <<dto, db, disk>>,
             txn' \in [Clients -> Tables], held' \in SUBSET Clients
      PROVE  TypeInv'
  BY <1>0, <1>a, <1>b DEF Typed, Sent
<1>1. ASSUME P!Receive(r) PROVE TypeInv'
  <2>1. PICK n \in Notifications : dto' = [dto EXCEPT ![r] = n]
    BY <1>1 DEF P!Receive
  <2>2. pc' = [pc EXCEPT ![r] = "connecting"] /\ UNCHANGED <<db, disk, txn, held>>
    BY <1>1 DEF P!Receive, P!Goto, P!pgVars
  <2>3. pc' \in [Requests -> Points] /\ dto' \in [Requests -> Notifications \cup {NoDto}]
    BY <1>0, <2>1, <2>2 DEF Typed, Points
  <2>4. \A q \in Requests \ {r} : pc'[q] = pc[q] /\ dto'[q] = dto[q]
    BY <1>0, <2>1, <2>2 DEF Typed
  <2>5. pc'[r] = "connecting" /\ dto'[r] = n
    BY <1>0, <2>1, <2>2 DEF Typed
  <2>. QED BY <1>0, <1>a, <2>2, <2>3, <2>4, <2>5 DEF Typed, Sent
<1>2. ASSUME P!Connect(r) \/ P!ConnectFails(r) \/ P!AnswerProcessed(r) \/ P!Abort(r)
      PROVE  TypeInv'
  <2>1. /\ pc[r] # "idle" /\ UNCHANGED <<dto, db, disk, txn>>
        /\ \E to \in {"ipn", "error", "processed"} : pc' = [pc EXCEPT ![r] = to]
    BY <1>2 DEF P!Connect, P!ConnectFails, P!AnswerProcessed, P!Abort, P!Goto, P!pgVars
  <2>2. held' \in SUBSET Clients
    BY <1>0, <1>2 DEF Typed, P!Connect, P!ConnectFails, P!AnswerProcessed, P!Abort, P!CheckOut,
                      P!Release, P!pgVars
  <2>. QED BY <1>0, <1>b, <2>1, <2>2 DEF Typed, Points
<1>3. ASSUME P!AnswerDuplicate(r) \/ P!QueryFails(r) PROVE TypeInv'
  <2>1. /\ pc[r] # "idle" /\ UNCHANGED <<dto, db, disk>>
        /\ txn' = [txn EXCEPT ![r] = NoWrites]
        /\ \E to \in {"duplicate", "abort"} : pc' = [pc EXCEPT ![r] = to]
    BY <1>3 DEF P!AnswerDuplicate, P!QueryFails, P!AbortTxn, P!Write, P!NoWrites, NoWrites, P!Goto,
                P!InTxn
  <2>2. held' \in SUBSET Clients /\ txn' \in [Clients -> Tables]
    BY <1>0, <1>3, <2>1, MergeType DEF Typed, P!AnswerDuplicate, P!QueryFails, P!Release
  <2>. QED BY <1>b, <2>1, <2>2 DEF Points
<1>4. ASSUME P!InsertIpn(r) PROVE TypeInv'
  <2>1. /\ pc[r] # "idle" /\ UNCHANGED <<dto, db, disk, held>>
        /\ \E to \in {"rollback", "ledger", "commit"} : pc' = [pc EXCEPT ![r] = to]
        /\ \/ txn' = txn
           \/ txn' = [txn EXCEPT ![r] = [txn[r] EXCEPT !.ipn = {[id |-> r, note |-> dto[r]]}]]
    BY <1>4 DEF P!InsertIpn, P!Goto, P!Write
  <2>2. {[id |-> r, note |-> dto[r]]} \in SUBSET IpnRow
    BY <1>0, <2>1 DEF IpnRow
  <2>3. [txn[r] EXCEPT !.ipn = {[id |-> r, note |-> dto[r]]}] \in Tables
    BY <1>0, <2>2 DEF Typed, Tables
  <2>4. txn' \in [Clients -> Tables]
    BY <1>0, <2>1, <2>3 DEF Typed
  <2>. QED BY <1>0, <1>b, <2>1, <2>4 DEF Typed, Points
<1>5. ASSUME P!InsertLedger(r) PROVE TypeInv'
  <2>1. /\ pc[r] # "idle" /\ UNCHANGED <<dto, db, disk, held>>
        /\ \/ /\ db.jobs[dto[r].job] # NoRow
              /\ pc' = [pc EXCEPT ![r] = "job"]
              /\ txn' = [txn EXCEPT ![r] = [txn[r] EXCEPT !.ledger = P!Entries(r, dto[r])]]
           \/ /\ pc' = [pc EXCEPT ![r] = "abort"]
              /\ txn' = [txn EXCEPT ![r] = NoWrites]
    BY <1>5 DEF P!InsertLedger, P!Goto, P!Write, P!AbortTxn, P!NoWrites, NoWrites
  <2>2. P!Entries(r, dto[r]) \in SUBSET LedgerRow
    BY <1>0, <2>1, EntriesType
  <2>3. [txn[r] EXCEPT !.ledger = P!Entries(r, dto[r])] \in Tables
    BY <1>0, <2>2 DEF Typed, Tables
  <2>4. txn' \in [Clients -> Tables]
    BY <1>0, <2>1, <2>3, MergeType DEF Typed
  <2>. QED BY <1>0, <1>b, <2>1, <2>4 DEF Typed, Points
<1>6. ASSUME P!UpdateJob(r) PROVE TypeInv'
  <2>. DEFINE row == [db.jobs[dto[r].job] EXCEPT !.state = "PAID"]
  <2>1. /\ pc[r] = "job" /\ UNCHANGED <<dto, db, disk, held>>
        /\ pc' = [pc EXCEPT ![r] = "commit"]
        /\ txn' = [txn EXCEPT ![r] = [txn[r] EXCEPT !.jobs[dto[r].job] = row]]
    BY <1>6 DEF P!UpdateJob, P!Goto, P!Write
  <2>2. row \in JobRow
    <3>1. db.jobs[dto[r].job] \in JobRow
      BY <1>0, <2>1 DEF Typed, Sent, Tables
    <3>. QED BY <3>1, PaidRowType
  <2>3. [txn[r] EXCEPT !.jobs[dto[r].job] = row] \in Tables
    <3>. HIDE DEF row
    <3>. QED BY <1>0, <2>1, <2>2 DEF Typed, Tables
  <2>4. txn' \in [Clients -> Tables]
    BY <1>0, <2>1, <2>3 DEF Typed
  <2>. QED BY <1>b, <2>1, <2>4, <1>0 DEF Typed, Points
<1>7. ASSUME P!Commit(r) PROVE TypeInv'
  <2>1. /\ pc[r] = "commit" /\ UNCHANGED <<dto, held>>
        /\ pc' = [pc EXCEPT ![r] = "ack"]
        /\ db' = Merge(db, txn[r]) /\ (disk' = db' \/ disk' = disk)
        /\ txn' = [txn EXCEPT ![r] = NoWrites]
    BY <1>7 DEF P!Commit, P!CommitTxn, P!Apply, P!Merge, P!Write, P!NoWrites, P!Goto, Merge, NoWrites
  <2>2. txn[r] \in Tables /\ txn' \in [Clients -> Tables]
    BY <1>0, <2>1, MergeType DEF Typed
  <2>3. db' \in Tables /\ disk' \in Tables
    BY <1>0, <2>1, <2>2, MergeType DEF Typed
  <2>4. pc' \in [Requests -> Points]
    BY <1>0, <2>1 DEF Typed, Points
  <2>5. \A q \in Requests : pc'[q] = "job" => db'.jobs[dto[q].job] # NoRow
    <3>. SUFFICES ASSUME NEW q \in Requests, pc'[q] = "job"
                  PROVE  db'.jobs[dto[q].job] # NoRow
      OBVIOUS
    <3>1. pc[q] = "job"
      BY <1>0, <2>1 DEF Typed
    <3>. QED BY <1>0, <2>1, <3>1 DEF Sent, Merge
  <2>6. \A q \in Requests : pc'[q] # "idle" => dto[q] \in Notifications
    BY <1>0, <2>1 DEF Typed
  <2>. QED BY <1>0, <1>a, <2>1, <2>2, <2>3, <2>4, <2>5, <2>6 DEF Typed
<1>. QED BY <1>1, <1>2, <1>3, <1>4, <1>5, <1>6, <1>7 DEF P!Handle

\* What the UPDATE of acceptJob commits: the job is available, locked by nobody, and
\* becomes the actor's.
LEMMA TakeEffect ==
  ASSUME NEW a \in Accepts, A!TakeJob(a)
  PROVE  LET j == bid[a].job
             w == JobWrite(j, [state |-> "ACCEPTED", worker |-> bid[a].actor])
         IN  /\ stage[a] = "update" /\ stage' = [stage EXCEPT ![a] = "connectAudit"]
             /\ UNCHANGED <<bid, acceptKey, txn>> /\ held' = held \ {a}
             /\ db.jobs[j] # NoRow /\ db.jobs[j].state = "CREATED"
             /\ \A d \in Clients \ {a} : txn[d].jobs[j] = NoRow
             /\ bid[a].actor \in Workers
             /\ db' = Merge(db, w)
             /\ disk' = IF syncCommit THEN Merge(db, w) ELSE disk
  BY DEF A!TakeJob, A!Step, A!Available, A!RowLocked, A!Apply, A!Merge, A!NoWrites, A!Release,
         JobWrite, Merge, NoWrites

\* What the INSERT into the audit log commits.
LEMMA AuditEffect ==
  ASSUME NEW a \in Accepts, NEW end, A!Audit(a, end)
  PROVE  LET w == [NoWrites EXCEPT !.audit =
                     {[id |-> a, actor |-> bid[a].actor, job |-> bid[a].job]}]
         IN  /\ stage[a] = "audit" /\ stage' = [stage EXCEPT ![a] = end]
             /\ UNCHANGED <<bid, acceptKey, txn>> /\ held' = held \ {a}
             /\ db' = Merge(db, w)
             /\ disk' = IF syncCommit THEN Merge(db, w) ELSE disk
  BY DEF A!Audit, A!Step, A!Apply, A!Merge, A!NoWrites, A!Release, Merge, NoWrites

\* The steps of one accept that commit something.
AcceptCommits(a) == A!TakeJob(a) \/ \E end \in {"accepted", "error"} : A!Audit(a, end)

\* The other steps of acceptJob write no table, and bring no accept past its UPDATE.
LEMMA AcceptQuiet ==
  ASSUME A!Local
  PROVE  \/ \E a \in Accepts : AcceptCommits(a)
         \/ UNCHANGED <<db, disk, txn>>
  BY DEF A!Local, A!Handle, A!EndUnanswered, AcceptCommits, A!Arrive, A!SetNx, A!SetNxUnanswered,
         A!Connect, A!FindNothing, A!NotAWorker, A!Del, A!ConnectAudit, A!CallFails, A!QueryFails,
         A!GiveBack, A!KeyLost, A!pgVars

\* A step of acceptJob keeps the types: one step per action.
LEMMA AcceptType == TypeInv /\ Accept /\ SettingKept => TypeInv'
<1>. SUFFICES ASSUME TypeInv, A!Local, UNCHANGED <<pc, dto, at, queue, syncCommit>>
              PROVE  TypeInv'
  BY DEF Accept, payVars, createVars, SettingKept
<1>0. /\ Typed /\ Sent /\ Accepts \subseteq Clients
      /\ \A a \in Accepts : stage[a] # "idle" =>
           bid[a] \in Bids /\ bid[a].actor \in Users /\ bid[a].job \in JobIds
  BY MarketplaceAssumption DEF TypeInv, Sent
<1>a. ASSUME stage' \in [Accepts -> Stages], bid' \in [Accepts -> Bids \cup {NoBid}],
             \A a \in Accepts : stage'[a] # "idle" => bid'[a] \in Bids,
             acceptKey' \in [JobIds -> Users \cup {NoActor}],
             db' \in Tables, disk' \in Tables, txn' = txn, held' \in SUBSET Clients,
             \A j \in JobIds : db.jobs[j] # NoRow => db'.jobs[j] # NoRow
      PROVE  TypeInv'
  <2>1. \A r \in Requests : pc[r] = "job" => dto[r].job \in JobIds
    BY <1>0, MarketplaceAssumption DEF Sent, Notification
  <2>. QED BY <1>0, <1>a, <2>1 DEF Typed, Sent, TypeInv
<1>b. ASSUME NEW a \in Accepts, NEW to \in Stages, stage[a] # "idle",
             stage' = [stage EXCEPT ![a] = to], bid' = bid,
             acceptKey' \in [JobIds -> Users \cup {NoActor}],
             db' \in Tables, disk' \in Tables, txn' = txn, held' \in SUBSET Clients,
             \A j \in JobIds : db.jobs[j] # NoRow => db'.jobs[j] # NoRow
      PROVE  TypeInv'
  <2>1. stage' \in [Accepts -> Stages] /\ bid' \in [Accepts -> Bids \cup {NoBid}]
    BY <1>0, <1>b DEF Typed
  <2>2. \A b \in Accepts : stage'[b] # "idle" => bid'[b] \in Bids
    BY <1>0, <1>b DEF Typed, Sent
  <2>. QED BY <1>a, <1>b, <2>1, <2>2
<1>c. ASSUME NEW a \in Accepts, NEW from, NEW to \in Stages, from # "idle", A!Step(a, from, to),
             UNCHANGED <<db, disk, txn>>, held' \in SUBSET Clients,
             acceptKey' \in [JobIds -> Users \cup {NoActor}]
      PROVE  TypeInv'
  BY <1>0, <1>b, <1>c DEF A!Step, Typed
<1>1. ASSUME NEW a \in Accepts, A!Arrive(a) PROVE TypeInv'
  <2>1. PICK b \in Bids : bid' = [bid EXCEPT ![a] = b]
    BY <1>1 DEF A!Arrive
  <2>2. stage' = [stage EXCEPT ![a] = "setnx"] /\ UNCHANGED <<acceptKey, db, disk, txn, held>>
    BY <1>1 DEF A!Arrive, A!pgVars
  <2>3. stage' \in [Accepts -> Stages] /\ bid' \in [Accepts -> Bids \cup {NoBid}]
    BY <1>0, <2>1, <2>2 DEF Typed, Stages
  <2>4. \A d \in Accepts : stage'[d] # "idle" => bid'[d] \in Bids
    BY <1>0, <2>1, <2>2 DEF Typed, Sent
  <2>. QED BY <1>0, <1>a, <2>2, <2>3, <2>4 DEF Typed
<1>2. ASSUME NEW a \in Accepts, A!SetNx(a) PROVE TypeInv'
  <2>1. stage[a] = "setnx" /\ UNCHANGED <<db, disk, txn, held>>
    BY <1>2 DEF A!SetNx, A!pgVars
  <2>2. acceptKey' \in [JobIds -> Users \cup {NoActor}]
    BY <1>0, <1>2, <2>1 DEF A!SetNx, Typed
  <2>3. A!Step(a, "setnx", "connect") \/ A!Step(a, "setnx", "conflict")
    BY <1>2 DEF A!SetNx
  <2>. QED BY <1>0, <1>c, <2>1, <2>2, <2>3 DEF Typed, Stages
<1>3. ASSUME NEW a \in Accepts, A!SetNxUnanswered(a) PROVE TypeInv'
  <2>1. /\ stage[a] = "setnx" /\ UNCHANGED <<stage, bid, db, disk, txn, held>>
        /\ acceptKey' = [acceptKey EXCEPT ![bid[a].job] = bid[a].actor]
    BY <1>3 DEF A!SetNxUnanswered, A!pgVars
  <2>2. acceptKey' \in [JobIds -> Users \cup {NoActor}]
    BY <1>0, <2>1 DEF Typed
  <2>. QED BY <1>0, <1>a, <2>1, <2>2 DEF Typed, Sent
<1>4. ASSUME NEW a \in Accepts, A!Connect(a) \/ A!ConnectAudit(a) PROVE TypeInv'
  <2>1. held' \in SUBSET Clients /\ UNCHANGED <<acceptKey, db, disk, txn>>
    BY <1>0, <1>4 DEF A!Connect, A!ConnectAudit, A!CheckOut, Typed
  <2>2. A!Step(a, "connect", "update") \/ A!Step(a, "connectAudit", "audit")
    BY <1>4 DEF A!Connect, A!ConnectAudit
  <2>. QED BY <1>0, <1>c, <2>1, <2>2 DEF Typed, Stages
<1>5. ASSUME NEW a \in Accepts, A!TakeJob(a) PROVE TypeInv'
  <2>. DEFINE w == JobWrite(bid[a].job, [state |-> "ACCEPTED", worker |-> bid[a].actor])
  <2>1. /\ stage[a] = "update" /\ stage' = [stage EXCEPT ![a] = "connectAudit"]
        /\ UNCHANGED <<bid, acceptKey, txn>> /\ held' = held \ {a}
        /\ bid[a].actor \in Workers
        /\ db' = Merge(db, w) /\ (disk' = db' \/ disk' = disk)
    BY <1>5, TakeEffect
  <2>2. w \in Tables
    BY <1>0, <2>1, RowType, JobWriteType
  <2>. HIDE DEF w
  <2>3. db' \in Tables /\ disk' \in Tables
    BY <1>0, <2>1, <2>2, MergeType DEF Typed
  <2>4. \A j \in JobIds : db.jobs[j] # NoRow => db'.jobs[j] # NoRow
    BY <2>1 DEF Merge
  <2>. QED BY <1>0, <1>b, <2>1, <2>3, <2>4 DEF Typed, Stages
<1>6. ASSUME NEW a \in Accepts, NEW end \in {"accepted", "error"}, A!Audit(a, end) PROVE TypeInv'
  <2>. DEFINE row == [id |-> a, actor |-> bid[a].actor, job |-> bid[a].job]
              w == [NoWrites EXCEPT !.audit = {row}]
  <2>1. /\ stage[a] = "audit" /\ stage' = [stage EXCEPT ![a] = end]
        /\ UNCHANGED <<bid, acceptKey, txn>> /\ held' = held \ {a}
        /\ db' = Merge(db, w) /\ (disk' = db' \/ disk' = disk)
    BY <1>6, AuditEffect
  <2>2. {row} \in SUBSET AuditRow
    BY <1>0, <2>1 DEF AuditRow
  <2>3. w \in Tables
    BY <2>2 DEF NoWrites, Tables
  <2>. HIDE DEF w
  <2>4. db' \in Tables /\ disk' \in Tables
    BY <1>0, <2>1, <2>3, MergeType DEF Typed
  <2>5. \A j \in JobIds : db.jobs[j] # NoRow => db'.jobs[j] # NoRow
    BY <2>1 DEF Merge
  <2>. QED BY <1>0, <1>b, <2>1, <2>4, <2>5 DEF Typed, Stages
<1>7. ASSUME NEW a \in Accepts, A!FindNothing(a) \/ A!NotAWorker(a) \/ A!GiveBack(a) PROVE TypeInv'
  <2>1. held' \in SUBSET Clients /\ UNCHANGED <<acceptKey, db, disk, txn>>
    BY <1>0, <1>7 DEF A!FindNothing, A!NotAWorker, A!GiveBack, A!Release, A!pgVars, Typed
  <2>2. A!Step(a, "update", "del") \/ A!Step(a, "update", "release") \/ A!Step(a, "release", "error")
    BY <1>7 DEF A!FindNothing, A!NotAWorker, A!GiveBack
  <2>. QED BY <1>0, <1>c, <2>1, <2>2 DEF Typed, Stages
<1>8. ASSUME NEW a \in Accepts, NEW end \in {"unavailable", "error"}, A!Del(a, end) PROVE TypeInv'
  <2>1. A!Step(a, "del", end) /\ UNCHANGED <<db, disk, txn, held>>
    BY <1>8 DEF A!Del, A!pgVars
  <2>2. acceptKey' \in [JobIds -> Users \cup {NoActor}]
    BY <1>0, <1>8 DEF A!Del, Typed
  <2>. QED BY <1>0, <1>c, <2>1, <2>2 DEF Typed, Stages
<1>9. ASSUME NEW a \in Accepts, A!CallFails(a) \/ A!QueryFails(a) PROVE TypeInv'
  <2>1. UNCHANGED <<acceptKey, db, disk, txn, held>>
    BY <1>9 DEF A!CallFails, A!QueryFails, A!pgVars
  <2>2. \E s \in A!Waiting \cup {"update", "audit"}, to \in {"error", "release"} : A!Step(a, s, to)
    BY <1>9 DEF A!CallFails, A!QueryFails
  <2>. QED BY <1>0, <1>c, <2>1, <2>2 DEF Typed, Stages, A!Waiting
<1>10. ASSUME NEW j \in JobIds, A!KeyLost(j) PROVE TypeInv'
  <2>1. UNCHANGED <<stage, bid, db, disk, txn, held>>
          /\ acceptKey' \in [JobIds -> Users \cup {NoActor}]
    BY <1>0, <1>10 DEF A!KeyLost, A!pgVars, Typed
  <2>. QED BY <1>0, <1>a, <2>1 DEF Typed, Sent
<1>. QED BY <1>1, <1>2, <1>3, <1>4, <1>5, <1>6, <1>7, <1>8, <1>9, <1>10
         DEF A!Local, A!Handle, A!EndUnanswered

\* A job at the head of the queue leaves a queue.
LEMMA PushType ==
  ASSUME NEW j \in JobIds, NEW q \in Seq(JobIds)
  PROVE  <<j>> \o q \in Seq(JobIds) /\ C!ToSet(<<j>> \o q) \subseteq {j} \cup C!ToSet(q)
<1>1. <<j>> \in Seq(JobIds) /\ Len(<<j>>) = 1 /\ <<j>>[1] = j
  OBVIOUS
<1>2. <<j>> \o q \in Seq(JobIds)
  BY <1>1
<1>3. ASSUME NEW i \in DOMAIN (<<j>> \o q)
      PROVE  (<<j>> \o q)[i] \in {j} \cup C!ToSet(q)
  <2>1. i \in 1..(Len(q) + 1)
    BY <1>1, <1>3
  <2>2. CASE i = 1
    BY <1>1, <2>2
  <2>3. CASE i # 1
    <3>1. i - 1 \in DOMAIN q /\ (<<j>> \o q)[i] = q[i - 1]
      BY <1>1, <2>1, <2>3
    <3>. QED BY <3>1 DEF C!ToSet
  <2>. QED BY <2>2, <2>3
<1>. QED BY <1>2, <1>3 DEF C!ToSet

\* What the INSERT of createJob writes.
LEMMA InsertEffect ==
  ASSUME NEW c \in Creates, C!Insert(c)
  PROVE  /\ at[c] = "insert" /\ at' = [at EXCEPT ![c] = "commit"]
         /\ txn' = [txn EXCEPT ![c] = JobWrite(NewJob[c], NewRow)]
         /\ UNCHANGED <<queue, db, disk, held>>
  BY DEF C!Insert, C!Step, C!Write, C!NoWrites, JobWrite, NewRow, NoWrites

\* What the COMMIT of createJob commits.
LEMMA CreateEffect ==
  ASSUME NEW c \in Creates, C!Commit(c)
  PROVE  /\ at[c] = "commit" /\ at' = [at EXCEPT ![c] = "push"]
         /\ db' = Merge(db, txn[c]) /\ disk' = IF syncCommit THEN Merge(db, txn[c]) ELSE disk
         /\ txn' = [txn EXCEPT ![c] = NoWrites]
         /\ UNCHANGED <<queue, held>>
  BY DEF C!Commit, C!Step, C!CommitTxn, C!Apply, C!Merge, C!Write, C!NoWrites, Merge, NoWrites

\* A step of createJob keeps the types: one step per action.
LEMMA CreateType == TypeInv /\ Create /\ SettingKept => TypeInv'
<1>. SUFFICES ASSUME TypeInv, C!Local, UNCHANGED <<pc, dto, stage, bid, acceptKey, syncCommit>>
              PROVE  TypeInv'
  BY DEF Create, payVars, acceptVars, SettingKept
<1>0. Typed /\ Sent /\ Creates \subseteq Clients /\ NewJob \in [Creates -> JobIds]
  BY CreateAssumption DEF TypeInv
<1>a. ASSUME at' \in [Creates -> Places], queue' \in Seq(JobIds),
             db' \in Tables, disk' \in Tables, txn' \in [Clients -> Tables], held' \in SUBSET Clients,
             \A j \in JobIds : db.jobs[j] # NoRow => db'.jobs[j] # NoRow
      PROVE  TypeInv'
  <2>1. \A r \in Requests : pc[r] = "job" => dto[r].job \in JobIds
    BY <1>0, MarketplaceAssumption DEF Sent, Notification
  <2>. QED BY <1>0, <1>a, <2>1 DEF Typed, Sent, TypeInv
<1>b. ASSUME NEW c \in Creates, NEW to \in Places, at' = [at EXCEPT ![c] = to],
             UNCHANGED <<db, disk>>, queue' \in Seq(JobIds),
             txn' \in [Clients -> Tables], held' \in SUBSET Clients
      PROVE  TypeInv'
  BY <1>0, <1>a, <1>b DEF Typed
<1>1. ASSUME NEW c \in Creates, C!Ask(c) \/ C!Connect(c) \/ C!ConnectFails(c) PROVE TypeInv'
  <2>1. \E to \in {"connecting", "insert", "error"} : at' = [at EXCEPT ![c] = to]
    BY <1>1 DEF C!Ask, C!Connect, C!ConnectFails, C!Step
  <2>2. UNCHANGED <<queue, db, disk, txn>> /\ held' \in SUBSET Clients
    BY <1>0, <1>1 DEF C!Ask, C!Connect, C!ConnectFails, C!CheckOut, C!pgVars, Typed
  <2>. QED BY <1>0, <1>b, <2>1, <2>2 DEF Typed, Places
<1>2. ASSUME NEW c \in Creates, C!Insert(c) PROVE TypeInv'
  <2>1. JobWrite(NewJob[c], NewRow) \in Tables
    BY <1>0, RowType, JobWriteType
  <2>2. txn' \in [Clients -> Tables]
    BY <1>0, <1>2, <2>1, InsertEffect DEF Typed
  <2>. QED BY <1>0, <1>2, <1>b, <2>2, InsertEffect DEF Typed, Places
<1>3. ASSUME NEW c \in Creates, C!Commit(c) PROVE TypeInv'
  <2>1. /\ at' = [at EXCEPT ![c] = "push"] /\ UNCHANGED <<queue, held>>
        /\ db' = Merge(db, txn[c]) /\ (disk' = db' \/ disk' = disk)
        /\ txn' = [txn EXCEPT ![c] = NoWrites]
    BY <1>3, CreateEffect
  <2>2. db' \in Tables /\ disk' \in Tables /\ txn' \in [Clients -> Tables]
    BY <1>0, <2>1, MergeType DEF Typed
  <2>3. \A j \in JobIds : db.jobs[j] # NoRow => db'.jobs[j] # NoRow
    BY <2>1 DEF Merge
  <2>4. at' \in [Creates -> Places]
    BY <1>0, <2>1 DEF Typed, Places
  <2>. QED BY <1>0, <1>a, <2>1, <2>2, <2>3, <2>4 DEF Typed
<1>4. ASSUME NEW c \in Creates, C!Push(c) \/ C!PushUnanswered(c) PROVE TypeInv'
  <2>1. /\ UNCHANGED <<db, disk, txn, held>> /\ queue' = <<NewJob[c]>> \o queue
        /\ at' = at \/ at' = [at EXCEPT ![c] = "search"]
    BY <1>4 DEF C!Push, C!PushUnanswered, C!Step, C!pgVars
  <2>2. NewJob[c] \in JobIds /\ queue \in Seq(JobIds)
    BY <1>0 DEF Typed
  <2>3. queue' \in Seq(JobIds)
    BY <2>1, <2>2, PushType
  <2>4. at' \in [Creates -> Places]
    BY <1>0, <2>1 DEF Typed, Places
  <2>. QED BY <1>0, <1>a, <2>1, <2>3, <2>4 DEF Typed
<1>5. ASSUME NEW c \in Creates,
             C!PushRejected(c) \/ C!Search(c) \/ C!Abort(c) \/ C!CallFails(c)
      PROVE  TypeInv'
  <2>1. \E to \in {"abort", "created", "error"} : at' = [at EXCEPT ![c] = to]
    BY <1>5 DEF C!PushRejected, C!Search, C!Abort, C!CallFails, C!Step
  <2>2. UNCHANGED <<queue, db, disk>> /\ held' \in SUBSET Clients
    BY <1>0, <1>5 DEF C!PushRejected, C!Search, C!Abort, C!CallFails, C!Release, C!pgVars, Typed
  <2>3. txn' = txn \/ txn' = [txn EXCEPT ![c] = NoWrites]
    BY <1>5 DEF C!PushRejected, C!Search, C!Abort, C!CallFails, C!AbortTxn, C!Write, C!NoWrites,
                NoWrites, C!pgVars
  <2>4. txn' \in [Clients -> Tables]
    BY <1>0, <2>3, MergeType DEF Typed
  <2>. QED BY <1>0, <1>b, <2>1, <2>2, <2>4 DEF Typed, Places
<1>6. CASE C!QueueLost
  <2>1. UNCHANGED <<at, db, disk, txn, held>> /\ queue' = <<>>
    BY <1>6 DEF C!QueueLost, C!pgVars
  <2>. QED BY <1>0, <1>a, <2>1 DEF Typed
<1>. QED BY <1>1, <1>2, <1>3, <1>4, <1>5, <1>6 DEF C!Local, C!Handle

\* What the death of process p does to the three services.
LEMMA CrashEffect ==
  ASSUME NEW p \in Procs, Crash(p)
  PROVE  /\ UNCHANGED <<dto, bid, acceptKey, queue, db, disk>>
         /\ pc' = [r \in Requests |->
              IF Home[r] = p /\ pc[r] \in {"connecting"} \cup P!InTxn THEN "dead" ELSE pc[r]]
         /\ stage' = [a \in Accepts |->
              IF Home[a] = p /\ stage[a] \in A!Waiting \cup A!Querying THEN "dead" ELSE stage[a]]
         /\ at' = [c \in Creates |->
              IF Home[c] = p /\ at[c] \in {"connecting"} \cup C!Holding THEN "dead" ELSE at[c]]
         /\ txn' = [c \in Clients |-> IF Home[c] = p THEN NoWrites ELSE txn[c]]
         /\ held' = {c \in held : Home[c] # p}
  BY DEF Crash, P!Die, A!Die, C!Die, ConnectionsLost

\* What a restart of the server does to them.
LEMMA PgCrashEffect ==
  ASSUME PgCrash
  PROVE  /\ UNCHANGED <<dto, bid, acceptKey, queue, disk, held>>
         /\ pc' = [r \in Requests |-> IF pc[r] \in P!InTxn THEN "abort" ELSE pc[r]]
         /\ stage' = [a \in Accepts |-> IF stage[a] \in A!Querying THEN "release" ELSE stage[a]]
         /\ at' = [c \in Creates |-> IF at[c] \in C!InTxn THEN "abort" ELSE at[c]]
         /\ txn' = [c \in Clients |-> NoWrites]
         /\ db' = disk
  BY DEF PgCrash, P!LoseServer, A!LoseServer, C!LoseServer, PgRestart

\* Every step keeps the types.
LEMMA TypeStep == TypeInv /\ [Next]_vars => TypeInv'
<1>. SUFFICES ASSUME TypeInv, [Next]_vars
              PROVE  TypeInv'
  OBVIOUS
<1>0. Typed /\ Sent /\ syncCommit' \in BOOLEAN
  BY DEF TypeInv, Typed, Next, SettingKept, vars
<1>1. ASSUME NEW p \in Procs, Crash(p) PROVE TypeInv'
  <2>1. pc' \in [Requests -> Points] /\ stage' \in [Accepts -> Stages] /\ at' \in [Creates -> Places]
    BY <1>0, <1>1, CrashEffect DEF Typed, Points, Stages, Places
  <2>2. txn' \in [Clients -> Tables] /\ held' \in SUBSET Clients
    BY <1>0, <1>1, CrashEffect, MergeType DEF Typed
  <2>3. Sent'
    BY <1>0, <1>1, CrashEffect DEF Sent, P!InTxn, A!Waiting, A!Querying
  <2>. QED BY <1>0, <1>1, <2>1, <2>2, <2>3, CrashEffect DEF Typed, TypeInv
<1>2. CASE PgCrash
  <2>1. pc' \in [Requests -> Points] /\ stage' \in [Accepts -> Stages] /\ at' \in [Creates -> Places]
    BY <1>0, <1>2, PgCrashEffect DEF Typed, Points, Stages, Places
  <2>2. txn' \in [Clients -> Tables]
    BY <1>2, PgCrashEffect, MergeType
  <2>3. Sent'
    BY <1>0, <1>2, PgCrashEffect DEF Sent, Typed, P!InTxn, A!Querying
  <2>. QED BY <1>0, <1>2, <2>1, <2>2, <2>3, PgCrashEffect DEF Typed, TypeInv
<1>3. CASE Flush
  BY <1>0, <1>3 DEF Flush, WalFlush, payVars, acceptVars, createVars, Typed, Sent, TypeInv
<1>4. CASE UNCHANGED vars
  BY <1>0, <1>4 DEF vars, payVars, acceptVars, createVars, pgVars, Typed, Sent, TypeInv
<1>. QED BY <1>1, <1>2, <1>3, <1>4, PayType, AcceptType, CreateType DEF Next

\* Whatever the services do to one another, every variable keeps its type, for any
\* requests, jobs, processes and sizes of the pools and of the queue.
THEOREM TypeCorrect == Spec => []TypeOK
<1>1. TypeInv => TypeOK
  BY TypedMeans DEF TypeInv
<1>. QED BY InitType, TypeStep, <1>1, PTL DEF Spec

-----------------------------------------------------------------------------
(* The pools *)

\* The requests of the three services that hold a pool client.
Holders == {r \in Requests : pc[r] \in P!InTxn}
             \cup {a \in Accepts : stage[a] \in A!Querying}
             \cup {c \in Creates : at[c] \in C!Holding}

\* The three services count the clients of a process in the same way.
LEMMA SameCheckOut ==
  ASSUME NEW c
  PROVE  /\ P!CheckOut(c) <=> CheckOut(c)
         /\ A!CheckOut(c) <=> CheckOut(c)
         /\ C!CheckOut(c) <=> CheckOut(c)
<1>1. ASSUME NEW S
      PROVE  /\ P!Cardinality(S) = Cardinality(S)
             /\ A!Cardinality(S) = Cardinality(S)
             /\ C!Cardinality(S) = Cardinality(S)
  BY DEF P!Cardinality, A!Cardinality, C!Cardinality, Cardinality
<1>2. P!CheckOut(c) <=> CheckOut(c)
  BY <1>1 DEF P!CheckOut, P!HeldIn, CheckOut, HeldIn
<1>3. A!CheckOut(c) <=> CheckOut(c)
  BY <1>1 DEF A!CheckOut, A!HeldIn, CheckOut, HeldIn
<1>4. C!CheckOut(c) <=> CheckOut(c)
  BY <1>1 DEF C!CheckOut, C!HeldIn, CheckOut, HeldIn
<1>. QED BY <1>2, <1>3, <1>4

\* A step that checks out no client keeps every process within its pool.
LEMMA FewerHeld ==
  ASSUME held \in SUBSET Clients, held' \subseteq held, NEW p,
         Cardinality(HeldIn(p)) <= PoolMax
  PROVE  Cardinality(HeldIn(p)') <= PoolMax
<1>1. IsFiniteSet(HeldIn(p)) /\ Cardinality(HeldIn(p)) \in Nat
  BY PoolAssumption, FS_Subset, FS_CardinalityType DEF HeldIn
<1>2. HeldIn(p)' \subseteq HeldIn(p)
  BY DEF HeldIn
<1>3. Cardinality(HeldIn(p)') \in Nat /\ Cardinality(HeldIn(p)') <= Cardinality(HeldIn(p))
  BY <1>1, <1>2, FS_Subset, FS_CardinalityType
<1>. QED BY <1>1, <1>3, PoolAssumption

\* Checking out a client takes one of its process that is not out.
LEMMA CheckOutFits ==
  ASSUME held \in SUBSET Clients, NEW c \in Clients, CheckOut(c), NEW p,
         Cardinality(HeldIn(p)) <= PoolMax
  PROVE  Cardinality(HeldIn(p)') <= PoolMax
<1>1. IsFiniteSet(HeldIn(p)) /\ Cardinality(HeldIn(p)) \in Nat
  BY PoolAssumption, FS_Subset, FS_CardinalityType DEF HeldIn
<1>2. CASE Home[c] # p
  <2>1. HeldIn(p)' = HeldIn(p)
    BY <1>2 DEF HeldIn, CheckOut
  <2>. QED BY <2>1
<1>3. CASE Home[c] = p
  <2>1. HeldIn(p)' = HeldIn(p) \cup {c}
    BY <1>3 DEF HeldIn, CheckOut
  <2>2. Cardinality(HeldIn(p)) < PoolMax
    BY <1>3 DEF CheckOut
  <2>3. \/ Cardinality(HeldIn(p)') = Cardinality(HeldIn(p))
        \/ Cardinality(HeldIn(p)') = Cardinality(HeldIn(p)) + 1
    BY <1>1, <2>1, FS_AddElement
  <2>. QED BY <1>1, <2>2, <2>3, PoolAssumption
<1>. QED BY <1>2, <1>3

\* Nobody holds a client before the first request.
LEMMA InitClients == Init => ClientsAccounted
<1>. SUFFICES ASSUME Init
              PROVE  ClientsAccounted
  OBVIOUS
<1>1. /\ held = {} /\ \A r \in Requests : pc[r] = "idle"
      /\ \A a \in Accepts : stage[a] = "idle" /\ \A c \in Creates : at[c] = "idle"
  BY DEF Init, PgInit, P!LocalInit, A!LocalInit, C!LocalInit
<1>2. \A c \in Creates : at[c] = "idle"
  BY DEF Init, C!LocalInit
<1>3. \A p \in Procs : HeldIn(p) = {}
  BY <1>1 DEF HeldIn
<1>. QED BY <1>1, <1>2, <1>3, FS_EmptySet, PoolAssumption
         DEF ClientsAccounted, P!InTxn, A!Querying, C!Holding, C!InTxn, C!OnRedis

\* Every step gives a client back exactly when its request has no more use for it.
\* One request is of one service, so that no service gives back another's.
LEMMA ClientsStep == TypeInv /\ ClientsAccounted /\ [Next]_vars => ClientsAccounted'
<1>. SUFFICES ASSUME TypeInv, ClientsAccounted, [Next]_vars
              PROVE  ClientsAccounted'
  OBVIOUS
<1>. USE DEF P!InTxn, A!Querying, C!Holding, C!InTxn, C!OnRedis
<1>0. /\ pc \in [Requests -> Points] /\ stage \in [Accepts -> Stages] /\ at \in [Creates -> Places]
      /\ held \in SUBSET Clients /\ held = Holders
      /\ Requests \subseteq Clients /\ Accepts \subseteq Clients /\ Creates \subseteq Clients
      /\ Requests \cap Accepts = {} /\ (Requests \cup Accepts) \cap Creates = {}
      /\ \A p \in Procs : Cardinality(HeldIn(p)) <= PoolMax
  BY MarketplaceAssumption, CreateAssumption DEF TypeInv, Typed, ClientsAccounted, Holders
<1>a. ASSUME held' = Holders', held' \subseteq held
      PROVE  ClientsAccounted'
  BY <1>0, <1>a, FewerHeld DEF ClientsAccounted, Holders
<1>b. ASSUME NEW c \in Clients, CheckOut(c), held' = Holders'
      PROVE  ClientsAccounted'
  BY <1>0, <1>b, CheckOutFits DEF ClientsAccounted, Holders
<1>1. ASSUME NEW r \in Requests, P!Receive(r) \/ P!Handle(r) \/ P!QueryFails(r),
             UNCHANGED <<stage, at>>
      PROVE  ClientsAccounted'
  <2>a. ASSUME NEW to, pc' = [pc EXCEPT ![r] = to],
               \/ held' = held /\ (pc[r] \in P!InTxn <=> to \in P!InTxn)
               \/ held' = held \ {r} /\ to \notin P!InTxn
        PROVE  ClientsAccounted'
    BY <1>0, <1>1, <2>a, <1>a DEF Holders
  <2>1. CASE P!Connect(r)
    <3>1. CheckOut(r) /\ held' = held \cup {r} /\ pc' = [pc EXCEPT ![r] = "ipn"]
      BY <2>1, SameCheckOut DEF P!Connect, CheckOut, P!Goto
    <3>. QED BY <1>0, <1>1, <1>b, <3>1 DEF Holders
  <2>2. CASE P!Receive(r) \/ P!ConnectFails(r)
    BY <2>2, <2>a DEF P!Receive, P!ConnectFails, P!Goto, P!pgVars
  <2>3. CASE P!InsertIpn(r) \/ P!InsertLedger(r) \/ P!UpdateJob(r) \/ P!Commit(r) \/ P!QueryFails(r)
    <3>1. /\ held' = held /\ pc[r] \in P!InTxn
          /\ \E to \in {"rollback", "ledger", "commit", "job", "abort", "ack"} :
               pc' = [pc EXCEPT ![r] = to]
      BY <2>3 DEF P!InsertIpn, P!InsertLedger, P!UpdateJob, P!Commit, P!QueryFails, P!Goto
    <3>. QED BY <3>1, <2>a
  <2>4. CASE P!AnswerProcessed(r) \/ P!AnswerDuplicate(r) \/ P!Abort(r)
    BY <2>4, <2>a DEF P!AnswerProcessed, P!AnswerDuplicate, P!Abort, P!Release, P!Goto
  <2>. QED BY <1>1, <2>1, <2>2, <2>3, <2>4 DEF P!Handle
<1>2. ASSUME A!Local, UNCHANGED <<pc, at>> PROVE ClientsAccounted'
  <2>a. ASSUME NEW a \in Accepts, NEW from, NEW to, A!Step(a, from, to),
               \/ held' = held /\ (from \in A!Querying <=> to \in A!Querying)
               \/ held' = held \ {a} /\ to \notin A!Querying
        PROVE  ClientsAccounted'
    BY <1>0, <1>2, <2>a, <1>a DEF Holders, A!Step
  <2>1. ASSUME NEW a \in Accepts, A!Connect(a) \/ A!ConnectAudit(a) PROVE ClientsAccounted'
    <3>1. /\ CheckOut(a) /\ held' = held \cup {a}
          /\ \E to \in {"update", "audit"} : stage' = [stage EXCEPT ![a] = to]
      BY <2>1, SameCheckOut DEF A!Connect, A!ConnectAudit, CheckOut, A!Step
    <3>. QED BY <1>0, <1>2, <1>b, <3>1 DEF Holders
  <2>2. ASSUME NEW a \in Accepts, A!Arrive(a) PROVE ClientsAccounted'
    BY <1>0, <1>2, <2>2, <1>a DEF A!Arrive, A!pgVars, Holders
  <2>3. ASSUME NEW a \in Accepts, A!SetNx(a) PROVE ClientsAccounted'
    BY <2>3, <2>a DEF A!SetNx, A!pgVars
  <2>4. ASSUME UNCHANGED <<stage, held>> PROVE ClientsAccounted'
    BY <1>0, <1>2, <2>4, <1>a DEF Holders
  <2>5. ASSUME NEW a \in Accepts, NEW end \in {"unavailable", "accepted", "error"},
               A!TakeJob(a) \/ A!FindNothing(a) \/ A!NotAWorker(a) \/ A!Audit(a, end)
                 \/ A!GiveBack(a) \/ A!Del(a, end)
        PROVE  ClientsAccounted'
    BY <2>5, <2>a DEF A!TakeJob, A!FindNothing, A!NotAWorker, A!Audit, A!GiveBack, A!Del,
                      A!Release, A!pgVars
  <2>6. ASSUME NEW a \in Accepts, A!CallFails(a) \/ A!QueryFails(a) PROVE ClientsAccounted'
    BY <2>6, <2>a DEF A!CallFails, A!QueryFails, A!pgVars, A!Waiting
  <2>7. ASSUME NEW a \in Accepts, A!SetNxUnanswered(a) PROVE ClientsAccounted'
    BY <2>4, <2>7 DEF A!SetNxUnanswered, A!pgVars
  <2>8. ASSUME NEW j \in JobIds, A!KeyLost(j) PROVE ClientsAccounted'
    BY <2>4, <2>8 DEF A!KeyLost, A!pgVars
  <2>. QED BY <1>2, <2>1, <2>2, <2>3, <2>5, <2>6, <2>7, <2>8 DEF A!Local, A!Handle, A!EndUnanswered
<1>3. ASSUME C!Local, UNCHANGED <<pc, stage>> PROVE ClientsAccounted'
  <2>a. ASSUME NEW c \in Creates, NEW from, NEW to, C!Step(c, from, to),
               \/ held' = held /\ (from \in C!Holding <=> to \in C!Holding)
               \/ held' = held \ {c} /\ to \notin C!Holding
        PROVE  ClientsAccounted'
    BY <1>0, <1>3, <2>a, <1>a DEF Holders, C!Step
  <2>1. ASSUME NEW c \in Creates, C!Connect(c) PROVE ClientsAccounted'
    <3>1. CheckOut(c) /\ held' = held \cup {c} /\ at' = [at EXCEPT ![c] = "insert"]
      BY <2>1, SameCheckOut DEF C!Connect, CheckOut, C!Step
    <3>. QED BY <1>0, <1>3, <1>b, <3>1 DEF Holders
  <2>2. ASSUME NEW c \in Creates,
               \/ C!Ask(c) \/ C!ConnectFails(c) \/ C!Insert(c) \/ C!Commit(c) \/ C!Push(c)
               \/ C!PushRejected(c) \/ C!Search(c) \/ C!CallFails(c) \/ C!Abort(c)
        PROVE  ClientsAccounted'
    BY <2>2, <2>a DEF C!Ask, C!ConnectFails, C!Insert, C!Commit, C!Push, C!PushRejected, C!Search,
                      C!CallFails, C!Abort, C!Release, C!pgVars
  <2>3. ASSUME UNCHANGED <<at, held>> PROVE ClientsAccounted'
    BY <1>0, <1>3, <2>3, <1>a DEF Holders
  <2>4. ASSUME NEW c \in Creates, C!PushUnanswered(c) \/ C!QueueLost PROVE ClientsAccounted'
    BY <2>3, <2>4 DEF C!PushUnanswered, C!QueueLost, C!pgVars
  <2>5. CASE C!QueueLost
    BY <2>3, <2>5 DEF C!QueueLost, C!pgVars
  <2>. QED BY <1>3, <2>1, <2>2, <2>4, <2>5 DEF C!Local, C!Handle
<1>4. ASSUME NEW p \in Procs, Crash(p) PROVE ClientsAccounted'
  <2>1. held' = Holders'
    BY <1>0, <1>4, CrashEffect DEF Holders
  <2>. QED BY <1>4, <1>a, <2>1, CrashEffect
<1>5. CASE PgCrash
  <2>1. held' = Holders'
    BY <1>0, <1>5, PgCrashEffect DEF Holders
  <2>. QED BY <1>5, <1>a, <2>1, PgCrashEffect
<1>6. CASE Flush \/ UNCHANGED vars
  BY <1>0, <1>6, <1>a DEF Flush, WalFlush, vars, payVars, acceptVars, createVars, pgVars, Holders
<1>. QED BY <1>1, <1>2, <1>3, <1>4, <1>5, <1>6
         DEF Next, Pay, Accept, Create, P!Local, payVars, acceptVars, createVars

\* The three services share the pools of their processes: none of them leaks a client,
\* on any path and across any crash, and no process has more out than its pool allows.
THEOREM NoClientLeaks == Spec => []ClientsAccounted
<1>1. Init => TypeInv /\ ClientsAccounted
  BY InitType, InitClients
<1>2. TypeInv /\ ClientsAccounted /\ [Next]_vars => (TypeInv /\ ClientsAccounted)'
  BY TypeStep, ClientsStep
<1>. QED BY <1>1, <1>2, PTL DEF Spec

-----------------------------------------------------------------------------
(* The inductive invariant: steps that write no table *)

\* The empty write set is what a request that is not recording has written.
LEMMA NothingWritten ==
  ASSUME NEW c, NEW n, NEW point, point \notin P!Recording
  PROVE  P!Wrote(c, NoWrites, n, point) /\ NoWrites.audit = {}
  BY DEF NoWrites, P!Wrote, P!Recording

\* What a request has written when it is not recording is nothing, at any such point
\* and with any body.
LEMMA StillNothing ==
  ASSUME NEW c, NEW w, NEW n, NEW m, NEW p, NEW q,
         p \notin P!Recording, q \notin P!Recording, P!Wrote(c, w, n, p)
  PROVE  P!Wrote(c, w, m, q)
  BY DEF P!Wrote, P!Recording

\* What holds initially: nothing is written, no seeded job is PAID, and no job that is
\* to be created is there.
LEMMA InitCore == Init => Core
<1>. SUFFICES ASSUME Init
              PROVE  Core
  OBVIOUS
<1>1. /\ \A r \in Requests : pc[r] = "idle" /\ pc[r] \notin P!Recording
      /\ \A c \in Creates : at[c] = "idle"
      /\ \A c \in Clients : txn[c] = NoWrites
  BY DEF Init, PgInit, P!LocalInit, C!LocalInit, P!Recording
<1>2. db.ipn = {} /\ db.ledger = {} /\ db.jobs = SeedJobs /\ disk = db
  BY DEF Init, PgInit, NoWrites
<1>3. P!OnlySuccessIsBooked /\ P!NewKeys /\ PaidOver
  BY <1>1 DEF P!OnlySuccessIsBooked, P!NewKeys, PaidOver, PaysFor
<1>4. PayWrites
  BY <1>1, NothingWritten, MarketplaceAssumption DEF PayWrites
<1>5. CreateWrites
  BY <1>1, CreateAssumption DEF CreateWrites
<1>6. Fresh
  BY <1>2, CreateAssumption DEF Fresh
<1>7. P!Keyed(db) /\ P!Keyed(disk)
  BY <1>2 DEF P!Keyed
<1>8. P!Settled(db) /\ P!Settled(disk)
  BY <1>2, SeedAssumption DEF P!Settled
<1>. QED BY <1>3, <1>4, <1>5, <1>6, <1>7, <1>8 DEF Core

\* A step that writes no table, lets no request begin to write, and drops the write set
\* of whoever stops writing, preserves the invariant.
LEMMA QuietStep ==
  ASSUME IInv, UNCHANGED <<db, disk>>,
         \A q \in Requests : pc[q] # "idle" => pc'[q] # "idle" /\ dto'[q] = dto[q],
         \A q \in Requests :
           IF pc'[q] \in P!Recording THEN pc'[q] = pc[q] /\ txn'[q] = txn[q]
           ELSE \/ txn'[q] = NoWrites
                \/ txn'[q] = txn[q] /\ pc[q] \notin P!Recording,
         \A c \in Creates :
           IF at'[c] = "commit" THEN at[c] = "commit" /\ txn'[c] = txn[c]
           ELSE \/ txn'[c] = NoWrites
                \/ txn'[c] = txn[c] /\ at[c] # "commit",
         \A c \in Creates : at'[c] \in Unborn => at[c] \in Unborn
  PROVE  Core'
<1>0. "idle" \notin P!Recording /\ Core
  BY DEF IInv, P!Recording
<1>1. P!OnlySuccessIsBooked'
  BY <1>0 DEF Core, P!OnlySuccessIsBooked, P!Recording
<1>2. PayWrites'
  <2>1. ASSUME NEW r \in Requests
        PROVE  P!Wrote(r, txn'[r], dto'[r], pc'[r]) /\ txn'[r].audit = {}
    <3>1. P!Wrote(r, txn[r], dto[r], pc[r]) /\ txn[r].audit = {}
      BY <1>0 DEF Core, PayWrites
    <3>2. CASE pc'[r] \in P!Recording
      BY <1>0, <3>1, <3>2
    <3>3. CASE pc'[r] \notin P!Recording
      BY <3>1, <3>3, NothingWritten, StillNothing
    <3>. QED BY <3>2, <3>3
  <2>. QED BY <2>1 DEF PayWrites, P!Wrote, P!Entries
<1>3. P!NewKeys'
  <2>. SUFFICES ASSUME NEW q \in Requests, NEW r \in Requests, pc'[q] \in P!Recording
                PROVE  /\ dto'[q].key \notin P!RecordedKeys(db')
                       /\ pc'[r] \in P!Recording /\ dto'[r].key = dto'[q].key => r = q
    BY DEF P!NewKeys, P!RecordedKeys
  <2>. QED BY <1>0 DEF Core, P!NewKeys, P!RecordedKeys
<1>4. P!Keyed(db)' /\ P!Keyed(disk)'
  BY <1>0 DEF Core, P!Keyed
<1>5. P!Settled(db)' /\ P!Settled(disk)'
  BY <1>0 DEF Core, P!Settled, P!Entries, P!IsSuccess
<1>6. PaidOver'
  <2>1. \A q \in Requests : PaysFor(q)' => /\ PaysFor(q)
                                           /\ dto'[q] = dto[q] /\ txn'[q] = txn[q]
    BY <1>0 DEF PaysFor, P!Recording
  <2>. QED BY <1>0, <2>1 DEF Core, PaidOver
<1>7. CreateWrites'
  BY <1>0 DEF Core, CreateWrites, JobWrite, NewRow, NoWrites
<1>8. Fresh'
  BY <1>0 DEF Core, Fresh
<1>. QED BY <1>1, <1>2, <1>3, <1>4, <1>5, <1>6, <1>7, <1>8 DEF Core

\* A step that moves no payment and no insert, and writes no transaction, preserves the
\* invariant whatever it does to the jobs that nobody is writing, as long as it creates
\* none and marks none paid: the UPDATE and the audit of acceptJob, and the flush.
LEMMA TablesStep ==
  ASSUME IInv, UNCHANGED <<pc, dto, at, txn>>,
         db'.ipn = db.ipn, db'.ledger = db.ledger,
         \A j \in JobIds :
           \/ db'.jobs[j] = db.jobs[j]
           \/ /\ \A r \in Requests : txn[r].jobs[j] = NoRow
              /\ db.jobs[j] # NoRow /\ db.jobs[j].state # "PAID"
              /\ db'.jobs[j] # NoRow /\ db'.jobs[j].state # "PAID",
         disk' = db' \/ disk' = disk
  PROVE  Core'
<1>0. /\ Core /\ Typed /\ NewJob \in [Creates -> JobIds]
      /\ \A r \in Requests : pc[r] # "idle" => dto[r].job \in JobIds
  BY MarketplaceAssumption, CreateAssumption DEF IInv, TypeInv, Sent, Notification
<1>1. P!OnlySuccessIsBooked' /\ PayWrites' /\ CreateWrites'
  <2>1. P!OnlySuccessIsBooked'
    BY <1>0 DEF Core, P!OnlySuccessIsBooked
  <2>2. PayWrites'
    <3>1. \A r \in Requests : P!Wrote(r, txn'[r], dto'[r], pc'[r]) /\ txn'[r].audit = {}
      BY <1>0 DEF Core, PayWrites
    <3>. QED BY <3>1 DEF PayWrites, P!Wrote, P!Entries
  <2>3. CreateWrites'
    BY <1>0 DEF Core, CreateWrites, JobWrite, NewRow, NoWrites
  <2>. QED BY <2>1, <2>2, <2>3
<1>2. P!NewKeys'
  BY <1>0 DEF Core, P!NewKeys, P!RecordedKeys
<1>3. P!Keyed(db') /\ P!Keyed(disk')
  BY <1>0 DEF Core, P!Keyed
<1>4. P!Settled(db') /\ P!Settled(disk')
  <2>1. P!Settled(db')
    BY <1>0 DEF Core, P!Settled
  <2>. QED BY <1>0, <2>1 DEF Core
<1>5. PaidOver'
  <2>1. \A r \in Requests : PaysFor(r)' <=> PaysFor(r)
    BY DEF PaysFor
  <2>2. ASSUME NEW r \in Requests, PaysFor(r)
        PROVE  db'.jobs[dto[r].job] = db.jobs[dto[r].job]
    <3>1. dto[r].job \in JobIds /\ txn[r].jobs[dto[r].job] # NoRow
      BY <1>0, <2>2 DEF PaysFor, Core, PayWrites, P!Wrote
    <3>. QED BY <3>1
  <2>. QED BY <1>0, <2>1, <2>2 DEF Core, PaidOver
<1>6. Fresh'
  BY <1>0 DEF Core, Fresh
<1>7. P!Keyed(db)' /\ P!Keyed(disk)' /\ P!Settled(db)' /\ P!Settled(disk)'
  BY <1>3, <1>4 DEF P!Keyed, P!Settled, P!Entries, P!IsSuccess
<1>. QED BY <1>1, <1>2, <1>5, <1>6, <1>7 DEF Core

-----------------------------------------------------------------------------
(* The inductive invariant: the statements of handleWebhook *)

\* A statement inside the transaction of r keeps the write sets accounted for if its own
\* is, and the tables as they were.
LEMMA StatementStep ==
  ASSUME IInv, UNCHANGED <<db, disk, dto, at>>,
         NEW r \in Requests, NEW w, NEW point,
         pc[r] # "idle", point # "idle",
         pc' = [pc EXCEPT ![r] = point], txn' = [txn EXCEPT ![r] = w],
         P!Wrote(r, w, dto[r], point), w.audit = {}
  PROVE  /\ PayWrites' /\ P!Keyed(db)' /\ P!Keyed(disk)' /\ P!Settled(db)' /\ P!Settled(disk)'
         /\ CreateWrites' /\ Fresh'
<1>0. /\ pc \in [Requests -> Points] /\ txn \in [Clients -> Tables] /\ Core
      /\ Requests \subseteq Clients /\ Creates \subseteq Clients /\ Requests \cap Creates = {}
  BY MarketplaceAssumption, CreateAssumption DEF IInv, TypeInv, Typed
<1>1. /\ pc'[r] = point /\ txn'[r] = w
      /\ \A q \in Requests \ {r} : pc'[q] = pc[q] /\ txn'[q] = txn[q]
      /\ \A c \in Creates : txn'[c] = txn[c]
  BY <1>0
<1>2. PayWrites'
  <2>1. \A q \in Requests : P!Wrote(q, txn'[q], dto'[q], pc'[q]) /\ txn'[q].audit = {}
    BY <1>0, <1>1 DEF Core, PayWrites
  <2>. QED BY <2>1 DEF PayWrites, P!Wrote, P!Entries
<1>3. P!Keyed(db)' /\ P!Keyed(disk)'
  BY <1>0, <1>1 DEF Core, P!Keyed
<1>4. P!Settled(db)' /\ P!Settled(disk)'
  BY <1>0 DEF Core, P!Settled, P!Entries, P!IsSuccess
<1>5. CreateWrites' /\ Fresh'
  BY <1>0, <1>1 DEF Core, CreateWrites, Fresh, JobWrite, NewRow, NoWrites
<1>. QED BY <1>2, <1>3, <1>4, <1>5

\* A step that lets nobody start recording leaves the keys new.
LEMMA SameKeys ==
  ASSUME IInv, UNCHANGED <<db, dto>>,
         \A q \in Requests : pc'[q] \in P!Recording => pc[q] \in P!Recording
  PROVE  P!NewKeys'
<1>. SUFFICES ASSUME NEW p \in Requests, NEW q \in Requests, pc'[p] \in P!Recording
              PROVE  /\ dto'[p].key \notin P!RecordedKeys(db')
                     /\ pc'[q] \in P!Recording /\ dto'[q].key = dto'[p].key => q = p
  BY DEF P!NewKeys, P!RecordedKeys
<1>. QED BY DEF IInv, Core, P!NewKeys, P!RecordedKeys

\* A payment that does not come to its COMMIT leaves the others to theirs.
LEMMA SamePayments ==
  ASSUME IInv, UNCHANGED <<db, dto>>, NEW r \in Requests,
         \A q \in Requests \ {r} : pc'[q] = pc[q] /\ txn'[q] = txn[q],
         ~ PaysFor(r)'
  PROVE  PaidOver'
<1>1. \A q \in Requests : PaysFor(q)' => q # r /\ PaysFor(q)
  BY DEF PaysFor
<1>. QED BY <1>1 DEF IInv, Core, PaidOver

\* The INSERT of the IPN row: no other open transaction holds the key and no committed
\* row has it, so the keys being recorded stay new and distinct.
LEMMA InsertIpnCore ==
  ASSUME IInv, NEW r \in Requests, P!InsertIpn(r), at' = at
  PROVE  Core'
<1>0. /\ pc \in [Requests -> Points] /\ txn \in [Clients -> Tables] /\ Core
      /\ Requests \subseteq Clients /\ Creates \subseteq Clients /\ Requests \cap Creates = {}
  BY MarketplaceAssumption, CreateAssumption DEF IInv, TypeInv, Typed
<1>1. UNCHANGED <<db, disk, dto>> /\ pc[r] = "ipn"
  BY DEF P!InsertIpn
<1>2. CASE pc' = [pc EXCEPT ![r] = "rollback"] /\ txn' = txn
  BY <1>0, <1>1, <1>2, QuietStep DEF P!Recording, Core, CreateWrites
<1>3. ASSUME NEW w, NEW point,
             w = [txn[r] EXCEPT !.ipn = {[id |-> r, note |-> dto[r]]}],
             point = IF dto[r].status = "SUCCESS" THEN "ledger" ELSE "commit",
             dto[r].key \notin P!RecordedKeys(db),
             pc' = [pc EXCEPT ![r] = point],
             txn' = [txn EXCEPT ![r] = w]
      PROVE  Core'
  <2>1. pc'[r] = point /\ \A q \in Requests \ {r} : pc'[q] = pc[q] /\ txn'[q] = txn[q]
    BY <1>0, <1>3
  <2>2. P!Wrote(r, w, dto[r], point) /\ w.audit = {}
    <3>1. P!Wrote(r, txn[r], dto[r], "ipn") /\ txn[r].audit = {}
      BY <1>0, <1>1 DEF Core, PayWrites
    <3>2. txn[r] \in Tables
      BY <1>0
    <3>. QED BY <1>3, <3>1, <3>2 DEF P!Wrote, P!Recording, Tables
  <2>3. /\ PayWrites' /\ P!Keyed(db)' /\ P!Keyed(disk)' /\ P!Settled(db)' /\ P!Settled(disk)'
        /\ CreateWrites' /\ Fresh'
    BY <1>1, <1>3, <2>2, StatementStep
  <2>4. P!OnlySuccessIsBooked'
    BY <1>0, <1>1, <1>3, <2>1 DEF Core, P!OnlySuccessIsBooked
  <2>5. \A q \in Requests \ {r} : pc[q] \in P!Recording => dto[q].key # dto[r].key
    <3>. SUFFICES ASSUME NEW q \in Requests \ {r}, pc[q] \in P!Recording
                  PROVE  dto[q].key # dto[r].key
      OBVIOUS
    <3>1. txn[q].ipn = {[id |-> q, note |-> dto[q]]}
      BY <1>0 DEF Core, PayWrites, P!Wrote
    <3>2. dto[q].key \in P!RecordedKeys(txn[q])
      BY <3>1 DEF P!RecordedKeys
    <3>. QED BY <1>0, <3>2 DEF P!InsertIpn, P!KeyInFlight
  <2>6. P!NewKeys'
    <3>. SUFFICES ASSUME NEW p \in Requests, NEW q \in Requests, pc'[p] \in P!Recording
                  PROVE  /\ dto'[p].key \notin P!RecordedKeys(db')
                         /\ pc'[q] \in P!Recording /\ dto'[q].key = dto'[p].key => q = p
      BY DEF P!NewKeys, P!RecordedKeys
    <3>. QED BY <1>0, <1>1, <1>3, <2>1, <2>5 DEF Core, P!NewKeys, P!RecordedKeys
  <2>7. PaidOver'
    <3>1. ~ PaysFor(r)'
      BY <1>1, <1>3, <2>1 DEF PaysFor
    <3>. QED BY <1>1, <2>1, <3>1, SamePayments
  <2>. QED BY <2>3, <2>4, <2>6, <2>7 DEF Core
<1>4. \/ pc' = [pc EXCEPT ![r] = "rollback"] /\ txn' = txn
      \/ /\ dto[r].key \notin P!RecordedKeys(db)
         /\ pc' = [pc EXCEPT ![r] = IF dto[r].status = "SUCCESS" THEN "ledger" ELSE "commit"]
         /\ txn' = [txn EXCEPT ![r] = [txn[r] EXCEPT !.ipn = {[id |-> r, note |-> dto[r]]}]]
  BY DEF P!InsertIpn, P!Goto, P!Write
<1>. QED BY <1>2, <1>3, <1>4

\* The INSERT of the ledger pair adds it to the write set of r; a violated foreign key
\* empties the write set instead.
LEMMA InsertLedgerCore ==
  ASSUME IInv, NEW r \in Requests, P!InsertLedger(r), at' = at
  PROVE  Core'
<1>0. /\ pc \in [Requests -> Points] /\ txn \in [Clients -> Tables] /\ Core
      /\ Requests \subseteq Clients /\ Creates \subseteq Clients /\ Requests \cap Creates = {}
  BY MarketplaceAssumption, CreateAssumption DEF IInv, TypeInv, Typed
<1>1. UNCHANGED <<db, disk, dto>> /\ pc[r] = "ledger"
  BY DEF P!InsertLedger
<1>2. CASE pc' = [pc EXCEPT ![r] = "abort"] /\ txn' = [txn EXCEPT ![r] = NoWrites]
  <2>1. \A c \in Creates : txn'[c] = txn[c]
    BY <1>0, <1>2
  <2>2. /\ pc'[r] = "abort" /\ txn'[r] = NoWrites
        /\ \A q \in Requests \ {r} : pc'[q] = pc[q] /\ txn'[q] = txn[q]
    BY <1>0, <1>2
  <2>3. \A q \in Requests \ {r} : pc[q] \notin P!Recording => txn'[q] = txn[q]
    BY <2>2
  <2>. QED BY <1>1, <2>1, <2>2, QuietStep DEF P!Recording
<1>3. ASSUME NEW w, w = [txn[r] EXCEPT !.ledger = P!Entries(r, dto[r])],
             pc' = [pc EXCEPT ![r] = "job"], txn' = [txn EXCEPT ![r] = w]
      PROVE  Core'
  <2>1. pc'[r] = "job" /\ \A q \in Requests \ {r} : pc'[q] = pc[q] /\ txn'[q] = txn[q]
    BY <1>0, <1>3
  <2>2. P!Wrote(r, w, dto[r], "job") /\ w.audit = {}
    <3>1. P!Wrote(r, txn[r], dto[r], "ledger") /\ txn[r].audit = {}
      BY <1>0, <1>1 DEF Core, PayWrites
    <3>2. txn[r] \in Tables
      BY <1>0
    <3>. QED BY <1>3, <3>1, <3>2 DEF P!Wrote, P!Recording, Tables
  <2>3. /\ PayWrites' /\ P!Keyed(db)' /\ P!Keyed(disk)' /\ P!Settled(db)' /\ P!Settled(disk)'
        /\ CreateWrites' /\ Fresh'
    BY <1>1, <1>3, <2>2, StatementStep
  <2>4. P!OnlySuccessIsBooked'
    BY <1>0, <1>1, <2>1 DEF Core, P!OnlySuccessIsBooked
  <2>5. P!NewKeys'
    BY <1>1, <2>1, SameKeys DEF P!Recording
  <2>6. PaidOver'
    BY <1>1, <2>1, SamePayments DEF PaysFor
  <2>. QED BY <2>3, <2>4, <2>5, <2>6 DEF Core
<1>4. \/ pc' = [pc EXCEPT ![r] = "abort"] /\ txn' = [txn EXCEPT ![r] = NoWrites]
      \/ /\ pc' = [pc EXCEPT ![r] = "job"]
         /\ txn' = [txn EXCEPT ![r] = [txn[r] EXCEPT !.ledger = P!Entries(r, dto[r])]]
  BY DEF P!InsertLedger, P!Goto, P!Write, P!AbortTxn, P!NoWrites, NoWrites
<1>. QED BY <1>2, <1>3, <1>4

\* The UPDATE of the job reads the committed row and locks it: no other payment is about
\* to commit the same job.
LEMMA UpdateJobCore ==
  ASSUME IInv, NEW r \in Requests, P!UpdateJob(r), at' = at
  PROVE  Core'
<1>. DEFINE j == dto[r].job
            row == [db.jobs[j] EXCEPT !.state = "PAID"]
            w == [txn[r] EXCEPT !.jobs[j] = row]
<1>0. /\ pc \in [Requests -> Points] /\ txn \in [Clients -> Tables] /\ db \in Tables /\ Core
      /\ Requests \subseteq Clients
  BY MarketplaceAssumption, CreateAssumption DEF IInv, TypeInv, Typed
<1>1. /\ UNCHANGED <<db, disk, dto>> /\ pc[r] = "job"
      /\ pc' = [pc EXCEPT ![r] = "commit"] /\ txn' = [txn EXCEPT ![r] = w]
      /\ \A d \in Clients \ {r} : txn[d].jobs[j] = NoRow
  BY DEF P!UpdateJob, P!Goto, P!Write, P!RowLocked
<1>2. dto[r].status = "SUCCESS" /\ db.jobs[j] # NoRow /\ j \in JobIds
  BY <1>0, <1>1, MarketplaceAssumption
     DEF Core, P!OnlySuccessIsBooked, IInv, TypeInv, Sent, Notification
<1>3. row \in JobRow /\ row # NoRow /\ row.state = "PAID"
  <2>1. db.jobs[j] \in JobRow
    BY <1>0, <1>2 DEF Tables
  <2>. QED BY <2>1, PaidRowType
<1>4. w.jobs[j] = row /\ P!Wrote(r, w, dto[r], "commit") /\ w.audit = {}
  <2>1. P!Wrote(r, txn[r], dto[r], "job") /\ txn[r].audit = {}
    BY <1>0, <1>1 DEF Core, PayWrites
  <2>2. txn[r] \in Tables
    BY <1>0
  <2>. HIDE DEF row
  <2>. QED BY <1>2, <1>3, <2>1, <2>2 DEF P!Wrote, P!Recording, Tables
<1>5. /\ pc'[r] = "commit" /\ txn'[r] = w
      /\ \A q \in Requests \ {r} : pc'[q] = pc[q] /\ txn'[q] = txn[q]
  <2>. HIDE DEF w
  <2>. QED BY <1>0, <1>1
<1>6. /\ PayWrites' /\ P!Keyed(db)' /\ P!Keyed(disk)' /\ P!Settled(db)' /\ P!Settled(disk)'
      /\ CreateWrites' /\ Fresh'
  <2>. HIDE DEF w
  <2>. QED BY <1>1, <1>4, StatementStep
<1>7. P!OnlySuccessIsBooked'
  BY <1>0, <1>1, <1>5 DEF Core, P!OnlySuccessIsBooked
<1>8. P!NewKeys'
  BY <1>1, <1>5, SameKeys DEF P!Recording
<1>9. PaidOver'
  <2>1. ASSUME NEW q \in Requests \ {r}, PaysFor(q)' PROVE PaysFor(q) /\ dto[q].job # j
    <3>1. PaysFor(q)
      BY <1>1, <1>5, <2>1 DEF PaysFor
    <3>2. txn[q].jobs[dto[q].job] # NoRow
      BY <1>0, <3>1, MarketplaceAssumption
         DEF Core, PayWrites, P!Wrote, PaysFor, IInv, TypeInv, Sent, Notification
    <3>. QED BY <1>0, <1>1, <3>1, <3>2
  <2>2. db'.jobs[dto'[r].job] # NoRow /\ txn'[r].jobs[dto'[r].job] = [db'.jobs[dto'[r].job] EXCEPT !.state = "PAID"]
    BY <1>1, <1>2, <1>4, <1>5
  <2>. HIDE DEF j, row, w
  <2>3. \A q \in Requests : PaysFor(q)' =>
          /\ db'.jobs[dto'[q].job] # NoRow
          /\ txn'[q].jobs[dto'[q].job] = [db'.jobs[dto'[q].job] EXCEPT !.state = "PAID"]
    BY <1>0, <1>1, <1>5, <2>1, <2>2 DEF Core, PaidOver
  <2>4. \A p, q \in Requests :
          PaysFor(p)' /\ PaysFor(q)' /\ dto'[p].job = dto'[q].job => p = q
    BY <1>0, <1>1, <2>1 DEF Core, PaidOver, j
  <2>. QED BY <2>3, <2>4 DEF PaidOver
<1>. QED BY <1>6, <1>7, <1>8, <1>9 DEF Core

\* Merging the writes of a complete transaction settles what was settled.
LEMMA MergeSettled ==
  ASSUME NEW s \in Tables, NEW w \in Tables, NEW c \in Clients, NEW n \in Notification,
         P!Settled(s), P!Wrote(c, w, n, "commit")
  PROVE  P!Settled(Merge(s, w))
<1>. DEFINE m == Merge(s, w)
            row == [id |-> c, note |-> n]
<1>1. /\ m.ipn = s.ipn \cup {row}
      /\ m.ledger = s.ledger \cup (IF n.status = "SUCCESS" THEN P!Entries(c, n) ELSE {})
      /\ \A j \in JobIds :
           m.jobs[j] = IF n.status = "SUCCESS" /\ j = n.job THEN w.jobs[j] ELSE s.jobs[j]
  BY DEF Merge, P!Wrote, P!Recording
<1>2. n.status = "SUCCESS" => w.jobs[n.job] # NoRow /\ w.jobs[n.job].state = "PAID"
  BY DEF P!Wrote, Notification
<1>. HIDE DEF m
<1>3. m.ledger = UNION {P!Entries(x.id, x.note) : x \in {y \in m.ipn : P!IsSuccess(y)}}
  <2>1. CASE n.status = "SUCCESS"
    <3>1. {y \in m.ipn : P!IsSuccess(y)} = {y \in s.ipn : P!IsSuccess(y)} \cup {row}
      BY <1>1, <2>1 DEF P!IsSuccess
    <3>2. row.id = c /\ row.note = n
      OBVIOUS
    <3>3. m.ledger = s.ledger \cup P!Entries(c, n)
      BY <1>1, <2>1
    <3>. SUFFICES ASSUME NEW e
                  PROVE  e \in m.ledger <=>
                           \E x \in {y \in m.ipn : P!IsSuccess(y)} : e \in P!Entries(x.id, x.note)
      OBVIOUS
    <3>4. e \in s.ledger <=>
            \E x \in {y \in s.ipn : P!IsSuccess(y)} : e \in P!Entries(x.id, x.note)
      BY DEF P!Settled
    <3>. HIDE DEF row
    <3>. QED BY <3>1, <3>2, <3>3, <3>4
  <2>2. CASE n.status # "SUCCESS"
    <3>1. {y \in m.ipn : P!IsSuccess(y)} = {y \in s.ipn : P!IsSuccess(y)}
      BY <1>1, <2>2 DEF P!IsSuccess
    <3>. QED BY <1>1, <2>2, <3>1 DEF P!Settled
  <2>. QED BY <2>1, <2>2
<1>4. ASSUME NEW j \in JobIds
      PROVE  (m.jobs[j] # NoRow /\ m.jobs[j].state = "PAID")
               <=> \E x \in m.ipn : P!IsSuccess(x) /\ x.note.job = j
  <2>1. P!IsSuccess(row) <=> n.status = "SUCCESS"
    BY DEF P!IsSuccess
  <2>2. (s.jobs[j] # NoRow /\ s.jobs[j].state = "PAID")
          <=> \E x \in s.ipn : P!IsSuccess(x) /\ x.note.job = j
    BY DEF P!Settled
  <2>3. CASE n.status = "SUCCESS" /\ j = n.job
    BY <1>1, <1>2, <2>1, <2>3
  <2>4. CASE ~(n.status = "SUCCESS" /\ j = n.job)
    BY <1>1, <2>1, <2>2, <2>4
  <2>. QED BY <2>3, <2>4
<1>. QED BY <1>3, <1>4 DEF P!Settled, m

\* What the COMMIT of handleWebhook commits: at most the payment of one job, whose row
\* it changes in nothing but its state.
LEMMA PayEffect ==
  ASSUME IInv, NEW r \in Requests, P!Commit(r)
  PROVE  /\ pc[r] = "commit" /\ pc' = [pc EXCEPT ![r] = "ack"] /\ UNCHANGED <<dto, held>>
         /\ db' = Merge(db, txn[r]) /\ disk' = IF syncCommit THEN Merge(db, txn[r]) ELSE disk
         /\ txn' = [txn EXCEPT ![r] = NoWrites]
         /\ dto[r] \in Notification
         /\ db'.ipn = db.ipn \cup {[id |-> r, note |-> dto[r]]}
         /\ db'.audit = db.audit
         /\ \A j \in JobIds :
              db'.jobs[j] = IF PaysFor(r) /\ j = dto[r].job
                            THEN [db.jobs[j] EXCEPT !.state = "PAID"] ELSE db.jobs[j]
         /\ PaysFor(r) => db.jobs[dto[r].job] \in JobRow
<1>0. Typed /\ Sent /\ Core
  BY DEF IInv, TypeInv
<1>1. /\ pc[r] = "commit" /\ pc' = [pc EXCEPT ![r] = "ack"] /\ UNCHANGED <<dto, held>>
      /\ db' = Merge(db, txn[r]) /\ disk' = IF syncCommit THEN Merge(db, txn[r]) ELSE disk
      /\ txn' = [txn EXCEPT ![r] = NoWrites]
  BY DEF P!Commit, P!CommitTxn, P!Apply, P!Merge, P!Write, P!NoWrites, P!Goto, Merge, NoWrites
<1>2. P!Wrote(r, txn[r], dto[r], "commit") /\ txn[r].audit = {}
  BY <1>0, <1>1 DEF Core, PayWrites
<1>3. dto[r] \in Notification /\ dto[r].job \in JobIds
  BY <1>0, <1>1, MarketplaceAssumption DEF Sent, Notification
<1>4. db'.ipn = db.ipn \cup {[id |-> r, note |-> dto[r]]} /\ db'.audit = db.audit
  BY <1>1, <1>2 DEF Merge, P!Wrote, P!Recording
<1>5. PaysFor(r) => /\ db.jobs[dto[r].job] # NoRow /\ txn[r].jobs[dto[r].job] # NoRow
                    /\ txn[r].jobs[dto[r].job] = [db.jobs[dto[r].job] EXCEPT !.state = "PAID"]
  BY <1>0, <1>2, <1>3 DEF Core, PaidOver, P!Wrote, PaysFor
<1>6. \A j \in JobIds : ~ (PaysFor(r) /\ j = dto[r].job) => txn[r].jobs[j] = NoRow
  BY <1>1, <1>2 DEF P!Wrote, PaysFor
<1>7. \A j \in JobIds :
        db'.jobs[j] = IF PaysFor(r) /\ j = dto[r].job
                      THEN [db.jobs[j] EXCEPT !.state = "PAID"] ELSE db.jobs[j]
  BY <1>1, <1>5, <1>6 DEF Merge
<1>8. PaysFor(r) => db.jobs[dto[r].job] \in JobRow
  BY <1>0, <1>3, <1>5 DEF Typed, Tables
<1>. QED BY <1>1, <1>3, <1>4, <1>7, <1>8

\* The COMMIT publishes a complete write set under a new key.
LEMMA CommitCore ==
  ASSUME IInv, NEW r \in Requests, P!Commit(r), at' = at
  PROVE  Core'
<1>0. /\ Typed /\ Sent /\ Core /\ r \in Clients /\ NewJob \in [Creates -> JobIds]
      /\ Requests \subseteq Clients /\ Creates \subseteq Clients /\ Requests \cap Creates = {}
  BY MarketplaceAssumption, CreateAssumption DEF IInv, TypeInv
<1>1. /\ pc[r] = "commit" /\ pc' = [pc EXCEPT ![r] = "ack"] /\ dto' = dto
      /\ (disk' = db' \/ disk' = disk)
      /\ txn' = [txn EXCEPT ![r] = NoWrites]
      /\ dto[r] \in Notification
      /\ db'.ipn = db.ipn \cup {[id |-> r, note |-> dto[r]]}
  BY PayEffect
<1>2. /\ pc'[r] = "ack" /\ txn'[r] = NoWrites
      /\ \A q \in Requests \ {r} : pc'[q] = pc[q] /\ txn'[q] = txn[q]
      /\ \A c \in Creates : txn'[c] = txn[c]
  BY <1>0, <1>1 DEF Typed
<1>3. dto[r].key \notin P!RecordedKeys(db)
  BY <1>0, <1>1 DEF Core, P!NewKeys, P!Recording
<1>4. P!Settled(db')
  <2>1. db' = Merge(db, txn[r])
    BY PayEffect
  <2>2. P!Wrote(r, txn[r], dto[r], "commit") /\ txn[r] \in Tables
    BY <1>0, <1>1 DEF Core, PayWrites, Typed
  <2>. QED BY <1>0, <1>1, <2>1, <2>2, MergeSettled DEF Core, Typed
<1>5. P!OnlySuccessIsBooked'
  BY <1>0, <1>1, <1>2 DEF Core, P!OnlySuccessIsBooked
<1>6. PayWrites'
  <2>1. ASSUME NEW q \in Requests
        PROVE  P!Wrote(q, txn'[q], dto'[q], pc'[q]) /\ txn'[q].audit = {}
    <3>1. CASE q = r
      BY <1>2, <3>1, NothingWritten DEF P!Recording
    <3>2. CASE q # r
      BY <1>0, <1>1, <1>2, <3>2 DEF Core, PayWrites
    <3>. QED BY <3>1, <3>2
  <2>. QED BY <2>1 DEF PayWrites, P!Wrote, P!Entries
<1>7. P!NewKeys'
  <2>. SUFFICES ASSUME NEW p \in Requests, NEW q \in Requests, pc'[p] \in P!Recording
                PROVE  /\ dto[p].key \notin P!RecordedKeys(db')
                       /\ pc'[q] \in P!Recording /\ dto[q].key = dto[p].key => q = p
    BY <1>1 DEF P!NewKeys, P!RecordedKeys
  <2>1. p # r /\ pc[p] \in P!Recording /\ (pc'[q] \in P!Recording => pc[q] \in P!Recording)
    BY <1>1, <1>2 DEF P!Recording
  <2>2. dto[p].key # dto[r].key
    BY <1>0, <1>1, <2>1 DEF Core, P!NewKeys, P!Recording
  <2>3. dto[p].key \notin P!RecordedKeys(db)
    BY <1>0, <2>1 DEF Core, P!NewKeys
  <2>. QED BY <1>0, <1>1, <2>1, <2>2, <2>3 DEF Core, P!NewKeys, P!RecordedKeys
<1>8. P!Keyed(db)'
  <2>1. ASSUME NEW x \in db'.ipn
        PROVE  x.id \in Requests /\ pc'[x.id] # "idle" /\ x.note = dto[x.id]
    BY <1>0, <1>1, <1>2 DEF Core, P!Keyed
  <2>2. ASSUME NEW x \in db'.ipn, NEW y \in db'.ipn, x.note.key = y.note.key PROVE x = y
    BY <1>0, <1>1, <1>3, <2>2 DEF Core, P!Keyed, P!RecordedKeys
  <2>. QED BY <1>1, <2>1, <2>2 DEF P!Keyed
<1>9. P!Keyed(disk)'
  <2>1. CASE disk' = db'
    BY <1>8, <2>1 DEF P!Keyed
  <2>2. CASE disk' = disk
    BY <1>0, <1>1, <1>2, <2>2 DEF Core, P!Keyed
  <2>. QED BY <1>1, <2>1, <2>2
<1>10. P!Settled(db)' /\ P!Settled(disk)'
  BY <1>0, <1>1, <1>4 DEF Core, P!Settled, P!Entries, P!IsSuccess
<1>11. PaidOver'
  <2>1. \A q \in Requests : PaysFor(q)' => q # r /\ PaysFor(q)
    BY <1>1, <1>2 DEF PaysFor
  <2>2. ASSUME NEW q \in Requests, PaysFor(q)' PROVE db'.jobs[dto[q].job] = db.jobs[dto[q].job]
    <3>1. q # r /\ PaysFor(q) /\ dto[q].job \in JobIds
      BY <1>0, <2>1, <2>2, MarketplaceAssumption DEF Sent, Notification, PaysFor
    <3>2. ~ (PaysFor(r) /\ dto[q].job = dto[r].job)
      BY <1>0, <3>1 DEF Core, PaidOver
    <3>. QED BY <3>1, <3>2, PayEffect
  <2>. QED BY <1>0, <1>1, <1>2, <2>1, <2>2 DEF Core, PaidOver
<1>12. CreateWrites'
  BY <1>0, <1>2 DEF Core, CreateWrites, JobWrite, NewRow, NoWrites
<1>13. Fresh'
  <2>. SUFFICES ASSUME NEW c \in Creates, at[c] \in Unborn
                PROVE  db'.jobs[NewJob[c]] = NoRow /\ disk'.jobs[NewJob[c]] = NoRow
    BY DEF Fresh
  <2>1. db.jobs[NewJob[c]] = NoRow /\ disk.jobs[NewJob[c]] = NoRow /\ NewJob[c] \in JobIds
    BY <1>0 DEF Core, Fresh
  <2>2. PaysFor(r) => db.jobs[dto[r].job] # NoRow
    BY <1>0 DEF Core, PaidOver
  <2>3. db'.jobs[NewJob[c]] = NoRow
    BY <2>1, <2>2, PayEffect
  <2>. QED BY <1>1, <2>1, <2>3
<1>. QED BY <1>5, <1>6, <1>7, <1>8, <1>9, <1>10, <1>11, <1>12, <1>13 DEF Core

\* A step of handleWebhook preserves the invariant: one case per action.
LEMMA PayCore == IInv /\ Pay => Core'
<1>. SUFFICES ASSUME IInv, NEW r \in Requests, P!Receive(r) \/ P!Handle(r) \/ P!QueryFails(r),
                     at' = at
              PROVE  Core'
  BY DEF Pay, P!Local, createVars
<1>0. /\ pc \in [Requests -> Points] /\ txn \in [Clients -> Tables] /\ Core
      /\ dto \in [Requests -> Notifications \cup {NoDto}]
      /\ Requests \subseteq Clients /\ Creates \subseteq Clients /\ Requests \cap Creates = {}
      /\ \A c \in Creates : at[c] # "commit" => txn[c] = NoWrites
  BY MarketplaceAssumption, CreateAssumption DEF IInv, TypeInv, Typed, Core, CreateWrites
<1>1. CASE P!Receive(r)
  <2>1. /\ UNCHANGED <<db, disk, txn>>
        /\ pc[r] = "idle" /\ pc'[r] = "connecting"
        /\ \A q \in Requests \ {r} : pc'[q] = pc[q] /\ dto'[q] = dto[q]
    BY <1>0, <1>1 DEF P!Receive, P!Goto, P!pgVars
  <2>. QED BY <1>0, <2>1, QuietStep DEF P!Recording
<1>2. CASE P!Connect(r) \/ P!ConnectFails(r) \/ P!AnswerProcessed(r) \/ P!Abort(r)
  <2>1. /\ UNCHANGED <<db, disk, txn, dto>>
        /\ pc[r] \in {"connecting", "ack", "abort"} /\ pc'[r] \in {"ipn", "error", "processed"}
        /\ \A q \in Requests \ {r} : pc'[q] = pc[q]
    BY <1>0, <1>2 DEF P!Connect, P!ConnectFails, P!AnswerProcessed, P!Abort, P!Goto, P!pgVars
  <2>. QED BY <1>0, <2>1, QuietStep DEF P!Recording
<1>3. CASE P!AnswerDuplicate(r) \/ P!QueryFails(r)
  <2>1. /\ UNCHANGED <<db, disk, dto>> /\ pc[r] # "idle"
        /\ txn' = [txn EXCEPT ![r] = NoWrites]
        /\ \E to \in {"duplicate", "abort"} : pc' = [pc EXCEPT ![r] = to]
    BY <1>3 DEF P!AnswerDuplicate, P!QueryFails, P!AbortTxn, P!Write, P!NoWrites, NoWrites,
                P!Goto, P!InTxn
  <2>2. /\ pc'[r] \in {"duplicate", "abort"} /\ txn'[r] = NoWrites
        /\ \A q \in Requests \ {r} : pc'[q] = pc[q] /\ txn'[q] = txn[q]
        /\ \A c \in Creates : txn'[c] = txn[c]
    BY <1>0, <2>1
  <2>. QED BY <1>0, <2>1, <2>2, QuietStep DEF P!Recording
<1>. QED BY <1>1, <1>2, <1>3, InsertIpnCore, InsertLedgerCore, UpdateJobCore, CommitCore
         DEF P!Handle

-----------------------------------------------------------------------------
(* The inductive invariant: the other services and the failures *)

\* Whoever takes a job takes one that is CREATED and that no payment has locked, and the
\* audit row is about no other table.
LEMMA AcceptCore == IInv /\ Accept => Core'
<1>. SUFFICES ASSUME IInv, A!Local, UNCHANGED <<pc, dto, at>>
              PROVE  Core'
  BY DEF Accept, payVars, createVars
<1>0. Typed /\ Sent /\ Core /\ Requests \subseteq Clients /\ Requests \cap Accepts = {}
  BY MarketplaceAssumption DEF IInv, TypeInv
<1>1. ASSUME NEW a \in Accepts, A!TakeJob(a) PROVE Core'
  <2>. DEFINE j == bid[a].job
              row == [state |-> "ACCEPTED", worker |-> bid[a].actor]
              w == JobWrite(j, row)
  <2>1. /\ stage[a] = "update" /\ txn' = txn
        /\ db.jobs[j] # NoRow /\ db.jobs[j].state = "CREATED"
        /\ \A d \in Clients \ {a} : txn[d].jobs[j] = NoRow
        /\ bid[a].actor \in Workers
        /\ db' = Merge(db, w) /\ (disk' = db' \/ disk' = disk)
    BY <1>1, TakeEffect
  <2>2. j \in JobIds /\ row \in JobRow /\ row # NoRow
    BY <1>0, <2>1, RowType, MarketplaceAssumption DEF Sent
  <2>3. /\ w.ipn = {} /\ w.ledger = {} /\ w.jobs[j] = row
        /\ \A i \in JobIds \ {j} : w.jobs[i] = NoRow
    BY <2>2, JobWriteType
  <2>4. row.state # "PAID"
    OBVIOUS
  <2>. HIDE DEF j, row, w
  <2>5. /\ db'.ipn = db.ipn /\ db'.ledger = db.ledger
        /\ db'.jobs[j] = row /\ \A i \in JobIds \ {j} : db'.jobs[i] = db.jobs[i]
    BY <2>1, <2>2, <2>3 DEF Merge
  <2>6. \A r \in Requests : txn[r].jobs[j] = NoRow
    BY <1>0, <2>1
  <2>. QED BY <2>1, <2>2, <2>4, <2>5, <2>6, TablesStep
<1>2. ASSUME NEW a \in Accepts, NEW end \in {"accepted", "error"}, A!Audit(a, end) PROVE Core'
  <2>. DEFINE w == [NoWrites EXCEPT !.audit =
                      {[id |-> a, actor |-> bid[a].actor, job |-> bid[a].job]}]
  <2>1. txn' = txn /\ db' = Merge(db, w) /\ (disk' = db' \/ disk' = disk)
    BY <1>2, AuditEffect
  <2>2. /\ db'.ipn = db.ipn /\ db'.ledger = db.ledger
        /\ \A i \in JobIds : db'.jobs[i] = db.jobs[i]
    BY <2>1 DEF Merge, NoWrites
  <2>. QED BY <2>1, <2>2, TablesStep
<1>3. CASE UNCHANGED <<db, disk, txn>>
  BY <1>3, TablesStep
<1>. QED BY <1>1, <1>2, <1>3, AcceptQuiet DEF AcceptCommits

\* The row that createJob inserts is new, so its COMMIT changes no row that anybody has
\* read.
LEMMA CreateCommitCore ==
  ASSUME IInv, NEW c \in Creates, C!Commit(c), UNCHANGED <<pc, dto>>
  PROVE  Core'
<1>0. /\ Typed /\ Sent /\ Core /\ NewJob \in [Creates -> JobIds]
      /\ \A d, e \in Creates : NewJob[d] = NewJob[e] => d = e
      /\ Requests \subseteq Clients /\ Creates \subseteq Clients /\ Requests \cap Creates = {}
      /\ \A r \in Requests : pc[r] # "idle" => dto[r].job \in JobIds
  BY MarketplaceAssumption, CreateAssumption DEF IInv, TypeInv, Sent, Notification
<1>. DEFINE j == NewJob[c]
            w == JobWrite(j, NewRow)
<1>1. /\ at[c] = "commit" /\ at' = [at EXCEPT ![c] = "push"]
      /\ txn' = [txn EXCEPT ![c] = NoWrites]
      /\ db' = Merge(db, w) /\ (disk' = db' \/ disk' = disk)
  BY <1>0, CreateEffect DEF Core, CreateWrites
<1>2. /\ w.ipn = {} /\ w.ledger = {} /\ w.jobs[j] = NewRow /\ j \in JobIds
      /\ \A i \in JobIds \ {j} : w.jobs[i] = NoRow
  BY <1>0, RowType, JobWriteType
<1>3. db.jobs[j] = NoRow /\ NewRow # NoRow /\ NewRow.state # "PAID"
  BY <1>0, <1>1, RowType DEF Core, Fresh, Unborn, NewRow
<1>. HIDE DEF w
<1>4. /\ db'.ipn = db.ipn /\ db'.ledger = db.ledger
      /\ db'.jobs[j] = NewRow /\ \A i \in JobIds \ {j} : db'.jobs[i] = db.jobs[i]
  BY <1>1, <1>2, <1>3 DEF Merge
<1>5. /\ at'[c] = "push" /\ txn'[c] = NoWrites
      /\ \A d \in Creates \ {c} : at'[d] = at[d] /\ txn'[d] = txn[d]
      /\ \A r \in Requests : txn'[r] = txn[r]
  BY <1>0, <1>1 DEF Typed
<1>6. P!OnlySuccessIsBooked' /\ P!NewKeys'
  <2>1. P!OnlySuccessIsBooked'
    BY <1>0 DEF Core, P!OnlySuccessIsBooked
  <2>. QED BY <1>0, <1>4, <2>1 DEF Core, P!NewKeys, P!RecordedKeys
<1>7. PayWrites'
  <2>1. \A r \in Requests : P!Wrote(r, txn'[r], dto'[r], pc'[r]) /\ txn'[r].audit = {}
    BY <1>0, <1>5 DEF Core, PayWrites
  <2>. QED BY <2>1 DEF PayWrites, P!Wrote, P!Entries
<1>8. P!Keyed(db)' /\ P!Keyed(disk)'
  BY <1>0, <1>1, <1>4 DEF Core, P!Keyed
<1>9. P!Settled(db)' /\ P!Settled(disk)'
  <2>1. P!Settled(db')
    BY <1>0, <1>3, <1>4 DEF Core, P!Settled
  <2>. QED BY <1>0, <1>1, <2>1 DEF Core, P!Settled, P!Entries, P!IsSuccess
<1>10. PaidOver'
  <2>1. \A r \in Requests : PaysFor(r)' <=> PaysFor(r)
    BY DEF PaysFor
  <2>2. ASSUME NEW r \in Requests, PaysFor(r) PROVE db'.jobs[dto[r].job] = db.jobs[dto[r].job]
    <3>1. dto[r].job \in JobIds /\ db.jobs[dto[r].job] # NoRow
      BY <1>0, <2>2 DEF PaysFor, Core, PaidOver
    <3>. QED BY <1>3, <1>4, <3>1
  <2>. QED BY <1>0, <1>5, <2>1, <2>2 DEF Core, PaidOver
<1>11. CreateWrites'
  BY <1>0, <1>5 DEF Core, CreateWrites, JobWrite, NewRow, NoWrites
<1>12. Fresh'
  <2>. SUFFICES ASSUME NEW d \in Creates, at'[d] \in Unborn
                PROVE  db'.jobs[NewJob[d]] = NoRow /\ disk'.jobs[NewJob[d]] = NoRow
    BY DEF Fresh
  <2>1. d # c /\ at[d] \in Unborn /\ NewJob[d] # j /\ NewJob[d] \in JobIds
    BY <1>0, <1>5 DEF Unborn
  <2>. QED BY <1>0, <1>1, <1>4, <2>1 DEF Core, Fresh
<1>. QED BY <1>6, <1>7, <1>8, <1>9, <1>10, <1>11, <1>12 DEF Core

\* The INSERT of createJob is uncommitted.
LEMMA CreateInsertCore ==
  ASSUME IInv, NEW c \in Creates, C!Insert(c), UNCHANGED <<pc, dto>>
  PROVE  Core'
<1>0. /\ Typed /\ Core
      /\ Requests \subseteq Clients /\ Creates \subseteq Clients /\ Requests \cap Creates = {}
  BY MarketplaceAssumption, CreateAssumption DEF IInv, TypeInv
<1>1. /\ at[c] = "insert" /\ at'[c] = "commit" /\ txn'[c] = JobWrite(NewJob[c], NewRow)
      /\ \A d \in Creates \ {c} : at'[d] = at[d] /\ txn'[d] = txn[d]
      /\ \A r \in Requests : txn'[r] = txn[r]
      /\ UNCHANGED <<db, disk>>
  BY <1>0, InsertEffect DEF Typed
<1>2. P!OnlySuccessIsBooked' /\ P!NewKeys'
  <2>1. P!OnlySuccessIsBooked'
    BY <1>0 DEF Core, P!OnlySuccessIsBooked
  <2>. QED BY <1>0, <1>1, <2>1 DEF Core, P!NewKeys, P!RecordedKeys
<1>3. PayWrites'
  <2>1. \A r \in Requests : P!Wrote(r, txn'[r], dto'[r], pc'[r]) /\ txn'[r].audit = {}
    BY <1>0, <1>1 DEF Core, PayWrites
  <2>. QED BY <2>1 DEF PayWrites, P!Wrote, P!Entries
<1>4. P!Keyed(db)' /\ P!Keyed(disk)'
  BY <1>0, <1>1 DEF Core, P!Keyed
<1>5. P!Settled(db)' /\ P!Settled(disk)'
  BY <1>0, <1>1 DEF Core, P!Settled, P!Entries, P!IsSuccess
<1>6. PaidOver'
  BY <1>0, <1>1 DEF Core, PaidOver, PaysFor
<1>7. CreateWrites'
  BY <1>0, <1>1 DEF Core, CreateWrites, JobWrite, NewRow, NoWrites
<1>8. Fresh'
  BY <1>0, <1>1 DEF Core, Fresh, Unborn
<1>. QED BY <1>2, <1>3, <1>4, <1>5, <1>6, <1>7, <1>8 DEF Core

\* A step of createJob preserves the invariant.
LEMMA CreateCore == IInv /\ Create => Core'
<1>. SUFFICES ASSUME IInv, C!Local, UNCHANGED <<pc, dto>>
              PROVE  Core'
  BY DEF Create, payVars
<1>0. /\ Typed /\ Core
      /\ Requests \subseteq Clients /\ Creates \subseteq Clients /\ Requests \cap Creates = {}
      /\ \A r \in Requests : pc[r] \notin P!Recording \/ pc[r] \in P!Recording
  BY MarketplaceAssumption, CreateAssumption DEF IInv, TypeInv
<1>a. ASSUME UNCHANGED <<db, disk, txn, at>> PROVE Core'
  BY <1>0, <1>a, QuietStep DEF Core, CreateWrites
<1>b. ASSUME NEW c \in Creates, NEW from, NEW to, C!Step(c, from, to), to # "commit",
             to \in Unborn => from \in Unborn,
             UNCHANGED <<db, disk>>,
             txn' = [txn EXCEPT ![c] = NoWrites] \/ (txn' = txn /\ from # "commit")
      PROVE  Core'
  <2>1. /\ at[c] = from /\ at'[c] = to
        /\ \A d \in Creates \ {c} : at'[d] = at[d] /\ txn'[d] = txn[d]
        /\ \A r \in Requests : txn'[r] = txn[r]
        /\ txn'[c] = NoWrites \/ (txn'[c] = txn[c] /\ from # "commit")
    BY <1>0, <1>b DEF Typed, C!Step
  <2>2. \A d \in Creates : at[d] # "commit" => txn[d] = NoWrites
    BY <1>0 DEF Core, CreateWrites
  <2>3. \A d \in Creates :
          IF at'[d] = "commit" THEN at[d] = "commit" /\ txn'[d] = txn[d]
          ELSE txn'[d] = NoWrites \/ (txn'[d] = txn[d] /\ at[d] # "commit")
    BY <1>b, <2>1, <2>2
  <2>4. \A d \in Creates : at'[d] \in Unborn => at[d] \in Unborn
    BY <1>b, <2>1
  <2>. QED BY <1>b, <2>1, <2>3, <2>4, QuietStep
<1>1. ASSUME NEW c \in Creates,
             C!Ask(c) \/ C!Connect(c) \/ C!ConnectFails(c) \/ C!Push(c) \/ C!PushRejected(c)
               \/ C!Search(c) \/ C!Abort(c)
      PROVE  Core'
  <2>1. UNCHANGED <<db, disk, txn>>
    BY <1>1 DEF C!Ask, C!Connect, C!ConnectFails, C!Push, C!PushRejected, C!Search, C!Abort,
                C!pgVars
  <2>2. \/ C!Step(c, "idle", "connecting") \/ C!Step(c, "connecting", "insert")
        \/ C!Step(c, "connecting", "error") \/ C!Step(c, "push", "search")
        \/ C!Step(c, "push", "abort") \/ C!Step(c, "search", "created")
        \/ C!Step(c, "abort", "error")
    BY <1>1 DEF C!Ask, C!Connect, C!ConnectFails, C!Push, C!PushRejected, C!Search, C!Abort
  <2>. QED BY <1>b, <2>1, <2>2 DEF Unborn
<1>2. ASSUME NEW c \in Creates, C!CallFails(c) PROVE Core'
  <2>1. UNCHANGED <<db, disk>> /\ txn' = [txn EXCEPT ![c] = NoWrites]
          /\ \E s : C!Step(c, s, "abort")
    BY <1>2 DEF C!CallFails, C!AbortTxn, C!Write, C!NoWrites, NoWrites
  <2>. QED BY <1>b, <2>1 DEF Unborn
<1>3. ASSUME NEW c \in Creates, C!PushUnanswered(c) PROVE Core'
  BY <1>3, <1>a DEF C!PushUnanswered, C!pgVars
<1>4. CASE C!QueueLost
  BY <1>4, <1>a DEF C!QueueLost, C!pgVars
<1>. QED BY <1>1, <1>2, <1>3, <1>4, CreateInsertCore, CreateCommitCore DEF C!Local, C!Handle

\* The death of a process drops the write sets of the requests that die.
LEMMA CrashCore ==
  ASSUME IInv, NEW p \in Procs, Crash(p)
  PROVE  Core'
<1>0. /\ Core /\ Requests \subseteq Clients /\ Creates \subseteq Clients
      /\ \A c \in Creates : at[c] # "commit" => txn[c] = NoWrites
  BY MarketplaceAssumption, CreateAssumption DEF IInv, Core, CreateWrites
<1>1. /\ UNCHANGED <<db, disk, dto>>
      /\ \A r \in Requests :
           pc'[r] = IF Home[r] = p /\ pc[r] \in {"connecting"} \cup P!InTxn THEN "dead" ELSE pc[r]
      /\ \A c \in Creates :
           at'[c] = IF Home[c] = p /\ at[c] \in {"connecting"} \cup C!Holding THEN "dead" ELSE at[c]
      /\ \A c \in Clients : txn'[c] = IF Home[c] = p THEN NoWrites ELSE txn[c]
  BY CrashEffect
<1>2. \A r \in Requests :
        IF pc'[r] \in P!Recording THEN pc'[r] = pc[r] /\ txn'[r] = txn[r]
        ELSE txn'[r] = NoWrites \/ (txn'[r] = txn[r] /\ pc[r] \notin P!Recording)
  BY <1>0, <1>1 DEF P!Recording, P!InTxn
<1>3. \A c \in Creates :
        /\ IF at'[c] = "commit" THEN at[c] = "commit" /\ txn'[c] = txn[c]
           ELSE txn'[c] = NoWrites \/ (txn'[c] = txn[c] /\ at[c] # "commit")
        /\ at'[c] \in Unborn => at[c] \in Unborn
  BY <1>0, <1>1 DEF Unborn, C!Holding, C!InTxn
<1>. QED BY <1>1, <1>2, <1>3, QuietStep DEF P!InTxn

\* A restart of the server puts the durable tables, which are settled and keyed, in the
\* place of the committed ones, and drops every write set.
LEMMA PgCrashCore ==
  ASSUME IInv, PgCrash
  PROVE  Core'
<1>0. /\ Core /\ Requests \subseteq Clients /\ Creates \subseteq Clients
  BY MarketplaceAssumption, CreateAssumption DEF IInv
<1>1. /\ UNCHANGED <<disk, dto>> /\ db' = disk
      /\ \A c \in Clients : txn'[c] = NoWrites
      /\ \A r \in Requests : pc'[r] \notin P!Recording /\ (pc[r] # "idle" => pc'[r] # "idle")
      /\ \A c \in Creates : at'[c] # "commit" /\ (at'[c] \in Unborn => at[c] \in Unborn)
  BY PgCrashEffect DEF P!Recording, P!InTxn, C!InTxn, Unborn
<1>2. P!OnlySuccessIsBooked' /\ P!NewKeys' /\ PaidOver'
  BY <1>1 DEF P!OnlySuccessIsBooked, P!NewKeys, P!Recording, PaidOver, PaysFor
<1>3. PayWrites'
  BY <1>0, <1>1, NothingWritten DEF PayWrites
<1>4. P!Keyed(db)' /\ P!Keyed(disk)'
  BY <1>0, <1>1 DEF Core, P!Keyed
<1>5. P!Settled(db)' /\ P!Settled(disk)'
  BY <1>0, <1>1 DEF Core, P!Settled, P!Entries, P!IsSuccess
<1>6. CreateWrites' /\ Fresh'
  BY <1>0, <1>1 DEF Core, CreateWrites, Fresh
<1>. QED BY <1>2, <1>3, <1>4, <1>5, <1>6 DEF Core

\* A flush of the WAL puts the committed tables in the place of the durable.
LEMMA FlushCore ==
  ASSUME IInv, Flush
  PROVE  Core'
<1>1. UNCHANGED <<pc, dto, at, db, txn>> /\ disk' = db'
  BY DEF Flush, WalFlush, payVars, createVars
<1>. QED BY <1>1, TablesStep

\* The invariant is inductive: one case per service and failure.
LEMMA Inductive == IInv /\ [Next]_vars => IInv'
<1>. SUFFICES ASSUME IInv, [Next]_vars
              PROVE  Core'
  BY TypeStep DEF IInv
<1>1. CASE UNCHANGED vars
  <2>1. UNCHANGED <<pc, dto, at, db, disk, txn>>
    BY <1>1 DEF vars, payVars, createVars, pgVars
  <2>. QED BY <2>1, TablesStep
<1>. QED BY <1>1, PayCore, AcceptCore, CreateCore, CrashCore, PgCrashCore, FlushCore DEF Next

\* The invariant that ties the open transactions of the three services to the committed
\* tables and to the durable ones holds in every reachable state.
THEOREM Invariance == Spec => []IInv
<1>1. Init => IInv
  BY InitType, InitCore DEF IInv
<1>. QED BY <1>1, Inductive, PTL DEF Spec

\* Accepting and creating jobs does not disturb the settlement: the ledger, the IPN log
\* and the PAID jobs agree, in memory and on disk, synchronous commits or not.
THEOREM SettlementIsAtomic == Spec => []SettlementAtomic
<1>1. IInv => SettlementAtomic
  BY DEF IInv, Core, SettlementAtomic, P!SettlementAtomic
<1>. QED BY Invariance, <1>1, PTL

\* One (gateway, transaction_id) moves money at most once, though other services write
\* the rows of the jobs that it pays for.
THEOREM ChargedOnce == Spec => []P!NoDuplicateCharge
<1>1. ASSUME NEW s \in {db, disk}, IInv, NEW a \in s.ledger, NEW b \in s.ledger,
             dto[a.id].key = dto[b.id].key, a.type = b.type
      PROVE  a = b
  <2>0. P!Settled(s) /\ P!Keyed(s)
    BY <1>1 DEF IInv, Core
  <2>1. PICK x \in s.ipn : a \in P!Entries(x.id, x.note)
    BY <1>1, <2>0 DEF P!Settled
  <2>2. PICK y \in s.ipn : b \in P!Entries(y.id, y.note)
    BY <1>1, <2>0 DEF P!Settled
  <2>3. a.id = x.id /\ b.id = y.id
    BY <2>1, <2>2 DEF P!Entries
  <2>4. x = y
    BY <1>1, <2>0, <2>3 DEF P!Keyed
  <2>. QED BY <1>1, <2>1, <2>2, <2>4 DEF P!Entries
<1>2. IInv => P!NoDuplicateCharge
  BY <1>1 DEF P!NoDuplicateCharge
<1>. QED BY Invariance, <1>2, PTL

-----------------------------------------------------------------------------
(***************************************************************************)
(* Synchronous commits: then the disk is never behind, a restart of the    *)
(* server takes nothing back, and no step takes a job back.                *)
(***************************************************************************)

\* A row may come after old: a job does not disappear, is not CREATED again, keeps its
\* worker once taken, and is not un-paid.
Later(old, new) ==
  old # NoRow =>
    /\ new # NoRow
    /\ old.state # "CREATED" => new.state # "CREATED" /\ new.worker = old.worker
    /\ old.state = "PAID" => new.state = "PAID"

Forward == \A j \in JobIds : Later(db.jobs[j], db'.jobs[j])

\* What a step that leaves the audit log alone, and brings no accept past its UPDATE, keeps
\* for acceptJob if jobs move forward.
LEMMA AcceptsKept ==
  ASSUME IInv, Winners, Audited, Forward, db'.audit = db.audit,
         \A a \in Accepts : stage'[a] \in Won => stage[a] \in Won /\ bid'[a] = bid[a],
         \A a \in Accepts : stage'[a] \in Audits => stage[a] \in Audits
  PROVE  Winners' /\ Audited'
<1>0. /\ \A a \in Accepts : stage[a] \in Won => bid[a] \in Bids /\ bid[a].job \in JobIds
      /\ \A x \in db.audit : x.job \in JobIds
      /\ Audits \subseteq Won
  BY MarketplaceAssumption DEF IInv, TypeInv, Typed, Sent, Tables, AuditRow, Won, Audits
<1>1. \A b : b.job \in JobIds /\ TakenBy(db, b) => TakenBy(db', b)
  BY DEF Forward, Later, TakenBy, Taken
<1>2. Winners'
  <2>1. \A a \in Accepts : stage'[a] \in Won => TakenBy(db', bid'[a])
    BY <1>0, <1>1 DEF Winners
  <2>2. \A a, b \in Accepts :
          stage'[a] \in Won /\ stage'[b] \in Won /\ bid'[a].job = bid'[b].job => a = b
    BY DEF Winners
  <2>. QED BY <2>1, <2>2 DEF Winners, TakenBy, Taken
<1>3. Audited'
  <2>1. \A x \in db'.audit : TakenBy(db', x)
    BY <1>0, <1>1 DEF Audited
  <2>2. \A x, y \in db'.audit : x.job = y.job => x = y
    BY DEF Audited
  <2>3. \A x \in db'.audit, a \in Accepts : stage'[a] \in Audits => bid'[a].job # x.job
    BY <1>0 DEF Audited
  <2>. QED BY <2>1, <2>2, <2>3 DEF Audited, TakenBy, Taken
<1>. QED BY <1>2, <1>3

\* What a step keeps for createJob if jobs move forward, it commits no new job and queues
\* none.
LEMMA StoredKept ==
  ASSUME IInv, Stored, Forward,
         \A c \in Creates : at'[c] \in Born => at[c] \in Born,
         queue' = queue \/ queue' = <<>>
  PROVE  Stored'
<1>0. NewJob \in [Creates -> JobIds] /\ C!ToSet(queue) \subseteq JobIds
  BY CreateAssumption DEF IInv, TypeInv, Typed, C!ToSet
<1>1. C!ToSet(queue') \subseteq C!ToSet(queue)
  BY DEF C!ToSet
<1>2. \A c \in Creates : at'[c] \in Born => db'.jobs[NewJob[c]] # NoRow
  BY <1>0 DEF Stored, Forward, Later
<1>3. \A j \in C!ToSet(queue') : db'.jobs[j] # NoRow
  BY <1>0, <1>1 DEF Stored, Forward, Later
<1>. QED BY <1>2, <1>3 DEF Stored, C!ToSet

\* No rows, no news.
LEMMA SameForward == db' = db => Forward
  BY DEF Forward, Later

\* The UPDATE of handleWebhook marks a row PAID and changes nothing else of it, whoever has
\* written the row in the meantime.
LEMMA PayForward ==
  ASSUME IInv, P!Local, syncCommit, disk = db
  PROVE  Forward /\ disk' = db' /\ db'.audit = db.audit
<1>1. ASSUME NEW r \in Requests, P!Commit(r)
      PROVE  Forward /\ disk' = db' /\ db'.audit = db.audit
  <2>1. /\ disk' = db' /\ db'.audit = db.audit
        /\ \A j \in JobIds :
             db'.jobs[j] = IF PaysFor(r) /\ j = dto[r].job
                           THEN [db.jobs[j] EXCEPT !.state = "PAID"] ELSE db.jobs[j]
        /\ PaysFor(r) => db.jobs[dto[r].job] \in JobRow
    BY <1>1, PayEffect
  <2>2. \A row \in JobRow : Later(row, [row EXCEPT !.state = "PAID"])
    <3>. SUFFICES ASSUME NEW row \in JobRow
                  PROVE  Later(row, [row EXCEPT !.state = "PAID"])
      OBVIOUS
    <3>1. [row EXCEPT !.state = "PAID"] \in JobRow
      BY DEF JobRow, JobStates
    <3>. QED BY <3>1, SeedAssumption DEF JobRow, Later
  <2>3. \A row : Later(row, row)
    BY DEF Later
  <2>. QED BY <2>1, <2>2, <2>3 DEF Forward
<1>2. CASE \A r \in Requests : ~ P!Commit(r)
  <2>1. UNCHANGED <<db, disk>>
    BY <1>2 DEF P!Local, P!Handle, P!Receive, P!Connect, P!ConnectFails, P!InsertIpn,
                P!InsertLedger, P!UpdateJob, P!AnswerProcessed, P!AnswerDuplicate, P!Abort,
                P!QueryFails, P!pgVars
  <2>. QED BY <2>1, SameForward
<1>. QED BY <1>1, <1>2

\* The UPDATE of acceptJob gives a CREATED job to its actor, and its audit row is about no
\* other table.
LEMMA AcceptForward ==
  ASSUME IInv, A!Local, syncCommit, disk = db
  PROVE  Forward /\ disk' = db'
<1>0. \A a \in Accepts : stage[a] # "idle" => bid[a].actor \in Users /\ bid[a].job \in JobIds
  BY MarketplaceAssumption DEF IInv, TypeInv, Sent
<1>1. ASSUME NEW a \in Accepts, A!TakeJob(a)
      PROVE  Forward /\ disk' = db'
  <2>. DEFINE j == bid[a].job
              row == [state |-> "ACCEPTED", worker |-> bid[a].actor]
              w == JobWrite(j, row)
  <2>1. /\ stage[a] = "update" /\ bid[a].actor \in Workers
        /\ db.jobs[j].state = "CREATED"
        /\ db' = Merge(db, w) /\ disk' = db'
    BY <1>1, TakeEffect
  <2>2. j \in JobIds /\ row \in JobRow /\ row # NoRow
    BY <1>0, <2>1, RowType
  <2>3. w.jobs[j] = row /\ \A i \in JobIds \ {j} : w.jobs[i] = NoRow
    BY <2>2, JobWriteType
  <2>. HIDE DEF j, row, w
  <2>4. db'.jobs[j] = row /\ \A i \in JobIds \ {j} : db'.jobs[i] = db.jobs[i]
    BY <2>1, <2>2, <2>3 DEF Merge
  <2>. QED BY <2>1, <2>2, <2>4 DEF Forward, Later
<1>2. ASSUME NEW a \in Accepts, NEW end \in {"accepted", "error"}, A!Audit(a, end)
      PROVE  Forward /\ disk' = db'
  <2>. DEFINE w == [NoWrites EXCEPT !.audit =
                      {[id |-> a, actor |-> bid[a].actor, job |-> bid[a].job]}]
  <2>1. db' = Merge(db, w) /\ disk' = db'
    BY <1>2, AuditEffect
  <2>2. \A i \in JobIds : db'.jobs[i] = db.jobs[i]
    BY <2>1 DEF Merge, NoWrites
  <2>. QED BY <2>1, <2>2 DEF Forward, Later
<1>3. CASE UNCHANGED <<db, disk>>
  BY <1>3, SameForward
<1>. QED BY <1>1, <1>2, <1>3, AcceptQuiet DEF AcceptCommits

\* The COMMIT of createJob adds a row where there is none.
LEMMA CreateForward ==
  ASSUME IInv, C!Local, syncCommit, disk = db
  PROVE  /\ Forward /\ disk' = db' /\ db'.audit = db.audit
         /\ \A c \in Creates : C!Commit(c) => db'.jobs[NewJob[c]] # NoRow
<1>1. ASSUME NEW c \in Creates, C!Commit(c)
      PROVE  /\ Forward /\ disk' = db' /\ db'.audit = db.audit
             /\ db'.jobs[NewJob[c]] # NoRow
  <2>. DEFINE j == NewJob[c]
              w == JobWrite(j, NewRow)
  <2>0. Core /\ j \in JobIds
    BY CreateAssumption DEF IInv
  <2>1. at[c] = "commit" /\ db' = Merge(db, w) /\ disk' = db'
    BY <1>1, <2>0, CreateEffect DEF Core, CreateWrites
  <2>2. w.jobs[j] = NewRow /\ w.audit = {} /\ \A i \in JobIds \ {j} : w.jobs[i] = NoRow
    BY <2>0, RowType, JobWriteType DEF JobWrite, NoWrites
  <2>3. db.jobs[j] = NoRow /\ NewRow # NoRow
    BY <2>0, <2>1, RowType DEF Core, Fresh, Unborn
  <2>. HIDE DEF j, w
  <2>4. /\ db'.audit = db.audit /\ db'.jobs[j] = NewRow
        /\ \A i \in JobIds \ {j} : db'.jobs[i] = db.jobs[i]
    BY <2>0, <2>1, <2>2, <2>3 DEF Merge
  <2>5. Forward
    BY <2>3, <2>4 DEF Forward, Later
  <2>. QED BY <2>1, <2>3, <2>4, <2>5 DEF j
<1>2. CASE \A c \in Creates : ~ C!Commit(c)
  <2>1. UNCHANGED <<db, disk>>
    BY <1>2 DEF C!Local, C!Handle, C!Ask, C!Connect, C!ConnectFails, C!Insert, C!Push,
                C!PushUnanswered, C!PushRejected, C!Search, C!Abort, C!CallFails, C!QueueLost,
                C!pgVars
  <2>. QED BY <1>2, <2>1, SameForward
<1>3. ASSUME NEW c \in Creates, C!Commit(c)
      PROVE  \A d \in Creates : C!Commit(d) => db'.jobs[NewJob[d]] # NoRow
  BY <1>1
<1>. QED BY <1>1, <1>2, <1>3

\* No step takes a job back, and the disk is never behind.
LEMMA StepForward ==
  ASSUME IInv, [Next]_vars, syncCommit, disk = db
  PROVE  Forward /\ disk' = db'
<1>1. ASSUME UNCHANGED <<db, disk>>
      PROVE  Forward /\ disk' = db'
  BY <1>1, SameForward
<1>2. ASSUME NEW p \in Procs, Crash(p) PROVE Forward /\ disk' = db'
  BY <1>1, <1>2, CrashEffect
<1>3. CASE PgCrash
  <2>1. db' = db /\ disk' = disk
    BY <1>3, PgCrashEffect
  <2>. QED BY <1>1, <2>1
<1>4. CASE Flush
  BY <1>4 DEF Flush, WalFlush
<1>5. CASE UNCHANGED vars
  BY <1>1, <1>5 DEF vars, pgVars
<1>6. CASE Pay
  BY <1>6, PayForward DEF Pay
<1>7. CASE Accept
  BY <1>7, AcceptForward DEF Accept
<1>8. CASE Create
  BY <1>8, CreateForward DEF Create
<1>. QED BY <1>2, <1>3, <1>4, <1>5, <1>6, <1>7, <1>8 DEF Next

-----------------------------------------------------------------------------
(* What synchronous commits promise to workers, customers and matching *)

\* An accept that comes through its UPDATE has the job, and no other accept has it.
LEMMA TakeWins ==
  ASSUME IInv, Winners, Audited, Forward, NEW a \in Accepts, A!TakeJob(a)
  PROVE  Winners' /\ Audited'
<1>. DEFINE j == bid[a].job
            row == [state |-> "ACCEPTED", worker |-> bid[a].actor]
            w == JobWrite(j, row)
<1>0. /\ stage \in [Accepts -> Stages]
      /\ \A d \in Accepts : stage[d] # "idle" => bid[d].actor \in Users /\ bid[d].job \in JobIds
      /\ \A x \in db.audit : x.job \in JobIds
      /\ "idle" \notin Won /\ Audits \subseteq Won /\ "connectAudit" \in Audits
  BY MarketplaceAssumption
     DEF IInv, TypeInv, Typed, Sent, Tables, AuditRow, Won, Audits
<1>1. /\ stage[a] = "update" /\ stage' = [stage EXCEPT ![a] = "connectAudit"] /\ bid' = bid
      /\ bid[a].actor \in Workers
      /\ db.jobs[j] # NoRow /\ db.jobs[j].state = "CREATED"
      /\ db' = Merge(db, w)
  BY TakeEffect
<1>2. j \in JobIds /\ row \in JobRow /\ row # NoRow
  BY <1>0, <1>1, RowType
<1>3. w.jobs[j] = row /\ w.audit = {}
  BY <1>2, JobWriteType
<1>4. row.state # "CREATED" /\ row.worker = bid[a].actor
  OBVIOUS
<1>. HIDE DEF w, row
<1>5. db'.audit = db.audit /\ db'.jobs[j] = row
  BY <1>1, <1>2, <1>3 DEF Merge
<1>6. \A b : b.job \in JobIds /\ TakenBy(db, b) => b.job # j /\ TakenBy(db', b)
  BY <1>1 DEF Forward, Later, TakenBy, Taken
<1>7. TakenBy(db', bid[a])
  BY <1>2, <1>4, <1>5 DEF TakenBy, Taken
<1>8. /\ \A d \in Accepts \ {a} : stage'[d] = stage[d]
      /\ stage'[a] = "connectAudit"
  BY <1>0, <1>1
<1>. HIDE DEF j
<1>9. \A d \in Accepts \ {a} : stage'[d] \in Won => TakenBy(db', bid[d]) /\ bid[d].job # j
  BY <1>0, <1>6, <1>8 DEF Winners
<1>10. \A x \in db.audit : TakenBy(db', x) /\ x.job # j
  BY <1>0, <1>6 DEF Audited
<1>11. Winners'
  <2>1. \A d \in Accepts : stage'[d] \in Won => TakenBy(db', bid'[d])
    BY <1>1, <1>7, <1>9
  <2>2. \A d, e \in Accepts :
          stage'[d] \in Won /\ stage'[e] \in Won /\ bid'[d].job = bid'[e].job => d = e
    BY <1>1, <1>8, <1>9 DEF Winners, j
  <2>. QED BY <2>1, <2>2 DEF Winners, TakenBy, Taken
<1>12. Audited'
  <2>1. \A x \in db'.audit : TakenBy(db', x)
    BY <1>5, <1>10
  <2>2. \A x, y \in db'.audit : x.job = y.job => x = y
    BY <1>5 DEF Audited
  <2>3. \A x \in db'.audit, d \in Accepts : stage'[d] \in Audits => bid'[d].job # x.job
    BY <1>1, <1>5, <1>8, <1>10 DEF Audited, j
  <2>. QED BY <2>1, <2>2, <2>3 DEF Audited, TakenBy, Taken
<1>. QED BY <1>11, <1>12

\* The audit row of an accept names the job and the worker of its UPDATE, and no other row
\* or accept names the job.
LEMMA AuditNames ==
  ASSUME IInv, Winners, Audited, NEW a \in Accepts, NEW end \in {"accepted", "error"},
         A!Audit(a, end)
  PROVE  Winners' /\ Audited'
<1>. DEFINE x == [id |-> a, actor |-> bid[a].actor, job |-> bid[a].job]
            w == [NoWrites EXCEPT !.audit = {x}]
<1>0. /\ stage \in [Accepts -> Stages]
      /\ \A d \in Accepts : stage[d] # "idle" => bid[d].actor \in Users /\ bid[d].job \in JobIds
      /\ \A y \in db.audit : y.job \in JobIds
  BY MarketplaceAssumption DEF IInv, TypeInv, Typed, Sent, Tables, AuditRow
<1>1. /\ stage[a] = "audit" /\ stage' = [stage EXCEPT ![a] = end] /\ bid' = bid
      /\ db' = Merge(db, w)
  BY AuditEffect
<1>2. stage[a] \in Won /\ stage[a] \in Audits /\ end \notin Audits /\ "idle" \notin Won
        /\ Audits \subseteq Won
  BY <1>1 DEF Won, Audits
<1>3. db'.audit = db.audit \cup {x} /\ \A i \in JobIds : db'.jobs[i] = db.jobs[i]
  BY <1>1 DEF Merge, NoWrites
<1>4. x.actor = bid[a].actor /\ x.job = bid[a].job
  OBVIOUS
<1>. HIDE DEF x, w
<1>5. \A b : b.job \in JobIds /\ TakenBy(db, b) => TakenBy(db', b)
  BY <1>3 DEF TakenBy, Taken
<1>6. TakenBy(db', x)
  <2>1. TakenBy(db', bid[a])
    BY <1>0, <1>1, <1>2, <1>5 DEF Winners
  <2>. QED BY <1>4, <2>1 DEF TakenBy
<1>7. /\ \A d \in Accepts \ {a} : stage'[d] = stage[d]
      /\ stage'[a] \notin Audits
  BY <1>0, <1>1, <1>2
<1>8. \A d \in Accepts : stage'[d] \in Won => stage[d] \in Won
  BY <1>2, <1>7
<1>9. Winners'
  <2>1. \A d \in Accepts : stage'[d] \in Won => TakenBy(db', bid'[d])
    <3>1. \A d \in Accepts : stage[d] \in Won => bid[d].job \in JobIds
      BY <1>0, <1>2
    <3>. QED BY <1>1, <1>5, <1>8, <3>1 DEF Winners
  <2>2. \A d, e \in Accepts :
          stage'[d] \in Won /\ stage'[e] \in Won /\ bid'[d].job = bid'[e].job => d = e
    BY <1>1, <1>8 DEF Winners
  <2>. QED BY <2>1, <2>2 DEF Winners, TakenBy, Taken
<1>10. Audited'
  <2>1. \A y \in db'.audit : TakenBy(db', y)
    BY <1>0, <1>3, <1>5, <1>6 DEF Audited
  <2>2. \A y, z \in db'.audit : y.job = z.job => y = z
    BY <1>2, <1>3, <1>4 DEF Audited
  <2>3. \A y \in db'.audit, d \in Accepts : stage'[d] \in Audits => bid'[d].job # y.job
    <3>. SUFFICES ASSUME NEW y \in db'.audit, NEW d \in Accepts, stage'[d] \in Audits
                  PROVE  bid[d].job # y.job
      BY <1>1
    <3>1. d # a /\ stage[d] \in Audits
      BY <1>7
    <3>2. bid[d].job # bid[a].job
      BY <1>2, <3>1 DEF Winners
    <3>. QED BY <1>3, <1>4, <3>1, <3>2 DEF Audited
  <2>. QED BY <2>1, <2>2, <2>3 DEF Audited, TakenBy, Taken
<1>. QED BY <1>9, <1>10

\* A step of acceptJob keeps the winners and the audit log.
LEMMA AcceptSync ==
  ASSUME IInv, Winners, Audited, Forward, A!Local
  PROVE  Winners' /\ Audited'
<1>0. stage \in [Accepts -> Stages]
  BY DEF IInv, TypeInv, Typed
<1>1. ASSUME NEW a \in Accepts, AcceptCommits(a) PROVE Winners' /\ Audited'
  BY <1>1, TakeWins, AuditNames DEF AcceptCommits
<1>2. ASSUME \A a \in Accepts : ~ AcceptCommits(a) PROVE Winners' /\ Audited'
  <2>1. db' = db
    BY <1>2, AcceptQuiet
  <2>2. ASSUME NEW a \in Accepts, NEW to, stage' = [stage EXCEPT ![a] = to],
               to \in Audits => stage[a] \in Audits, to \in Won => stage[a] \in Won,
               \A d \in Accepts : stage'[d] \in Won => bid'[d] = bid[d]
        PROVE  Winners' /\ Audited'
    BY <1>0, <2>1, <2>2, AcceptsKept
  <2>3. ASSUME NEW a \in Accepts, A!Arrive(a) PROVE Winners' /\ Audited'
    <3>1. PICK b \in Bids : bid' = [bid EXCEPT ![a] = b]
      BY <2>3 DEF A!Arrive
    <3>2. stage' = [stage EXCEPT ![a] = "setnx"] /\ bid \in [Accepts -> Bids \cup {NoBid}]
      BY <2>3 DEF A!Arrive, IInv, TypeInv, Typed
    <3>3. \A d \in Accepts : stage'[d] \in Won => bid'[d] = bid[d]
      BY <1>0, <3>1, <3>2 DEF Won
    <3>. QED BY <2>2, <3>2, <3>3 DEF Won, Audits
  <2>4. ASSUME NEW a \in Accepts, NEW from, NEW to, A!Step(a, from, to),
               to \in Audits => from \in Audits, to \in Won => from \in Won
        PROVE  Winners' /\ Audited'
    BY <2>2, <2>4 DEF A!Step
  <2>5. ASSUME NEW a \in Accepts,
               A!SetNx(a) \/ A!Connect(a) \/ A!ConnectAudit(a) \/ A!FindNothing(a)
                 \/ A!NotAWorker(a) \/ A!GiveBack(a) \/ A!CallFails(a) \/ A!QueryFails(a)
                 \/ (\E end \in {"unavailable", "error"} : A!Del(a, end))
        PROVE  Winners' /\ Audited'
    <3>1. \/ A!Step(a, "connectAudit", "audit")
          \/ \E from, to : A!Step(a, from, to) /\ to \notin Won
      BY <2>5 DEF A!SetNx, A!Connect, A!ConnectAudit, A!FindNothing, A!NotAWorker, A!GiveBack,
                  A!CallFails, A!QueryFails, A!Del, Won
    <3>2. "audit" \in Audits /\ "audit" \in Won /\ "connectAudit" \in Audits
            /\ "connectAudit" \in Won /\ Audits \subseteq Won
      BY DEF Won, Audits
    <3>. QED BY <2>4, <3>1, <3>2
  <2>6. ASSUME UNCHANGED <<stage, bid>> PROVE Winners' /\ Audited'
    BY <2>1, <2>6, AcceptsKept
  <2>7. ASSUME NEW a \in Accepts, A!SetNxUnanswered(a) PROVE Winners' /\ Audited'
    BY <2>6, <2>7 DEF A!SetNxUnanswered
  <2>8. ASSUME NEW j \in JobIds, A!KeyLost(j) PROVE Winners' /\ Audited'
    BY <2>6, <2>8 DEF A!KeyLost
  <2>. QED BY <1>2, <2>3, <2>5, <2>7, <2>8
           DEF A!Local, A!Handle, A!EndUnanswered, AcceptCommits
<1>. QED BY <1>1, <1>2

\* A job has a row before it is queued, and before the client is told of it.
LEMMA CreateSync ==
  ASSUME IInv, Stored, syncCommit, disk = db, C!Local
  PROVE  Stored'
<1>0. /\ NewJob \in [Creates -> JobIds] /\ C!ToSet(queue) \subseteq JobIds
      /\ at \in [Creates -> Places] /\ queue \in Seq(JobIds)
  BY CreateAssumption DEF IInv, TypeInv, Typed, C!ToSet
<1>1. Forward /\ \A c \in Creates : C!Commit(c) => db'.jobs[NewJob[c]] # NoRow
  BY CreateForward
<1>2. ASSUME NEW c \in Creates, C!Commit(c) PROVE Stored'
  <2>1. at' = [at EXCEPT ![c] = "push"] /\ queue' = queue
    BY <1>2, CreateEffect
  <2>2. \A d \in Creates \ {c} : at'[d] = at[d]
    BY <1>0, <2>1
  <2>3. \A d \in Creates : at'[d] \in Born => db'.jobs[NewJob[d]] # NoRow
    BY <1>0, <1>1, <1>2, <2>2 DEF Stored, Forward, Later
  <2>4. \A j \in C!ToSet(queue) : db'.jobs[j] # NoRow
    BY <1>0, <1>1 DEF Stored, Forward, Later
  <2>. QED BY <2>1, <2>3, <2>4 DEF Stored, C!ToSet
<1>3. ASSUME NEW c \in Creates, C!Push(c) \/ C!PushUnanswered(c) PROVE Stored'
  <2>1. /\ queue' = <<NewJob[c]>> \o queue /\ db' = db /\ at[c] = "push"
        /\ at' = at \/ at' = [at EXCEPT ![c] = "search"]
    BY <1>3 DEF C!Push, C!PushUnanswered, C!Step, C!pgVars
  <2>2. \A d \in Creates : at'[d] \in Born => at[d] \in Born
    BY <1>0, <2>1 DEF Born
  <2>3. \A d \in Creates : at'[d] \in Born => db'.jobs[NewJob[d]] # NoRow
    BY <2>1, <2>2 DEF Stored
  <2>4. C!ToSet(queue') \subseteq {NewJob[c]} \cup C!ToSet(queue)
    BY <1>0, <2>1, PushType
  <2>5. db.jobs[NewJob[c]] # NoRow
    BY <2>1 DEF Stored, Born
  <2>6. \A j \in C!ToSet(queue') : db'.jobs[j] # NoRow
    BY <2>1, <2>4, <2>5 DEF Stored
  <2>. QED BY <2>3, <2>6 DEF Stored, C!ToSet
<1>4. ASSUME NEW c \in Creates, NEW from, NEW to, C!Step(c, from, to), queue' = queue,
             to \in Born => from \in Born
      PROVE  Stored'
  BY <1>0, <1>1, <1>4, StoredKept DEF C!Step
<1>5. ASSUME NEW c \in Creates,
             C!Ask(c) \/ C!Connect(c) \/ C!ConnectFails(c) \/ C!Insert(c) \/ C!PushRejected(c)
               \/ C!Search(c) \/ C!Abort(c) \/ C!CallFails(c)
      PROVE  Stored'
  <2>1. /\ queue' = queue
        /\ \/ C!Step(c, "search", "created")
           \/ \E from, to : C!Step(c, from, to) /\ to \notin Born
    BY <1>5 DEF C!Ask, C!Connect, C!ConnectFails, C!Insert, C!PushRejected, C!Search, C!Abort,
                C!CallFails, Born
  <2>2. "search" \in Born
    BY DEF Born
  <2>. QED BY <1>4, <2>1, <2>2
<1>6. CASE C!QueueLost
  BY <1>1, <1>6, StoredKept DEF C!QueueLost
<1>. QED BY <1>2, <1>3, <1>5, <1>6 DEF C!Local, C!Handle

\* A step that is not of createJob keeps what createJob promises, and one that is not of
\* acceptJob keeps what acceptJob promises.
LEMMA SyncStep == IInv /\ SyncInv /\ [Next]_vars => SyncInv'
<1>. SUFFICES ASSUME IInv, [Next]_vars, syncCommit, disk = db, Winners, Audited, Stored
              PROVE  disk' = db' /\ Winners' /\ Audited' /\ Stored'
  <2>1. [Next]_vars => syncCommit' = syncCommit
    BY DEF Next, SettingKept, vars
  <2>. QED BY <2>1 DEF SyncInv
<1>0. Forward /\ disk' = db'
  BY StepForward
<1>1. ASSUME UNCHANGED <<stage, bid>>, db'.audit = db.audit PROVE Winners' /\ Audited'
  BY <1>0, <1>1, AcceptsKept
<1>2. ASSUME UNCHANGED <<at, queue>> PROVE Stored'
  BY <1>0, <1>2, StoredKept
<1>3. CASE Pay
  <2>1. UNCHANGED <<stage, bid, at, queue>> /\ db'.audit = db.audit
    BY <1>3, PayForward DEF Pay, acceptVars, createVars
  <2>. QED BY <1>0, <1>1, <1>2, <2>1
<1>4. CASE Accept
  <2>1. A!Local /\ UNCHANGED <<at, queue>>
    BY <1>4 DEF Accept, createVars
  <2>. QED BY <1>0, <1>2, <2>1, AcceptSync
<1>5. CASE Create
  <2>1. C!Local /\ UNCHANGED <<stage, bid>>
    BY <1>5 DEF Create, acceptVars
  <2>. QED BY <1>0, <1>1, <2>1, CreateForward, CreateSync
<1>6. ASSUME UNCHANGED <<bid, queue>>, db' = db,
             \A a \in Accepts : stage'[a] \in Won => stage'[a] = stage[a],
             \A c \in Creates : at'[c] \in Born => at'[c] = at[c]
      PROVE  disk' = db' /\ Winners' /\ Audited' /\ Stored'
  <2>1. Audits \subseteq Won
    BY DEF Audits, Won
  <2>2. Winners' /\ Audited'
    BY <1>0, <1>6, <2>1, AcceptsKept
  <2>. QED BY <1>0, <1>6, <2>2, StoredKept
<1>7. ASSUME NEW p \in Procs, Crash(p)
      PROVE  disk' = db' /\ Winners' /\ Audited' /\ Stored'
  <2>1. "dead" \notin Won /\ "dead" \notin Born
    BY DEF Won, Born
  <2>. QED BY <1>6, <1>7, <2>1, CrashEffect
<1>8. CASE PgCrash
  <2>1. "release" \notin Won /\ "abort" \notin Born
    BY DEF Won, Born
  <2>. QED BY <1>6, <1>8, <2>1, PgCrashEffect
<1>9. CASE Flush
  <2>1. UNCHANGED <<stage, bid, at, queue, db>>
    BY <1>9 DEF Flush, WalFlush, acceptVars, createVars
  <2>. QED BY <1>6, <2>1
<1>10. CASE UNCHANGED vars
  <2>1. UNCHANGED <<stage, bid, at, queue, db>>
    BY <1>10 DEF vars, acceptVars, createVars, pgVars
  <2>. QED BY <1>6, <2>1
<1>. QED BY <1>3, <1>4, <1>5, <1>7, <1>8, <1>9, <1>10 DEF Next

\* At first nobody has won, nothing is audited and nothing is queued.
LEMMA InitSync == Init => SyncInv
<1>. SUFFICES ASSUME Init
              PROVE  disk = db /\ Winners /\ Audited /\ Stored
  BY DEF SyncInv
<1>1. /\ disk = db /\ db.audit = {} /\ queue = <<>>
      /\ \A a \in Accepts : stage[a] = "idle"
      /\ \A c \in Creates : at[c] = "idle"
  BY DEF Init, PgInit, NoWrites, A!LocalInit, C!LocalInit
<1>2. C!ToSet(queue) = {}
  BY <1>1 DEF C!ToSet
<1>. QED BY <1>1, <1>2 DEF Winners, Audited, Stored, Won, Audits, Born

\* What synchronous commits add holds in every reachable state.
THEOREM SyncInvariance == Spec => []SyncInv
  BY Invariance, InitSync, SyncStep, PTL DEF Spec

\* With synchronous commits, a worker who is told that a job is his has it, and nobody else
\* is told so, whatever becomes of the Redis key, of the processes and of the server, and
\* though payments rewrite the row.
THEOREM OneWinner == Spec => []AcceptedByOne
<1>1. "accepted" \in Won
  BY DEF Won
<1>2. SyncInv => AcceptedByOne
  BY <1>1 DEF SyncInv, AcceptedByOne, A!AcceptedByOne, Winners, TakenBy, Taken, A!Taken
<1>. QED BY SyncInvariance, <1>2, PTL

\* With synchronous commits, the audit log names for each job the one worker who has it.
THEOREM AuditNamesWinner == Spec => []AuditMatchesJob
<1>1. SyncInv => AuditMatchesJob
  BY DEF SyncInv, AuditMatchesJob, A!AuditMatchesJob, Audited, TakenBy, Taken, A!Taken
<1>. QED BY SyncInvariance, <1>1, PTL

\* With synchronous commits, whatever is queued for matching has a committed row.
THEOREM QueuedExists == Spec => []QueuedJobExists
<1>1. SyncInv => QueuedJobExists
  BY DEF SyncInv, QueuedJobExists, C!QueuedJobExists, Stored
<1>. QED BY SyncInvariance, <1>1, PTL

\* With synchronous commits, a job that a client has been told of stays, on disk too.
THEOREM CreatedStays == Spec => []CreatedIsDurable
<1>1. "created" \in Born
  BY DEF Born
<1>2. SyncInv => CreatedIsDurable
  BY <1>1 DEF SyncInv, CreatedIsDurable, C!CreatedIsDurable, Stored
<1>. QED BY SyncInvariance, <1>2, PTL

\* With synchronous commits no step takes a job back: it does not disappear, is not CREATED
\* again, keeps the worker who took it and is never un-paid.
THEOREM OnlyForward == Spec => JobsMoveForward
<1>. DEFINE Step == syncCommit => \A j \in JobIds :
                      LET old == db.jobs[j]
                          new == db'.jobs[j]
                      IN  /\ Rank(new) >= Rank(old)
                          /\ Rank(old) > 0 /\ old.worker # NoWorker /\ old.state # "CREATED" =>
                               new.worker = old.worker
<1>1. ASSUME NEW old, NEW new, Later(old, new)
      PROVE  /\ Rank(new) >= Rank(old)
             /\ Rank(old) > 0 /\ old.worker # NoWorker /\ old.state # "CREATED" =>
                  new.worker = old.worker
  BY <1>1 DEF Later, Rank
<1>2. IInv /\ SyncInv /\ [Next]_vars => [Step]_vars
  <2>. SUFFICES ASSUME IInv, SyncInv, [Next]_vars, syncCommit, NEW j \in JobIds
                PROVE  LET old == db.jobs[j]
                           new == db'.jobs[j]
                       IN  /\ Rank(new) >= Rank(old)
                           /\ Rank(old) > 0 /\ old.worker # NoWorker /\ old.state # "CREATED" =>
                                new.worker = old.worker
    OBVIOUS
  <2>1. Later(db.jobs[j], db'.jobs[j])
    BY StepForward DEF SyncInv, Forward
  <2>. QED BY <1>1, <2>1
<1>. QED BY <1>2, Invariance, SyncInvariance, PTL DEF Spec, JobsMoveForward

-----------------------------------------------------------------------------
(* What the webhook has answered, in the composition *)

(***************************************************************************)
(* A committed row belongs to a delivery that got past its COMMIT; what    *)
(* the handler is about to answer is in the tables; the disk is behind     *)
(* them; and a delivery that has not been sent has no body.  (The other    *)
(* services record no notification, but the tables whose books the webhook *)
(* keeps are theirs too.)                                                  *)
(***************************************************************************)
Committed == {"ack", "processed", "abort", "error", "dead"}

Answering ==
  /\ \A r \in Requests : pc[r] = "idle" => dto[r] = NoDto
  /\ disk.ipn \subseteq db.ipn
  /\ \A x \in db.ipn : pc[x.id] \in Committed
  /\ \A r \in Requests : pc[r] = "ack" => [id |-> r, note |-> dto[r]] \in db.ipn
  /\ \A r \in Requests : pc[r] = "rollback" => dto[r].key \in P!RecordedKeys(db)

\* What has been answered is recorded, if commits are synchronous.
Answered ==
  syncCommit =>
    /\ \A r \in Requests :
         pc[r] = "processed" => [id |-> r, note |-> dto[r]] \in db.ipn
    /\ \A r \in Requests : pc[r] = "duplicate" => dto[r].key \in P!RecordedKeys(db)

Telling == Answering /\ Answered

\* A step of another service is none for a gateway: it records nothing.
LEMMA OthersQuiet ==
  ASSUME IInv, Accept \/ Create \/ Flush \/ UNCHANGED vars
  PROVE  UNCHANGED <<pc, dto>> /\ db'.ipn = db.ipn /\ disk'.ipn \in {disk.ipn, db.ipn}
<1>. DEFINE Quiet == UNCHANGED <<pc, dto>> /\ db'.ipn = db.ipn
                       /\ disk'.ipn \in {disk.ipn, db.ipn}
<1>0. Core
  BY DEF IInv
<1>a. ASSUME NEW w, w.ipn = {}, db' = Merge(db, w),
             disk' = IF syncCommit THEN Merge(db, w) ELSE disk, UNCHANGED <<pc, dto>>
      PROVE  Quiet
  BY <1>a DEF Merge
<1>1. CASE Accept
  <2>0. A!Local /\ UNCHANGED <<pc, dto>>
    BY <1>1 DEF Accept, payVars
  <2>2. ASSUME NEW a \in Accepts, A!TakeJob(a) PROVE Quiet
    BY <1>a, <2>0, <2>2, TakeEffect DEF JobWrite, NoWrites
  <2>3. ASSUME NEW a \in Accepts, NEW end, A!Audit(a, end) PROVE Quiet
    BY <1>a, <2>0, <2>3, AuditEffect DEF NoWrites
  <2>. QED BY <2>0, <2>2, <2>3, AcceptQuiet DEF AcceptCommits
<1>2. CASE Create
  <2>0. C!Local /\ UNCHANGED <<pc, dto>>
    BY <1>2 DEF Create, payVars
  <2>1. ASSUME NEW c \in Creates, C!Commit(c) PROVE Quiet
    <3>1. txn[c].ipn = {}
      BY <1>0, <2>1, CreateEffect DEF Core, CreateWrites, JobWrite, NoWrites
    <3>2. db' = Merge(db, txn[c]) /\ disk' = IF syncCommit THEN Merge(db, txn[c]) ELSE disk
      BY <2>1, CreateEffect
    <3>. QED BY <1>a, <2>0, <3>1, <3>2
  <2>2. CASE \A c \in Creates : ~ C!Commit(c)
    BY <2>0, <2>2 DEF C!Local, C!Handle, C!Ask, C!Connect, C!ConnectFails, C!Insert, C!Push,
                C!PushUnanswered, C!PushRejected, C!Search, C!Abort, C!CallFails, C!QueueLost,
                C!pgVars
  <2>. QED BY <2>1, <2>2
<1>3. CASE Flush
  BY <1>3 DEF Flush, WalFlush, payVars
<1>4. CASE UNCHANGED vars
  BY <1>4 DEF vars, payVars, pgVars
<1>. QED BY <1>1, <1>2, <1>3, <1>4

\* A step that records nothing keeps what is about to be answered and what has been, if
\* every delivery that comes to an answer has a row for it.
LEMMA TellingKept ==
  ASSUME IInv, Telling, db'.ipn = db.ipn, disk'.ipn \in {disk.ipn, db.ipn},
         syncCommit' = syncCommit,
         \A q \in Requests : pc[q] # "idle" \/ pc'[q] = "idle" => dto'[q] = dto[q],
         \A q \in Requests : pc'[q] = "idle" => pc[q] = "idle",
         \A q \in Requests : pc[q] \in Committed => pc'[q] \in Committed,
         \A q \in Requests : pc'[q] = "ack" => pc[q] = "ack",
         \A q \in Requests : pc'[q] = "processed" => pc[q] \in {"ack", "processed"},
         \A q \in Requests : pc'[q] = "duplicate" => pc[q] \in {"rollback", "duplicate"},
         \A q \in Requests : pc'[q] = "rollback" =>
           pc[q] = "rollback" \/ (pc[q] = "ipn" /\ dto[q].key \in P!RecordedKeys(db))
  PROVE  Telling'
<1>0. Answering /\ Answered
  BY DEF Telling
<1>1. \A x \in db.ipn : x.id \in Requests
  BY DEF IInv, Core, P!Keyed
<1>2. P!RecordedKeys(db') = P!RecordedKeys(db)
  BY DEF P!RecordedKeys
<1>3. Answering'
  <2>1. \A r \in Requests : pc'[r] = "idle" => dto'[r] = NoDto
    BY <1>0 DEF Answering
  <2>2. disk'.ipn \subseteq db'.ipn /\ \A x \in db'.ipn : pc'[x.id] \in Committed
    BY <1>0, <1>1 DEF Answering
  <2>3. \A r \in Requests : pc'[r] = "ack" => [id |-> r, note |-> dto'[r]] \in db'.ipn
    BY <1>0 DEF Answering
  <2>4. \A r \in Requests : pc'[r] = "rollback" => dto'[r].key \in P!RecordedKeys(db')
    BY <1>0, <1>2 DEF Answering
  <2>. QED BY <2>1, <2>2, <2>3, <2>4 DEF Answering, P!RecordedKeys
<1>4. Answered'
  <2>1. ASSUME syncCommit, NEW r \in Requests, pc'[r] = "processed"
        PROVE  [id |-> r, note |-> dto'[r]] \in db'.ipn
    BY <1>0, <2>1 DEF Answering, Answered
  <2>2. ASSUME syncCommit, NEW r \in Requests, pc'[r] = "duplicate"
        PROVE  dto'[r].key \in P!RecordedKeys(db')
    BY <1>0, <1>2, <2>2 DEF Answering, Answered
  <2>. QED BY <2>1, <2>2 DEF Answered, P!RecordedKeys
<1>. QED BY <1>3, <1>4 DEF Telling

\* The COMMIT of handleWebhook records the notification that is going to be answered.
LEMMA CommitTells ==
  ASSUME IInv, Telling, NEW r \in Requests, P!Commit(r), syncCommit' = syncCommit
  PROVE  Telling'
<1>0. /\ Answering /\ Answered /\ pc \in [Requests -> Points]
      /\ \A x \in db.ipn : x.id \in Requests
  BY DEF Telling, IInv, TypeInv, Typed, Core, P!Keyed
<1>1. /\ dto' = dto /\ pc'[r] = "ack" /\ \A q \in Requests \ {r} : pc'[q] = pc[q]
      /\ db'.ipn = db.ipn \cup {[id |-> r, note |-> dto[r]]}
      /\ disk' = db' \/ disk' = disk
  BY <1>0, PayEffect
<1>2. P!RecordedKeys(db) \subseteq P!RecordedKeys(db')
  BY <1>1 DEF P!RecordedKeys
<1>3. Answering'
  <2>1. \A q \in Requests : pc'[q] = "idle" => dto'[q] = NoDto
    BY <1>0, <1>1 DEF Answering
  <2>2. disk'.ipn \subseteq db'.ipn /\ \A x \in db'.ipn : pc'[x.id] \in Committed
    BY <1>0, <1>1 DEF Answering, Committed
  <2>3. \A q \in Requests : pc'[q] = "ack" => [id |-> q, note |-> dto'[q]] \in db'.ipn
    BY <1>0, <1>1 DEF Answering
  <2>4. \A q \in Requests : pc'[q] = "rollback" => dto'[q].key \in P!RecordedKeys(db')
    BY <1>0, <1>1, <1>2 DEF Answering
  <2>. QED BY <2>1, <2>2, <2>3, <2>4 DEF Answering, P!RecordedKeys
<1>4. Answered'
  <2>1. ASSUME syncCommit, NEW q \in Requests, pc'[q] = "processed"
        PROVE  [id |-> q, note |-> dto'[q]] \in db'.ipn
    BY <1>0, <1>1, <2>1 DEF Answered
  <2>2. ASSUME syncCommit, NEW q \in Requests, pc'[q] = "duplicate"
        PROVE  dto'[q].key \in P!RecordedKeys(db')
    BY <1>0, <1>1, <1>2, <2>2 DEF Answered
  <2>. QED BY <2>1, <2>2 DEF Answered, P!RecordedKeys
<1>. QED BY <1>3, <1>4 DEF Telling

\* A step of handleWebhook that does not record brings a delivery to an answer only with a
\* row for it.
LEMMA PayTells ==
  ASSUME IInv, Telling, Pay, syncCommit' = syncCommit
  PROVE  Telling'
<1>. SUFFICES ASSUME NEW r \in Requests, P!Receive(r) \/ P!Handle(r) \/ P!QueryFails(r)
              PROVE  Telling'
  BY DEF Pay, P!Local
<1>0. /\ pc \in [Requests -> Points] /\ dto \in [Requests -> Notifications \cup {NoDto}]
  BY DEF IInv, TypeInv, Typed
<1>1. CASE P!Receive(r)
  <2>1. /\ UNCHANGED <<db, disk>> /\ pc[r] = "idle" /\ pc'[r] = "connecting"
        /\ \A q \in Requests \ {r} : pc'[q] = pc[q] /\ dto'[q] = dto[q]
    BY <1>0, <1>1 DEF P!Receive, P!Goto, P!pgVars
  <2>. QED BY <2>1, TellingKept DEF Committed
<1>2. CASE \/ P!Connect(r) \/ P!ConnectFails(r) \/ P!InsertIpn(r) \/ P!InsertLedger(r)
           \/ P!UpdateJob(r) \/ P!AnswerProcessed(r) \/ P!AnswerDuplicate(r) \/ P!Abort(r)
           \/ P!QueryFails(r)
  <2>1. /\ UNCHANGED <<db, disk, dto>>
        /\ \A q \in Requests \ {r} : pc'[q] = pc[q]
        /\ \/ pc[r] \notin Committed
              /\ pc'[r] \notin {"ack", "rollback", "idle", "processed", "duplicate"}
           \/ pc[r] = "ack" /\ pc'[r] = "processed"
           \/ pc[r] = "rollback" /\ pc'[r] = "duplicate"
           \/ pc'[r] \in {"abort", "error"}
           \/ pc[r] = "ipn" /\ pc'[r] = "rollback" /\ dto[r].key \in P!RecordedKeys(db)
    BY <1>0, <1>2 DEF P!Connect, P!ConnectFails, P!InsertIpn, P!InsertLedger, P!UpdateJob,
         P!AnswerProcessed, P!AnswerDuplicate, P!Abort, P!QueryFails, P!Goto, P!pgVars, Committed
  <2>. QED BY <2>1, TellingKept DEF Committed
<1>. QED BY <1>1, <1>2, CommitTells DEF P!Handle

\* Every step of the composition keeps what is about to be answered in the tables and, with
\* synchronous commits, what has been answered.
LEMMA TellingStep == IInv /\ SyncInv /\ Telling /\ [Next]_vars => Telling'
<1>. SUFFICES ASSUME IInv, SyncInv, Telling, [Next]_vars
              PROVE  Telling'
  OBVIOUS
<1>0. syncCommit' = syncCommit
  BY DEF Next, SettingKept, vars
<1>1. CASE Accept \/ Create \/ Flush \/ UNCHANGED vars
  BY <1>0, <1>1, OthersQuiet, TellingKept
<1>2. ASSUME NEW p \in Procs, Crash(p) PROVE Telling'
  <2>1. UNCHANGED <<db, disk, dto>>
        /\ \A q \in Requests : pc'[q] = pc[q] \/ (pc[q] # "idle" /\ pc'[q] = "dead")
    BY <1>2, CrashEffect DEF P!InTxn
  <2>. QED BY <1>0, <2>1, TellingKept DEF Committed
<1>3. CASE PgCrash
  <2>1. /\ db' = disk /\ UNCHANGED <<disk, dto>>
        /\ \A q \in Requests : /\ pc'[q] = pc[q] \/ (pc[q] # "idle" /\ pc'[q] = "abort")
                               /\ pc'[q] \notin {"ack", "rollback"}
    BY <1>3, PgCrashEffect DEF P!InTxn
  <2>2. CASE syncCommit
    BY <1>0, <2>1, <2>2, TellingKept DEF SyncInv, Committed
  <2>3. CASE ~ syncCommit
    <3>1. Answering /\ \A x \in db.ipn : x.id \in Requests
      BY DEF Telling, IInv, Core, P!Keyed
    <3>2. Answering'
      BY <2>1, <3>1 DEF Answering, Committed
    <3>. QED BY <1>0, <2>3, <3>2 DEF Telling, Answered
  <2>. QED BY <2>2, <2>3
<1>. QED BY <1>0, <1>1, <1>2, <1>3, PayTells DEF Next

\* At first nothing has been sent and nothing is recorded.
LEMMA InitTelling == Init => Telling
  BY DEF Init, PgInit, NoWrites, P!LocalInit, Telling, Answering, Answered, Committed

\* With synchronous commits, what the webhook has answered is on disk, though other services
\* commit to the same tables.
THEOREM AnswersAreDurable == Spec => []P!AnswerIsDurable
<1>1. IInv /\ SyncInv /\ Telling => P!AnswerIsDurable
  BY DEF SyncInv, Telling, Answered, P!AnswerIsDurable
<1>. QED BY <1>1, Invariance, SyncInvariance, InitTelling, TellingStep, PTL DEF Spec

\* With synchronous commits no step of any service takes a notification out of the log.
LEMMA LogGrows ==
  ASSUME IInv, [Next]_vars, disk = db
  PROVE  db.ipn \subseteq db'.ipn
<1>1. CASE Accept \/ Create \/ Flush \/ UNCHANGED vars
  BY <1>1, OthersQuiet
<1>2. ASSUME NEW p \in Procs, Crash(p) PROVE db.ipn \subseteq db'.ipn
  BY <1>2, CrashEffect
<1>3. CASE PgCrash
  BY <1>3, PgCrashEffect
<1>4. CASE Pay
  <2>1. PICK r \in Requests : P!Receive(r) \/ P!Handle(r) \/ P!QueryFails(r)
    BY <1>4 DEF Pay, P!Local
  <2>2. CASE P!Commit(r)
    BY <2>2, PayEffect
  <2>3. CASE ~ P!Commit(r)
    BY <2>1, <2>3 DEF P!Handle, P!Receive, P!Connect, P!ConnectFails, P!InsertIpn,
         P!InsertLedger, P!UpdateJob, P!AnswerProcessed, P!AnswerDuplicate, P!Abort,
         P!QueryFails, P!pgVars
  <2>. QED BY <2>2, <2>3
<1>. QED BY <1>1, <1>2, <1>3, <1>4 DEF Next

\* With synchronous commits no step of any service takes an entry out of the ledger or a
\* payment back from a job.
THEOREM PaymentsStay == Spec => P!PaymentsArePermanent
<1>. DEFINE Stay == syncCommit =>
                      /\ db.ledger \subseteq db'.ledger
                      /\ \A j \in JobIds :
                           db.jobs[j] # NoRow /\ db.jobs[j].state = "PAID" =>
                             db'.jobs[j] # NoRow /\ db'.jobs[j].state = "PAID"
<1>1. IInv /\ IInv' /\ SyncInv /\ [Next]_vars => [Stay]_(P!vars)
  <2>. SUFFICES ASSUME IInv, IInv', SyncInv, [Next]_vars, syncCommit
                PROVE  Stay
    OBVIOUS
  <2>1. disk = db
    BY DEF SyncInv
  <2>2. db.ipn \subseteq db'.ipn
    BY <2>1, LogGrows
  <2>3. P!Settled(db) /\ P!Settled(db')
    BY DEF IInv, Core, P!Settled, P!Entries, P!IsSuccess
  <2>4. db.ledger \subseteq db'.ledger
    BY <2>2, <2>3 DEF P!Settled
  <2>5. Forward
    BY <2>1, StepForward
  <2>. QED BY <2>4, <2>5 DEF Forward, Later
<1>. QED BY <1>1, Invariance, SyncInvariance, PTL DEF Spec, P!PaymentsArePermanent

-----------------------------------------------------------------------------
(* The composition implements Settlement *)

\* In settled tables, both sides of the ledger and the paid jobs are those of the recorded
\* notifications.
LEMMA BooksSettled ==
  ASSUME NEW s \in Tables, P!Settled(s), NEW type \in {"debit", "credit"}
  PROVE  /\ {[id |-> e.id, job |-> e.job, amount |-> e.amount] :
               e \in {x \in s.ledger : x.type = type}} = P!Settling!Booked(s.ipn)
         /\ {j \in JobIds : s.jobs[j] # NoRow /\ s.jobs[j].state = "PAID"}
              = {x.note.job : x \in P!Settling!Successes(s.ipn)}
<1>1. P!Settling!Successes(s.ipn) = {x \in s.ipn : P!IsSuccess(x)}
  BY DEF P!Settling!Successes, P!IsSuccess
<1>2. \A x \in s.ipn : x.note.job \in JobIds
  BY DEF Tables, IpnRow, Notification
<1>. DEFINE side == {[id |-> e.id, job |-> e.job, amount |-> e.amount] :
                       e \in {x \in s.ledger : x.type = type}}
<1>3. ASSUME NEW b \in side PROVE b \in P!Settling!Booked(s.ipn)
  <2>1. PICK e \in s.ledger : b = [id |-> e.id, job |-> e.job, amount |-> e.amount]
    OBVIOUS
  <2>2. PICK x \in s.ipn : P!IsSuccess(x) /\ e \in P!Entries(x.id, x.note)
    BY DEF P!Settled
  <2>3. b = [id |-> x.id, job |-> x.note.job, amount |-> x.note.amount]
    BY <2>1, <2>2 DEF P!Entries
  <2>. QED BY <1>1, <2>2, <2>3 DEF P!Settling!Booked
<1>4. ASSUME NEW b \in P!Settling!Booked(s.ipn) PROVE b \in side
  <2>1. PICK x \in s.ipn :
          P!IsSuccess(x) /\ b = [id |-> x.id, job |-> x.note.job, amount |-> x.note.amount]
    BY <1>1, <1>4 DEF P!Settling!Booked
  <2>. DEFINE e == [id |-> x.id, job |-> x.note.job, type |-> type, amount |-> x.note.amount]
  <2>2. e \in P!Entries(x.id, x.note)
    BY DEF P!Entries
  <2>3. e \in s.ledger
    <3>. HIDE DEF e
    <3>. QED BY <2>1, <2>2 DEF P!Settled
  <2>. QED BY <2>1, <2>3
<1>5. side = P!Settling!Booked(s.ipn)
  BY <1>3, <1>4
<1>6. {j \in JobIds : s.jobs[j] # NoRow /\ s.jobs[j].state = "PAID"}
        = {x.note.job : x \in P!Settling!Successes(s.ipn)}
  BY <1>1, <1>2 DEF P!Settled
<1>. QED BY <1>5, <1>6

\* So the mapped books depend on the recorded notifications alone, whoever else writes the
\* jobs.
LEMMA Books ==
  ASSUME IInv
  PROVE  /\ P!Side("debit") = P!Settling!Booked(db.ipn)
         /\ P!Side("credit") = P!Settling!Booked(db.ipn)
         /\ P!PaidJobs = {x.note.job : x \in P!Settling!Successes(db.ipn)}
<1>1. db \in Tables /\ P!Settled(db)
  BY DEF IInv, TypeInv, Typed, Core
<1>. QED BY <1>1, BooksSettled DEF P!Side, P!PaidJobs

\* The same of the next state, by the same lemma.
LEMMA BooksNext ==
  ASSUME IInv'
  PROVE  /\ P!Side("debit")' = P!Settling!Booked(db'.ipn)
         /\ P!Side("credit")' = P!Settling!Booked(db'.ipn)
         /\ P!PaidJobs' = {x.note.job : x \in P!Settling!Successes(db'.ipn)}
<1>1. db' \in Tables /\ P!Settled(db')
  BY DEF IInv, TypeInv, Typed, Core, P!Settled, P!Entries, P!IsSuccess
<1>. QED BY <1>1, BooksSettled DEF P!Side, P!PaidJobs

\* A step that records and forgets nothing leaves the books as they are.
LEMMA BooksKept ==
  ASSUME IInv, IInv', db'.ipn = db.ipn
  PROVE  /\ P!Side("debit")' = P!Side("debit") /\ P!Side("credit")' = P!Side("credit")
         /\ P!PaidJobs' = P!PaidJobs
  BY Books, BooksNext

\* If it neither sends nor tells anything either, it is a stutter.
LEMMA StepStutters ==
  ASSUME IInv, IInv', db'.ipn = db.ipn, UNCHANGED <<dto, syncCommit>>, P!Answer' = P!Answer
  PROVE  UNCHANGED P!Settling!vars
  BY BooksKept DEF P!Settling!vars

\* A step that leaves the log alone and ends a delivery is an answer.
LEMMA StepTells ==
  ASSUME IInv, IInv', NEW r \in Requests, NEW a \in {"processed", "duplicate", "error"},
         db'.ipn = db.ipn, dto' = dto,
         pc[r] \notin {"processed", "duplicate", "error"}, pc' = [pc EXCEPT ![r] = a]
  PROVE  P!Settling!Tell(r, a)
<1>0. pc \in [Requests -> Points]
  BY DEF IInv, TypeInv, Typed
<1>1. P!Answer[r] = "none" /\ P!Answer' = [P!Answer EXCEPT ![r] = a]
  BY <1>0 DEF P!Answer
<1>. QED BY <1>1, BooksKept DEF P!Settling!Tell

\* The initial states are initial states of Settlement.
LEMMA InitMaps == Init => P!Settling!Init
<1>. SUFFICES ASSUME Init PROVE P!Settling!Init
  OBVIOUS
<1>1. /\ syncCommit \in BOOLEAN /\ dto = [r \in Requests |-> NoDto]
      /\ db.ipn = {} /\ db.ledger = {} /\ db.jobs = SeedJobs
      /\ \A r \in Requests : pc[r] = "idle"
  BY DEF Init, PgInit, P!LocalInit, NoWrites
<1>2. P!Side("debit") = {} /\ P!Side("credit") = {}
  BY <1>1 DEF P!Side
<1>3. P!PaidJobs = {}
  BY <1>1, SeedAssumption DEF P!PaidJobs
<1>4. P!Answer = [r \in Requests |-> "none"]
  BY <1>1 DEF P!Answer
<1>. QED BY <1>1, <1>2, <1>3, <1>4 DEF P!Settling!Init

\* A step of handleWebhook is a step of Settlement or a stutter: Receive sends, Commit
\* records and books, the last steps answer.
LEMMA PayMaps ==
  ASSUME IInv, IInv', Telling, Pay, syncCommit' = syncCommit
  PROVE  P!Settling!Next \/ UNCHANGED P!Settling!vars
<1>. DEFINE Maps == P!Settling!Next \/ UNCHANGED P!Settling!vars
<1>. SUFFICES ASSUME NEW r \in Requests, P!Receive(r) \/ P!Handle(r) \/ P!QueryFails(r)
              PROVE  Maps
  BY DEF Pay, P!Local
<1>0. /\ pc \in [Requests -> Points] /\ dto \in [Requests -> Notifications \cup {NoDto}]
      /\ Answering /\ \A q \in Requests : pc[q] # "idle" => dto[q] # NoDto
  BY MarketplaceAssumption DEF IInv, TypeInv, Typed, Sent, Telling
<1>1. CASE P!Receive(r)
  <2>1. UNCHANGED <<db, disk>> /\ dto[r] = NoDto /\ P!Answer' = P!Answer
    BY <1>0, <1>1 DEF P!Receive, P!Goto, P!pgVars, P!Answer, Answering
  <2>2. /\ P!Side("debit")' = P!Side("debit") /\ P!Side("credit")' = P!Side("credit")
        /\ P!PaidJobs' = P!PaidJobs
    BY <2>1, BooksKept
  <2>. QED BY <1>1, <2>1, <2>2 DEF P!Receive, P!Settling!Send, P!Settling!Next
<1>2. CASE \/ P!Connect(r) \/ P!InsertIpn(r) \/ P!InsertLedger(r) \/ P!UpdateJob(r)
           \/ P!QueryFails(r)
  <2>1. /\ UNCHANGED <<db, dto>>
        /\ \A q \in Requests \ {r} : pc'[q] = pc[q]
        /\ {pc[r], pc'[r]} \cap {"processed", "duplicate", "error"} = {}
    BY <1>0, <1>2 DEF P!Connect, P!InsertIpn, P!InsertLedger, P!UpdateJob, P!QueryFails,
                      P!Goto, P!InTxn
  <2>2. P!Answer' = P!Answer
    BY <2>1 DEF P!Answer
  <2>. QED BY <2>1, <2>2, StepStutters
<1>3. CASE P!ConnectFails(r) \/ P!Abort(r)
  <2>1. /\ UNCHANGED <<db, dto>> /\ pc[r] \in {"connecting", "abort"}
        /\ pc' = [pc EXCEPT ![r] = "error"]
    BY <1>3 DEF P!ConnectFails, P!Abort, P!Goto, P!pgVars
  <2>2. P!Settling!Tell(r, "error")
    BY <2>1, StepTells
  <2>. QED BY <1>0, <2>1, <2>2 DEF P!Settling!AnswerError, P!Settling!Next
<1>4. CASE P!AnswerProcessed(r)
  <2>1. /\ UNCHANGED <<db, dto>> /\ pc[r] = "ack" /\ pc' = [pc EXCEPT ![r] = "processed"]
    BY <1>4 DEF P!AnswerProcessed, P!Goto
  <2>2. P!Settling!Tell(r, "processed")
    BY <2>1, StepTells
  <2>3. [id |-> r, note |-> dto[r]] \in db.ipn
    BY <1>0, <2>1 DEF Answering
  <2>. QED BY <2>2, <2>3 DEF P!Settling!AnswerProcessed, P!Settling!Next
<1>5. CASE P!AnswerDuplicate(r)
  <2>1. /\ UNCHANGED <<db, dto>> /\ pc[r] = "rollback" /\ pc' = [pc EXCEPT ![r] = "duplicate"]
    BY <1>5 DEF P!AnswerDuplicate, P!Goto
  <2>2. P!Settling!Tell(r, "duplicate")
    BY <2>1, StepTells
  <2>3. \E x \in db.ipn : x.id # r /\ x.note.key = dto[r].key
    BY <1>0, <2>1 DEF Answering, Committed, P!RecordedKeys
  <2>. QED BY <1>0, <2>1, <2>2, <2>3 DEF P!Settling!AnswerDuplicate, P!Settling!Next
<1>6. CASE P!Commit(r)
  <2>1. /\ UNCHANGED dto /\ pc[r] = "commit" /\ pc' = [pc EXCEPT ![r] = "ack"]
        /\ db'.ipn = db.ipn \cup {[id |-> r, note |-> dto[r]]}
    BY <1>6, PayEffect
  <2>2. dto[r].key \notin P!RecordedKeys(db)
    BY <2>1 DEF IInv, Core, P!NewKeys, P!Recording
  <2>3. P!Answer' = P!Answer /\ P!Answer[r] = "none"
    BY <1>0, <2>1 DEF P!Answer
  <2>4. P!Settling!Book(db'.ipn)
    BY <2>1, <2>3, BooksNext DEF P!Settling!Book
  <2>5. \A x \in db.ipn : x.note.key # dto[r].key
    BY <2>2 DEF P!RecordedKeys
  <2>. QED BY <1>0, <2>1, <2>3, <2>4, <2>5 DEF P!Settling!Record, P!Settling!Next
<1>. QED BY <1>1, <1>2, <1>3, <1>4, <1>5, <1>6 DEF P!Handle

\* Every step of the composition is a step of Settlement or a stutter: those of the other
\* services are stutters, and a restart forgets, or nothing if commits are synchronous.
LEMMA StepMaps ==
  IInv /\ IInv' /\ SyncInv /\ Telling /\ [Next]_vars
    => [P!Settling!Next]_(P!Settling!vars)
<1>. SUFFICES ASSUME IInv, IInv', SyncInv, Telling, [Next]_vars
              PROVE  P!Settling!Next \/ UNCHANGED P!Settling!vars
  OBVIOUS
<1>0. syncCommit' = syncCommit
  BY DEF Next, SettingKept, vars
<1>1. CASE Accept \/ Create \/ Flush \/ UNCHANGED vars
  <2>1. UNCHANGED <<pc, dto>> /\ db'.ipn = db.ipn
    BY <1>1, OthersQuiet
  <2>2. P!Answer' = P!Answer
    BY <2>1 DEF P!Answer
  <2>. QED BY <1>0, <2>1, <2>2, StepStutters
<1>2. ASSUME NEW p \in Procs, Crash(p)
      PROVE  P!Settling!Next \/ UNCHANGED P!Settling!vars
  <2>1. UNCHANGED <<db, dto>> /\ P!Answer' = P!Answer
    BY <1>2, CrashEffect DEF P!Answer, P!InTxn
  <2>. QED BY <1>0, <2>1, StepStutters
<1>3. CASE PgCrash
  <2>1. UNCHANGED dto /\ db' = disk /\ P!Answer' = P!Answer
    BY <1>3, PgCrashEffect DEF P!Answer, P!InTxn
  <2>2. CASE syncCommit
    <3>1. db'.ipn = db.ipn
      BY <2>1, <2>2 DEF SyncInv
    <3>. QED BY <1>0, <2>1, <3>1, StepStutters
  <2>3. CASE ~ syncCommit
    <3>1. db'.ipn \in SUBSET db.ipn
      BY <2>1 DEF Telling, Answering
    <3>2. P!Settling!Book(db'.ipn)
      BY <2>1, BooksNext DEF P!Settling!Book
    <3>. QED BY <1>0, <2>3, <3>1, <3>2 DEF P!Settling!Forget, P!Settling!Next
  <2>. QED BY <2>2, <2>3
<1>. QED BY <1>0, <1>1, <1>2, <1>3, PayMaps DEF Next

\* What the gateways are promised holds while jobs are created and accepted: the composition
\* of the three services implements the one-step settlement of module Settlement.
THEOREM Refinement == Spec => P!ImplementsSettlement
<1>. DEFINE Inv == IInv /\ SyncInv /\ Telling
<1>1. Spec => []Inv
  BY Invariance, SyncInvariance, InitTelling, TellingStep, PTL DEF Spec
<1>2. Inv /\ Inv' /\ [Next]_vars => [P!Settling!Next]_(P!Settling!vars)
  BY StepMaps
<1>. QED BY <1>1, <1>2, InitMaps, PTL DEF Spec, P!ImplementsSettlement, P!Settling!Spec
=============================================================================

---------------------------- MODULE AcceptProofs ----------------------------
(***************************************************************************)
(* Proofs about AcceptJob: for any requests, processes, jobs, pool sizes   *)
(* and losses of the Redis key, a job has one winner, whom the audit log   *)
(* names, and no client of the pool is leaked.                             *)
(***************************************************************************)
EXTENDS AcceptJob, FiniteSetTheorems, TLAPS

-----------------------------------------------------------------------------
(* Types *)

Stages == {"idle"} \cup Waiting \cup Querying \cup Answered

\* A request that has been sent has its actor and its job.
BidSent == \A a \in Accepts : stage[a] # "idle" => bid[a] \in Bids

TypeInv == TypeOK /\ BidSent

\* An empty write set is a write set.
LEMMA NoWritesType == NoWrites \in Tables
  BY DEF NoWrites, Tables

\* Applying a write set keeps both the committed and the durable tables typed.
LEMMA ApplyType ==
  ASSUME PgTypeOK, NEW w \in Tables, Apply(w)
  PROVE  db' \in Tables /\ disk' \in Tables
<1>1. Merge(db, w) \in Tables
  BY DEF PgTypeOK, Merge, Tables
<1>. QED BY <1>1 DEF Apply, PgTypeOK

\* A request that moves on is at a known stage, and only one that was sent is past "idle".
LEMMA StepType ==
  ASSUME TypeInv, NEW a \in Accepts, NEW from \in Stages \ {"idle"}, NEW to \in Stages,
         Step(a, from, to)
  PROVE  stage' \in [Accepts -> Stages] /\ bid' \in [Accepts -> Bids \cup {NoBid}] /\ BidSent'
  BY DEF TypeInv, TypeOK, BidSent, Step, Stages

\* The initial state: nothing has been sent.
LEMMA InitType == Init => TypeInv
<1>. SUFFICES ASSUME Init
              PROVE  TypeInv
  OBVIOUS
<1>1. db \in Tables
  BY SeedAssumption DEF Init, PgInit, NoWrites, Tables
<1>2. PgTypeOK
  BY <1>1, NoWritesType DEF Init, PgInit, PgTypeOK
<1>. QED BY <1>2 DEF Init, LocalInit, TypeInv, TypeOK, BidSent

\* Every step keeps the types: one step per action.
LEMMA TypeStep == TypeInv /\ [Next]_vars => TypeInv'
<1>. SUFFICES ASSUME TypeInv, [Next]_vars
              PROVE  TypeInv'
  OBVIOUS
<1>0. /\ db \in Tables /\ disk \in Tables /\ txn \in [Clients -> Tables]
      /\ held \in SUBSET Clients /\ syncCommit' \in BOOLEAN
      /\ acceptKey \in [JobIds -> Users \cup {NoActor}]
      /\ stage \in [Accepts -> Stages] /\ bid \in [Accepts -> Bids \cup {NoBid}]
      /\ Accepts \subseteq Clients /\ PgTypeOK
  BY AcceptAssumption DEF TypeInv, TypeOK, PgTypeOK, Next, SettingKept, vars, Stages
<1>a. \A a \in Accepts : stage[a] # "idle" =>
        bid[a] \in Bids /\ bid[a].actor \in Users /\ bid[a].job \in JobIds
  BY AcceptAssumption DEF TypeInv, BidSent
<1>b. ASSUME stage' \in [Accepts -> Stages], bid' \in [Accepts -> Bids \cup {NoBid}], BidSent',
             acceptKey' \in [JobIds -> Users \cup {NoActor}],
             db' \in Tables, disk' \in Tables, txn' \in [Clients -> Tables],
             held' \in SUBSET Clients
      PROVE  TypeInv'
  BY <1>0, <1>b DEF TypeInv, TypeOK, PgTypeOK, Stages
<1>c. ASSUME NEW a \in Accepts, NEW from \in Stages \ {"idle"}, NEW to \in Stages,
             Step(a, from, to),
             acceptKey' \in [JobIds -> Users \cup {NoActor}],
             db' \in Tables, disk' \in Tables, txn' = txn, held' \in SUBSET Clients
      PROVE  TypeInv'
  BY <1>0, <1>b, <1>c, StepType
<1>1. ASSUME NEW a \in Accepts, Arrive(a) PROVE TypeInv'
  <2>1. PICK b \in Bids : bid' = [bid EXCEPT ![a] = b]
    BY <1>1 DEF Arrive
  <2>2. stage' = [stage EXCEPT ![a] = "setnx"]
    BY <1>1 DEF Arrive
  <2>3. BidSent'
    BY <1>0, <2>1, <2>2 DEF TypeInv, BidSent
  <2>4. bid' \in [Accepts -> Bids \cup {NoBid}] /\ stage' \in [Accepts -> Stages]
    BY <1>0, <2>1, <2>2 DEF Stages, Waiting
  <2>. QED BY <1>0, <1>1, <1>b, <2>3, <2>4 DEF Arrive, pgVars
<1>2. ASSUME NEW a \in Accepts, SetNx(a) PROVE TypeInv'
  <2>1. acceptKey' \in [JobIds -> Users \cup {NoActor}]
    BY <1>0, <1>2, <1>a DEF SetNx
  <2>2. Step(a, "setnx", "connect") \/ Step(a, "setnx", "conflict")
    BY <1>2 DEF SetNx
  <2>. QED BY <1>0, <1>2, <1>c, <2>1, <2>2 DEF SetNx, pgVars, Stages, Waiting, Answered
<1>3. ASSUME NEW a \in Accepts, SetNxUnanswered(a) PROVE TypeInv'
  <2>1. acceptKey' \in [JobIds -> Users \cup {NoActor}]
    BY <1>0, <1>3, <1>a DEF SetNxUnanswered
  <2>2. BidSent'
    BY <1>3 DEF SetNxUnanswered, TypeInv, BidSent
  <2>. QED BY <1>0, <1>3, <1>b, <2>1, <2>2 DEF SetNxUnanswered, pgVars
<1>4. ASSUME NEW a \in Accepts, Connect(a) \/ ConnectAudit(a) PROVE TypeInv'
  <2>1. held' \in SUBSET Clients
    BY <1>0, <1>4 DEF Connect, ConnectAudit, CheckOut
  <2>. QED BY <1>0, <1>4, <1>c, <2>1 DEF Connect, ConnectAudit, Stages, Waiting, Querying
<1>5. ASSUME NEW a \in Accepts, TakeJob(a) PROVE TypeInv'
  <2>1. bid[a].actor \in Workers /\ bid[a].job \in JobIds
    BY <1>5, <1>a DEF TakeJob, Step
  <2>2. [state |-> "ACCEPTED", worker |-> bid[a].actor] \in JobRow
    BY <2>1 DEF JobRow, JobStates
  <2>3. [NoWrites EXCEPT !.jobs[bid[a].job] = [state |-> "ACCEPTED", worker |-> bid[a].actor]]
          \in Tables
    BY <2>1, <2>2 DEF NoWrites, Tables
  <2>4. db' \in Tables /\ disk' \in Tables
    BY <1>0, <1>5, <2>3, ApplyType DEF TakeJob
  <2>. QED BY <1>0, <1>5, <1>c, <2>4 DEF TakeJob, Release, Stages, Waiting, Querying
<1>6. ASSUME NEW a \in Accepts, NEW end \in {"accepted", "error"}, Audit(a, end) PROVE TypeInv'
  <2>1. bid[a].actor \in Users /\ bid[a].job \in JobIds
    BY <1>6, <1>a DEF Audit, Step
  <2>2. {[id |-> a, actor |-> bid[a].actor, job |-> bid[a].job]} \in SUBSET AuditRow
    BY <1>0, <2>1 DEF AuditRow
  <2>3. [NoWrites EXCEPT !.audit = {[id |-> a, actor |-> bid[a].actor, job |-> bid[a].job]}]
          \in Tables
    BY <2>2 DEF NoWrites, Tables
  <2>4. db' \in Tables /\ disk' \in Tables
    BY <1>0, <1>6, <2>3, ApplyType DEF Audit
  <2>. QED BY <1>0, <1>6, <1>c, <2>4 DEF Audit, Release, Stages, Querying, Answered
<1>7. ASSUME NEW a \in Accepts, FindNothing(a) \/ NotAWorker(a) \/ GiveBack(a) PROVE TypeInv'
  BY <1>0, <1>7, <1>c DEF FindNothing, NotAWorker, GiveBack, Release, pgVars, Stages, Waiting,
                          Querying, Answered
<1>8. ASSUME NEW a \in Accepts, NEW end \in {"unavailable", "error"}, Del(a, end) PROVE TypeInv'
  <2>1. acceptKey' \in [JobIds -> Users \cup {NoActor}]
    BY <1>0, <1>8 DEF Del
  <2>. QED BY <1>0, <1>8, <1>c, <2>1 DEF Del, pgVars, Stages, Waiting, Answered
<1>9. ASSUME NEW a \in Accepts, CallFails(a) \/ QueryFails(a) PROVE TypeInv'
  BY <1>0, <1>9, <1>c DEF CallFails, QueryFails, pgVars, Stages, Waiting, Querying, Answered
<1>10. ASSUME NEW j \in JobIds, KeyLost(j) PROVE TypeInv'
  <2>1. acceptKey' \in [JobIds -> Users \cup {NoActor}] /\ BidSent'
    BY <1>0, <1>10 DEF KeyLost, TypeInv, BidSent
  <2>. QED BY <1>0, <1>10, <1>b, <2>1 DEF KeyLost, pgVars
<1>11. ASSUME NEW p \in Procs, Crash(p) PROVE TypeInv'
  <2>1. stage' \in [Accepts -> Stages] /\ BidSent'
    BY <1>0, <1>11 DEF Crash, Die, TypeInv, BidSent, Stages, Waiting, Querying, Answered
  <2>2. txn' \in [Clients -> Tables] /\ held' \in SUBSET Clients
    BY <1>0, <1>11, NoWritesType DEF Crash, ConnectionsLost
  <2>. QED BY <1>0, <1>11, <1>b, <2>1, <2>2 DEF Crash, Die, ConnectionsLost
<1>12. ASSUME PgCrash PROVE TypeInv'
  <2>1. stage' \in [Accepts -> Stages] /\ BidSent'
    BY <1>0, <1>12 DEF PgCrash, LoseServer, TypeInv, BidSent, Stages, Querying
  <2>2. txn' \in [Clients -> Tables]
    BY <1>12, NoWritesType DEF PgCrash, PgRestart
  <2>. QED BY <1>0, <1>12, <1>b, <2>1, <2>2 DEF PgCrash, LoseServer, PgRestart
<1>13. ASSUME Flush PROVE TypeInv'
  <2>1. BidSent'
    BY <1>13 DEF Flush, acceptVars, TypeInv, BidSent
  <2>. QED BY <1>0, <1>13, <1>b, <2>1 DEF Flush, WalFlush, acceptVars
<1>14. ASSUME UNCHANGED vars PROVE TypeInv'
  <2>1. BidSent'
    BY <1>14 DEF vars, TypeInv, BidSent
  <2>. QED BY <1>0, <1>14, <1>b, <2>1 DEF vars
<1>. QED BY <1>1, <1>2, <1>3, <1>4, <1>5, <1>6, <1>7, <1>8, <1>9, <1>10, <1>11, <1>12, <1>13, <1>14
         DEF Next, Local, Handle, EndUnanswered

\* acceptJob: every variable keeps its type, for any requests, jobs and actors.
THEOREM TypeCorrect == Spec => []TypeOK
<1>1. TypeInv => TypeOK
  BY DEF TypeInv
<1>. QED BY InitType, TypeStep, <1>1, PTL DEF Spec

-----------------------------------------------------------------------------
(* One winner, whom the audit log names *)

Won     == {"connectAudit", "audit", "accepted"}
Audits  == {"connectAudit", "audit"}

\* The job of bid b has been taken by the actor of b.
TakenBy(s, b) == Taken(s.jobs[b.job]) /\ s.jobs[b.job].worker = b.actor

\* What has come through the UPDATE has the job, alone.
Winners ==
  /\ \A a \in Accepts : stage[a] \in Won => TakenBy(db, bid[a])
  /\ \A a, b \in Accepts :
       stage[a] \in Won /\ stage[b] \in Won /\ bid[a].job = bid[b].job => a = b

\* What is in the audit log is of a taken job, once, and its request writes no more.
Audited ==
  /\ \A x \in db.audit : TakenBy(db, x)
  /\ \A x, y \in db.audit : x.job = y.job => x = y
  /\ \A x \in db.audit, a \in Accepts : stage[a] \in Audits => bid[a].job # x.job

WinInv == syncCommit => disk = db /\ Winners /\ Audited

\* Before the first request the audit log is empty.
LEMMA InitWin == Init => WinInv
<1>. SUFFICES ASSUME Init
              PROVE  disk = db /\ Winners /\ Audited
  BY DEF WinInv
<1>1. disk = db /\ db.audit = {} /\ \A a \in Accepts : stage[a] = "idle"
  BY DEF Init, PgInit, LocalInit, NoWrites
<1>. QED BY <1>1 DEF Winners, Audited, Won, Audits

\* A step that writes no table, and lets nobody through, keeps what is won.
LEMMA WinQuiet ==
  ASSUME Winners, Audited, db' = db,
         \A a \in Accepts : stage'[a] \in Won => stage[a] \in Won /\ bid'[a] = bid[a],
         \A a \in Accepts : stage'[a] \in Audits => stage[a] \in Audits
  PROVE  Winners' /\ Audited'
<1>1. Winners'
  BY DEF Winners, TakenBy, Taken
<1>2. \A x \in db'.audit : TakenBy(db', x)
  BY DEF Audited
<1>3. \A x \in db'.audit, a \in Accepts : stage'[a] \in Audits => bid'[a].job # x.job
  BY DEF Audited, Audits, Won
<1>. QED BY <1>1, <1>2, <1>3 DEF Audited, TakenBy, Taken

\* The UPDATE takes a job that nobody has and that no audit row names.
LEMMA TakeJobWins ==
  ASSUME TypeInv, Winners, Audited, NEW a \in Accepts, TakeJob(a)
  PROVE  Winners' /\ Audited'
<1>. DEFINE j == bid[a].job
<1>0. /\ db \in Tables /\ stage \in [Accepts -> Stages] /\ j \in JobIds
      /\ \A b \in Accepts : stage[b] # "idle" => bid[b].job \in JobIds
  BY AcceptAssumption DEF TypeInv, TypeOK, PgTypeOK, BidSent, TakeJob, Step, Stages
<1>1. /\ stage' = [stage EXCEPT ![a] = "connectAudit"] /\ bid' = bid
      /\ stage[a] = "update"
  BY DEF TakeJob, Step
<1>2. /\ db'.jobs[j] = [state |-> "ACCEPTED", worker |-> bid[a].actor]
      /\ \A i \in JobIds \ {j} : db'.jobs[i] = db.jobs[i]
      /\ db'.audit = db.audit
  <2>1. [state |-> "ACCEPTED", worker |-> bid[a].actor] # NoRow
    <3>1. [state |-> "ACCEPTED", worker |-> bid[a].actor] \in JobRow
      BY DEF TakeJob, JobRow, JobStates
    <3>. QED BY <3>1, SeedAssumption
  <2>2. db' = Merge(db, [NoWrites EXCEPT !.jobs[j] =
                           [state |-> "ACCEPTED", worker |-> bid[a].actor]])
    BY DEF TakeJob, Apply
  <2>. HIDE DEF j
  <2>. QED BY <1>0, <2>1, <2>2 DEF Merge, NoWrites
<1>3. TakenBy(db', bid[a])
  <2>1. db'.jobs[j] # NoRow
    <3>1. [state |-> "ACCEPTED", worker |-> bid[a].actor] \in JobRow
      BY DEF TakeJob, JobRow, JobStates
    <3>. QED BY <1>2, <3>1, SeedAssumption
  <2>. QED BY <1>2, <2>1 DEF TakenBy, Taken
<1>4. ~ Taken(db.jobs[j])
  BY DEF TakeJob, Available, Taken
<1>5. \A b \in Accepts : stage[b] \in Won => bid[b].job # j /\ TakenBy(db', bid[b])
  <2>. SUFFICES ASSUME NEW b \in Accepts, stage[b] \in Won
                PROVE  bid[b].job # j /\ TakenBy(db', bid[b])
    OBVIOUS
  <2>1. TakenBy(db, bid[b]) /\ bid[b].job \in JobIds
    BY <1>0 DEF Winners, Won
  <2>2. bid[b].job # j
    BY <1>4, <2>1 DEF TakenBy
  <2>. QED BY <1>2, <2>1, <2>2 DEF TakenBy
<1>6. \A b \in Accepts : stage'[b] \in Won => b = a \/ stage[b] \in Won
  BY <1>0, <1>1
<1>7. Winners'
  BY <1>1, <1>3, <1>5, <1>6 DEF Winners, TakenBy, Taken
<1>8. \A x \in db.audit : x.job # j /\ TakenBy(db', x)
  <2>. SUFFICES ASSUME NEW x \in db.audit
                PROVE  x.job # j /\ TakenBy(db', x)
    OBVIOUS
  <2>1. TakenBy(db, x) /\ x.job \in JobIds
    BY <1>0 DEF Audited, Tables, AuditRow
  <2>2. x.job # j
    BY <1>4, <2>1 DEF TakenBy
  <2>. QED BY <1>2, <2>1, <2>2 DEF TakenBy
<1>9. \A x \in db.audit, b \in Accepts : stage'[b] \in Audits => bid[b].job # x.job
  BY <1>0, <1>1, <1>8 DEF Audited
<1>. QED BY <1>1, <1>2, <1>7, <1>8, <1>9 DEF Audited, TakenBy, Taken

\* The audit row is of the winner, who writes it once.
LEMMA AuditNames ==
  ASSUME TypeInv, Winners, Audited, NEW a \in Accepts, NEW end \in {"accepted", "error"},
         Audit(a, end)
  PROVE  Winners' /\ Audited'
<1>. DEFINE row == [id |-> a, actor |-> bid[a].actor, job |-> bid[a].job]
<1>0. db \in Tables /\ stage \in [Accepts -> Stages]
  BY DEF TypeInv, TypeOK, PgTypeOK, Stages
<1>1. stage' = [stage EXCEPT ![a] = end] /\ bid' = bid /\ stage[a] = "audit"
  BY DEF Audit, Step
<1>2. db'.jobs = db.jobs /\ db'.audit = db.audit \cup {row}
  <2>1. db' = Merge(db, [NoWrites EXCEPT !.audit = {row}])
    BY DEF Audit, Apply
  <2>2. db.jobs \in [JobIds -> JobRow \cup {NoRow}]
    BY <1>0 DEF Tables
  <2>. HIDE DEF row
  <2>. QED BY <2>1, <2>2 DEF Merge, NoWrites
<1>3. \A b \in Accepts : stage'[b] \in Won => stage[b] \in Won
  BY <1>0, <1>1 DEF Won
<1>4. Winners'
  BY <1>1, <1>2, <1>3 DEF Winners, TakenBy, Taken
<1>5. TakenBy(db, bid[a]) /\ \A x \in db.audit : x.job # bid[a].job
  BY <1>1 DEF Winners, Audited, Won, Audits
<1>6. \A x \in db'.audit : TakenBy(db', x)
  BY <1>2, <1>5 DEF Audited, TakenBy
<1>7. \A x, y \in db'.audit : x.job = y.job => x = y
  BY <1>2, <1>5 DEF Audited
<1>8. \A x \in db'.audit, b \in Accepts : stage'[b] \in Audits => bid[b].job # x.job
  <2>. SUFFICES ASSUME NEW x \in db'.audit, NEW b \in Accepts, stage'[b] \in Audits
                PROVE  bid[b].job # x.job
    OBVIOUS
  <2>1. b # a /\ stage[b] \in Audits
    BY <1>0, <1>1 DEF Audits
  <2>2. CASE x \in db.audit
    BY <2>1, <2>2 DEF Audited
  <2>3. CASE x = row
    BY <1>1, <2>1, <2>3 DEF Winners, Won, Audits
  <2>. QED BY <1>2, <2>2, <2>3
<1>. QED BY <1>1, <1>4, <1>6, <1>7, <1>8 DEF Audited, TakenBy, Taken

\* Every step keeps it, as long as commits are synchronous.
LEMMA WinStep == TypeInv /\ WinInv /\ [Next]_vars => WinInv'
<1>. SUFFICES ASSUME TypeInv, WinInv, [Next]_vars, syncCommit, syncCommit' = syncCommit
              PROVE  disk' = db' /\ Winners' /\ Audited'
  BY DEF WinInv, Next, SettingKept, vars
<1>0. stage \in [Accepts -> Stages] /\ disk = db /\ Winners /\ Audited
  BY DEF TypeInv, TypeOK, WinInv, Stages
<1>1. ASSUME NEW a \in Accepts, NEW from, NEW to, to \notin Won, Step(a, from, to),
             UNCHANGED <<db, disk>>
      PROVE  disk' = db' /\ Winners' /\ Audited'
  <2>1. \A b \in Accepts : /\ stage'[b] \in Won => stage[b] \in Won /\ bid'[b] = bid[b]
                           /\ stage'[b] \in Audits => stage[b] \in Audits
    BY <1>0, <1>1 DEF Step, Won, Audits
  <2>. QED BY <1>0, <1>1, <2>1, WinQuiet
<1>2. ASSUME NEW a \in Accepts, Arrive(a) PROVE disk' = db' /\ Winners' /\ Audited'
  <2>1. PICK d \in Bids : bid' = [bid EXCEPT ![a] = d]
    BY <1>2 DEF Arrive
  <2>2. \A b \in Accepts : stage'[b] \in Won => stage[b] \in Won /\ bid'[b] = bid[b]
    BY <1>0, <1>2, <2>1 DEF Arrive, Won, TypeInv, TypeOK
  <2>3. \A b \in Accepts : stage'[b] \in Audits => stage[b] \in Audits
    BY <1>0, <1>2 DEF Arrive, Audits
  <2>. QED BY <1>0, <1>2, <2>2, <2>3, WinQuiet DEF Arrive, pgVars
<1>3. ASSUME NEW a \in Accepts, SetNx(a) PROVE disk' = db' /\ Winners' /\ Audited'
  <2>1. Step(a, "setnx", "connect") \/ Step(a, "setnx", "conflict")
    BY <1>3 DEF SetNx
  <2>. QED BY <1>1, <1>3, <2>1 DEF SetNx, pgVars, Won
<1>4. ASSUME NEW a \in Accepts, Connect(a) PROVE disk' = db' /\ Winners' /\ Audited'
  BY <1>1, <1>4 DEF Connect, Won
<1>5. ASSUME NEW a \in Accepts, ConnectAudit(a) PROVE disk' = db' /\ Winners' /\ Audited'
  <2>1. \A b \in Accepts : /\ stage'[b] \in Won => stage[b] \in Won /\ bid'[b] = bid[b]
                           /\ stage'[b] \in Audits => stage[b] \in Audits
    BY <1>0, <1>5 DEF ConnectAudit, Step, Won, Audits
  <2>. QED BY <1>0, <1>5, <2>1, WinQuiet DEF ConnectAudit
<1>6. ASSUME NEW a \in Accepts, TakeJob(a) PROVE disk' = db' /\ Winners' /\ Audited'
  BY <1>0, <1>6, TakeJobWins DEF TakeJob, Apply
<1>7. ASSUME NEW a \in Accepts, NEW end \in {"accepted", "error"}, Audit(a, end)
      PROVE  disk' = db' /\ Winners' /\ Audited'
  BY <1>0, <1>7, AuditNames DEF Audit, Apply
<1>8. ASSUME NEW a \in Accepts, FindNothing(a) \/ NotAWorker(a) \/ GiveBack(a)
      PROVE  disk' = db' /\ Winners' /\ Audited'
  BY <1>1, <1>8 DEF FindNothing, NotAWorker, GiveBack, pgVars, Won
<1>9. ASSUME NEW a \in Accepts, NEW end \in {"unavailable", "error"}, Del(a, end)
      PROVE  disk' = db' /\ Winners' /\ Audited'
  BY <1>1, <1>9 DEF Del, pgVars, Won
<1>10. ASSUME NEW a \in Accepts, CallFails(a) \/ QueryFails(a)
       PROVE  disk' = db' /\ Winners' /\ Audited'
  BY <1>1, <1>10 DEF CallFails, QueryFails, pgVars, Won
<1>11. ASSUME UNCHANGED <<stage, bid, db, disk>> PROVE disk' = db' /\ Winners' /\ Audited'
  BY <1>0, <1>11, WinQuiet
<1>12. ASSUME NEW a \in Accepts, SetNxUnanswered(a) PROVE disk' = db' /\ Winners' /\ Audited'
  BY <1>11, <1>12 DEF SetNxUnanswered, pgVars
<1>13. ASSUME NEW j \in JobIds, KeyLost(j) PROVE disk' = db' /\ Winners' /\ Audited'
  BY <1>11, <1>13 DEF KeyLost, pgVars
<1>14. ASSUME NEW p \in Procs, Crash(p) PROVE disk' = db' /\ Winners' /\ Audited'
  <2>1. \A b \in Accepts : /\ stage'[b] \in Won => stage[b] \in Won /\ bid'[b] = bid[b]
                           /\ stage'[b] \in Audits => stage[b] \in Audits
    BY <1>0, <1>14 DEF Crash, Die, Won, Audits
  <2>. QED BY <1>0, <1>14, <2>1, WinQuiet DEF Crash, ConnectionsLost
<1>15. ASSUME PgCrash PROVE disk' = db' /\ Winners' /\ Audited'
  <2>1. \A b \in Accepts : /\ stage'[b] \in Won => stage[b] \in Won /\ bid'[b] = bid[b]
                           /\ stage'[b] \in Audits => stage[b] \in Audits
    BY <1>0, <1>15 DEF PgCrash, LoseServer, Won, Audits
  <2>. QED BY <1>0, <1>15, <2>1, WinQuiet DEF PgCrash, PgRestart
<1>16. ASSUME Flush PROVE disk' = db' /\ Winners' /\ Audited'
  BY <1>0, <1>16 DEF Flush, WalFlush
<1>17. ASSUME UNCHANGED vars PROVE disk' = db' /\ Winners' /\ Audited'
  BY <1>11, <1>17 DEF vars
<1>. QED BY <1>2, <1>3, <1>4, <1>5, <1>6, <1>7, <1>8, <1>9, <1>10, <1>12, <1>13, <1>14, <1>15,
            <1>16, <1>17 DEF Next, Local, Handle, EndUnanswered

\* acceptJob: with synchronous commits a job has at most one winner, who has it,
\* whatever becomes of the Redis key.
THEOREM OneWinner == Spec => []AcceptedByOne
<1>1. WinInv => AcceptedByOne
  BY DEF WinInv, Winners, TakenBy, AcceptedByOne, Won
<1>. QED BY InitType, TypeStep, InitWin, WinStep, <1>1, PTL DEF Spec

\* acceptJob: with synchronous commits the audit log names the winner of each job
\* and nobody else.
THEOREM AuditNamesWinner == Spec => []AuditMatchesJob
<1>1. WinInv => AuditMatchesJob
  BY DEF WinInv, Audited, TakenBy, AuditMatchesJob
<1>. QED BY InitType, TypeStep, InitWin, WinStep, <1>1, PTL DEF Spec

-----------------------------------------------------------------------------
(* The pool *)

\* The clients that a process has out are finitely many.
LEMMA HeldFinite ==
  ASSUME held \in SUBSET Clients, NEW p
  PROVE  IsFiniteSet(HeldIn(p)) /\ Cardinality(HeldIn(p)) \in Nat
  BY PoolAssumption, FS_Subset, FS_CardinalityType DEF HeldIn

\* A step that checks out no client keeps every process within its pool.
LEMMA FewerHeld ==
  ASSUME held \in SUBSET Clients, held' \subseteq held, NEW p,
         Cardinality(HeldIn(p)) <= PoolMax
  PROVE  Cardinality(HeldIn(p)') <= PoolMax
<1>1. IsFiniteSet(HeldIn(p)) /\ Cardinality(HeldIn(p)) \in Nat
  BY HeldFinite
<1>2. HeldIn(p)' \subseteq HeldIn(p)
  BY DEF HeldIn
<1>3. Cardinality(HeldIn(p)') \in Nat /\ Cardinality(HeldIn(p)') <= Cardinality(HeldIn(p))
  BY <1>1, <1>2, FS_Subset, FS_CardinalityType
<1>. QED BY <1>1, <1>3, PoolAssumption

\* Checking out a client takes one of its process that is not out.
LEMMA CheckOutFits ==
  ASSUME held \in SUBSET Clients, NEW c \in Clients, CheckOut(c), NEW p,
         Cardinality(HeldIn(p)) <= PoolMax
  PROVE  Cardinality(HeldIn(p)') <= PoolMax
<1>1. IsFiniteSet(HeldIn(p)) /\ Cardinality(HeldIn(p)) \in Nat
  BY HeldFinite
<1>2. CASE Home[c] # p
  <2>1. HeldIn(p)' = HeldIn(p)
    BY <1>2 DEF HeldIn, CheckOut
  <2>. QED BY <2>1
<1>3. CASE Home[c] = p
  <2>1. HeldIn(p)' = HeldIn(p) \cup {c}
    BY <1>3 DEF HeldIn, CheckOut
  <2>2. Cardinality(HeldIn(p)) < PoolMax
    BY <1>3 DEF CheckOut
  <2>3. \/ Cardinality(HeldIn(p)') = Cardinality(HeldIn(p))
        \/ Cardinality(HeldIn(p)') = Cardinality(HeldIn(p)) + 1
    BY <1>1, <2>1, FS_AddElement
  <2>. QED BY <1>1, <2>2, <2>3, PoolAssumption
<1>. QED BY <1>2, <1>3

\* Nobody holds a client before the first request.
LEMMA InitClients == Init => ClientsAccounted
<1>. SUFFICES ASSUME Init
              PROVE  ClientsAccounted
  OBVIOUS
<1>1. held = {} /\ \A a \in Accepts : stage[a] = "idle"
  BY DEF Init, PgInit, LocalInit
<1>2. \A p \in Procs : HeldIn(p) = {}
  BY <1>1 DEF HeldIn
<1>. QED BY <1>1, <1>2, FS_EmptySet, PoolAssumption DEF ClientsAccounted, Querying

\* Every step gives the client back exactly when it leaves a query.
LEMMA ClientsStep == TypeInv /\ ClientsAccounted /\ [Next]_vars => ClientsAccounted'
<1>. SUFFICES ASSUME TypeInv, ClientsAccounted, [Next]_vars
              PROVE  ClientsAccounted'
  OBVIOUS
<1>0. /\ stage \in [Accepts -> Stages] /\ held \in SUBSET Clients /\ Accepts \subseteq Clients
      /\ held = {a \in Accepts : stage[a] \in Querying}
      /\ \A p \in Procs : Cardinality(HeldIn(p)) <= PoolMax
  BY AcceptAssumption DEF TypeInv, TypeOK, PgTypeOK, ClientsAccounted, Stages
<1>a. ASSUME held' = {a \in Accepts : stage'[a] \in Querying}, held' \subseteq held
      PROVE  ClientsAccounted'
  BY <1>0, <1>a, FewerHeld DEF ClientsAccounted
<1>b. ASSUME NEW a \in Accepts, NEW from, NEW to, Step(a, from, to),
             \/ from \in Querying /\ to \in Querying /\ held' = held
             \/ from \notin Querying /\ to \notin Querying /\ held' = held
             \/ to \notin Querying /\ Release(a)
      PROVE  ClientsAccounted'
  <2>1. stage' = [stage EXCEPT ![a] = to] /\ stage[a] = from
    BY <1>b DEF Step
  <2>2. held' = {b \in Accepts : stage'[b] \in Querying}
    BY <1>0, <1>b, <2>1 DEF Release
  <2>3. held' \subseteq held
    BY <1>b DEF Release
  <2>. QED BY <1>a, <2>2, <2>3
<1>1. ASSUME NEW a \in Accepts, Connect(a) \/ ConnectAudit(a) PROVE ClientsAccounted'
  <2>1. held' = held \cup {a} /\ CheckOut(a)
          /\ \E to \in Querying : stage' = [stage EXCEPT ![a] = to]
    BY <1>1 DEF Connect, ConnectAudit, CheckOut, Step, Querying
  <2>2. held' = {b \in Accepts : stage'[b] \in Querying}
    BY <1>0, <2>1
  <2>3. \A p \in Procs : Cardinality(HeldIn(p)') <= PoolMax
    BY <1>0, <2>1, CheckOutFits
  <2>. QED BY <2>2, <2>3 DEF ClientsAccounted
<1>2. ASSUME NEW a \in Accepts, Arrive(a) \/ SetNx(a) \/ SetNxUnanswered(a) PROVE ClientsAccounted'
  <2>1. held' = held /\ held' = {b \in Accepts : stage'[b] \in Querying}
    BY <1>0, <1>2 DEF Arrive, SetNx, SetNxUnanswered, Step, pgVars, Querying
  <2>. QED BY <1>a, <2>1
<1>3. ASSUME NEW a \in Accepts, NEW end \in {"unavailable", "accepted", "error"},
             TakeJob(a) \/ FindNothing(a) \/ NotAWorker(a) \/ Audit(a, end) \/ GiveBack(a)
               \/ Del(a, end)
      PROVE  ClientsAccounted'
  BY <1>3, <1>b DEF TakeJob, FindNothing, NotAWorker, Audit, GiveBack, Del, pgVars, Querying
<1>4. ASSUME NEW a \in Accepts, CallFails(a) \/ QueryFails(a) PROVE ClientsAccounted'
  BY <1>4, <1>b DEF CallFails, QueryFails, pgVars, Waiting, Querying
<1>5. ASSUME NEW j \in JobIds, KeyLost(j) PROVE ClientsAccounted'
  BY <1>0, <1>5, <1>a DEF KeyLost, pgVars
<1>6. ASSUME NEW p \in Procs, Crash(p) PROVE ClientsAccounted'
  BY <1>0, <1>6, <1>a DEF Crash, Die, ConnectionsLost, Querying
<1>7. CASE PgCrash
  BY <1>0, <1>7, <1>a DEF PgCrash, LoseServer, PgRestart, Querying
<1>8. CASE Flush \/ UNCHANGED vars
  BY <1>0, <1>8, <1>a DEF Flush, WalFlush, acceptVars, vars
<1>. QED BY <1>1, <1>2, <1>3, <1>4, <1>5, <1>6, <1>7, <1>8
         DEF Next, Local, Handle, EndUnanswered

\* acceptJob: no path leaks a client of the pool, and no process has more of them
\* out than the pool allows.
THEOREM NoClientLeaks == Spec => []ClientsAccounted
<1>1. Init => TypeInv /\ ClientsAccounted
  BY InitType, InitClients
<1>2. TypeInv /\ ClientsAccounted /\ [Next]_vars => (TypeInv /\ ClientsAccounted)'
  BY TypeStep, ClientsStep
<1>. QED BY <1>1, <1>2, PTL DEF Spec
=============================================================================

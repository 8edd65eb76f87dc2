--------------------------- MODULE PaymentsProofs ---------------------------
(***************************************************************************)
(* Proofs about Payments, for every value of its constants: its types, the *)
(* inductive invariant behind the settlement, and what Payments guarantees *)
(* to others over that invariant - to the other requests of a process the  *)
(* clients of its pool, to a gateway that its answer stays true, and to    *)
(* both that the handler is the one-step settlement of module Settlement.  *)
(***************************************************************************)
EXTENDS Payments, FiniteSetTheorems, TLAPS

-----------------------------------------------------------------------------
(* Lemmas about the database operators *)

(* Merging a write set into the tables gives tables. *)
LEMMA MergeType ==
  ASSUME NEW s \in Tables, NEW w \in Tables
  PROVE  Merge(s, w) \in Tables
BY DEF Merge, Tables

(* An empty write set is a write set. *)
LEMMA NoWritesType == NoWrites \in Tables
BY DEF NoWrites, Tables

(* Applying a write set keeps both the committed and the durable tables typed. *)
LEMMA ApplyType ==
  ASSUME PgTypeOK, NEW w \in Tables, Apply(w)
  PROVE  db' \in Tables /\ disk' \in Tables
BY MergeType DEF Apply, PgTypeOK

(* A statement leaves every write set typed if it leaves its own typed. *)
LEMMA WriteType ==
  ASSUME PgTypeOK, NEW c \in Clients, NEW w \in Tables, Write(c, w)
  PROVE  txn' \in [Clients -> Tables]
BY DEF PgTypeOK, Write

(* The two entries of a notification are ledger rows. *)
LEMMA EntriesType ==
  ASSUME NEW c \in Clients, NEW n \in Notification
  PROVE  Entries(c, n) \in SUBSET LedgerRow
BY DEF Entries, LedgerRow, Notification

(* A job row keeps its type when it is marked paid. *)
LEMMA PaidRowType ==
  ASSUME NEW row \in JobRow
  PROVE  [row EXCEPT !.state = "PAID"] \in JobRow
BY DEF JobRow, JobStates

-----------------------------------------------------------------------------
(* Type correctness *)

(* The initial states are typed: no request has been sent, no job is paid.     *)
LEMMA InitType == Init => TypeInv
<1> SUFFICES ASSUME Init PROVE TypeInv
  OBVIOUS
<1>1. db \in Tables
  BY SeedAssumption DEF Init, LocalInit, PgInit, NoWrites, Tables
<1>2. PgTypeOK
  BY <1>1, NoWritesType DEF Init, LocalInit, PgInit, PgTypeOK
<1>3. pc \in [Requests -> Points] /\ dto \in [Requests -> Notifications \cup {NoDto}]
  BY DEF Init, LocalInit, Points
<1>4. BodySent /\ JobFound
  BY DEF Init, LocalInit, BodySent, JobFound
<1> QED
  BY <1>2, <1>3, <1>4 DEF TypeInv, TypeOK

(* Every action keeps the types, that a request which has been sent has a body,*)
(* and that the job UpdateJob reads exists: one step per action.               *)
LEMMA TypeStep == TypeInv /\ [Next]_vars => TypeInv'
<1> SUFFICES ASSUME TypeInv, [Next]_vars PROVE TypeInv'
  OBVIOUS
<1> USE PaymentsAssumption
<1>0. /\ db \in Tables /\ disk \in Tables /\ txn \in [Clients -> Tables]
      /\ held \in SUBSET Clients
      /\ pc \in [Requests -> Points]
      /\ dto \in [Requests -> Notifications \cup {NoDto}]
      /\ syncCommit' \in BOOLEAN
  BY DEF TypeInv, TypeOK, PgTypeOK, Next, SettingKept, vars
<1>1. ASSUME NEW r \in Requests, Receive(r) PROVE TypeInv'
  BY <1>0, <1>1 DEF Receive, Goto, pgVars, TypeInv, TypeOK, PgTypeOK, BodySent, JobFound, Points, InTxn
<1>2. ASSUME NEW r \in Requests, Connect(r) PROVE TypeInv'
  BY <1>0, <1>2 DEF Connect, CheckOut, Goto, TypeInv, TypeOK, PgTypeOK, BodySent, JobFound, Points, InTxn
<1>3. ASSUME NEW r \in Requests, ConnectFails(r) PROVE TypeInv'
  BY <1>0, <1>3 DEF ConnectFails, Goto, pgVars, TypeInv, TypeOK, PgTypeOK, BodySent, JobFound, Points, InTxn, Ended
<1>4. ASSUME NEW r \in Requests, InsertIpn(r) PROVE TypeInv'
  <2>1. dto[r] \in Notification
    BY <1>0, <1>4 DEF InsertIpn, TypeInv, BodySent
  <2>2. [txn[r] EXCEPT !.ipn = {[id |-> r, note |-> dto[r]]}] \in Tables
    <3>1. {[id |-> r, note |-> dto[r]]} \in SUBSET IpnRow
      BY <2>1 DEF IpnRow
    <3> QED
      BY <1>0, <3>1 DEF Tables
  <2>3. txn' \in [Clients -> Tables]
    BY <1>4, <2>2, WriteType, <1>0 DEF InsertIpn, TypeInv, TypeOK
  <2>4. pc' \in [Requests -> Points] /\ pc'[r] # "job" /\ pc[r] # "idle"
          /\ \A q \in Requests \ {r} : pc'[q] = pc[q]
    BY <1>0, <1>4 DEF InsertIpn, Goto, Points, InTxn
  <2> QED
    BY <1>0, <1>4, <2>3, <2>4 DEF InsertIpn, TypeInv, TypeOK, PgTypeOK, BodySent, JobFound
<1>5. ASSUME NEW r \in Requests, InsertLedger(r) PROVE TypeInv'
  <2>1. dto[r] \in Notification
    BY <1>0, <1>5 DEF InsertLedger, TypeInv, BodySent
  <2>2. [txn[r] EXCEPT !.ledger = Entries(r, dto[r])] \in Tables
    BY <1>0, <2>1, EntriesType DEF Tables
  <2>3. txn' \in [Clients -> Tables]
    BY <1>5, <2>2, WriteType, NoWritesType, <1>0 DEF InsertLedger, AbortTxn, TypeInv, TypeOK
  <2>4. pc' \in [Requests -> Points] /\ (pc'[r] = "job" => db.jobs[dto[r].job] # NoRow)
          /\ pc[r] # "idle" /\ \A q \in Requests \ {r} : pc'[q] = pc[q]
    BY <1>0, <1>5 DEF InsertLedger, Goto, Points, InTxn
  <2> QED
    BY <1>0, <1>5, <2>3, <2>4 DEF InsertLedger, TypeInv, TypeOK, PgTypeOK, BodySent, JobFound
<1>6. ASSUME NEW r \in Requests, UpdateJob(r) PROVE TypeInv'
  <2>1. dto[r] \in Notification /\ dto[r].job \in JobIds
    BY <1>0, <1>6 DEF UpdateJob, TypeInv, BodySent, Notification
  <2>2. [db.jobs[dto[r].job] EXCEPT !.state = "PAID"] \in JobRow
    BY <1>0, <1>6, <2>1, PaidRowType DEF UpdateJob, TypeInv, JobFound, Tables
  <2>3. [txn[r] EXCEPT !.jobs[dto[r].job] =
            [db.jobs[dto[r].job] EXCEPT !.state = "PAID"]] \in Tables
    BY <1>0, <2>1, <2>2 DEF Tables
  <2>4. txn' \in [Clients -> Tables]
    BY <1>6, <2>3, WriteType, <1>0 DEF UpdateJob, TypeInv, TypeOK
  <2>5. pc' \in [Requests -> Points] /\ pc'[r] # "job" /\ pc[r] # "idle"
          /\ \A q \in Requests \ {r} : pc'[q] = pc[q]
    BY <1>0, <1>6 DEF UpdateJob, Goto, Points, InTxn
  <2> QED
    BY <1>0, <1>6, <2>4, <2>5 DEF UpdateJob, TypeInv, TypeOK, PgTypeOK, BodySent, JobFound
<1>7. ASSUME NEW r \in Requests, Commit(r) PROVE TypeInv'
  BY <1>0, <1>7, ApplyType, NoWritesType DEF Commit, CommitTxn, Write, Goto, TypeInv, TypeOK, PgTypeOK, BodySent, JobFound, Points, InTxn, Apply, Merge, Tables, Notification
<1>8. ASSUME NEW r \in Requests, AnswerProcessed(r) PROVE TypeInv'
  BY <1>0, <1>8 DEF AnswerProcessed, Release, Goto, TypeInv, TypeOK, PgTypeOK, BodySent, JobFound, Points, InTxn, Ended
<1>9. ASSUME NEW r \in Requests, AnswerDuplicate(r) PROVE TypeInv'
  BY <1>0, <1>9, NoWritesType DEF AnswerDuplicate, AbortTxn, Write, Release, Goto, TypeInv, TypeOK, PgTypeOK, BodySent, JobFound, Points, InTxn, Ended
<1>10. ASSUME NEW r \in Requests, Abort(r) PROVE TypeInv'
  BY <1>0, <1>10 DEF Abort, Release, Goto, TypeInv, TypeOK, PgTypeOK, BodySent, JobFound, Points, InTxn, Ended
<1>11. ASSUME NEW r \in Requests, QueryFails(r) PROVE TypeInv'
  BY <1>0, <1>11, NoWritesType DEF QueryFails, AbortTxn, Write, Goto, TypeInv, TypeOK, PgTypeOK, BodySent, JobFound, Points, InTxn
<1>12. ASSUME NEW p \in Procs, Crash(p) PROVE TypeInv'
  BY <1>0, <1>12, NoWritesType DEF Crash, Die, ConnectionsLost, TypeInv, TypeOK, PgTypeOK, BodySent, JobFound, Points, InTxn, Ended
<1>13. ASSUME PgCrash PROVE TypeInv'
  BY <1>0, <1>13, NoWritesType DEF PgCrash, LoseServer, PgRestart, TypeInv, TypeOK, PgTypeOK, BodySent, JobFound, Points, InTxn, Ended
<1>14. ASSUME Flush PROVE TypeInv'
  BY <1>0, <1>14 DEF Flush, WalFlush, handlerVars, TypeInv, TypeOK, PgTypeOK, BodySent, JobFound
<1>15. ASSUME UNCHANGED vars PROVE TypeInv'
  BY <1>0, <1>15 DEF vars, TypeInv, TypeOK, PgTypeOK, BodySent, JobFound
<1> QED
  BY <1>1, <1>2, <1>3, <1>4, <1>5, <1>6, <1>7, <1>8, <1>9, <1>10, <1>11, <1>12, <1>13, <1>14, <1>15
  DEF Next, Local, Handle

(* Whatever the interleaving and the crashes, every variable has its type. *)
THEOREM TypeCorrect == Spec => []TypeOK
<1>1. TypeInv => TypeOK
  BY DEF TypeInv
<1> QED
  BY InitType, TypeStep, <1>1, PTL DEF Spec
-----------------------------------------------------------------------------
(* The inductive invariant *)

(* The empty write set is what a request that is not recording has written.    *)
LEMMA NothingWritten ==
  ASSUME NEW c, NEW n, NEW point, point \notin Recording
  PROVE  Wrote(c, NoWrites, n, point)
BY DEF NoWrites, Wrote, Recording

(* What a request has written when it is not recording is nothing, at any such *)
(* point and with any body.                                                    *)
LEMMA StillNothing ==
  ASSUME NEW c, NEW w, NEW n, NEW m, NEW p, NEW q,
         p \notin Recording, q \notin Recording, Wrote(c, w, n, p)
  PROVE  Wrote(c, w, m, q)
BY DEF Wrote, Recording

(* The initial tables are settled, because no seeded job is PAID.              *)
LEMMA InitInv == Init => IInv
<1> SUFFICES ASSUME Init PROVE IInv
  OBVIOUS
<1> USE PaymentsAssumption
<1>1. TypeInv
  BY InitType
<1>2. \A r \in Requests : pc[r] = "idle" /\ pc[r] \notin Recording
  BY DEF Init, LocalInit, Recording
<1>3. OnlySuccessIsBooked /\ NewKeys
  BY <1>2 DEF OnlySuccessIsBooked, NewKeys
<1>4. WriteSets
  <2>1. \A c \in Clients : txn[c] = NoWrites
    BY DEF Init, LocalInit, PgInit
  <2> QED
    BY <1>2, <2>1, NothingWritten DEF WriteSets, Recording
<1>5. db.ipn = {} /\ db.ledger = {} /\ db.jobs = SeedJobs /\ disk = db
  BY DEF Init, LocalInit, PgInit, NoWrites
<1>6. Keyed(db) /\ Keyed(disk)
  BY <1>5 DEF Keyed
<1>7. Settled(db) /\ Settled(disk)
  BY <1>5, SeedAssumption DEF Settled
<1> QED
  BY <1>1, <1>3, <1>4, <1>6, <1>7 DEF IInv

(* A step that writes no table, lets no request begin to write, and drops the  *)
(* write set of whoever stops writing, preserves the invariant.                *)
LEMMA QuietStep ==
  ASSUME IInv, TypeInv', UNCHANGED <<db, disk>>,
         \A q \in Requests : pc[q] # "idle" => pc'[q] # "idle" /\ dto'[q] = dto[q],
         \A q \in Requests : pc'[q] \in Recording => pc'[q] = pc[q],
         \A c \in Clients : txn'[c] = txn[c] \/ txn'[c] = NoWrites,
         \A q \in Requests :
           IF pc'[q] \in Recording THEN txn'[q] = txn[q]
           ELSE pc[q] \in Recording => txn'[q] = NoWrites
  PROVE  IInv'
<1> USE PaymentsAssumption
<1>1. "idle" \notin Recording
  BY DEF Recording
<1>2. OnlySuccessIsBooked'
  BY <1>1 DEF IInv, OnlySuccessIsBooked, Recording
<1>3. WriteSets'
  <2>1. ASSUME NEW r \in Requests PROVE Wrote(r, txn'[r], dto'[r], pc'[r])
    <3>1. Wrote(r, txn[r], dto[r], pc[r])
      BY DEF IInv, WriteSets
    <3>2. CASE pc'[r] \in Recording
      BY <1>1, <3>1, <3>2
    <3>3. CASE pc'[r] \notin Recording
      BY <3>1, <3>3, NothingWritten, StillNothing
    <3> QED
      BY <3>2, <3>3
  <2>2. ASSUME NEW c \in Clients \ Requests PROVE Wrote(c, txn'[c], NoDto, "idle")
    BY <1>1, NothingWritten DEF IInv, WriteSets
  <2> QED
    BY <2>1, <2>2 DEF WriteSets, Wrote, Entries
<1>4. NewKeys'
  <2> SUFFICES ASSUME NEW q \in Requests, NEW r \in Requests, pc'[q] \in Recording
               PROVE  /\ dto'[q].key \notin RecordedKeys(db')
                      /\ pc'[r] \in Recording /\ dto'[r].key = dto'[q].key => r = q
    BY DEF NewKeys, RecordedKeys
  <2> QED
    BY <1>1 DEF IInv, NewKeys, RecordedKeys
<1>5. Keyed(db)' /\ Keyed(disk)'
  BY DEF IInv, Keyed
<1>6. Settled(db)' /\ Settled(disk)'
  BY DEF IInv, Settled, Entries, IsSuccess
<1> QED
  BY <1>2, <1>3, <1>4, <1>5, <1>6 DEF IInv

(* A statement inside the transaction of r keeps the write sets accounted for  *)
(* if its own is, and the tables as they were.                                 *)
LEMMA StatementStep ==
  ASSUME IInv, UNCHANGED <<db, disk, dto>>,
         NEW r \in Requests, NEW w, NEW point,
         pc[r] # "idle", point # "idle", Goto(r, point), Write(r, w),
         Wrote(r, w, dto[r], point)
  PROVE  WriteSets' /\ Keyed(db)' /\ Keyed(disk)' /\ Settled(db)' /\ Settled(disk)'
<1> USE PaymentsAssumption
<1>0. pc \in [Requests -> Points] /\ txn \in [Clients -> Tables] /\ r \in Clients
  BY DEF IInv, TypeInv, TypeOK, PgTypeOK
<1>1. /\ pc'[r] = point /\ txn'[r] = w
      /\ \A q \in Requests \ {r} : pc'[q] = pc[q] /\ txn'[q] = txn[q]
      /\ \A c \in Clients \ Requests : txn'[c] = txn[c]
  BY <1>0 DEF Goto, Write
<1>2. WriteSets'
  <2>1. ASSUME NEW q \in Requests PROVE Wrote(q, txn'[q], dto'[q], pc'[q])
    BY <1>1 DEF IInv, WriteSets
  <2>2. ASSUME NEW c \in Clients \ Requests PROVE Wrote(c, txn'[c], NoDto, "idle")
    BY <1>1 DEF IInv, WriteSets
  <2> QED
    BY <2>1, <2>2 DEF WriteSets, Wrote, Entries
<1>3. Keyed(db)' /\ Keyed(disk)'
  BY <1>1 DEF IInv, Keyed
<1>4. Settled(db)' /\ Settled(disk)'
  BY DEF IInv, Settled, Entries, IsSuccess
<1> QED
  BY <1>2, <1>3, <1>4

(* The INSERT of the IPN row: no other open transaction holds the key and no   *)
(* committed row has it, so the keys being recorded stay new and distinct.     *)
LEMMA InsertIpnInv ==
  ASSUME IInv, TypeInv', NEW r \in Requests, InsertIpn(r)
  PROVE  IInv'
<1> USE PaymentsAssumption
<1>0. pc \in [Requests -> Points] /\ txn \in [Clients -> Tables]
  BY DEF IInv, TypeInv, TypeOK, PgTypeOK
<1>1. CASE Goto(r, "rollback") /\ UNCHANGED txn
  <2>1. pc'[r] = "rollback" /\ pc[r] = "ipn" /\ \A q \in Requests \ {r} : pc'[q] = pc[q]
    BY <1>0, <1>1 DEF InsertIpn, Goto
  <2>2. UNCHANGED <<db, disk, dto, txn>>
    BY <1>1 DEF InsertIpn
  <2> QED
    BY <2>1, <2>2, QuietStep DEF Recording
<1>2. CASE /\ dto[r].key \notin RecordedKeys(db)
           /\ Write(r, [txn[r] EXCEPT !.ipn = {[id |-> r, note |-> dto[r]]}])
           /\ Goto(r, IF dto[r].status = "SUCCESS" THEN "ledger" ELSE "commit")
  <2> DEFINE w == [txn[r] EXCEPT !.ipn = {[id |-> r, note |-> dto[r]]}]
             point == IF dto[r].status = "SUCCESS" THEN "ledger" ELSE "commit"
  <2>1. UNCHANGED <<db, disk, dto>> /\ pc[r] = "ipn"
    BY DEF InsertIpn
  <2>2. /\ pc'[r] = point
        /\ \A q \in Requests \ {r} : pc'[q] = pc[q]
    BY <1>0, <1>2 DEF Goto
  <2>3. Wrote(r, w, dto[r], point)
    <3>1. Wrote(r, txn[r], dto[r], "ipn")
      BY <2>1 DEF IInv, WriteSets
    <3>2. txn[r] \in Tables
      BY <1>0
    <3> QED
      BY <3>1, <3>2 DEF Wrote, Recording, Tables
  <2>4. WriteSets' /\ Keyed(db)' /\ Keyed(disk)' /\ Settled(db)' /\ Settled(disk)'
    BY <1>2, <2>1, <2>3, StatementStep
  <2>5. OnlySuccessIsBooked'
    BY <2>1, <2>2 DEF IInv, OnlySuccessIsBooked
  <2>6. \A q \in Requests \ {r} : pc[q] \in Recording => dto[q].key # dto[r].key
    <3> SUFFICES ASSUME NEW q \in Requests \ {r}, pc[q] \in Recording
                 PROVE  dto[q].key # dto[r].key
      OBVIOUS
    <3>1. txn[q].ipn = {[id |-> q, note |-> dto[q]]}
      BY DEF IInv, WriteSets, Wrote
    <3>2. dto[q].key \in RecordedKeys(txn[q])
      BY <3>1 DEF RecordedKeys
    <3> QED
      BY <3>2 DEF InsertIpn, KeyInFlight
  <2>7. NewKeys'
    <3> SUFFICES ASSUME NEW p \in Requests, NEW q \in Requests, pc'[p] \in Recording
                 PROVE  /\ dto'[p].key \notin RecordedKeys(db')
                        /\ pc'[q] \in Recording /\ dto'[q].key = dto'[p].key => q = p
      BY DEF NewKeys, RecordedKeys
    <3> QED
      BY <1>2, <2>1, <2>2, <2>6 DEF IInv, NewKeys, RecordedKeys
  <2> QED
    BY <2>4, <2>5, <2>7 DEF IInv
<1> QED
  BY <1>1, <1>2 DEF InsertIpn

(* A step inside the recording points leaves the keys new.                     *)
LEMMA SameKeys ==
  ASSUME IInv, UNCHANGED <<db, dto>>,
         \A q \in Requests : pc'[q] \in Recording => pc[q] \in Recording
  PROVE  NewKeys'
<1> SUFFICES ASSUME NEW p \in Requests, NEW q \in Requests, pc'[p] \in Recording
             PROVE  /\ dto'[p].key \notin RecordedKeys(db')
                    /\ pc'[q] \in Recording /\ dto'[q].key = dto'[p].key => q = p
  BY DEF NewKeys, RecordedKeys
<1> QED
  BY DEF IInv, NewKeys, RecordedKeys

(* The INSERT of the ledger pair adds it to the write set of r and to nothing  *)
(* else; a violated foreign key empties the write set instead.                 *)
LEMMA InsertLedgerInv ==
  ASSUME IInv, TypeInv', NEW r \in Requests, InsertLedger(r)
  PROVE  IInv'
<1> USE PaymentsAssumption
<1>0. pc \in [Requests -> Points] /\ txn \in [Clients -> Tables]
  BY DEF IInv, TypeInv, TypeOK, PgTypeOK
<1>1. CASE AbortTxn(r) /\ Goto(r, "abort")
  <2>1. pc'[r] = "abort" /\ pc[r] = "ledger" /\ \A q \in Requests \ {r} : pc'[q] = pc[q]
    BY <1>0, <1>1 DEF InsertLedger, Goto
  <2>2. /\ UNCHANGED <<db, disk, dto>>
        /\ txn'[r] = NoWrites /\ \A c \in Clients \ {r} : txn'[c] = txn[c]
    BY <1>0, <1>1 DEF InsertLedger, AbortTxn, Write
  <2> QED
    BY <2>1, <2>2, QuietStep DEF Recording
<1>2. CASE /\ Write(r, [txn[r] EXCEPT !.ledger = Entries(r, dto[r])])
           /\ Goto(r, "job")
  <2>1. UNCHANGED <<db, disk, dto>> /\ pc[r] = "ledger"
    BY DEF InsertLedger
  <2>2. /\ pc'[r] = "job"
        /\ \A q \in Requests \ {r} : pc'[q] = pc[q]
    BY <1>0, <1>2 DEF Goto
  <2>3. Wrote(r, [txn[r] EXCEPT !.ledger = Entries(r, dto[r])], dto[r], "job")
    <3>1. Wrote(r, txn[r], dto[r], "ledger")
      BY <2>1 DEF IInv, WriteSets
    <3>2. txn[r] \in Tables
      BY <1>0
    <3> QED
      BY <3>1, <3>2 DEF Wrote, Recording, Tables
  <2>4. WriteSets' /\ Keyed(db)' /\ Keyed(disk)' /\ Settled(db)' /\ Settled(disk)'
    BY <1>2, <2>1, <2>3, StatementStep
  <2>5. OnlySuccessIsBooked'
    BY <2>1, <2>2 DEF IInv, OnlySuccessIsBooked
  <2>6. NewKeys'
    BY <2>1, <2>2, SameKeys DEF Recording
  <2> QED
    BY <2>4, <2>5, <2>6 DEF IInv
<1> QED
  BY <1>1, <1>2 DEF InsertLedger

(* The UPDATE of the job completes the write set of a SUCCESS.                 *)
LEMMA UpdateJobInv ==
  ASSUME IInv, TypeInv', NEW r \in Requests, UpdateJob(r)
  PROVE  IInv'
<1> USE PaymentsAssumption
<1> DEFINE row == [db.jobs[dto[r].job] EXCEPT !.state = "PAID"]
           w == [txn[r] EXCEPT !.jobs[dto[r].job] = row]
<1>0. pc \in [Requests -> Points] /\ txn \in [Clients -> Tables] /\ db \in Tables
  BY DEF IInv, TypeInv, TypeOK, PgTypeOK
<1>1. UNCHANGED <<db, disk, dto>> /\ pc[r] = "job" /\ dto[r].status = "SUCCESS"
  BY DEF UpdateJob, IInv, OnlySuccessIsBooked
<1>2. pc'[r] = "commit" /\ \A q \in Requests \ {r} : pc'[q] = pc[q]
  BY <1>0 DEF UpdateJob, Goto
<1>3. Wrote(r, w, dto[r], "commit")
  <2>1. Wrote(r, txn[r], dto[r], "job")
    BY <1>1 DEF IInv, WriteSets
  <2>2. txn[r] \in Tables /\ dto[r].job \in JobIds
    BY <1>0, <1>1 DEF IInv, TypeInv, TypeOK, BodySent, Notification
  <2>3. row \in JobRow /\ row.state = "PAID"
    BY <1>0, <1>1, <2>2, PaidRowType DEF IInv, TypeInv, JobFound, Tables, JobRow
  <2>4. row # NoRow
    BY <2>3, SeedAssumption
  <2> HIDE DEF row
  <2> QED
    BY <1>1, <2>1, <2>2, <2>3, <2>4 DEF Wrote, Recording, Tables
<1>4. WriteSets' /\ Keyed(db)' /\ Keyed(disk)' /\ Settled(db)' /\ Settled(disk)'
  <2> Write(r, w) /\ Goto(r, "commit")
    BY DEF UpdateJob
  <2> QED
    BY <1>1, <1>3, StatementStep
<1>5. OnlySuccessIsBooked'
  BY <1>1, <1>2 DEF IInv, OnlySuccessIsBooked
<1>6. NewKeys'
  BY <1>1, <1>2, SameKeys DEF Recording
<1> QED
  BY <1>4, <1>5, <1>6 DEF IInv

(* Merging the writes of a complete transaction settles what was settled.      *)
LEMMA MergeSettled ==
  ASSUME NEW s \in Tables, NEW w \in Tables, NEW c \in Clients, NEW n \in Notification,
         Settled(s), Wrote(c, w, n, "commit")
  PROVE  Settled(Merge(s, w))
<1> DEFINE m == Merge(s, w)
           row == [id |-> c, note |-> n]
<1>1. /\ m.ipn = s.ipn \cup {row}
      /\ m.ledger = s.ledger \cup (IF n.status = "SUCCESS" THEN Entries(c, n) ELSE {})
      /\ \A j \in JobIds :
           m.jobs[j] = IF n.status = "SUCCESS" /\ j = n.job THEN w.jobs[j] ELSE s.jobs[j]
  BY DEF Merge, Wrote, Recording
<1>2. n.status = "SUCCESS" => w.jobs[n.job] # NoRow /\ w.jobs[n.job].state = "PAID"
  BY DEF Wrote, Notification
<1> HIDE DEF m
<1>3. m.ledger = UNION {Entries(x.id, x.note) : x \in {y \in m.ipn : IsSuccess(y)}}
  <2>1. CASE n.status = "SUCCESS"
    <3>1. {y \in m.ipn : IsSuccess(y)} = {y \in s.ipn : IsSuccess(y)} \cup {row}
      BY <1>1, <2>1 DEF IsSuccess
    <3>2. row.id = c /\ row.note = n
      OBVIOUS
    <3>3. m.ledger = s.ledger \cup Entries(c, n)
      BY <1>1, <2>1
    <3> SUFFICES ASSUME NEW e
                 PROVE  e \in m.ledger <=>
                          \E x \in {y \in m.ipn : IsSuccess(y)} : e \in Entries(x.id, x.note)
      OBVIOUS
    <3>4. e \in s.ledger <=>
            \E x \in {y \in s.ipn : IsSuccess(y)} : e \in Entries(x.id, x.note)
      BY DEF Settled
    <3> HIDE DEF row
    <3> QED
      BY <3>1, <3>2, <3>3, <3>4
  <2>2. CASE n.status # "SUCCESS"
    <3>1. {y \in m.ipn : IsSuccess(y)} = {y \in s.ipn : IsSuccess(y)}
      BY <1>1, <2>2 DEF IsSuccess
    <3> QED
      BY <1>1, <2>2, <3>1 DEF Settled
  <2> QED
    BY <2>1, <2>2
<1>4. ASSUME NEW j \in JobIds
      PROVE  (m.jobs[j] # NoRow /\ m.jobs[j].state = "PAID")
               <=> \E x \in m.ipn : IsSuccess(x) /\ x.note.job = j
  <2>1. IsSuccess(row) <=> n.status = "SUCCESS"
    BY DEF IsSuccess
  <2>2. (s.jobs[j] # NoRow /\ s.jobs[j].state = "PAID")
          <=> \E x \in s.ipn : IsSuccess(x) /\ x.note.job = j
    BY DEF Settled
  <2>3. CASE n.status = "SUCCESS" /\ j = n.job
    BY <1>1, <1>2, <2>1, <2>3
  <2>4. CASE ~(n.status = "SUCCESS" /\ j = n.job)
    BY <1>1, <2>1, <2>2, <2>4
  <2> QED
    BY <2>3, <2>4
<1> QED
  BY <1>3, <1>4 DEF Settled, m

(* The COMMIT publishes a complete write set under a new key: the tables stay  *)
(* settled and keyed, and the keys the others are recording stay new.          *)
LEMMA CommitInv ==
  ASSUME IInv, TypeInv', NEW r \in Requests, Commit(r)
  PROVE  IInv'
<1> USE PaymentsAssumption
<1> DEFINE w == txn[r]
           m == Merge(db, w)
           row == [id |-> r, note |-> dto[r]]
<1>0. /\ pc \in [Requests -> Points] /\ txn \in [Clients -> Tables]
      /\ db \in Tables /\ w \in Tables /\ r \in Clients
  BY DEF IInv, TypeInv, TypeOK, PgTypeOK
<1>1. /\ pc[r] = "commit" /\ dto' = dto /\ dto[r] \in Notification
      /\ db' = m /\ (disk' = m \/ disk' = disk)
      /\ txn' = [txn EXCEPT ![r] = NoWrites]
      /\ pc' = [pc EXCEPT ![r] = "ack"]
  BY DEF Commit, CommitTxn, Apply, Write, Goto, IInv, TypeInv, TypeOK, BodySent
<1>2. /\ pc'[r] = "ack" /\ txn'[r] = NoWrites
      /\ \A q \in Requests \ {r} : pc'[q] = pc[q]
      /\ \A c \in Clients \ {r} : txn'[c] = txn[c]
  BY <1>0, <1>1
<1>3. Wrote(r, w, dto[r], "commit")
  BY <1>1 DEF IInv, WriteSets
<1>4. m.ipn = db.ipn \cup {row}
  BY <1>3 DEF Merge, Wrote, Recording
<1>5. dto[r].key \notin RecordedKeys(db)
  BY <1>1 DEF IInv, NewKeys, Recording
<1>6. Settled(m)
  BY <1>0, <1>1, <1>3, MergeSettled DEF IInv
<1> HIDE DEF m, w
<1>7. OnlySuccessIsBooked'
  BY <1>1, <1>2 DEF IInv, OnlySuccessIsBooked
<1>8. WriteSets'
  <2>1. ASSUME NEW q \in Requests PROVE Wrote(q, txn'[q], dto'[q], pc'[q])
    <3>1. CASE q = r
      BY <1>2, <3>1, NothingWritten DEF Recording
    <3>2. CASE q # r
      BY <1>1, <1>2, <3>2 DEF IInv, WriteSets
    <3> QED
      BY <3>1, <3>2
  <2>2. ASSUME NEW c \in Clients \ Requests PROVE Wrote(c, txn'[c], NoDto, "idle")
    BY <1>2 DEF IInv, WriteSets
  <2> QED
    BY <2>1, <2>2 DEF WriteSets, Wrote, Entries
<1>9. NewKeys'
  <2> SUFFICES ASSUME NEW p \in Requests, NEW q \in Requests, pc'[p] \in Recording
               PROVE  /\ dto[p].key \notin RecordedKeys(m)
                      /\ pc'[q] \in Recording /\ dto[q].key = dto[p].key => q = p
    BY <1>1 DEF NewKeys, RecordedKeys
  <2>1. p # r /\ pc[p] \in Recording /\ (pc'[q] \in Recording => pc[q] \in Recording)
    BY <1>1, <1>2 DEF Recording
  <2>2. dto[p].key # dto[r].key
    BY <1>1, <2>1 DEF IInv, NewKeys, Recording
  <2>3. dto[p].key \notin RecordedKeys(db)
    BY <2>1 DEF IInv, NewKeys
  <2> QED
    BY <1>4, <2>1, <2>2, <2>3 DEF IInv, NewKeys, RecordedKeys
<1>10. Keyed(db)'
  <2>1. ASSUME NEW x \in m.ipn
        PROVE  x.id \in Requests /\ pc'[x.id] # "idle" /\ x.note = dto[x.id]
    BY <1>1, <1>2, <1>4 DEF IInv, Keyed
  <2>2. ASSUME NEW x \in m.ipn, NEW y \in m.ipn, x.note.key = y.note.key PROVE x = y
    BY <1>4, <1>5, <2>2 DEF IInv, Keyed, RecordedKeys
  <2> QED
    BY <1>1, <2>1, <2>2 DEF Keyed
<1>11. Keyed(disk)'
  <2>1. CASE disk' = m
    BY <1>1, <1>10, <2>1 DEF Keyed
  <2>2. CASE disk' = disk
    BY <1>1, <1>2, <2>2 DEF IInv, Keyed
  <2> QED
    BY <1>1, <2>1, <2>2
<1>12. Settled(db)' /\ Settled(disk)'
  BY <1>1, <1>6 DEF IInv, Settled, Entries, IsSuccess
<1> QED
  BY <1>7, <1>8, <1>9, <1>10, <1>11, <1>12 DEF IInv

(* The steps that write no table, one by one.                                  *)
LEMMA HandlerQuiet ==
  ASSUME IInv, TypeInv', NEW r \in Requests,
         \/ Receive(r) \/ Connect(r) \/ ConnectFails(r) \/ AnswerProcessed(r)
         \/ AnswerDuplicate(r) \/ Abort(r) \/ QueryFails(r)
  PROVE  IInv'
<1> USE PaymentsAssumption
<1>0. /\ pc \in [Requests -> Points] /\ txn \in [Clients -> Tables]
      /\ dto \in [Requests -> Notifications \cup {NoDto}]
  BY DEF IInv, TypeInv, TypeOK, PgTypeOK
<1>1. CASE Receive(r)
  <2>1. /\ UNCHANGED <<db, disk, txn>>
        /\ pc[r] = "idle" /\ pc'[r] = "connecting"
        /\ \A q \in Requests \ {r} : pc'[q] = pc[q] /\ dto'[q] = dto[q]
    BY <1>0, <1>1 DEF Receive, Goto, pgVars
  <2> QED
    BY <2>1, QuietStep DEF Recording
<1>2. CASE Connect(r) \/ ConnectFails(r) \/ AnswerProcessed(r) \/ Abort(r)
  <2>1. /\ UNCHANGED <<db, disk, txn, dto>>
        /\ pc[r] \in {"connecting", "ack", "abort"} /\ pc'[r] \in {"ipn"} \cup Ended
        /\ \A q \in Requests \ {r} : pc'[q] = pc[q]
    BY <1>0, <1>2 DEF Connect, ConnectFails, AnswerProcessed, Abort, Goto, pgVars, Ended
  <2> QED
    BY <2>1, QuietStep DEF Recording, Ended
<1>3. CASE AnswerDuplicate(r) \/ QueryFails(r)
  <2>1. /\ UNCHANGED <<db, disk, dto>>
        /\ pc[r] \in InTxn /\ pc'[r] \in {"duplicate", "abort"}
        /\ txn'[r] = NoWrites
        /\ \A q \in Requests \ {r} : pc'[q] = pc[q]
        /\ \A c \in Clients \ {r} : txn'[c] = txn[c]
    BY <1>0, <1>3 DEF AnswerDuplicate, QueryFails, AbortTxn, Write, Goto, InTxn
  <2> QED
    BY <2>1, QuietStep DEF Recording, InTxn
<1> QED
  BY <1>1, <1>2, <1>3

(* The death of a process drops the write sets of the requests that die.       *)
LEMMA CrashInv ==
  ASSUME IInv, TypeInv', NEW p \in Procs, Crash(p)
  PROVE  IInv'
<1> USE PaymentsAssumption
<1>1. /\ UNCHANGED <<db, disk, dto>>
      /\ \A r \in Requests :
           pc'[r] = IF Home[r] = p /\ pc[r] \in {"connecting"} \cup InTxn THEN "dead" ELSE pc[r]
      /\ \A c \in Clients : txn'[c] = IF Home[c] = p THEN NoWrites ELSE txn[c]
  BY DEF Crash, Die, ConnectionsLost
<1> QED
  BY <1>1, QuietStep DEF Recording, InTxn

(* A restart of the server puts the durable tables, which are settled and      *)
(* keyed, in the place of the committed ones, and drops every write set.       *)
LEMMA PgCrashInv ==
  ASSUME IInv, TypeInv', PgCrash
  PROVE  IInv'
<1> USE PaymentsAssumption
<1>1. /\ UNCHANGED <<disk, dto>> /\ db' = disk
      /\ \A c \in Clients : txn'[c] = NoWrites
      /\ \A r \in Requests : pc'[r] \notin Recording /\ (pc[r] # "idle" => pc'[r] # "idle")
  BY DEF PgCrash, LoseServer, PgRestart, Recording, InTxn
<1>2. OnlySuccessIsBooked' /\ NewKeys'
  BY <1>1 DEF OnlySuccessIsBooked, NewKeys, Recording
<1>3. WriteSets'
  <2>1. ASSUME NEW q \in Requests PROVE Wrote(q, txn'[q], dto'[q], pc'[q])
    BY <1>1, NothingWritten
  <2>2. ASSUME NEW c \in Clients \ Requests PROVE Wrote(c, txn'[c], NoDto, "idle")
    BY <1>1, NothingWritten DEF Recording
  <2> QED
    BY <2>1, <2>2 DEF WriteSets, Wrote, Entries
<1>4. Keyed(db)' /\ Keyed(disk)'
  BY <1>1 DEF IInv, Keyed
<1>5. Settled(db)' /\ Settled(disk)'
  BY <1>1 DEF IInv, Settled, Entries, IsSuccess
<1> QED
  BY <1>2, <1>3, <1>4, <1>5 DEF IInv

(* A flush of the WAL puts the committed tables in the place of the durable.   *)
LEMMA FlushInv ==
  ASSUME IInv, TypeInv', Flush
  PROVE  IInv'
<1>1. UNCHANGED <<pc, dto, db, txn>> /\ disk' = db
  BY DEF Flush, WalFlush, handlerVars
<1>2. OnlySuccessIsBooked' /\ NewKeys'
  BY <1>1, SameKeys DEF IInv, OnlySuccessIsBooked
<1>3. WriteSets'
  <2>1. ASSUME NEW q \in Requests PROVE Wrote(q, txn'[q], dto'[q], pc'[q])
    BY <1>1 DEF IInv, WriteSets
  <2>2. ASSUME NEW c \in Clients \ Requests PROVE Wrote(c, txn'[c], NoDto, "idle")
    BY <1>1 DEF IInv, WriteSets
  <2> QED
    BY <2>1, <2>2 DEF WriteSets, Wrote, Entries
<1>4. Keyed(db)' /\ Keyed(disk)'
  BY <1>1 DEF IInv, Keyed
<1>5. Settled(db)' /\ Settled(disk)'
  BY <1>1 DEF IInv, Settled, Entries, IsSuccess
<1> QED
  BY <1>2, <1>3, <1>4, <1>5 DEF IInv

(* The invariant is inductive: one case per action.                            *)
LEMMA Inductive == IInv /\ [Next]_vars => IInv'
<1> SUFFICES ASSUME IInv, [Next]_vars PROVE IInv'
  OBVIOUS
<1>1. TypeInv'
  BY TypeStep DEF IInv
<1>2. ASSUME NEW r \in Requests, Receive(r) \/ Handle(r) \/ QueryFails(r) PROVE IInv'
  BY <1>1, <1>2, HandlerQuiet, InsertIpnInv, InsertLedgerInv, UpdateJobInv, CommitInv DEF Handle
<1>3. ASSUME NEW p \in Procs, Crash(p) PROVE IInv'
  BY <1>1, <1>3, CrashInv
<1>4. CASE PgCrash
  BY <1>1, <1>4, PgCrashInv
<1>5. CASE Flush
  BY <1>1, <1>5, FlushInv
<1>6. CASE UNCHANGED vars
  BY <1>1, <1>6, QuietStep DEF vars, IInv, WriteSets, Wrote
<1> QED
  BY <1>2, <1>3, <1>4, <1>5, <1>6 DEF Next, Local

(* The invariant that ties the open transactions, the committed tables and the *)
(* durable ones to the requests holds in every reachable state.                *)
THEOREM Invariance == Spec => []IInv
BY InitInv, Inductive, PTL DEF Spec

(* The IPN log, the ledger and the job states never disagree, neither among    *)
(* the committed rows nor among those a restart of the server recovers.        *)
THEOREM SettlementIsAtomic == Spec => []SettlementAtomic
<1>1. IInv => SettlementAtomic
  BY DEF IInv, SettlementAtomic
<1> QED
  BY Invariance, <1>1, PTL

(* One (gateway, transaction_id) moves money at most once, for any number of   *)
(* deliveries, processes and crashes.                                          *)
THEOREM ChargedOnce == Spec => []NoDuplicateCharge
<1>1. ASSUME NEW s \in {db, disk}, IInv, NEW a \in s.ledger, NEW b \in s.ledger,
             dto[a.id].key = dto[b.id].key, a.type = b.type
      PROVE  a = b
  <2>0. Settled(s) /\ Keyed(s)
    BY <1>1 DEF IInv
  <2>1. PICK x \in s.ipn : a \in Entries(x.id, x.note)
    BY <1>1, <2>0 DEF Settled
  <2>2. PICK y \in s.ipn : b \in Entries(y.id, y.note)
    BY <1>1, <2>0 DEF Settled
  <2>3. a.id = x.id /\ b.id = y.id
    BY <2>1, <2>2 DEF Entries
  <2>4. x = y
    BY <1>1, <2>0, <2>3 DEF Keyed
  <2> QED
    BY <1>1, <2>1, <2>2, <2>4 DEF Entries
<1>2. IInv => NoDuplicateCharge
  BY <1>1 DEF NoDuplicateCharge
<1> QED
  BY Invariance, <1>2, PTL
-----------------------------------------------------------------------------
(* The pool *)

(* The clients that a process has out are finitely many.                       *)
LEMMA HeldFinite ==
  ASSUME held \in SUBSET Clients, NEW p
  PROVE  IsFiniteSet(HeldIn(p)) /\ Cardinality(HeldIn(p)) \in Nat
BY PoolAssumption, FS_Subset, FS_CardinalityType DEF HeldIn

(* A step that checks out no client keeps every process within its pool.       *)
LEMMA FewerHeld ==
  ASSUME held \in SUBSET Clients, held' \subseteq held,
         \A p \in Procs : Cardinality(HeldIn(p)) <= PoolMax
  PROVE  \A p \in Procs : Cardinality(HeldIn(p)') <= PoolMax
<1> SUFFICES ASSUME NEW p \in Procs PROVE Cardinality(HeldIn(p)') <= PoolMax
  OBVIOUS
<1>1. IsFiniteSet(HeldIn(p)) /\ Cardinality(HeldIn(p)) \in Nat
  BY HeldFinite
<1>2. HeldIn(p)' \subseteq HeldIn(p)
  BY DEF HeldIn
<1>3. Cardinality(HeldIn(p)') \in Nat /\ Cardinality(HeldIn(p)') <= Cardinality(HeldIn(p))
  BY <1>1, <1>2, FS_Subset, FS_CardinalityType
<1> QED
  BY <1>1, <1>3, PoolAssumption

(* Checking out a client takes one of its process that is not out.             *)
LEMMA CheckOutFits ==
  ASSUME held \in SUBSET Clients, NEW c \in Clients, CheckOut(c),
         \A p \in Procs : Cardinality(HeldIn(p)) <= PoolMax
  PROVE  \A p \in Procs : Cardinality(HeldIn(p)') <= PoolMax
<1> SUFFICES ASSUME NEW p \in Procs PROVE Cardinality(HeldIn(p)') <= PoolMax
  OBVIOUS
<1>1. IsFiniteSet(HeldIn(p)) /\ Cardinality(HeldIn(p)) \in Nat
  BY HeldFinite
<1>2. CASE Home[c] # p
  <2>1. HeldIn(p)' = HeldIn(p)
    BY <1>2 DEF HeldIn, CheckOut
  <2> QED
    BY <2>1
<1>3. CASE Home[c] = p
  <2>1. HeldIn(p)' = HeldIn(p) \cup {c}
    BY <1>3 DEF HeldIn, CheckOut
  <2>2. Cardinality(HeldIn(p)) < PoolMax
    BY <1>3 DEF CheckOut
  <2>3. \/ Cardinality(HeldIn(p)') = Cardinality(HeldIn(p))
        \/ Cardinality(HeldIn(p)') = Cardinality(HeldIn(p)) + 1
    BY <1>1, <2>1, FS_AddElement
  <2> QED
    BY <1>1, <2>2, <2>3, PoolAssumption
<1> QED
  BY <1>2, <1>3

(* Nobody holds a client before the first request.                             *)
LEMMA InitClients == Init => ClientsAccounted
<1> SUFFICES ASSUME Init PROVE ClientsAccounted
  OBVIOUS
<1>1. held = {} /\ \A r \in Requests : pc[r] = "idle"
  BY DEF Init, PgInit, LocalInit
<1>2. \A p \in Procs : HeldIn(p) = {}
  BY <1>1 DEF HeldIn
<1> QED
  BY <1>1, <1>2, FS_EmptySet, PoolAssumption DEF ClientsAccounted, InTxn

(* Every action releases the client exactly when it leaves the transaction.    *)
LEMMA ClientsStep == TypeInv /\ ClientsAccounted /\ [Next]_vars => ClientsAccounted'
<1> SUFFICES ASSUME TypeInv, ClientsAccounted, [Next]_vars PROVE ClientsAccounted'
  OBVIOUS
<1> USE PaymentsAssumption
<1>0. pc \in [Requests -> Points] /\ held \in SUBSET Clients
  BY DEF TypeInv, TypeOK, PgTypeOK
<1>1. ASSUME NEW r \in Requests, Connect(r) PROVE ClientsAccounted'
  <2>1. held' = held \cup {r} /\ pc' = [pc EXCEPT ![r] = "ipn"]
    BY <1>1 DEF Connect, CheckOut, Goto
  <2>2. held' = {q \in Requests : pc'[q] \in InTxn}
    BY <1>0, <2>1 DEF ClientsAccounted, InTxn
  <2>3. \A p \in Procs : Cardinality(HeldIn(p)') <= PoolMax
    BY <1>0, <1>1, CheckOutFits DEF Connect, ClientsAccounted
  <2> QED
    BY <2>2, <2>3 DEF ClientsAccounted
<1>2. ASSUME held' = {q \in Requests : pc'[q] \in InTxn}, held' \subseteq held
      PROVE  ClientsAccounted'
  BY <1>0, <1>2, FewerHeld DEF ClientsAccounted
<1>3. ASSUME NEW r \in Requests, Receive(r) \/ ConnectFails(r) PROVE ClientsAccounted'
  BY <1>0, <1>2, <1>3 DEF Receive, ConnectFails, Goto, pgVars, ClientsAccounted, InTxn
<1>4. ASSUME NEW r \in Requests,
             \/ InsertIpn(r) \/ InsertLedger(r) \/ UpdateJob(r) \/ Commit(r) \/ QueryFails(r)
      PROVE  ClientsAccounted'
  <2>1. held' = held /\ pc[r] \in InTxn
    BY <1>4 DEF InsertIpn, InsertLedger, UpdateJob, Commit, QueryFails, InTxn
  <2>2. pc'[r] \in InTxn /\ \A q \in Requests \ {r} : pc'[q] = pc[q]
    BY <1>0, <1>4 DEF InsertIpn, InsertLedger, UpdateJob, Commit, QueryFails, Goto, InTxn
  <2> QED
    BY <1>2, <2>1, <2>2 DEF ClientsAccounted
<1>5. ASSUME NEW r \in Requests, AnswerProcessed(r) \/ AnswerDuplicate(r) \/ Abort(r)
      PROVE  ClientsAccounted'
  <2>1. held' = held \ {r} /\ pc'[r] \notin InTxn /\ \A q \in Requests \ {r} : pc'[q] = pc[q]
    BY <1>0, <1>5 DEF AnswerProcessed, AnswerDuplicate, Abort, Release, Goto, InTxn
  <2> QED
    BY <1>2, <2>1 DEF ClientsAccounted
<1>6. ASSUME NEW p \in Procs, Crash(p) PROVE ClientsAccounted'
  BY <1>2, <1>6 DEF Crash, Die, ConnectionsLost, ClientsAccounted, InTxn
<1>7. CASE PgCrash
  BY <1>2, <1>7 DEF PgCrash, LoseServer, PgRestart, ClientsAccounted, InTxn
<1>8. CASE Flush \/ UNCHANGED vars
  BY <1>2, <1>8 DEF Flush, WalFlush, handlerVars, vars, ClientsAccounted
<1> QED
  BY <1>1, <1>3, <1>4, <1>5, <1>6, <1>7, <1>8 DEF Next, Local, Handle

(* No path through handleWebhook leaks a client of the pool, and no process    *)
(* has more of them out than the pool allows.                                  *)
THEOREM NoClientLeaks == Spec => []ClientsAccounted
<1>1. Init => TypeInv /\ ClientsAccounted
  BY InitType, InitClients
<1>2. TypeInv /\ ClientsAccounted /\ [Next]_vars => (TypeInv /\ ClientsAccounted)'
  BY TypeStep, ClientsStep
<1> QED
  BY <1>1, <1>2, PTL DEF Spec
-----------------------------------------------------------------------------
(* What synchronous commits make permanent *)

(* With synchronous commits the disk has every committed row, an acknowledged  *)
(* notification has its row, and one answered as a duplicate has a row of its  *)
(* key.                                                                        *)
AnswersRecorded ==
  /\ \A r \in Requests :
       pc[r] \in {"ack", "processed"} => [id |-> r, note |-> dto[r]] \in db.ipn
  /\ \A r \in Requests :
       pc[r] \in {"rollback", "duplicate"} => dto[r].key \in RecordedKeys(db)

DurableInv == syncCommit => disk = db /\ AnswersRecorded

(* Whatever is in the tables s is in the tables t, and paid jobs are paid.     *)
Kept(s, t) ==
  /\ s.ipn \subseteq t.ipn
  /\ s.ledger \subseteq t.ledger
  /\ \A j \in JobIds :
       s.jobs[j] # NoRow /\ s.jobs[j].state = "PAID" => t.jobs[j] # NoRow /\ t.jobs[j].state = "PAID"

(* A commit takes no row and no payment back.                                  *)
LEMMA CommitKeeps ==
  ASSUME IInv, NEW r \in Requests, Commit(r)
  PROVE  /\ Kept(db, db')
         /\ [id |-> r, note |-> dto[r]] \in db'.ipn
         /\ syncCommit => disk' = db'
<1> USE PaymentsAssumption
<1>0. txn \in [Clients -> Tables] /\ db \in Tables /\ r \in Clients
  BY DEF IInv, TypeInv, TypeOK, PgTypeOK
<1>1. db' = Merge(db, txn[r]) /\ (syncCommit => disk' = db')
  BY DEF Commit, CommitTxn, Apply
<1>2. Wrote(r, txn[r], dto[r], "commit")
  BY DEF IInv, WriteSets, Commit
<1>3. txn[r].ipn = {[id |-> r, note |-> dto[r]]}
  BY <1>2 DEF Wrote, Recording
<1>4. \A j \in JobIds : txn[r].jobs[j] # NoRow => txn[r].jobs[j].state = "PAID"
  BY <1>2 DEF Wrote
<1>5. Kept(db, db')
  BY <1>1, <1>4 DEF Kept, Merge
<1> QED
  BY <1>1, <1>3, <1>5 DEF Merge

(* No step takes a committed row or a payment back, as long as the disk has    *)
(* all of them.                                                                *)
LEMMA StepKeeps ==
  ASSUME IInv, disk = db, [Next]_vars
  PROVE  Kept(db, db')
<1>1. ASSUME db' = db PROVE Kept(db, db')
  BY <1>1 DEF Kept
<1>2. ASSUME NEW r \in Requests, Receive(r) \/ Handle(r) \/ QueryFails(r) PROVE Kept(db, db')
  BY <1>1, <1>2, CommitKeeps
  DEF Handle, Receive, Connect, ConnectFails, InsertIpn, InsertLedger, UpdateJob,
      AnswerProcessed, AnswerDuplicate, Abort, QueryFails, pgVars
<1>3. ASSUME NEW p \in Procs, Crash(p) PROVE Kept(db, db')
  BY <1>1, <1>3 DEF Crash, ConnectionsLost
<1>4. CASE PgCrash
  BY <1>1, <1>4 DEF PgCrash, PgRestart
<1>5. CASE Flush \/ UNCHANGED vars
  BY <1>1, <1>5 DEF Flush, WalFlush, vars
<1> QED
  BY <1>2, <1>3, <1>4, <1>5 DEF Next, Local

(* A step keeps what has been answered recorded, if it takes no row back and   *)
(* whoever gets to an answer has a row for it.                                 *)
LEMMA StillRecorded ==
  ASSUME AnswersRecorded, Kept(db, db'),
         \A q \in Requests : pc[q] # "idle" => dto'[q] = dto[q],
         \A q \in Requests : pc'[q] \in {"ack", "processed"} =>
           pc[q] \in {"ack", "processed"} \/ [id |-> q, note |-> dto'[q]] \in db'.ipn,
         \A q \in Requests : pc'[q] \in {"rollback", "duplicate"} =>
           pc[q] \in {"rollback", "duplicate"} \/ dto'[q].key \in RecordedKeys(db)
  PROVE  AnswersRecorded'
<1>1. RecordedKeys(db) \subseteq RecordedKeys(db')
  BY DEF Kept, RecordedKeys
<1>2. ASSUME NEW q \in Requests, pc'[q] \in {"ack", "processed"}
      PROVE  [id |-> q, note |-> dto'[q]] \in db'.ipn
  BY <1>2 DEF AnswersRecorded, Kept
<1>3. ASSUME NEW q \in Requests, pc'[q] \in {"rollback", "duplicate"}
      PROVE  dto'[q].key \in RecordedKeys(db')
  BY <1>1, <1>3 DEF AnswersRecorded
<1> QED
  BY <1>2, <1>3 DEF AnswersRecorded, RecordedKeys

(* Every action keeps the disk complete and the answers recorded.              *)
LEMMA DurableStep == IInv /\ DurableInv /\ [Next]_vars => DurableInv'
<1> SUFFICES ASSUME IInv, DurableInv, [Next]_vars, syncCommit, syncCommit' = syncCommit
             PROVE  disk' = db' /\ AnswersRecorded'
  BY DEF DurableInv, Next, SettingKept, vars
<1>0. /\ pc \in [Requests -> Points] /\ dto \in [Requests -> Notifications \cup {NoDto}]
      /\ disk = db /\ AnswersRecorded
  BY DEF IInv, TypeInv, TypeOK, DurableInv
<1>1. Kept(db, db')
  BY <1>0, StepKeeps
<1>2. ASSUME NEW r \in Requests, Receive(r) PROVE disk' = db' /\ AnswersRecorded'
  <2>1. /\ UNCHANGED <<db, disk>> /\ pc[r] = "idle" /\ pc'[r] = "connecting"
        /\ \A q \in Requests \ {r} : pc'[q] = pc[q] /\ dto'[q] = dto[q]
    BY <1>0, <1>2 DEF Receive, Goto, pgVars
  <2> QED
    BY <1>0, <1>1, <2>1, StillRecorded
<1>3. ASSUME NEW r \in Requests,
             \/ Connect(r) \/ ConnectFails(r) \/ InsertLedger(r) \/ UpdateJob(r)
             \/ AnswerProcessed(r) \/ AnswerDuplicate(r) \/ Abort(r) \/ QueryFails(r)
      PROVE  disk' = db' /\ AnswersRecorded'
  <2>1. /\ UNCHANGED <<db, disk, dto>>
        /\ \A q \in Requests \ {r} : pc'[q] = pc[q]
        /\ \/ pc'[r] \in {"ipn", "error", "job", "abort", "commit"}
           \/ pc[r] = "ack" /\ pc'[r] = "processed"
           \/ pc[r] = "rollback" /\ pc'[r] = "duplicate"
    BY <1>0, <1>3 DEF Connect, ConnectFails, InsertLedger, UpdateJob, AnswerProcessed,
         AnswerDuplicate, Abort, QueryFails, Goto, pgVars
  <2> QED
    BY <1>0, <1>1, <2>1, StillRecorded
<1>4. ASSUME NEW r \in Requests, InsertIpn(r) PROVE disk' = db' /\ AnswersRecorded'
  <2>1. /\ UNCHANGED <<db, disk, dto>>
        /\ \A q \in Requests \ {r} : pc'[q] = pc[q]
        /\ \/ pc'[r] \in {"ledger", "commit"}
           \/ pc'[r] = "rollback" /\ dto[r].key \in RecordedKeys(db)
    BY <1>0, <1>4 DEF InsertIpn, Goto
  <2> QED
    BY <1>0, <1>1, <2>1, StillRecorded
<1>5. ASSUME NEW r \in Requests, Commit(r) PROVE disk' = db' /\ AnswersRecorded'
  <2>1. /\ UNCHANGED dto /\ pc'[r] = "ack" /\ \A q \in Requests \ {r} : pc'[q] = pc[q]
    BY <1>0, <1>5 DEF Commit, Goto
  <2>2. disk' = db' /\ [id |-> r, note |-> dto[r]] \in db'.ipn
    BY <1>5, CommitKeeps
  <2> QED
    BY <1>0, <1>1, <2>1, <2>2, StillRecorded
<1>6. ASSUME NEW p \in Procs, Crash(p) PROVE disk' = db' /\ AnswersRecorded'
  <2>1. UNCHANGED <<db, disk, dto>> /\ \A q \in Requests : pc'[q] \in {pc[q], "dead"}
    BY <1>6 DEF Crash, Die, ConnectionsLost
  <2> QED
    BY <1>0, <1>1, <2>1, StillRecorded
<1>7. CASE PgCrash
  <2>1. db' = disk /\ UNCHANGED <<disk, dto>> /\ \A q \in Requests : pc'[q] \in {pc[q], "abort"}
    BY <1>7 DEF PgCrash, LoseServer, PgRestart
  <2> QED
    BY <1>0, <1>1, <2>1, StillRecorded
<1>8. CASE Flush \/ UNCHANGED vars
  <2>1. disk' = db' /\ UNCHANGED <<db, dto, pc>>
    BY <1>0, <1>8 DEF Flush, WalFlush, handlerVars, vars
  <2> QED
    BY <1>0, <1>1, <2>1, StillRecorded
<1> QED
  BY <1>2, <1>3, <1>4, <1>5, <1>6, <1>7, <1>8 DEF Next, Local, Handle

(* With synchronous commits, what handleWebhook has answered is on disk.       *)
THEOREM AnswersAreDurable == Spec => []AnswerIsDurable
<1>1. Init => IInv /\ DurableInv
  BY InitInv DEF Init, PgInit, LocalInit, DurableInv, AnswersRecorded
<1>2. IInv /\ DurableInv /\ [Next]_vars => (IInv /\ DurableInv)'
  BY Inductive, DurableStep
<1>3. DurableInv => AnswerIsDurable
  BY DEF DurableInv, AnswersRecorded, AnswerIsDurable
<1> QED
  BY <1>1, <1>2, <1>3, PTL DEF Spec

(* With synchronous commits, no step takes an entry out of the ledger or a     *)
(* payment back from a job.                                                    *)
THEOREM PaymentsStay == Spec => PaymentsArePermanent
<1>1. Init => IInv /\ DurableInv
  BY InitInv DEF Init, PgInit, LocalInit, DurableInv, AnswersRecorded
<1>2. IInv /\ DurableInv /\ [Next]_vars => (IInv /\ DurableInv)'
  BY Inductive, DurableStep
<1>3. IInv /\ DurableInv /\ [Next]_vars =>
        [syncCommit =>
           /\ db.ledger \subseteq db'.ledger
           /\ \A j \in JobIds :
                db.jobs[j] # NoRow /\ db.jobs[j].state = "PAID" =>
                  db'.jobs[j] # NoRow /\ db'.jobs[j].state = "PAID"]_vars
  BY StepKeeps DEF DurableInv, Kept
<1> QED
  BY <1>1, <1>2, <1>3, PTL DEF Spec, PaymentsArePermanent
-----------------------------------------------------------------------------
(* Refinement of Settlement *)

(* Where a request is whose COMMIT has taken effect.                           *)
Committed == {"ack", "processed", "abort", "error", "dead"}

(* A committed row belongs to a request that got past its COMMIT; what the     *)
(* handler is about to answer is in the tables; the disk is behind them; and   *)
(* a request that has not been sent has no body.                               *)
Answering ==
  /\ \A r \in Requests : pc[r] = "idle" => dto[r] = NoDto
  /\ disk.ipn \subseteq db.ipn
  /\ \A x \in db.ipn : pc[x.id] \in Committed
  /\ \A r \in Requests : pc[r] = "ack" => [id |-> r, note |-> dto[r]] \in db.ipn
  /\ \A r \in Requests : pc[r] = "rollback" => dto[r].key \in RecordedKeys(db)

(* A step that commits nothing keeps what is about to be answered.             *)
LEMMA AnsweringKept ==
  ASSUME IInv, Answering, UNCHANGED <<db, disk>>,
         \A q \in Requests : pc[q] # "idle" \/ pc'[q] = "idle" => dto'[q] = dto[q],
         \A q \in Requests : pc'[q] = "idle" => pc[q] = "idle",
         \A q \in Requests : pc[q] \in Committed => pc'[q] \in Committed,
         \A q \in Requests : pc'[q] = "ack" => pc[q] = "ack",
         \A q \in Requests : pc'[q] = "rollback" =>
           pc[q] = "rollback" \/ (pc[q] = "ipn" /\ dto[q].key \in RecordedKeys(db))
  PROVE  Answering'
<1>1. \A x \in db.ipn : x.id \in Requests
  BY DEF IInv, Keyed
<1> QED
  BY <1>1 DEF Answering, RecordedKeys

(* Every action keeps what is about to be answered in the tables.              *)
LEMMA AnsweringStep == IInv /\ Answering /\ [Next]_vars => Answering'
<1> SUFFICES ASSUME IInv, Answering, [Next]_vars PROVE Answering'
  OBVIOUS
<1> USE PaymentsAssumption
<1>0. /\ pc \in [Requests -> Points] /\ dto \in [Requests -> Notifications \cup {NoDto}]
      /\ txn \in [Clients -> Tables] /\ \A x \in db.ipn : x.id \in Requests
  BY DEF IInv, TypeInv, TypeOK, PgTypeOK, Keyed
<1>1. ASSUME NEW r \in Requests, Receive(r) PROVE Answering'
  <2>1. /\ UNCHANGED <<db, disk>> /\ pc[r] = "idle" /\ pc'[r] = "connecting"
        /\ \A q \in Requests \ {r} : pc'[q] = pc[q] /\ dto'[q] = dto[q]
    BY <1>0, <1>1 DEF Receive, Goto, pgVars
  <2> QED
    BY <2>1, AnsweringKept DEF Committed
<1>2. ASSUME NEW r \in Requests,
             \/ Connect(r) \/ ConnectFails(r) \/ InsertIpn(r) \/ InsertLedger(r) \/ UpdateJob(r)
             \/ AnswerProcessed(r) \/ AnswerDuplicate(r) \/ Abort(r) \/ QueryFails(r)
      PROVE  Answering'
  <2>1. /\ UNCHANGED <<db, disk, dto>>
        /\ \A q \in Requests \ {r} : pc'[q] = pc[q]
        /\ \/ pc[r] \notin Committed /\ pc'[r] \notin {"ack", "rollback", "idle"}
           \/ pc'[r] \in {"processed", "abort", "error"}
           \/ pc[r] = "ipn" /\ pc'[r] = "rollback" /\ dto[r].key \in RecordedKeys(db)
    BY <1>0, <1>2 DEF Connect, ConnectFails, InsertIpn, InsertLedger, UpdateJob, AnswerProcessed,
         AnswerDuplicate, Abort, QueryFails, Goto, pgVars, Committed
  <2> QED
    BY <2>1, AnsweringKept DEF Committed
<1>3. ASSUME NEW r \in Requests, Commit(r) PROVE Answering'
  <2>1. /\ UNCHANGED dto /\ pc'[r] = "ack" /\ \A q \in Requests \ {r} : pc'[q] = pc[q]
        /\ disk' = db' \/ disk' = disk
    BY <1>0, <1>3 DEF Commit, CommitTxn, Apply, Goto
  <2>2. db'.ipn = db.ipn \cup {[id |-> r, note |-> dto[r]]}
    <3>1. Wrote(r, txn[r], dto[r], "commit")
      BY <1>3 DEF IInv, WriteSets, Commit
    <3> QED
      BY <1>3, <3>1 DEF Commit, CommitTxn, Apply, Merge, Wrote, Recording
  <2> QED
    BY <1>0, <2>1, <2>2 DEF Answering, Committed, RecordedKeys
<1>4. ASSUME NEW p \in Procs, Crash(p) PROVE Answering'
  <2>1. UNCHANGED <<db, disk, dto>> /\ \A q \in Requests : pc'[q] \in {pc[q], "dead"}
    BY <1>4 DEF Crash, Die, ConnectionsLost
  <2> QED
    BY <2>1, AnsweringKept DEF Committed
<1>5. CASE PgCrash
  <2>1. /\ db' = disk /\ UNCHANGED <<disk, dto>>
        /\ \A q \in Requests : /\ pc'[q] \in {pc[q], "abort"}
                               /\ pc'[q] \notin {"ack", "rollback"}
    BY <1>5 DEF PgCrash, LoseServer, PgRestart, InTxn
  <2> QED
    BY <1>0, <2>1 DEF Answering, Committed
<1>6. CASE Flush \/ UNCHANGED vars
  BY <1>6 DEF Flush, WalFlush, handlerVars, vars, Answering, RecordedKeys
<1> QED
  BY <1>1, <1>2, <1>3, <1>4, <1>5, <1>6 DEF Next, Local, Handle

(* In settled tables, both sides of the ledger and the paid jobs are those of  *)
(* the recorded notifications.                                                 *)
LEMMA BooksSettled ==
  ASSUME NEW s \in Tables, Settled(s), NEW type \in {"debit", "credit"}
  PROVE  /\ {[id |-> e.id, job |-> e.job, amount |-> e.amount] : e \in {x \in s.ledger : x.type = type}}
              = Settling!Booked(s.ipn)
         /\ {j \in JobIds : s.jobs[j] # NoRow /\ s.jobs[j].state = "PAID"}
              = {x.note.job : x \in Settling!Successes(s.ipn)}
<1>1. Settling!Successes(s.ipn) = {x \in s.ipn : IsSuccess(x)}
  BY DEF Settling!Successes, IsSuccess
<1>2. \A x \in s.ipn : x.note.job \in JobIds
  BY DEF Tables, IpnRow, Notification
<1> DEFINE side == {[id |-> e.id, job |-> e.job, amount |-> e.amount] : e \in {x \in s.ledger : x.type = type}}
<1>3. ASSUME NEW b \in side PROVE b \in Settling!Booked(s.ipn)
  <2>1. PICK e \in s.ledger : b = [id |-> e.id, job |-> e.job, amount |-> e.amount]
    OBVIOUS
  <2>2. PICK x \in s.ipn : IsSuccess(x) /\ e \in Entries(x.id, x.note)
    BY DEF Settled
  <2>3. b = [id |-> x.id, job |-> x.note.job, amount |-> x.note.amount]
    BY <2>1, <2>2 DEF Entries
  <2> QED
    BY <1>1, <2>2, <2>3 DEF Settling!Booked
<1>4. ASSUME NEW b \in Settling!Booked(s.ipn) PROVE b \in side
  <2>1. PICK x \in s.ipn :
          IsSuccess(x) /\ b = [id |-> x.id, job |-> x.note.job, amount |-> x.note.amount]
    BY <1>1, <1>4 DEF Settling!Booked
  <2> DEFINE e == [id |-> x.id, job |-> x.note.job, type |-> type, amount |-> x.note.amount]
  <2>2. e \in Entries(x.id, x.note)
    BY DEF Entries
  <2>3. e \in s.ledger
    <3> HIDE DEF e
    <3> QED
      BY <2>1, <2>2 DEF Settled
  <2> QED
    BY <2>1, <2>3
<1>5. side = Settling!Booked(s.ipn)
  BY <1>3, <1>4
<1>6. {j \in JobIds : s.jobs[j] # NoRow /\ s.jobs[j].state = "PAID"}
        = {x.note.job : x \in Settling!Successes(s.ipn)}
  BY <1>1, <1>2 DEF Settled
<1> QED
  BY <1>5, <1>6

(* The books of the mapped state, before and after a step.                     *)
LEMMA Books ==
  ASSUME IInv
  PROVE  /\ Side("debit") = Settling!Booked(db.ipn)
         /\ Side("credit") = Settling!Booked(db.ipn)
         /\ PaidJobs = {x.note.job : x \in Settling!Successes(db.ipn)}
BY BooksSettled DEF IInv, TypeInv, TypeOK, PgTypeOK, Side, PaidJobs

(* The same of the next state, by the same lemma.                              *)
LEMMA BooksNext ==
  ASSUME IInv'
  PROVE  /\ Side("debit")' = Settling!Booked(db'.ipn)
         /\ Side("credit")' = Settling!Booked(db'.ipn)
         /\ PaidJobs' = {x.note.job : x \in Settling!Successes(db'.ipn)}
<1>1. db' \in Tables /\ Settled(db')
  BY DEF IInv, TypeInv, TypeOK, PgTypeOK, Settled
<1> QED
  BY <1>1, BooksSettled DEF Side, PaidJobs

(* The initial states are initial states of Settlement.                        *)
LEMMA InitMaps == Init => Settling!Init
<1> SUFFICES ASSUME Init PROVE Settling!Init
  OBVIOUS
<1>1. /\ syncCommit \in BOOLEAN /\ dto = [r \in Requests |-> NoDto]
      /\ db.ipn = {} /\ db.ledger = {} /\ db.jobs = SeedJobs
      /\ \A r \in Requests : pc[r] = "idle"
  BY DEF Init, PgInit, LocalInit, NoWrites
<1>2. Side("debit") = {} /\ Side("credit") = {}
  BY <1>1 DEF Side
<1>3. PaidJobs = {}
  BY <1>1, SeedAssumption DEF PaidJobs
<1>4. Answer = [r \in Requests |-> "none"]
  BY <1>1 DEF Answer
<1> QED
  BY <1>1, <1>2, <1>3, <1>4 DEF Settling!Init

(* A step that changes neither the tables nor what is sent, told or durable is *)
(* a stutter.                                                                  *)
LEMMA StepStutters ==
  ASSUME UNCHANGED <<db, dto, syncCommit>>, Answer' = Answer
  PROVE  UNCHANGED Settling!vars
BY DEF Settling!vars, Side, PaidJobs

(* A step that leaves the tables alone and ends a request is an answer.        *)
LEMMA StepTells ==
  ASSUME NEW r \in Requests, NEW a \in {"processed", "duplicate", "error"},
         UNCHANGED <<db, dto>>, pc[r] \in Points \ Ended, pc \in [Requests -> Points],
         pc' = [pc EXCEPT ![r] = a]
  PROVE  Settling!Tell(r, a)
<1>1. Answer[r] = "none" /\ Answer' = [Answer EXCEPT ![r] = a]
  BY DEF Answer, Ended
<1>2. Side("debit")' = Side("debit") /\ Side("credit")' = Side("credit") /\ PaidJobs' = PaidJobs
  BY DEF Side, PaidJobs
<1> QED
  BY <1>1, <1>2 DEF Settling!Tell

(* Every step is a step of Settlement or a stutter: Receive sends, Commit      *)
(* records and books, the last steps answer, and a restart forgets.            *)
LEMMA StepMaps ==
  IInv /\ IInv' /\ DurableInv /\ Answering /\ [Next]_vars => [Settling!Next]_(Settling!vars)
<1> SUFFICES ASSUME IInv, IInv', DurableInv, Answering, [Next]_vars
             PROVE  [Settling!Next]_(Settling!vars)
  OBVIOUS
<1> USE PaymentsAssumption
<1>0. /\ pc \in [Requests -> Points] /\ dto \in [Requests -> Notifications \cup {NoDto}]
      /\ txn \in [Clients -> Tables] /\ UNCHANGED syncCommit
  BY DEF IInv, TypeInv, TypeOK, PgTypeOK, Next, SettingKept, vars
<1>1. ASSUME NEW r \in Requests, Receive(r) PROVE [Settling!Next]_(Settling!vars)
  <2>1. Answer' = Answer
    BY <1>0, <1>1 DEF Receive, Goto, Answer
  <2>2. Side("debit")' = Side("debit") /\ Side("credit")' = Side("credit") /\ PaidJobs' = PaidJobs
    BY <1>1 DEF Receive, pgVars, Side, PaidJobs
  <2>3. dto[r] = NoDto
    BY <1>1 DEF Receive, Answering
  <2> QED
    BY <1>0, <1>1, <2>1, <2>2, <2>3 DEF Receive, pgVars, Settling!Send, Settling!Next
<1>2. ASSUME NEW r \in Requests,
             Connect(r) \/ InsertIpn(r) \/ InsertLedger(r) \/ UpdateJob(r) \/ QueryFails(r)
      PROVE  [Settling!Next]_(Settling!vars)
  <2>1. UNCHANGED <<db, dto>>
    BY <1>2 DEF Connect, InsertIpn, InsertLedger, UpdateJob, QueryFails
  <2>2. /\ \A q \in Requests \ {r} : pc'[q] = pc[q]
        /\ pc[r] \notin Ended /\ pc'[r] \notin Ended
    BY <1>0, <1>2 DEF Connect, InsertIpn, InsertLedger, UpdateJob, QueryFails, Goto, InTxn, Ended
  <2>3. Answer' = Answer
    BY <2>2 DEF Answer, Ended
  <2> QED
    BY <1>0, <2>1, <2>3, StepStutters
<1>3. ASSUME NEW r \in Requests, ConnectFails(r) \/ Abort(r)
      PROVE  [Settling!Next]_(Settling!vars)
  <2>1. /\ UNCHANGED <<db, dto>> /\ pc[r] \in Points \ Ended /\ dto[r] # NoDto
        /\ pc' = [pc EXCEPT ![r] = "error"]
    BY <1>3 DEF ConnectFails, Abort, Goto, pgVars, Points, InTxn, Ended, IInv, TypeInv, BodySent
  <2>2. Settling!Tell(r, "error")
    BY <1>0, <2>1, StepTells
  <2> QED
    BY <1>0, <2>1, <2>2 DEF Settling!AnswerError, Settling!Next
<1>4. ASSUME NEW r \in Requests, AnswerProcessed(r) PROVE [Settling!Next]_(Settling!vars)
  <2>1. /\ UNCHANGED <<db, dto>> /\ pc[r] \in Points \ Ended
        /\ pc' = [pc EXCEPT ![r] = "processed"] /\ [id |-> r, note |-> dto[r]] \in db.ipn
    BY <1>4 DEF AnswerProcessed, Goto, Points, InTxn, Ended, Answering
  <2>2. Settling!Tell(r, "processed")
    BY <1>0, <2>1, StepTells
  <2> QED
    BY <1>0, <2>1, <2>2 DEF Settling!AnswerProcessed, Settling!Next
<1>5. ASSUME NEW r \in Requests, AnswerDuplicate(r) PROVE [Settling!Next]_(Settling!vars)
  <2>1. /\ UNCHANGED <<db, dto>> /\ pc[r] = "rollback" /\ pc[r] \in Points \ Ended
        /\ pc' = [pc EXCEPT ![r] = "duplicate"]
        /\ dto[r] # NoDto /\ dto[r].key \in RecordedKeys(db)
    BY <1>5 DEF AnswerDuplicate, Goto, Points, InTxn, Ended, Answering, IInv, TypeInv, BodySent
  <2>2. \A x \in db.ipn : x.id # r
    BY <2>1 DEF Answering, Committed
  <2>3. \E x \in db.ipn : x.id # r /\ x.note.key = dto[r].key
    BY <2>1, <2>2 DEF RecordedKeys
  <2>4. Settling!Tell(r, "duplicate")
    BY <1>0, <2>1, StepTells
  <2> QED
    BY <1>0, <2>1, <2>3, <2>4 DEF Settling!AnswerDuplicate, Settling!Next
<1>6. ASSUME NEW r \in Requests, Commit(r) PROVE [Settling!Next]_(Settling!vars)
  <2>1. /\ UNCHANGED dto /\ pc[r] = "commit" /\ pc' = [pc EXCEPT ![r] = "ack"]
        /\ dto[r] # NoDto /\ dto[r].key \notin RecordedKeys(db)
    BY <1>6 DEF Commit, Goto, IInv, TypeInv, BodySent, NewKeys, Recording
  <2>2. Answer' = Answer /\ Answer[r] = "none"
    BY <1>0, <2>1 DEF Answer
  <2>3. db'.ipn = db.ipn \cup {[id |-> r, note |-> dto[r]]}
    <3>1. Wrote(r, txn[r], dto[r], "commit")
      BY <2>1 DEF IInv, WriteSets
    <3> QED
      BY <1>6, <3>1 DEF Commit, CommitTxn, Apply, Merge, Wrote, Recording
  <2>4. Settling!Book(db'.ipn)
    BY <2>1, <2>2, BooksNext DEF Settling!Book
  <2>5. \A x \in db.ipn : x.note.key # dto[r].key
    BY <2>1 DEF RecordedKeys
  <2> QED
    BY <1>0, <2>1, <2>2, <2>3, <2>4, <2>5 DEF Settling!Record, Settling!Next
<1>7. ASSUME NEW p \in Procs, Crash(p) PROVE [Settling!Next]_(Settling!vars)
  <2>1. UNCHANGED <<db, dto>> /\ Answer' = Answer
    BY <1>7 DEF Crash, Die, ConnectionsLost, Answer, InTxn
  <2> QED
    BY <1>0, <2>1, StepStutters
<1>8. CASE PgCrash
  <2>1. UNCHANGED dto /\ db' = disk /\ Answer' = Answer
    BY <1>8 DEF PgCrash, LoseServer, PgRestart, Answer, InTxn
  <2>2. CASE syncCommit
    BY <1>0, <2>1, <2>2, StepStutters DEF DurableInv
  <2>3. CASE ~ syncCommit
    <3>1. db'.ipn \in SUBSET db.ipn
      BY <2>1 DEF Answering
    <3>2. Settling!Book(db'.ipn)
      BY <2>1, BooksNext DEF Settling!Book
    <3> QED
      BY <1>0, <2>3, <3>1, <3>2 DEF Settling!Forget, Settling!Next
  <2> QED
    BY <2>2, <2>3
<1>9. CASE Flush \/ UNCHANGED vars
  <2>1. UNCHANGED <<db, dto>> /\ Answer' = Answer
    BY <1>9 DEF Flush, WalFlush, handlerVars, vars, Answer
  <2> QED
    BY <1>0, <2>1, StepStutters
<1> QED
  BY <1>1, <1>2, <1>3, <1>4, <1>5, <1>6, <1>7, <1>8, <1>9 DEF Next, Local, Handle

(* The statements of handleWebhook, interleaved and interrupted at will, are   *)
(* the one-step settlement of module Settlement.                               *)
THEOREM Refinement == Spec => ImplementsSettlement
<1> DEFINE Inv == IInv /\ DurableInv /\ Answering
<1>1. Init => Inv /\ Settling!Init
  BY InitInv, InitMaps DEF Init, PgInit, LocalInit, NoWrites, DurableInv, AnswersRecorded, Answering
<1>2. Inv /\ [Next]_vars => Inv'
  BY Inductive, DurableStep, AnsweringStep
<1>3. Inv /\ Inv' /\ [Next]_vars => [Settling!Next]_(Settling!vars)
  BY StepMaps
<1> HIDE DEF Inv
<1> QED
  BY <1>1, <1>2, <1>3, PTL DEF Spec, ImplementsSettlement, Settling!Spec
=============================================================================

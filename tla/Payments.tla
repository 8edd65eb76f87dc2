------------------------------ MODULE Payments ------------------------------
(***************************************************************************)
(* PaymentsService.handleWebhook: a payment gateway delivers a             *)
(* notification (IPN), and the handler records it, books it in the ledger  *)
(* and marks the job paid in one transaction.  Gateways deliver at least   *)
(* once, so two deliveries may carry the same (gateway, transaction_id),   *)
(* at the same time and in different cluster processes.                    *)
(*                                                                         *)
(* One action per awaited call.  pc[r] names the statement request r       *)
(* issues next, or how the request ended.                                  *)
(***************************************************************************)
EXTENDS Postgres

CONSTANTS
  Requests,       \* deliveries of notifications: a finite number of them
  Notifications,  \* the bodies the gateways send
  NoDto           \* a request that has not been sent

ASSUME PaymentsAssumption ==
  /\ Requests \subseteq Clients
  /\ Notifications \subseteq Notification
  /\ NoDto \notin Notification

VARIABLES
  pc,   \* pc[r]: control point of request r
  dto   \* dto[r]: its body

handlerVars == <<pc, dto>>
vars == <<pc, dto, db, disk, txn, held, syncCommit>>

\* From BEGIN to release: the handler holds a pool client.
InTxn == {"ipn", "ledger", "job", "commit", "ack", "rollback", "abort"}
Ended == {"processed", "duplicate", "error", "dead"}
Points == {"idle", "connecting"} \cup InTxn \cup Ended

TypeOK ==
  /\ PgTypeOK
  /\ pc \in [Requests -> Points]
  /\ dto \in [Requests -> Notifications \cup {NoDto}]

LocalInit ==
  /\ pc = [r \in Requests |-> "idle"]
  /\ dto = [r \in Requests |-> NoDto]

Init == PgInit /\ LocalInit

Goto(r, point) == pc' = [pc EXCEPT ![r] = point]
-----------------------------------------------------------------------------
(* The handler *)

Receive(r) ==
  /\ pc[r] = "idle"
  /\ \E n \in Notifications : dto' = [dto EXCEPT ![r] = n]
  /\ Goto(r, "connecting")
  /\ UNCHANGED pgVars

\* connect() and BEGIN.
Connect(r) ==
  /\ pc[r] = "connecting"
  /\ CheckOut(r)
  /\ Goto(r, "ipn")
  /\ UNCHANGED <<dto, db, disk, txn>>

\* connect() rejects: no client within connectionTimeoutMillis, or no server.
\* It is outside the try, so nothing is rolled back or released.
ConnectFails(r) ==
  /\ pc[r] = "connecting"
  /\ Goto(r, "error")
  /\ UNCHANGED <<dto, pgVars>>

\* Mutant of InsertIpn: a key some other request is still working on is taken
\* for a duplicate, as a check in Redis would.
InsertIpnOrSkip(r) ==
  /\ pc[r] = "ipn"
  /\ \/ /\ dto[r].key \in RecordedKeys(db) \/ KeyInFlight(r, dto[r].key)
        /\ Goto(r, "rollback")
        /\ UNCHANGED txn
     \/ /\ dto[r].key \notin RecordedKeys(db) /\ ~ KeyInFlight(r, dto[r].key)
        /\ Write(r, [txn[r] EXCEPT !.ipn = {[id |-> r, note |-> dto[r]]}])
        /\ Goto(r, IF dto[r].status = "SUCCESS" THEN "ledger" ELSE "commit")
  /\ UNCHANGED <<dto, db, disk, held>>

\* Mutant of InsertIpn: BEGIN comes after it, so the row commits by itself.
InsertIpnBeforeBegin(r) ==
  /\ pc[r] = "ipn"
  /\ \/ /\ dto[r].key \in RecordedKeys(db)
        /\ Goto(r, "rollback")
        /\ UNCHANGED <<db, disk>>
     \/ /\ dto[r].key \notin RecordedKeys(db)
        /\ Apply([NoWrites EXCEPT !.ipn = {[id |-> r, note |-> dto[r]]}])
        /\ Goto(r, IF dto[r].status = "SUCCESS" THEN "ledger" ELSE "commit")
  /\ UNCHANGED <<dto, txn, held>>

\* INSERT INTO payment_ipn_log ... ON CONFLICT DO NOTHING RETURNING id.
InsertIpn(r) ==
  /\ pc[r] = "ipn"
  /\ ~ KeyInFlight(r, dto[r].key)
  /\ \/ /\ dto[r].key \in RecordedKeys(db)
        /\ Goto(r, "rollback")
        /\ UNCHANGED txn
     \/ /\ dto[r].key \notin RecordedKeys(db)
        /\ Write(r, [txn[r] EXCEPT !.ipn = {[id |-> r, note |-> dto[r]]}])
        /\ Goto(r, IF dto[r].status = "SUCCESS" THEN "ledger" ELSE "commit")
  /\ UNCHANGED <<dto, db, disk, held>>

\* Mutant of Entries: the statement's two parameters are swapped.
EntriesSwapped(r, n) ==
  {[id |-> r, job |-> n.amount, type |-> t, amount |-> n.job] : t \in {"debit", "credit"}}

\* The two rows of the double entry.
Entries(r, n) ==
  {[id |-> r, job |-> n.job, type |-> t, amount |-> n.amount] : t \in {"debit", "credit"}}

\* Mutant of InsertLedger: it goes to the pool, not to the transaction's client.
InsertLedgerOutside(r) ==
  /\ pc[r] = "ledger"
  /\ db.jobs[dto[r].job] # NoRow
  /\ Apply([NoWrites EXCEPT !.ledger = Entries(r, dto[r])])
  /\ Goto(r, "job")
  /\ UNCHANGED <<dto, txn, held>>

InsertLedger(r) ==
  /\ pc[r] = "ledger"
  /\ \/ /\ db.jobs[dto[r].job] # NoRow
        /\ Write(r, [txn[r] EXCEPT !.ledger = Entries(r, dto[r])])
        /\ Goto(r, "job")
     \/ /\ db.jobs[dto[r].job] = NoRow      \* the foreign key rejects the rows
        /\ AbortTxn(r)
        /\ Goto(r, "abort")
  /\ UNCHANGED <<dto, db, disk, held>>

\* Mutant of UpdateJob: it writes the whole row, as it was when it was created.
UpdateWholeJob(r) ==
  /\ pc[r] = "job"
  /\ ~ RowLocked(r, dto[r].job)
  /\ Write(r, [txn[r] EXCEPT !.jobs[dto[r].job] = [state |-> "PAID", worker |-> NoWorker]])
  /\ Goto(r, "commit")
  /\ UNCHANGED <<dto, db, disk, held>>

\* UPDATE jobs SET state = 'PAID': whatever the state was.
UpdateJob(r) ==
  /\ pc[r] = "job"
  /\ ~ RowLocked(r, dto[r].job)
  /\ Write(r, [txn[r] EXCEPT !.jobs[dto[r].job] =
                  [db.jobs[dto[r].job] EXCEPT !.state = "PAID"]])
  /\ Goto(r, "commit")
  /\ UNCHANGED <<dto, db, disk, held>>

Commit(r) ==
  /\ pc[r] = "commit"
  /\ CommitTxn(r)
  /\ Goto(r, "ack")
  /\ UNCHANGED <<dto, held>>

\* The server's answer to COMMIT arrives; finally releases the client.
AnswerProcessed(r) ==
  /\ pc[r] = "ack"
  /\ Release(r)
  /\ Goto(r, "processed")
  /\ UNCHANGED <<dto, db, disk, txn>>

\* Mutant of AnswerDuplicate: the early return is outside try/finally.
AnswerDuplicateLeaking(r) ==
  /\ pc[r] = "rollback"
  /\ AbortTxn(r)
  /\ Goto(r, "duplicate")
  /\ UNCHANGED <<dto, db, disk, held>>

AnswerDuplicate(r) ==
  /\ pc[r] = "rollback"
  /\ AbortTxn(r)
  /\ Release(r)
  /\ Goto(r, "duplicate")
  /\ UNCHANGED <<dto, db, disk>>

\* A query rejects: an SQL error or a lost connection, which aborts the
\* transaction, or the loss of the answer to a COMMIT that took effect.
QueryFails(r) ==
  /\ pc[r] \in InTxn \ {"abort"}
  /\ AbortTxn(r)
  /\ Goto(r, "abort")
  /\ UNCHANGED <<dto, db, disk, held>>

\* catch: ROLLBACK; finally: release; the request ends with the error.
Abort(r) ==
  /\ pc[r] = "abort"
  /\ Release(r)
  /\ Goto(r, "error")
  /\ UNCHANGED <<dto, db, disk, txn>>
-----------------------------------------------------------------------------
(* Failures around the handler *)

\* What the death of process p does to the requests it serves.
Die(p) ==
  /\ pc' = [r \in Requests |->
              IF Home[r] = p /\ pc[r] \in {"connecting"} \cup InTxn
              THEN "dead" ELSE pc[r]]
  /\ UNCHANGED dto

\* What a restart of the server does to the requests that talk to it.
LoseServer ==
  /\ pc' = [r \in Requests |-> IF pc[r] \in InTxn THEN "abort" ELSE pc[r]]
  /\ UNCHANGED dto

Serving(p) == \E r \in Requests : Home[r] = p /\ pc[r] \in {"connecting"} \cup InTxn

\* Process p dies, and cluster.ts forks another in its place.
Crash(p) ==
  /\ Serving(p)
  /\ Die(p)
  /\ ConnectionsLost(p)

PgCrash == LoseServer /\ PgRestart

Flush == WalFlush /\ UNCHANGED handlerVars
-----------------------------------------------------------------------------
\* What a request does by itself, given that its queries are answered.
Handle(r) ==
  \/ Connect(r) \/ ConnectFails(r) \/ InsertIpn(r) \/ InsertLedger(r)
  \/ UpdateJob(r) \/ Commit(r) \/ AnswerProcessed(r) \/ AnswerDuplicate(r)
  \/ Abort(r)

Local == \E r \in Requests : Receive(r) \/ Handle(r) \/ QueryFails(r)

Next ==
  /\ \/ Local
     \/ \E p \in Procs : Crash(p)
     \/ PgCrash
     \/ Flush
  /\ SettingKept

Spec == Init /\ [][Next]_vars

\* The handler runs on: queries are answered and timeouts expire.  Nothing makes
\* a gateway send, a query fail, or a process or the server die.
FairSpec == Spec /\ \A r \in Requests : WF_vars(Handle(r) /\ SettingKept)
-----------------------------------------------------------------------------
(* Correctness *)

IsSuccess(row) == row.note.status = "SUCCESS"

Settled(s) ==
  /\ s.ledger = UNION {Entries(row.id, row.note) : row \in {x \in s.ipn : IsSuccess(x)}}
  /\ \A j \in JobIds :
       (s.jobs[j] # NoRow /\ s.jobs[j].state = "PAID")
         <=> \E row \in s.ipn : IsSuccess(row) /\ row.note.job = j

(***************************************************************************)
(* The inductive invariant behind the safety properties.  A request that   *)
(* has been sent has a body; the job that UpdateJob will update exists;    *)
(* the open transactions hold exactly what their requests have written;    *)
(* the keys they are inserting are new and distinct; and the tables, the   *)
(* committed and the durable ones, are settled, keyed, and hold the bodies *)
(* of their requests.                                                      *)
(***************************************************************************)
BodySent ==
  \A r \in Requests : pc[r] # "idle" => dto[r] # NoDto

JobFound ==
  \A r \in Requests : pc[r] = "job" => db.jobs[dto[r].job] # NoRow

OnlySuccessIsBooked ==
  \A r \in Requests : pc[r] \in {"ledger", "job"} => dto[r].status = "SUCCESS"

\* The points between the insertion of the IPN row and the COMMIT.
Recording == {"ledger", "job", "commit"}

\* w is what request r has written when it is at this point with body n.
Wrote(r, w, n, point) ==
  LET success == n.status = "SUCCESS"
  IN  /\ w.ipn = IF point \in Recording THEN {[id |-> r, note |-> n]} ELSE {}
      /\ w.ledger = IF point = "job" \/ (point = "commit" /\ success)
                    THEN Entries(r, n) ELSE {}
      /\ \A j \in JobIds :
           IF point = "commit" /\ success /\ j = n.job
           THEN w.jobs[j] # NoRow /\ w.jobs[j].state = "PAID"
           ELSE w.jobs[j] = NoRow

WriteSets ==
  /\ \A r \in Requests : Wrote(r, txn[r], dto[r], pc[r])
  /\ \A c \in Clients \ Requests : Wrote(c, txn[c], NoDto, "idle")

NewKeys ==
  \A q, r \in Requests :
    pc[q] \in Recording =>
      /\ dto[q].key \notin RecordedKeys(db)
      /\ pc[r] \in Recording /\ dto[r].key = dto[q].key => r = q

Keyed(s) ==
  /\ \A row \in s.ipn : row.id \in Requests /\ pc[row.id] # "idle" /\ row.note = dto[row.id]
  /\ \A x, y \in s.ipn : x.note.key = y.note.key => x = y

TypeInv == TypeOK /\ BodySent /\ JobFound

IInv ==
  /\ TypeInv
  /\ OnlySuccessIsBooked
  /\ WriteSets
  /\ NewKeys
  /\ Keyed(db) /\ Keyed(disk)
  /\ Settled(db) /\ Settled(disk)

(***************************************************************************)
(* The IPN log, the ledger and the job states agree, among the committed   *)
(* rows and among those a restart would recover: a debit and a credit for  *)
(* each recorded SUCCESS and for nothing else, and a job is PAID exactly   *)
(* when such a notification names it.  It is the transaction of            *)
(* handleWebhook, with its early ROLLBACK and its catch.                   *)
(***************************************************************************)
SettlementAtomic == Settled(db) /\ Settled(disk)

(***************************************************************************)
(* However often and however concurrently a gateway delivers one           *)
(* (gateway, transaction_id), the customer is debited and the worker       *)
(* credited once for it (acceptance criterion 14).                         *)
(***************************************************************************)
NoDuplicateCharge ==
  \A s \in {db, disk} : \A a, b \in s.ledger :
    dto[a.id].key = dto[b.id].key /\ a.type = b.type => a = b

(***************************************************************************)
(* A request holds a pool client from BEGIN until it ends and no longer,   *)
(* on every path through the handler and across deaths of its process: no  *)
(* path leaks a client.  No process has more than PoolMax out.             *)
(***************************************************************************)
ClientsAccounted ==
  /\ held = {r \in Requests : pc[r] \in InTxn}
  /\ \A p \in Procs : Cardinality(HeldIn(p)) <= PoolMax

(***************************************************************************)
(* What a gateway is told survives a restart of the server: "processed"    *)
(* means that this very notification is on disk, "duplicate" that its key  *)
(* is - if commits are synchronous.                                        *)
(***************************************************************************)
AnswerIsDurable ==
  syncCommit => \A r \in Requests :
    /\ pc[r] = "processed" => [id |-> r, note |-> dto[r]] \in disk.ipn
    /\ pc[r] = "duplicate" => dto[r].key \in RecordedKeys(disk)

(***************************************************************************)
(* A paid job stays paid and the ledger only grows, whatever crashes, if   *)
(* commits are synchronous: no statement of handleWebhook takes a payment  *)
(* back.                                                                   *)
(***************************************************************************)
PaymentsArePermanent ==
  [][syncCommit =>
     /\ db.ledger \subseteq db'.ledger
     /\ \A j \in JobIds :
          db.jobs[j] # NoRow /\ db.jobs[j].state = "PAID" =>
            db'.jobs[j] # NoRow /\ db'.jobs[j].state = "PAID"]_vars

(***************************************************************************)
(* Every delivery that reaches the API is answered or loses its            *)
(* connection: the waits on the pool, on the unique index and on the job's *)
(* row never become a deadlock, nor a wait for ever.                       *)
(***************************************************************************)
EveryDeliveryEnds ==
  \A r \in Requests : (pc[r] # "idle") ~> (pc[r] \in Ended)

\* The state of Settlement, as the tables and the control points show it.
Side(type) ==
  {[id |-> e.id, job |-> e.job, amount |-> e.amount] : e \in {x \in db.ledger : x.type = type}}

PaidJobs == {j \in JobIds : db.jobs[j] # NoRow /\ db.jobs[j].state = "PAID"}

Answer ==
  [r \in Requests |-> IF pc[r] \in {"processed", "duplicate", "error"} THEN pc[r] ELSE "none"]

Settling == INSTANCE Settlement WITH
  durable  <- syncCommit,
  sent     <- dto,
  recorded <- db.ipn,
  debits   <- Side("debit"),
  credits  <- Side("credit"),
  paid     <- PaidJobs,
  answer   <- Answer

(***************************************************************************)
(* The handler's statements, interleaved and interrupted at will, implement*)
(* the one-step settlement of module Settlement; a restart of the server   *)
(* forgets whole settlements or, if commits are synchronous, nothing.      *)
(***************************************************************************)
ImplementsSettlement == Settling!Spec

(***************************************************************************)
(* "If nothing inserted, this is a duplicate - return cached result"       *)
(* (payments.service.ts): a SUCCESS that is answered as a duplicate has    *)
(* been settled by the delivery it repeats, if commits are synchronous.    *)
(***************************************************************************)
DuplicateOfSuccessIsSettled ==
  syncCommit => \A r \in Requests :
    pc[r] = "duplicate" /\ dto[r].status = "SUCCESS" =>
      \E row \in db.ipn : row.note.key = dto[r].key /\ IsSuccess(row)
=============================================================================

----------------------------- MODULE Settlement -----------------------------
(***************************************************************************)
(* What the payment webhook promises its gateways, whatever the statements *)
(* and the interleavings behind it: a notification is recorded at most     *)
(* once per (gateway, transaction_id); recording a SUCCESS, debiting the   *)
(* customer, crediting the worker and marking the job paid are one step;   *)
(* an answer is only given for what has been recorded by then; and what is *)
(* not durable may be forgotten, but only with everything that was booked  *)
(* for it.                                                                 *)
(***************************************************************************)
CONSTANTS
  Requests,       \* deliveries
  Notifications,  \* the bodies they may carry
  NoDto           \* a delivery not sent yet

VARIABLES
  durable,   \* is what has been recorded kept for good?
  sent,      \* sent[r]: the body of delivery r, or NoDto
  recorded,  \* the recorded notifications, each with the delivery that recorded it
  debits,    \* the customer's side of the ledger
  credits,   \* the worker's side
  paid,      \* the jobs marked paid
  answer     \* answer[r]: what the gateway has been told

vars == <<durable, sent, recorded, debits, credits, paid, answer>>

Init ==
  /\ durable \in BOOLEAN
  /\ sent = [r \in Requests |-> NoDto]
  /\ recorded = {}
  /\ debits = {}
  /\ credits = {}
  /\ paid = {}
  /\ answer = [r \in Requests |-> "none"]

Send(r) ==
  /\ sent[r] = NoDto
  /\ \E n \in Notifications : sent' = [sent EXCEPT ![r] = n]
  /\ UNCHANGED <<recorded, debits, credits, paid, answer>>

\* What is booked for the recorded notifications in rows.
Successes(rows) == {x \in rows : x.note.status = "SUCCESS"}
Booked(rows) ==
  {[id |-> x.id, job |-> x.note.job, amount |-> x.note.amount] : x \in Successes(rows)}

\* The books change to those of the notifications in rows.
Book(rows) ==
  /\ recorded' = rows
  /\ debits' = Booked(rows)
  /\ credits' = Booked(rows)
  /\ paid' = {x.note.job : x \in Successes(rows)}
  /\ UNCHANGED <<sent, answer>>

Record(r) ==
  /\ sent[r] # NoDto
  /\ answer[r] = "none"
  /\ \A x \in recorded : x.note.key # sent[r].key
  /\ Book(recorded \cup {[id |-> r, note |-> sent[r]]})

Forget ==
  /\ ~ durable
  /\ \E rows \in SUBSET recorded : Book(rows)

Tell(r, a) ==
  /\ answer[r] = "none"
  /\ answer' = [answer EXCEPT ![r] = a]
  /\ UNCHANGED <<sent, recorded, debits, credits, paid>>

AnswerProcessed(r) ==
  /\ [id |-> r, note |-> sent[r]] \in recorded
  /\ Tell(r, "processed")

AnswerDuplicate(r) ==
  /\ sent[r] # NoDto
  /\ \E x \in recorded : x.id # r /\ x.note.key = sent[r].key
  /\ Tell(r, "duplicate")

\* An error says nothing: the notification may have been recorded or not.
AnswerError(r) ==
  /\ sent[r] # NoDto
  /\ Tell(r, "error")

Next ==
  /\ \/ \E r \in Requests :
           Send(r) \/ Record(r) \/ AnswerProcessed(r) \/ AnswerDuplicate(r) \/ AnswerError(r)
     \/ Forget
  /\ UNCHANGED durable

Spec == Init /\ [][Next]_vars
=============================================================================

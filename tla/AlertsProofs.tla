---------------------------- MODULE AlertsProofs ----------------------------
(***************************************************************************)
(* Proofs about Alerts: for any triggers, processes, sockets and bounds,   *)
(* nothing is shown that is not stored and has not been queued, and who is *)
(* in the room when an alert is published hears of it.                     *)
(***************************************************************************)
EXTENDS Alerts, FiniteSetTheorems, TLAPS

-----------------------------------------------------------------------------
(* The inductive invariant *)

Queued(t) == queue[t] > 0 \/ queueLost

\* How far the handler of a trigger has come is what it has done.
Handled(t) ==
  /\ step[t] \in {"push", "publish", "update", "answered"} => incident[t] # "none"
  /\ step[t] \in {"publish", "update", "answered"} => Queued(t)
  /\ step[t] \in {"update", "answered"} => published[t] > 0
  /\ step[t] = "answered" => incident[t] = "timed"
  /\ published[t] > 0 => incident[t] # "none" /\ Queued(t)

\* What is on its way, or has come, has been published.
Sent(t) ==
  /\ \A p \in Procs : inbox[p][t] > 0 \/ outbox[p][t] > 0 \/ packets[p][t] > 0 => published[t] > 0
  /\ \A s \in Sockets : copies[s][t] > 0 => published[t] > 0

\* Who is due to hear of an alert is in the room of a present adapter, and will.
Due(t) ==
  \A s \in audience[t] :
    /\ socket[s].adapter = "current" /\ socket[s].proc # None
    /\ copies[s][t] > 0 \/ inbox[socket[s].proc][t] > 0

AlertInv == TypeOK /\ \A t \in Triggers : Handled(t) /\ Sent(t) /\ Due(t)

\* What the assumptions say of the constants.
LEMMA Constants ==
  /\ Home \in [Triggers -> Procs] /\ None \notin Procs
  /\ MaxSends \in Nat /\ MaxSends > 0 /\ MaxCrashes \in Nat
  BY AlertsAssumption

\* The initial state: nothing has started.
LEMMA AlertInit == Init => AlertInv
<1>. SUFFICES ASSUME Init
              PROVE  AlertInv
  OBVIOUS
<1>1. TypeOK
  <2>1. Zero \in [Triggers -> Nat]
    BY DEF Zero
  <2>2. inbox \in Counters /\ outbox \in Counters /\ packets \in Counters
          /\ resent \in [Triggers -> Nat] /\ queue \in [Triggers -> Nat]
          /\ copies \in [Sockets -> [Triggers -> Nat]]
    BY <2>1 DEF Init, Counters
  <2>3. published \in [Triggers -> 0..MaxSends] /\ crashes \in 0..MaxCrashes
    BY Constants DEF Init, Zero
  <2>4. step \in [Triggers -> Steps] /\ boot \in [Procs -> Boots]
          /\ socket \in [Sockets -> SocketState]
    BY DEF Init, Steps, Boots, SocketState
  <2>5. incident \in [Triggers -> {"none", "open", "timed"}] /\ linked = {}
          /\ audience \in [Triggers -> SUBSET Sockets]
    BY DEF Init
  <2>6. queueLost \in BOOLEAN
    BY Zenon DEF Init
  <2>. QED BY <2>2, <2>3, <2>4, <2>5, <2>6 DEF TypeOK
<1>2. ASSUME NEW t \in Triggers PROVE Handled(t) /\ Sent(t) /\ Due(t)
  BY DEF Init, Handled, Queued, Sent, Due, Zero
<1>. QED BY <1>1, <1>2 DEF AlertInv

-----------------------------------------------------------------------------
(* Types *)

\* A trigger that moves on is at a known step.
LEMMA StepType ==
  ASSUME TypeOK, NEW t \in Triggers, NEW from, NEW to \in Steps, Step(t, from, to)
  PROVE  step' \in [Triggers -> Steps]
  BY DEF TypeOK, Step

\* A process that goes on has started.
LEMMA BootType ==
  ASSUME TypeOK, NEW p \in Procs, NEW from, NEW to \in Boots \ {"starting"}, Boot(p, from, to)
  PROVE  /\ boot' \in [Procs -> Boots]
         /\ linked \in SUBSET {q \in Procs : boot'[q] # "starting"}
  BY DEF TypeOK, Boot

\* Claims are given up by sockets only.
LEMMA ExcusedType ==
  ASSUME TypeOK, NEW S, Excused(S)
  PROVE  audience' \in [Triggers -> SUBSET Sockets]
  BY DEF TypeOK, Excused

\* Every step keeps the types.
LEMMA TypeStep == TypeOK /\ [Next]_vars => TypeOK'
<1>. SUFFICES ASSUME TypeOK, [Next]_vars
              PROVE  TypeOK'
  OBVIOUS
<1>. USE Constants DEF triggerVars, relayVars, socketVars
<1>1. ASSUME NEW t \in Triggers, Trigger(t) PROVE TypeOK'
  <2>1. step' \in [Triggers -> Steps]
    BY <1>1, StepType DEF Trigger, Steps
  <2>. QED BY <1>1, <2>1 DEF Trigger, TypeOK
<1>2. ASSUME NEW t \in Triggers, NEW end \in Steps, Insert(t, end) PROVE TypeOK'
  <2>1. step' \in [Triggers -> Steps]
    BY <1>2, StepType DEF Insert
  <2>2. incident' \in [Triggers -> {"none", "open", "timed"}]
    BY <1>2 DEF Insert, TypeOK
  <2>. QED BY <1>2, <2>1, <2>2 DEF Insert, TypeOK
<1>3. ASSUME NEW t \in Triggers, NEW end \in Steps, Push(t, end) PROVE TypeOK'
  <2>1. step' \in [Triggers -> Steps]
    BY <1>3, StepType DEF Push
  <2>2. queue' \in [Triggers -> Nat]
    BY <1>3 DEF Push, TypeOK
  <2>. QED BY <1>3, <2>1, <2>2 DEF Push, TypeOK
<1>4. ASSUME NEW t \in Triggers, NEW end \in Steps, Publish(t, end) PROVE TypeOK'
  <2>1. step' \in [Triggers -> Steps]
    BY <1>4, StepType DEF Publish
  <2>2. published' \in [Triggers -> 0..MaxSends]
    BY <1>4 DEF Publish, TypeOK
  <2>3. inbox' \in Counters
    <3>1. ASSUME NEW p \in Procs
          PROVE  [inbox[p] EXCEPT ![t] = @ + 1] \in [Triggers -> Nat]
                   /\ inbox[p] \in [Triggers -> Nat]
      BY DEF TypeOK, Counters
    <3>. QED BY <1>4, <3>1 DEF Publish, Counters
  <2>4. audience' \in [Triggers -> SUBSET Sockets]
    BY <1>4 DEF Publish, TypeOK
  <2>. QED BY <1>4, <2>1, <2>2, <2>3, <2>4 DEF Publish, TypeOK
<1>5. ASSUME NEW t \in Triggers, NEW end \in Steps, Update(t, end) PROVE TypeOK'
  <2>1. step' \in [Triggers -> Steps]
    BY <1>5, StepType DEF Update
  <2>2. incident' \in [Triggers -> {"none", "open", "timed"}]
    BY <1>5 DEF Update, TypeOK
  <2>. QED BY <1>5, <2>1, <2>2 DEF Update, TypeOK
<1>6. ASSUME NEW t \in Triggers, NEW from, Step(t, from, "error"),
             UNCHANGED <<incident, queue, queueLost, published, boot, linked, relayVars,
                         socketVars, crashes>>
      PROVE  TypeOK'
  <2>1. step' \in [Triggers -> Steps]
    BY <1>6, StepType DEF Steps
  <2>. QED BY <1>6, <2>1 DEF TypeOK
<1>7. ASSUME NEW t \in Triggers, Handle(t) \/ Resend(t) \/ CallFails(t) PROVE TypeOK'
  BY <1>2, <1>3, <1>4, <1>5, <1>6, <1>7 DEF Handle, Resend, CallFails, Steps
<1>8. CASE QueueLost
  <2>1. queue' \in [Triggers -> Nat]
    BY <1>8 DEF QueueLost, Zero
  <2>2. queueLost' \in BOOLEAN
    BY <1>8, Zenon DEF QueueLost
  <2>. QED BY <1>8, <2>1, <2>2 DEF QueueLost, TypeOK
<1>9. ASSUME NEW p \in Procs, GoesOn(p) PROVE TypeOK'
  <2>1. boot' \in [Procs -> Boots] /\ linked \in SUBSET {q \in Procs : boot'[q] # "starting"}
    BY <1>9, BootType DEF GoesOn, Start, WaitEnds, SetAdapter, Subscribe, Boots
  <2>. QED BY <1>9, <2>1 DEF GoesOn, Start, WaitEnds, SetAdapter, Subscribe, TypeOK
<1>10. ASSUME NEW p \in Procs, Link(p) PROVE TypeOK'
  BY <1>10 DEF Link, TypeOK
<1>11. ASSUME NEW p \in Procs, Unlink(p) PROVE TypeOK'
  <2>1. audience' \in [Triggers -> SUBSET Sockets]
    BY <1>11, ExcusedType DEF Unlink
  <2>2. Zero \in [Triggers -> Nat]
    BY DEF Zero
  <2>3. inbox' \in Counters /\ packets' \in Counters
    BY <1>11, <2>2 DEF Unlink, TypeOK, Counters
  <2>. QED BY <1>11, <2>1, <2>3 DEF Unlink, TypeOK
<1>12. ASSUME NEW p \in Procs, NEW t \in Triggers, Emit(p, t)
       PROVE  copies' \in [Sockets -> [Triggers -> Nat]]
  <2>1. ASSUME NEW s \in Sockets
        PROVE  [copies[s] EXCEPT ![t] = @ + 1] \in [Triggers -> Nat]
                 /\ copies[s] \in [Triggers -> Nat]
    BY DEF TypeOK
  <2>. QED BY <1>12, <2>1 DEF Emit
<1>13. ASSUME NEW p \in Procs, NEW t \in Triggers, Relay(p, t) PROVE TypeOK'
  <2>1. inbox[p] \in [Triggers -> Nat] /\ outbox[p] \in [Triggers -> Nat] /\ inbox[p][t] > 0
    BY <1>13 DEF Relay, TypeOK, Counters
  <2>2. [inbox[p] EXCEPT ![t] = @ - 1] \in [Triggers -> Nat]
          /\ [outbox[p] EXCEPT ![t] = @ + 1] \in [Triggers -> Nat]
    BY <2>1
  <2>3. inbox' \in Counters /\ outbox' \in Counters
    BY <1>13, <2>2 DEF Relay, TypeOK, Counters
  <2>4. copies' \in [Sockets -> [Triggers -> Nat]]
    BY <1>12, <1>13 DEF Relay
  <2>. QED BY <1>13, <2>3, <2>4 DEF Relay, TypeOK
<1>14. ASSUME NEW p \in Procs, NEW t \in Triggers, Forward(p, t) \/ ForwardUnanswered(p, t)
       PROVE  TypeOK'
  <2>1. SendPacket(p, t)
    BY <1>14 DEF Forward, ForwardUnanswered
  <2>2. outbox[p] \in [Triggers -> Nat] /\ outbox[p][t] > 0
    BY <2>1 DEF SendPacket, TypeOK, Counters
  <2>3. [outbox[p] EXCEPT ![t] = @ - 1] \in [Triggers -> Nat]
    BY <2>2
  <2>4. outbox' \in Counters /\ resent' \in [Triggers -> Nat]
    <3>1. CASE Forward(p, t)
      BY <2>3, <3>1 DEF Forward, TypeOK, Counters
    <3>2. CASE ForwardUnanswered(p, t)
      BY <3>2 DEF ForwardUnanswered, TypeOK
    <3>. QED BY <1>14, <3>1, <3>2
  <2>5. packets' \in Counters
    <3>1. ASSUME NEW q \in Procs
          PROVE  [packets[q] EXCEPT ![t] = @ + 1] \in [Triggers -> Nat]
                   /\ packets[q] \in [Triggers -> Nat]
      BY DEF TypeOK, Counters
    <3>. QED BY <2>1, <3>1 DEF SendPacket, Counters
  <2>. QED BY <2>1, <2>4, <2>5 DEF SendPacket, TypeOK
<1>15. ASSUME NEW p \in Procs, NEW t \in Triggers, EmitPacket(p, t) PROVE TypeOK'
  <2>1. packets[p] \in [Triggers -> Nat] /\ packets[p][t] > 0
    BY <1>15 DEF EmitPacket, TypeOK, Counters
  <2>2. [packets[p] EXCEPT ![t] = @ - 1] \in [Triggers -> Nat]
    BY <2>1
  <2>3. packets' \in Counters
    BY <1>15, <2>2 DEF EmitPacket, TypeOK, Counters
  <2>4. copies' \in [Sockets -> [Triggers -> Nat]]
    BY <1>12, <1>15 DEF EmitPacket
  <2>. QED BY <1>15, <2>3, <2>4 DEF EmitPacket, TypeOK
<1>16. ASSUME NEW s \in Sockets, NEW p \in Procs, HandleConnection(s, p) PROVE TypeOK'
  <2>1. socket' \in [Sockets -> SocketState]
    BY <1>16 DEF HandleConnection, TypeOK, SocketState
  <2>. QED BY <1>16, <2>1 DEF HandleConnection, TypeOK
<1>17. ASSUME NEW s \in Sockets, HandleDisconnect(s) PROVE TypeOK'
  <2>1. socket' \in [Sockets -> SocketState]
    BY <1>17 DEF HandleDisconnect, TypeOK, SocketState
  <2>2. audience' \in [Triggers -> SUBSET Sockets]
    BY <1>17, ExcusedType DEF HandleDisconnect
  <2>. QED BY <1>17, <2>1, <2>2 DEF HandleDisconnect, TypeOK
<1>18. ASSUME NEW p \in Procs, Die(p), crashes' \in 0..MaxCrashes PROVE TypeOK'
  <2>1. boot' \in [Procs -> Boots] /\ linked' \in SUBSET {q \in Procs : boot'[q] # "starting"}
    BY <1>18 DEF Die, TypeOK, Boots
  <2>2. step' \in [Triggers -> Steps]
    BY <1>18 DEF Die, TypeOK, Steps
  <2>3. Zero \in [Triggers -> Nat]
    BY DEF Zero
  <2>4. inbox' \in Counters /\ outbox' \in Counters /\ packets' \in Counters
    BY <1>18, <2>3 DEF Die, TypeOK, Counters
  <2>5. \A s \in Sockets : [socket[s] EXCEPT !.proc = None] \in SocketState
                             /\ socket[s] \in SocketState
    BY DEF TypeOK, SocketState
  <2>6. socket' \in [Sockets -> SocketState]
    BY <1>18, <2>5 DEF Die
  <2>7. audience' \in [Triggers -> SUBSET Sockets]
    BY <1>18, ExcusedType DEF Die
  <2>. QED BY <1>18, <2>1, <2>2, <2>4, <2>6, <2>7 DEF Die, TypeOK
<1>19. ASSUME NEW p \in Procs, Crash(p) \/ Reject(p) PROVE TypeOK'
  <2>1. crashes' \in 0..MaxCrashes
    BY <1>19 DEF Crash, Reject, TypeOK
  <2>. QED BY <1>18, <1>19, <2>1 DEF Crash, Reject
<1>20. CASE UNCHANGED vars
  BY <1>20 DEF vars, TypeOK
<1>. QED BY <1>1, <1>7, <1>8, <1>9, <1>10, <1>11, <1>13, <1>14, <1>15, <1>16, <1>17, <1>19,
            <1>20 DEF Next

-----------------------------------------------------------------------------
(* What triggers have done *)

\* Nothing leaves the queue but by a restart of redis-queue.
LEMMA QueuedKept ==
  ASSUME NEW t \in Triggers, Queued(t), queue'[t] >= queue[t], queue[t] \in Nat, queue'[t] \in Nat,
         UNCHANGED queueLost
  PROVE  Queued(t)'
<1>1. CASE queueLost
  <2>1. queueLost'
    BY <1>1, Zenon
  <2>. QED BY <2>1, Zenon DEF Queued
<1>2. CASE queue[t] > 0
  <2>1. queue'[t] > 0
    BY <1>2, SMT
  <2>. QED BY <2>1, Zenon DEF Queued
<1>. QED BY <1>1, <1>2, Zenon DEF Queued

\* A trigger that a step does not concern keeps what it has done.
LEMMA HandledQuiet ==
  ASSUME NEW t \in Triggers, Handled(t),
         step'[t] \in {step[t], "dead", "error"}, incident'[t] = incident[t],
         Queued(t) => Queued(t)',
         published'[t] = published[t]
  PROVE  Handled(t)'
  BY DEF Handled

\* Every step keeps the order of the handler.
LEMMA HandledStep ==
  ASSUME TypeOK, TypeOK', NEW u \in Triggers, Handled(u), Next
  PROVE  Handled(u)'
<1>0. /\ step \in [Triggers -> Steps] /\ incident \in [Triggers -> {"none", "open", "timed"}]
      /\ queue \in [Triggers -> Nat] /\ published \in [Triggers -> 0..MaxSends]
      /\ queue[u] \in Nat /\ queue'[u] \in Nat
  BY DEF TypeOK
<1>a. ASSUME queue' = queue, queueLost' = queueLost PROVE Queued(u) => Queued(u)'
  BY <1>a, Zenon DEF Queued
<1>b. ASSUME UNCHANGED triggerVars PROVE Handled(u)'
  <2>1. step' = step /\ incident' = incident /\ published' = published
    BY <1>b DEF triggerVars
  <2>2. Queued(u) => Queued(u)'
    BY <1>a, <1>b, Zenon DEF triggerVars
  <2>. QED BY <2>1, <2>2, HandledQuiet
<1>1. ASSUME NEW t \in Triggers, Trigger(t) PROVE Handled(u)'
  <2>1. Queued(u) => Queued(u)'
    BY <1>a, <1>1, Zenon DEF Trigger
  <2>2. /\ step[t] = "idle" /\ step' = [step EXCEPT ![t] = "insert"]
        /\ incident' = incident /\ published' = published
    BY <1>1 DEF Trigger, Step
  <2>. QED BY <1>0, <2>1, <2>2 DEF Handled
<1>2. ASSUME NEW t \in Triggers, NEW end \in {"push", "error"}, Insert(t, end) PROVE Handled(u)'
  <2>1. Queued(u) => Queued(u)'
    BY <1>a, <1>2, Zenon DEF Insert
  <2>2. /\ step[t] = "insert" /\ step' = [step EXCEPT ![t] = end]
        /\ incident' = [incident EXCEPT ![t] = "open"] /\ published' = published
    BY <1>2 DEF Insert, Step
  <2>. QED BY <1>0, <2>1, <2>2 DEF Handled
<1>3. ASSUME NEW t \in Triggers, NEW end \in {"push", "publish", "error"}, Push(t, end)
      PROVE  Handled(u)'
  <2>1. /\ step[t] = "push" /\ step' = [step EXCEPT ![t] = end]
        /\ incident' = incident /\ published' = published
        /\ queue' = [queue EXCEPT ![t] = @ + 1]
    BY <1>3 DEF Push, Step
  <2>2. queue'[u] >= queue[u] /\ (t = u => queue'[u] > 0)
    BY <1>0, <2>1
  <2>3. Queued(u) => Queued(u)'
    BY <1>0, <1>3, <2>2, QueuedKept, Zenon DEF Push
  <2>4. t = u => Queued(u)'
    BY <2>2, Zenon DEF Queued
  <2>. QED BY <1>0, <2>1, <2>3, <2>4 DEF Handled
<1>4. ASSUME NEW t \in Triggers, NEW end \in {"publish", "update", "error"}, Publish(t, end)
      PROVE  Handled(u)'
  <2>1. Queued(u) => Queued(u)'
    BY <1>a, <1>4, Zenon DEF Publish
  <2>2. /\ step[t] = "publish" /\ step' = [step EXCEPT ![t] = end]
        /\ incident' = incident /\ published' = [published EXCEPT ![t] = @ + 1]
    BY <1>4 DEF Publish, Step
  <2>. QED BY <1>0, <2>1, <2>2 DEF Handled
<1>5. ASSUME NEW t \in Triggers, NEW end \in {"answered", "error"}, Update(t, end)
      PROVE  Handled(u)'
  <2>1. Queued(u) => Queued(u)'
    BY <1>a, <1>5, Zenon DEF Update
  <2>2. /\ step[t] = "update" /\ step' = [step EXCEPT ![t] = end]
        /\ incident' = [incident EXCEPT ![t] = "timed"] /\ published' = published
    BY <1>5 DEF Update, Step
  <2>. QED BY <1>0, <2>1, <2>2 DEF Handled
<1>6. ASSUME NEW t \in Triggers, NEW from, Step(t, from, "error"),
             UNCHANGED <<incident, queue, queueLost, published>>
      PROVE  Handled(u)'
  <2>1. Queued(u) => Queued(u)'
    BY <1>a, <1>6, Zenon
  <2>2. step'[u] \in {step[u], "error"} /\ incident' = incident /\ published' = published
    BY <1>0, <1>6 DEF Step
  <2>. QED BY <2>1, <2>2, HandledQuiet
<1>7. ASSUME NEW t \in Triggers, Handle(t) \/ Resend(t) \/ CallFails(t) PROVE Handled(u)'
  BY <1>2, <1>3, <1>4, <1>5, <1>6, <1>7 DEF Handle, Resend, CallFails
<1>8. CASE QueueLost
  <2>1. queueLost'
    BY <1>8, Zenon DEF QueueLost
  <2>2. Queued(u)'
    BY <2>1, Zenon DEF Queued
  <2>3. step' = step /\ incident' = incident /\ published' = published
    BY <1>8 DEF QueueLost
  <2>. QED BY <2>2, <2>3, HandledQuiet
<1>9. ASSUME NEW p \in Procs, GoesOn(p) \/ Link(p) \/ Unlink(p) PROVE Handled(u)'
  BY <1>b, <1>9 DEF GoesOn, Start, WaitEnds, SetAdapter, Subscribe, Link, Unlink
<1>10. ASSUME NEW p \in Procs, NEW t \in Triggers,
              Relay(p, t) \/ Forward(p, t) \/ ForwardUnanswered(p, t) \/ EmitPacket(p, t)
       PROVE  Handled(u)'
  BY <1>b, <1>10 DEF Relay, Forward, ForwardUnanswered, SendPacket, EmitPacket
<1>11. ASSUME NEW s \in Sockets, NEW p \in Procs, HandleConnection(s, p) PROVE Handled(u)'
  BY <1>b, <1>11 DEF HandleConnection
<1>12. ASSUME NEW s \in Sockets, HandleDisconnect(s) PROVE Handled(u)'
  BY <1>b, <1>12 DEF HandleDisconnect
<1>13. ASSUME NEW p \in Procs, Die(p) PROVE Handled(u)'
  <2>1. Queued(u) => Queued(u)'
    BY <1>a, <1>13, Zenon DEF Die
  <2>2. step'[u] \in {step[u], "dead"} /\ incident' = incident /\ published' = published
    BY <1>0, <1>13 DEF Die
  <2>. QED BY <2>1, <2>2, HandledQuiet
<1>. QED BY <1>1, <1>7, <1>8, <1>9, <1>10, <1>11, <1>12, <1>13 DEF Next, Crash, Reject

-----------------------------------------------------------------------------
(* What has been published *)

\* What is published stays published.
LEMMA PublishedGrows ==
  ASSUME TypeOK, Next, NEW u \in Triggers, published[u] > 0
  PROVE  published'[u] > 0
<1>1. ASSUME NEW t \in Triggers, NEW end, Publish(t, end) PROVE published'[u] > 0
  BY <1>1 DEF Publish, TypeOK
<1>2. CASE \A t \in Triggers, end \in Steps : ~ Publish(t, end)
  <2>1. published' = published
    BY <1>2 DEF Next, Trigger, Handle, Insert, Push, Update, Resend, CallFails, QueueLost, GoesOn,
                Start, WaitEnds, SetAdapter, Subscribe, Link, Unlink, Crash, Reject, Die, Relay,
                Forward, ForwardUnanswered, SendPacket, EmitPacket, HandleConnection,
                HandleDisconnect, triggerVars, Steps
  <2>. QED BY <2>1
<1>. QED BY <1>1, <1>2

\* Steps by which nothing new is on its way.
LEMMA SentQuiet ==
  ASSUME TypeOK, Next, NEW u \in Triggers, Sent(u),
         \A p \in Procs : /\ inbox'[p][u] \in {inbox[p][u], 0}
                          /\ outbox'[p][u] \in {outbox[p][u], 0}
                          /\ packets'[p][u] \in {packets[p][u], 0},
         copies' = copies
  PROVE  Sent(u)'
  BY PublishedGrows DEF Sent

\* What is emitted has been published.
LEMMA EmitSent ==
  ASSUME TypeOK, NEW p \in Procs, NEW t \in Triggers, NEW u \in Triggers, Emit(p, t), Sent(u),
         t = u => published[u] > 0,
         NEW s \in Sockets, copies'[s][u] > 0
  PROVE  published[u] > 0
<1>1. copies[s] \in [Triggers -> Nat]
  BY DEF TypeOK
<1>2. CASE t = u
  BY <1>2
<1>3. CASE t # u
  <2>1. copies'[s][u] = copies[s][u]
    BY <1>1, <1>3 DEF Emit
  <2>. QED BY <2>1 DEF Sent
<1>. QED BY <1>2, <1>3

\* Every step keeps what is on its way published.
LEMMA SentStep ==
  ASSUME TypeOK, NEW u \in Triggers, Sent(u), Next
  PROVE  Sent(u)'
<1>. USE DEF triggerVars, relayVars, socketVars
<1>0. \A p \in Procs : inbox[p] \in [Triggers -> Nat] /\ outbox[p] \in [Triggers -> Nat]
                         /\ packets[p] \in [Triggers -> Nat]
  BY DEF TypeOK, Counters
<1>1. ASSUME NEW t \in Triggers, NEW end, Publish(t, end) PROVE Sent(u)'
  <2>1. CASE t = u
    <3>1. published'[u] > 0
      BY <1>1, <2>1 DEF Publish, TypeOK
    <3>. QED BY <3>1 DEF Sent
  <2>2. CASE t # u
    <3>1. \A p \in Procs : inbox'[p][u] = inbox[p][u]
      BY <1>0, <1>1, <2>2 DEF Publish
    <3>. QED BY <1>1, <3>1, SentQuiet DEF Publish
  <2>. QED BY <2>1, <2>2
<1>2. ASSUME UNCHANGED <<relayVars, copies>> PROVE Sent(u)'
  BY <1>2, SentQuiet
<1>3. ASSUME NEW t \in Triggers, Trigger(t) \/ Handle(t) \/ Resend(t) \/ CallFails(t) PROVE Sent(u)'
  <2>1. CASE \E end \in Steps : Publish(t, end)
    BY <1>1, <2>1
  <2>2. CASE ~ \E end \in Steps : Publish(t, end)
    <3>1. UNCHANGED <<relayVars, copies>>
      BY <1>3, <2>2 DEF Trigger, Handle, Resend, CallFails, Insert, Push, Update, Steps
    <3>. QED BY <1>2, <3>1
  <2>. QED BY <2>1, <2>2
<1>4. CASE QueueLost
  BY <1>2, <1>4 DEF QueueLost
<1>5. ASSUME NEW p \in Procs, GoesOn(p) \/ Link(p) PROVE Sent(u)'
  BY <1>2, <1>5 DEF GoesOn, Start, WaitEnds, SetAdapter, Subscribe, Link
<1>6. ASSUME NEW p \in Procs, Unlink(p) PROVE Sent(u)'
  <2>1. \A q \in Procs : inbox'[q][u] \in {inbox[q][u], 0} /\ packets'[q][u] \in {packets[q][u], 0}
    BY <1>6 DEF Unlink, Zero, TypeOK, Counters
  <2>. QED BY <1>6, <2>1, SentQuiet DEF Unlink
<1>7. ASSUME NEW p \in Procs, NEW t \in Triggers, Relay(p, t) PROVE Sent(u)'
  <2>1. t = u => published[u] > 0
    BY <1>7 DEF Relay, Sent
  <2>2. \A s \in Sockets : copies'[s][u] > 0 => published[u] > 0
    BY <1>7, <2>1, EmitSent DEF Relay
  <2>3. published' = published
    BY <1>7 DEF Relay
  <2>4. \A q \in Procs : t # u => inbox'[q][u] = inbox[q][u] /\ outbox'[q][u] = outbox[q][u]
    BY <1>0, <1>7 DEF Relay, TypeOK, Counters
  <2>. QED BY <1>7, <2>1, <2>2, <2>3, <2>4 DEF Relay, Sent
<1>8. ASSUME NEW p \in Procs, NEW t \in Triggers, Forward(p, t) \/ ForwardUnanswered(p, t)
      PROVE  Sent(u)'
  <2>1. SendPacket(p, t) /\ (outbox' = [outbox EXCEPT ![p][t] = @ - 1] \/ outbox' = outbox)
    BY <1>8 DEF Forward, ForwardUnanswered
  <2>2. t = u => published[u] > 0
    BY <2>1 DEF SendPacket, Sent
  <2>3. published' = published
    BY <2>1 DEF SendPacket
  <2>4. \A q \in Procs : t # u => packets'[q][u] = packets[q][u] /\ outbox'[q][u] = outbox[q][u]
    BY <1>0, <2>1 DEF SendPacket, TypeOK, Counters
  <2>. QED BY <2>1, <2>2, <2>3, <2>4 DEF SendPacket, Sent
<1>9. ASSUME NEW p \in Procs, NEW t \in Triggers, EmitPacket(p, t) PROVE Sent(u)'
  <2>1. t = u => published[u] > 0
    BY <1>9 DEF EmitPacket, Sent
  <2>2. \A s \in Sockets : copies'[s][u] > 0 => published[u] > 0
    BY <1>9, <2>1, EmitSent DEF EmitPacket
  <2>3. published' = published
    BY <1>9 DEF EmitPacket
  <2>4. \A q \in Procs : t # u => packets'[q][u] = packets[q][u]
    BY <1>0, <1>9 DEF EmitPacket, TypeOK, Counters
  <2>. QED BY <1>9, <2>1, <2>2, <2>3, <2>4 DEF EmitPacket, Sent
<1>10. ASSUME NEW s \in Sockets, NEW p \in Procs, HandleConnection(s, p) PROVE Sent(u)'
  BY <1>2, <1>10 DEF HandleConnection
<1>11. ASSUME NEW s \in Sockets, HandleDisconnect(s) PROVE Sent(u)'
  BY <1>2, <1>11 DEF HandleDisconnect
<1>12. ASSUME NEW p \in Procs, Crash(p) \/ Reject(p) PROVE Sent(u)'
  <2>1. Die(p)
    BY <1>12 DEF Crash, Reject
  <2>2. \A q \in Procs : /\ inbox'[q][u] \in {inbox[q][u], 0}
                         /\ outbox'[q][u] \in {outbox[q][u], 0}
                         /\ packets'[q][u] \in {packets[q][u], 0}
    BY <2>1 DEF Die, Zero, TypeOK, Counters
  <2>. QED BY <2>1, <2>2, SentQuiet DEF Die
<1>. QED BY <1>3, <1>4, <1>5, <1>6, <1>7, <1>8, <1>9, <1>10, <1>11, <1>12 DEF Next

-----------------------------------------------------------------------------
(* Who is due to hear *)

\* Who stays in the room keeps his claim, if what was on its way is on it or has come.
LEMMA DueQuiet ==
  ASSUME NEW u \in Triggers, Due(u), audience'[u] \subseteq audience[u],
         \A s \in audience'[u] :
           /\ socket'[s] = socket[s]
           /\ copies[s][u] > 0 => copies'[s][u] > 0
           /\ inbox[socket[s].proc][u] > 0 =>
                copies'[s][u] > 0 \/ inbox'[socket[s].proc][u] > 0
  PROVE  Due(u)'
  BY DEF Due

\* A claim is at a process, whose counters are numbers.
LEMMA DueTypes ==
  ASSUME TypeOK, NEW u \in Triggers, Due(u), NEW s \in audience[u]
  PROVE  /\ s \in Sockets /\ socket[s].proc \in Procs /\ socket[s].adapter = "current"
         /\ copies[s] \in [Triggers -> Nat] /\ inbox[socket[s].proc] \in [Triggers -> Nat]
<1>1. s \in Sockets /\ socket[s].proc # None /\ socket[s].adapter = "current"
  BY DEF TypeOK, Due
<1>2. socket[s] \in SocketState /\ copies[s] \in [Triggers -> Nat]
  BY <1>1 DEF TypeOK
<1>3. socket[s].proc \in Procs
  BY <1>1, <1>2 DEF SocketState
<1>. QED BY <1>1, <1>2, <1>3 DEF TypeOK, Counters

\* An emission takes nothing back, and gives t to the room at p.
LEMMA EmitReaches ==
  ASSUME TypeOK, NEW p \in Procs, NEW t \in Triggers, Emit(p, t), NEW u \in Triggers,
         NEW s \in Sockets
  PROVE  /\ copies[s][u] > 0 => copies'[s][u] > 0
         /\ t = u /\ socket[s].proc = p /\ socket[s].adapter = "current" => copies'[s][u] > 0
<1>1. copies[s] \in [Triggers -> Nat]
  BY DEF TypeOK
<1>2. CASE socket[s].proc = p /\ socket[s].adapter = "current"
  <2>1. copies'[s] = [copies[s] EXCEPT ![t] = @ + 1]
    BY <1>2 DEF Emit, At
  <2>. QED BY <1>1, <2>1
<1>3. CASE ~ (socket[s].proc = p /\ socket[s].adapter = "current")
  <2>1. copies'[s] = copies[s]
    BY <1>3 DEF Emit, At
  <2>. QED BY <1>3, <2>1
<1>. QED BY <1>2, <1>3

\* Every step keeps the claims.
LEMMA DueStep ==
  ASSUME TypeOK, NEW u \in Triggers, Due(u), Next
  PROVE  Due(u)'
<1>. USE DEF triggerVars, relayVars, socketVars
<1>0. /\ \A p \in Procs : inbox[p] \in [Triggers -> Nat]
      /\ audience \in [Triggers -> SUBSET Sockets]
  BY DEF TypeOK, Counters
<1>1. ASSUME NEW t \in Triggers, NEW end, Publish(t, end) PROVE Due(u)'
  <2>1. \A p \in Procs : inbox[p][u] > 0 => inbox'[p][u] > 0
    BY <1>0, <1>1 DEF Publish
  <2>2. copies' = copies /\ socket' = socket
    BY <1>1 DEF Publish
  <2>3. ASSUME NEW s \in audience[u]
        PROVE  /\ socket'[s].adapter = "current" /\ socket'[s].proc # None
               /\ copies'[s][u] > 0 \/ inbox'[socket'[s].proc][u] > 0
    BY <2>1, <2>2, DueTypes, Constants DEF Due
  <2>4. ASSUME t = u, NEW s \in Sockets, socket[s].proc \in Subscribed,
               socket[s].adapter = "current"
        PROVE  /\ socket'[s].adapter = "current" /\ socket'[s].proc # None
               /\ inbox'[socket'[s].proc][u] > 0
    <3>1. socket[s].proc \in Procs
      BY <2>4 DEF Subscribed, TypeOK
    <3>2. inbox'[socket[s].proc] = [inbox[socket[s].proc] EXCEPT ![u] = @ + 1]
      BY <1>1, <2>4, <3>1 DEF Publish
    <3>3. inbox'[socket[s].proc][u] > 0
      BY <1>0, <3>1, <3>2
    <3>. QED BY <2>2, <2>4, <3>1, <3>3, Constants
  <2>5. CASE t = u
    <3>1. audience'[u] = audience[u] \cup
            {s \in Sockets : socket[s].proc \in Subscribed /\ socket[s].adapter = "current"}
      BY <1>0, <1>1, <2>5 DEF Publish
    <3>. QED BY <2>3, <2>4, <2>5, <3>1 DEF Due
  <2>6. CASE t # u
    <3>1. audience'[u] = audience[u]
      BY <1>0, <1>1, <2>6 DEF Publish
    <3>. QED BY <2>3, <3>1 DEF Due
  <2>. QED BY <2>5, <2>6
<1>2. ASSUME UNCHANGED <<inbox, socketVars>> PROVE Due(u)'
  BY <1>2, DueQuiet
<1>3. ASSUME NEW t \in Triggers, Trigger(t) \/ Handle(t) \/ Resend(t) \/ CallFails(t) PROVE Due(u)'
  <2>1. CASE \E end \in Steps : Publish(t, end)
    BY <1>1, <2>1
  <2>2. CASE ~ \E end \in Steps : Publish(t, end)
    <3>1. UNCHANGED <<inbox, socketVars>>
      BY <1>3, <2>2 DEF Trigger, Handle, Resend, CallFails, Insert, Push, Update, Steps
    <3>. QED BY <1>2, <3>1
  <2>. QED BY <2>1, <2>2
<1>4. CASE QueueLost
  BY <1>2, <1>4 DEF QueueLost
<1>5. ASSUME NEW p \in Procs, GoesOn(p) \/ Link(p) PROVE Due(u)'
  BY <1>2, <1>5 DEF GoesOn, Start, WaitEnds, SetAdapter, Subscribe, Link
<1>6. ASSUME NEW p \in Procs, Unlink(p) PROVE Due(u)'
  <2>1. audience'[u] = audience[u] \ At(p)
    BY <1>6 DEF Unlink, Excused
  <2>2. \A s \in audience'[u] : inbox'[socket[s].proc] = inbox[socket[s].proc]
    BY <1>0, <1>6, <2>1, DueTypes DEF Unlink, At, TypeOK, Counters
  <2>. QED BY <1>6, <2>1, <2>2, DueQuiet DEF Unlink
<1>7. ASSUME NEW p \in Procs, NEW t \in Triggers, Relay(p, t) PROVE Due(u)'
  <2>1. ASSUME NEW s \in audience[u]
        PROVE  /\ copies[s][u] > 0 => copies'[s][u] > 0
               /\ inbox[socket[s].proc][u] > 0 =>
                    copies'[s][u] > 0 \/ inbox'[socket[s].proc][u] > 0
    <3>1. s \in Sockets /\ socket[s].proc \in Procs /\ socket[s].adapter = "current"
      BY DueTypes
    <3>2. CASE t = u /\ socket[s].proc = p
      BY <1>7, <3>1, <3>2, EmitReaches DEF Relay
    <3>3. CASE ~ (t = u /\ socket[s].proc = p)
      <4>1. inbox'[socket[s].proc][u] = inbox[socket[s].proc][u]
        BY <1>0, <1>7, <3>1, <3>3 DEF Relay, TypeOK, Counters
      <4>. QED BY <1>7, <3>1, <4>1, EmitReaches DEF Relay
    <3>. QED BY <3>2, <3>3
  <2>. QED BY <1>7, <2>1, DueQuiet DEF Relay
<1>8. ASSUME NEW p \in Procs, NEW t \in Triggers, Forward(p, t) \/ ForwardUnanswered(p, t)
      PROVE  Due(u)'
  BY <1>2, <1>8 DEF Forward, ForwardUnanswered, SendPacket
<1>9. ASSUME NEW p \in Procs, NEW t \in Triggers, EmitPacket(p, t) PROVE Due(u)'
  <2>1. ASSUME NEW s \in audience[u]
        PROVE  copies[s][u] > 0 => copies'[s][u] > 0
    BY <1>9, EmitReaches, DueTypes DEF EmitPacket
  <2>. QED BY <1>9, <2>1, DueQuiet DEF EmitPacket
<1>10. ASSUME NEW s \in Sockets, NEW p \in Procs, HandleConnection(s, p) PROVE Due(u)'
  <2>1. s \notin audience[u]
    BY <1>10, DueTypes DEF HandleConnection
  <2>2. \A r \in audience[u] : socket'[r] = socket[r]
    BY <1>10, <2>1, DueTypes DEF HandleConnection, TypeOK
  <2>. QED BY <1>10, <2>2, DueQuiet DEF HandleConnection
<1>11. ASSUME NEW s \in Sockets, HandleDisconnect(s) PROVE Due(u)'
  <2>1. audience'[u] = audience[u] \ {s}
    BY <1>11 DEF HandleDisconnect, Excused
  <2>2. \A r \in audience'[u] : socket'[r] = socket[r]
    BY <1>11, <2>1, DueTypes DEF HandleDisconnect, TypeOK
  <2>. QED BY <1>11, <2>1, <2>2, DueQuiet DEF HandleDisconnect
<1>12. ASSUME NEW p \in Procs, Die(p) PROVE Due(u)'
  <2>1. audience'[u] = audience[u] \ At(p)
    BY <1>12 DEF Die, Excused
  <2>2. \A s \in audience'[u] : /\ inbox'[socket[s].proc] = inbox[socket[s].proc]
                                /\ socket'[s] = socket[s]
    <3>1. ASSUME NEW s \in audience'[u]
          PROVE  s \in Sockets /\ socket[s].proc \in Procs \ {p} /\ s \notin At(p)
      BY <2>1, DueTypes DEF At
    <3>2. socket' = [s \in Sockets |->
                       IF s \in At(p) THEN [socket[s] EXCEPT !.proc = None] ELSE socket[s]]
            /\ inbox' = [inbox EXCEPT ![p] = Zero]
      BY <1>12 DEF Die
    <3>. QED BY <3>1, <3>2 DEF TypeOK, Counters
  <2>. QED BY <1>12, <2>1, <2>2, DueQuiet DEF Die
<1>. QED BY <1>3, <1>4, <1>5, <1>6, <1>7, <1>8, <1>9, <1>10, <1>11, <1>12 DEF Next, Crash, Reject

-----------------------------------------------------------------------------
(***************************************************************************)
(* How much a process may still be told of an alert, counted in a way that *)
(* needs no sum over the processes: what is pending is a set, with one     *)
(* pair <<q, i>> for the i-th thing that q may make of it.                 *)
(***************************************************************************)

\* What may reach the sockets of p: by p what it receives itself and what the adapters
\* send it, by another process what that process has not relayed or not sent.
Pending(p, t) ==
  [q \in Procs |-> IF q = p THEN inbox[p][t] + packets[p][t]
                            ELSE inbox[q][t] + outbox[q][t]]

Units(f) == {x \in Procs \X Nat : x[2] < f[x[1]]}

Limit(t) == published[t] * Cardinality(Procs) + resent[t]

\* Load(t)[p] is the number of copies of t that each socket of p may still get.
Load(t) == [p \in Procs |-> Cardinality(Units(Pending(p, t)))]

Bounded(t) ==
  /\ \A p \in Procs : IsFiniteSet(Units(Pending(p, t))) /\ Load(t)[p] <= Limit(t)
  /\ \A s \in Sockets :
       /\ copies[s][t] <= Limit(t)
       /\ socket[s].proc # None => copies[s][t] + Load(t)[socket[s].proc] <= Limit(t)
       /\ socket[s].adapter = "none" => socket[s].proc = None /\ copies[s][t] = 0

Amounts == [Procs -> Nat]

\* Less is pending where no process has more to make of it.
LEMMA FewerUnits ==
  ASSUME NEW f \in Amounts, NEW g \in Amounts, IsFiniteSet(Units(f)),
         \A q \in Procs : g[q] <= f[q]
  PROVE  IsFiniteSet(Units(g)) /\ Cardinality(Units(g)) <= Cardinality(Units(f))
<1>1. Units(g) \subseteq Units(f)
  BY DEF Units, Amounts
<1>. QED BY <1>1, FS_Subset

\* If one process has less to make of it, at least one unit is gone.
LEMMA OneUnitLess ==
  ASSUME NEW f \in Amounts, NEW g \in Amounts, IsFiniteSet(Units(f)), NEW p \in Procs,
         g[p] < f[p], \A q \in Procs : g[q] <= f[q]
  PROVE  IsFiniteSet(Units(g)) /\ Cardinality(Units(g)) + 1 <= Cardinality(Units(f))
<1>. DEFINE x == <<p, g[p]>>
<1>1. x \in Units(f) /\ x \notin Units(g)
  BY DEF Units, Amounts
<1>2. Units(g) \subseteq Units(f)
  BY DEF Units, Amounts
<1>3. Units(g) \subseteq Units(f) \ {x}
  BY <1>1, <1>2
<1>4. /\ IsFiniteSet(Units(f) \ {x}) /\ Cardinality(Units(f)) \in Nat
      /\ Cardinality(Units(f) \ {x}) = Cardinality(Units(f)) - 1
  BY <1>1, FS_RemoveElement, FS_CardinalityType
<1>5. /\ IsFiniteSet(Units(g)) /\ Cardinality(Units(g)) <= Cardinality(Units(f) \ {x})
  BY <1>3, <1>4, FS_Subset
<1>6. Cardinality(Units(g)) \in Nat
  BY <1>5, FS_CardinalityType
<1>. QED BY <1>4, <1>5, <1>6

\* If one process has one more, up to one unit is added.
LEMMA OneUnitMore ==
  ASSUME NEW f \in Amounts, NEW g \in Amounts, IsFiniteSet(Units(f)), NEW p \in Procs,
         g[p] <= f[p] + 1, \A q \in Procs \ {p} : g[q] <= f[q]
  PROVE  IsFiniteSet(Units(g)) /\ Cardinality(Units(g)) <= Cardinality(Units(f)) + 1
<1>. DEFINE x == <<p, f[p]>>
<1>1. Units(g) \subseteq Units(f) \cup {x}
  BY DEF Units, Amounts
<1>. HIDE DEF x
<1>2. /\ IsFiniteSet(Units(f) \cup {x}) /\ Cardinality(Units(f)) \in Nat
      /\ Cardinality(Units(f) \cup {x}) <= Cardinality(Units(f)) + 1
  <2>1. /\ IsFiniteSet(Units(f) \cup {x})
        /\ Cardinality(Units(f) \cup {x}) =
             IF x \in Units(f) THEN Cardinality(Units(f)) ELSE Cardinality(Units(f)) + 1
    BY FS_AddElement
  <2>2. Cardinality(Units(f)) \in Nat
    BY FS_CardinalityType
  <2>. QED BY <2>1, <2>2
<1>3. IsFiniteSet(Units(g)) /\ Cardinality(Units(g)) <= Cardinality(Units(f) \cup {x})
  BY <1>1, <1>2, FS_Subset
<1>4. Cardinality(Units(g)) \in Nat /\ Cardinality(Units(f) \cup {x}) \in Nat
  BY <1>2, <1>3, FS_CardinalityType
<1>. QED BY <1>2, <1>3, <1>4

\* If one has one more and another one less, no more is pending.
LEMMA UnitMoved ==
  ASSUME NEW f \in Amounts, NEW g \in Amounts, IsFiniteSet(Units(f)),
         NEW p \in Procs, NEW r \in Procs, p # r,
         g[p] <= f[p] + 1, g[r] < f[r], \A q \in Procs \ {p} : g[q] <= f[q]
  PROVE  IsFiniteSet(Units(g)) /\ Cardinality(Units(g)) <= Cardinality(Units(f))
<1>. DEFINE h == [f EXCEPT ![r] = g[r]]
<1>1. h \in Amounts /\ h[r] < f[r] /\ \A q \in Procs : h[q] <= f[q]
  BY DEF Amounts
<1>2. IsFiniteSet(Units(h)) /\ Cardinality(Units(h)) + 1 <= Cardinality(Units(f))
  BY <1>1, OneUnitLess
<1>3. g[p] <= h[p] + 1 /\ \A q \in Procs \ {p} : g[q] <= h[q]
  BY DEF Amounts
<1>. HIDE DEF h
<1>4. IsFiniteSet(Units(g)) /\ Cardinality(Units(g)) <= Cardinality(Units(h)) + 1
  BY <1>1, <1>2, <1>3, OneUnitMore
<1>5. /\ Cardinality(Units(g)) \in Nat /\ Cardinality(Units(f)) \in Nat
      /\ Cardinality(Units(h)) \in Nat
  BY <1>2, <1>4, FS_CardinalityType
<1>. QED BY <1>2, <1>4, <1>5

\* If every process has up to one more, up to one unit per process is added.
LEMMA UnitPerProcess ==
  ASSUME NEW f \in Amounts, NEW g \in Amounts, IsFiniteSet(Units(f)),
         \A q \in Procs : g[q] <= f[q] + 1
  PROVE  /\ IsFiniteSet(Units(g))
         /\ Cardinality(Units(g)) <= Cardinality(Units(f)) + Cardinality(Procs)
<1>. DEFINE top == [q \in Procs |-> <<q, f[q]>>]
            Tops == {<<q, f[q]>> : q \in Procs}
<1>1. top \in Surjection(Procs, Tops)
  BY DEF Surjection
<1>2. /\ IsFiniteSet(Tops) /\ Cardinality(Tops) <= Cardinality(Procs)
  BY <1>1, AlertsAssumption, FS_Surjection
<1>3. Units(g) \subseteq Units(f) \cup Tops
  <2>. SUFFICES ASSUME NEW x \in Units(g), x \notin Units(f)
                PROVE  x \in Tops
    OBVIOUS
  <2>1. PICK q \in Procs, i \in Nat : x = <<q, i>>
    BY DEF Units
  <2>2. i < g[q] /\ ~ (i < f[q])
    BY <2>1 DEF Units
  <2>3. i = f[q]
    BY <2>2 DEF Amounts
  <2>. QED BY <2>1, <2>3
<1>. HIDE DEF Tops
<1>4. /\ IsFiniteSet(Units(f) \cup Tops)
      /\ Cardinality(Units(f) \cup Tops) =
           Cardinality(Units(f)) + Cardinality(Tops) - Cardinality(Units(f) \cap Tops)
      /\ IsFiniteSet(Units(f) \cap Tops)
  BY <1>2, FS_Union, FS_Intersection
<1>5. IsFiniteSet(Units(g)) /\ Cardinality(Units(g)) <= Cardinality(Units(f) \cup Tops)
  BY <1>3, <1>4, FS_Subset
<1>6. /\ Cardinality(Units(f)) \in Nat /\ Cardinality(Tops) \in Nat
      /\ Cardinality(Units(f) \cap Tops) \in Nat /\ Cardinality(Procs) \in Nat
      /\ Cardinality(Units(g)) \in Nat
  BY <1>2, <1>4, <1>5, AlertsAssumption, FS_CardinalityType
<1>. QED BY <1>2, <1>4, <1>5, <1>6

\* What is counted are numbers.
LEMMA PendingType ==
  ASSUME TypeOK, NEW u \in Triggers
  PROVE  /\ \A p \in Procs : Pending(p, u) \in Amounts
         /\ Limit(u) \in Nat
         /\ \A q \in Procs : inbox[q][u] \in Nat /\ outbox[q][u] \in Nat /\ packets[q][u] \in Nat
         /\ \A s \in Sockets : /\ copies[s][u] \in Nat
                               /\ socket[s].proc \in Procs \cup {None}
<1>1. \A q \in Procs : inbox[q][u] \in Nat /\ outbox[q][u] \in Nat /\ packets[q][u] \in Nat
  BY DEF TypeOK, Counters
<1>2. \A p \in Procs : Pending(p, u) \in Amounts
  BY <1>1 DEF Pending, Amounts
<1>3. published[u] \in Nat /\ Cardinality(Procs) \in Nat
  BY Constants, AlertsAssumption, FS_CardinalityType DEF TypeOK
<1>4. Limit(u) \in Nat
  <2>1. resent[u] \in Nat
    BY DEF TypeOK
  <2>. QED BY <1>3, <2>1 DEF Limit
<1>5. \A s \in Sockets : copies[s][u] \in Nat /\ socket[s].proc \in Procs \cup {None}
  BY DEF TypeOK, SocketState
<1>. QED BY <1>1, <1>2, <1>4, <1>5

\* A step keeps the bound if nothing more is pending and who is sent a copy has one fewer
\* pending.
LEMMA BoundKept ==
  ASSUME TypeOK, TypeOK', NEW u \in Triggers, Bounded(u),
         published' = published, resent' = resent,
         \A p \in Procs : IsFiniteSet(Units(Pending(p, u)))' /\ Load(u)'[p] <= Load(u)[p],
         \A s \in Sockets :
           \/ /\ copies'[s][u] = copies[s][u]
              /\ socket'[s].proc \in {socket[s].proc, None}
              /\ socket'[s].adapter = socket[s].adapter
           \/ /\ socket'[s] = socket[s] /\ socket[s].proc # None
              /\ copies'[s][u] = copies[s][u] + 1
              /\ Load(u)'[socket[s].proc] + 1 <= Load(u)[socket[s].proc]
  PROVE  Bounded(u)'
<1>1. /\ Limit(u)' = Limit(u) /\ Limit(u) \in Nat
      /\ \A s \in Sockets : copies[s][u] \in Nat /\ socket[s].proc \in Procs \cup {None}
  BY PendingType DEF Limit
<1>2. \A s \in Sockets : copies'[s][u] \in Nat /\ socket'[s].proc \in Procs \cup {None}
  BY DEF TypeOK, SocketState
<1>3. \A p \in Procs : Load(u)[p] \in Nat
  BY FS_CardinalityType DEF Bounded, Load
<1>4. \A p \in Procs : Load(u)'[p] \in Nat
  BY FS_CardinalityType DEF Load
<1>5. \A p \in Procs : Load(u)'[p] <= Limit(u)
  BY <1>1, <1>3, <1>4 DEF Bounded
<1>6. ASSUME NEW s \in Sockets
      PROVE  /\ copies'[s][u] <= Limit(u)
             /\ socket'[s].proc # None => copies'[s][u] + Load(u)'[socket'[s].proc] <= Limit(u)
             /\ socket'[s].adapter = "none" => socket'[s].proc = None /\ copies'[s][u] = 0
  <2>1. /\ copies[s][u] <= Limit(u)
        /\ socket[s].proc # None => copies[s][u] + Load(u)[socket[s].proc] <= Limit(u)
        /\ socket[s].adapter = "none" => socket[s].proc = None /\ copies[s][u] = 0
    BY DEF Bounded
  <2>2. CASE /\ copies'[s][u] = copies[s][u]
             /\ socket'[s].proc \in {socket[s].proc, None}
             /\ socket'[s].adapter = socket[s].adapter
    BY <1>1, <1>3, <1>4, <2>1, <2>2
  <2>3. CASE /\ socket'[s] = socket[s] /\ socket[s].proc # None
             /\ copies'[s][u] = copies[s][u] + 1
             /\ Load(u)'[socket[s].proc] + 1 <= Load(u)[socket[s].proc]
    BY <1>1, <1>3, <1>4, <2>1, <2>3
  <2>. QED BY <2>2, <2>3
<1>. QED BY <1>1, <1>5, <1>6 DEF Bounded

\* PendingType in the next state.
LEMMA PendingTypeNext ==
  ASSUME TypeOK', NEW u \in Triggers
  PROVE  /\ \A p \in Procs : Pending(p, u)' \in Amounts
         /\ \A q \in Procs : inbox'[q][u] \in Nat /\ outbox'[q][u] \in Nat /\ packets'[q][u] \in Nat
<1>1. \A q \in Procs : inbox'[q][u] \in Nat /\ outbox'[q][u] \in Nat /\ packets'[q][u] \in Nat
  BY DEF TypeOK, Counters
<1>. QED BY <1>1 DEF Pending, Amounts

\* Less may come to p if no process has more to make of it.
LEMMA LoadFewer ==
  ASSUME TypeOK, TypeOK', NEW u \in Triggers, Bounded(u), NEW p \in Procs,
         \A q \in Procs : Pending(p, u)'[q] <= Pending(p, u)[q]
  PROVE  IsFiniteSet(Units(Pending(p, u)))' /\ Load(u)'[p] <= Load(u)[p]
<1>1. Pending(p, u) \in Amounts /\ Pending(p, u)' \in Amounts /\ IsFiniteSet(Units(Pending(p, u)))
  BY PendingType, PendingTypeNext DEF Bounded
<1>2. /\ IsFiniteSet(Units(Pending(p, u)'))
      /\ Cardinality(Units(Pending(p, u)')) <= Cardinality(Units(Pending(p, u)))
  BY <1>1, FewerUnits
<1>. QED BY <1>2 DEF Load

\* A step that sends no copy keeps the bound if everything on its way stays or is lost.
LEMMA BoundQuiet ==
  ASSUME TypeOK, TypeOK', NEW u \in Triggers, Bounded(u),
         published' = published, resent' = resent,
         \A q \in Procs : /\ inbox'[q][u] <= inbox[q][u]
                          /\ outbox'[q][u] <= outbox[q][u]
                          /\ packets'[q][u] <= packets[q][u],
         \A s \in Sockets : /\ copies'[s][u] = copies[s][u]
                            /\ socket'[s].proc \in {socket[s].proc, None}
                            /\ socket'[s].adapter = socket[s].adapter
  PROVE  Bounded(u)'
<1>1. ASSUME NEW p \in Procs, NEW q \in Procs
      PROVE  Pending(p, u)'[q] <= Pending(p, u)[q]
  <2>1. /\ inbox[q][u] \in Nat /\ outbox[q][u] \in Nat /\ packets[q][u] \in Nat
        /\ inbox'[q][u] \in Nat /\ outbox'[q][u] \in Nat /\ packets'[q][u] \in Nat
    BY PendingType, PendingTypeNext
  <2>. QED BY <2>1 DEF Pending
<1>2. \A p \in Procs : IsFiniteSet(Units(Pending(p, u)))' /\ Load(u)'[p] <= Load(u)[p]
  BY <1>1, LoadFewer
<1>. QED BY <1>2, BoundKept

\* A step that sends no copy keeps the bound if what it adds to the load it adds to the limit.
LEMMA BoundRaised ==
  ASSUME TypeOK, NEW u \in Triggers, Bounded(u), NEW n \in Nat, Limit(u)' = Limit(u) + n,
         socket' = socket, \A s \in Sockets : copies'[s][u] = copies[s][u],
         \A p \in Procs : IsFiniteSet(Units(Pending(p, u)))' /\ Load(u)'[p] <= Load(u)[p] + n
  PROVE  Bounded(u)'
<1>1. /\ Limit(u) \in Nat
      /\ \A s \in Sockets : copies[s][u] \in Nat /\ socket[s].proc \in Procs \cup {None}
  BY PendingType
<1>2. \A p \in Procs : Load(u)[p] \in Nat /\ Load(u)'[p] \in Nat
  BY FS_CardinalityType DEF Bounded, Load
<1>3. \A p \in Procs : Load(u)'[p] <= Limit(u)'
  BY <1>1, <1>2 DEF Bounded
<1>4. ASSUME NEW s \in Sockets
      PROVE  /\ copies'[s][u] <= Limit(u)'
             /\ socket'[s].proc # None => copies'[s][u] + Load(u)'[socket'[s].proc] <= Limit(u)'
             /\ socket'[s].adapter = "none" => socket'[s].proc = None /\ copies'[s][u] = 0
  <2>1. /\ copies[s][u] <= Limit(u)
        /\ socket[s].proc # None => copies[s][u] + Load(u)[socket[s].proc] <= Limit(u)
        /\ socket[s].adapter = "none" => socket[s].proc = None /\ copies[s][u] = 0
    BY DEF Bounded
  <2>. QED BY <1>1, <1>2, <2>1
<1>. QED BY <1>3, <1>4 DEF Bounded

\* A PUBLISH adds to what may come one unit per process, and as much to the limit.
LEMMA PublishBound ==
  ASSUME TypeOK, TypeOK', NEW u \in Triggers, Bounded(u), NEW t \in Triggers, NEW end,
         Publish(t, end)
  PROVE  Bounded(u)'
<1>1. /\ UNCHANGED <<outbox, packets, resent, socket, copies>>
      /\ published' = [published EXCEPT ![t] = @ + 1]
      /\ \A p \in Procs : inbox'[p] = [inbox[p] EXCEPT ![t] = @ + 1] \/ inbox'[p] = inbox[p]
  BY DEF Publish
<1>2. \A p \in Procs : inbox[p] \in [Triggers -> Nat]
  BY DEF TypeOK, Counters
<1>3. /\ \A p \in Procs : Pending(p, u) \in Amounts /\ Pending(p, u)' \in Amounts
      /\ \A q \in Procs : inbox[q][u] \in Nat /\ outbox[q][u] \in Nat /\ packets[q][u] \in Nat
      /\ Limit(u) \in Nat
      /\ \A s \in Sockets : copies[s][u] \in Nat /\ socket[s].proc \in Procs \cup {None}
  BY PendingType, PendingTypeNext
<1>4. CASE t = u
  <2>1. ASSUME NEW p \in Procs, NEW q \in Procs
        PROVE  Pending(p, u)'[q] <= Pending(p, u)[q] + 1
    <3>1. inbox'[q][u] \in {inbox[q][u], inbox[q][u] + 1}
      BY <1>1, <1>2, <1>4
    <3>. QED BY <1>1, <1>3, <3>1 DEF Pending
  <2>2. ASSUME NEW p \in Procs
        PROVE  IsFiniteSet(Units(Pending(p, u)))'
                 /\ Load(u)'[p] <= Load(u)[p] + Cardinality(Procs)
    <3>1. /\ IsFiniteSet(Units(Pending(p, u)'))
          /\ Cardinality(Units(Pending(p, u)')) <=
               Cardinality(Units(Pending(p, u))) + Cardinality(Procs)
      BY <1>3, <2>1, UnitPerProcess DEF Bounded
    <3>. QED BY <3>1 DEF Load
  <2>3. Cardinality(Procs) \in Nat
    BY AlertsAssumption, FS_CardinalityType
  <2>4. Limit(u)' = Limit(u) + Cardinality(Procs)
    <3>1. published[u] \in Nat /\ published'[u] = published[u] + 1 /\ resent[u] \in Nat
      BY <1>1, <1>4 DEF TypeOK
    <3>. QED BY <1>1, <2>3, <3>1 DEF Limit
  <2>. QED BY <1>1, <2>2, <2>3, <2>4, BoundRaised
<1>5. CASE t # u
  <2>1. published'[u] = published[u] /\ Limit(u)' = Limit(u)
    BY <1>1, <1>5 DEF TypeOK, Limit
  <2>2. \A p, q \in Procs : Pending(p, u)'[q] = Pending(p, u)[q]
    BY <1>1, <1>2, <1>5 DEF Pending
  <2>3. \A p \in Procs : Pending(p, u)' = Pending(p, u)
    BY <1>3, <2>2 DEF Amounts
  <2>4. Load(u)' = Load(u)
    BY <2>3 DEF Load
  <2>. QED BY <1>1, <2>1, <2>3, <2>4 DEF Bounded
<1>. QED BY <1>4, <1>5

\* A copy for each socket in the room, and for nobody else.
LEMMA EmitCounts ==
  ASSUME TypeOK, NEW p \in Procs, NEW t \in Triggers, Emit(p, t), NEW u \in Triggers,
         NEW s \in Sockets
  PROVE  copies'[s][u] = IF t = u /\ socket[s].proc = p /\ socket[s].adapter = "current"
                         THEN copies[s][u] + 1 ELSE copies[s][u]
<1>1. copies[s] \in [Triggers -> Nat]
  BY DEF TypeOK
<1>2. CASE socket[s].proc = p /\ socket[s].adapter = "current"
  <2>1. copies'[s] = [copies[s] EXCEPT ![t] = @ + 1]
    BY <1>2 DEF Emit, At
  <2>. QED BY <1>1, <1>2, <2>1
<1>3. CASE ~ (socket[s].proc = p /\ socket[s].adapter = "current")
  <2>1. copies'[s] = copies[s]
    BY <1>3 DEF Emit, At
  <2>. QED BY <1>3, <2>1
<1>. QED BY <1>2, <1>3

\* An emission of u at p keeps the bound if p has one fewer pending.
LEMMA EmitBound ==
  ASSUME TypeOK, TypeOK', NEW u \in Triggers, Bounded(u), NEW p \in Procs, Emit(p, u),
         published' = published, resent' = resent, socket' = socket,
         Pending(p, u)'[p] < Pending(p, u)[p],
         \A q, r \in Procs : Pending(q, u)'[r] <= Pending(q, u)[r]
  PROVE  Bounded(u)'
<1>1. \A q \in Procs : IsFiniteSet(Units(Pending(q, u)))' /\ Load(u)'[q] <= Load(u)[q]
  BY LoadFewer
<1>2. Load(u)'[p] + 1 <= Load(u)[p]
  <2>1. Pending(p, u) \in Amounts /\ Pending(p, u)' \in Amounts /\ IsFiniteSet(Units(Pending(p, u)))
    BY PendingType, PendingTypeNext DEF Bounded
  <2>2. Cardinality(Units(Pending(p, u)')) + 1 <= Cardinality(Units(Pending(p, u)))
    BY <2>1, OneUnitLess
  <2>. QED BY <2>2 DEF Load
<1>3. p # None
  BY Constants
<1>4. ASSUME NEW s \in Sockets
      PROVE  \/ /\ copies'[s][u] = copies[s][u]
                /\ socket'[s].proc \in {socket[s].proc, None}
                /\ socket'[s].adapter = socket[s].adapter
             \/ /\ socket'[s] = socket[s] /\ socket[s].proc # None
                /\ copies'[s][u] = copies[s][u] + 1
                /\ Load(u)'[socket[s].proc] + 1 <= Load(u)[socket[s].proc]
  BY <1>2, <1>3, EmitCounts
<1>. QED BY <1>1, <1>4, BoundKept

\* A relay turns what is received into a copy here and a packet for elsewhere.
LEMMA RelayBound ==
  ASSUME TypeOK, TypeOK', NEW u \in Triggers, Bounded(u), NEW p \in Procs, NEW t \in Triggers,
         Relay(p, t)
  PROVE  Bounded(u)'
<1>0. \A q \in Procs : inbox[q] \in [Triggers -> Nat] /\ outbox[q] \in [Triggers -> Nat]
                         /\ packets[q][u] \in Nat
  BY DEF TypeOK, Counters
<1>1. /\ inbox[p][t] > 0 /\ Emit(p, t) /\ UNCHANGED <<packets, resent, socket, published>>
      /\ inbox' = [inbox EXCEPT ![p][t] = @ - 1] /\ outbox' = [outbox EXCEPT ![p][t] = @ + 1]
  BY DEF Relay, triggerVars
<1>2. /\ \A q \in Procs \ {p} : inbox'[q] = inbox[q] /\ outbox'[q] = outbox[q]
      /\ inbox'[p] = [inbox[p] EXCEPT ![t] = @ - 1]
      /\ outbox'[p] = [outbox[p] EXCEPT ![t] = @ + 1]
  BY <1>1 DEF TypeOK, Counters
<1>3. CASE t = u
  <2>1. inbox'[p][u] = inbox[p][u] - 1 /\ outbox'[p][u] = outbox[p][u] + 1
    BY <1>0, <1>2, <1>3
  <2>2. Pending(p, u)'[p] < Pending(p, u)[p]
    BY <1>0, <1>1, <2>1 DEF Pending
  <2>3. ASSUME NEW q \in Procs, NEW r \in Procs
        PROVE  Pending(q, u)'[r] <= Pending(q, u)[r]
    <3>1. inbox[r][u] \in Nat /\ outbox[r][u] \in Nat /\ packets[r][u] \in Nat
      BY <1>0
    <3>2. CASE r = p
      BY <1>1, <2>1, <3>1, <3>2 DEF Pending
    <3>3. CASE r # p
      BY <1>1, <1>2, <3>1, <3>3 DEF Pending
    <3>. QED BY <3>2, <3>3
  <2>. QED BY <1>1, <1>3, <2>2, <2>3, EmitBound
<1>4. CASE t # u
  <2>1. \A q \in Procs : inbox'[q][u] = inbox[q][u] /\ outbox'[q][u] = outbox[q][u]
    BY <1>0, <1>2, <1>4
  <2>2. \A s \in Sockets : copies'[s][u] = copies[s][u]
    BY <1>1, <1>4, EmitCounts
  <2>. QED BY <1>0, <1>1, <2>1, <2>2, BoundQuiet
<1>. QED BY <1>3, <1>4

\* A packet goes from the sender's pending to that of the receivers, which counted it as
\* the sender's before.
LEMMA ForwardBound ==
  ASSUME TypeOK, TypeOK', NEW u \in Triggers, Bounded(u), NEW p \in Procs, NEW t \in Triggers,
         Forward(p, t)
  PROVE  Bounded(u)'
<1>0. \A q \in Procs : /\ outbox[q] \in [Triggers -> Nat] /\ packets[q] \in [Triggers -> Nat]
                       /\ inbox[q][u] \in Nat
  BY DEF TypeOK, Counters
<1>1. /\ outbox[p][t] > 0 /\ UNCHANGED <<inbox, resent, socket, copies, published>>
      /\ outbox' = [outbox EXCEPT ![p][t] = @ - 1]
      /\ \A q \in Procs : \/ packets'[q] = packets[q]
                          \/ q # p /\ packets'[q] = [packets[q] EXCEPT ![t] = @ + 1]
  BY DEF Forward, SendPacket, triggerVars, socketVars
<1>2. /\ \A q \in Procs \ {p} : outbox'[q] = outbox[q]
      /\ outbox'[p] = [outbox[p] EXCEPT ![t] = @ - 1]
  BY <1>1 DEF TypeOK, Counters
<1>3. CASE t = u
  <2>1. /\ outbox'[p][u] = outbox[p][u] - 1 /\ outbox[p][u] > 0
        /\ packets'[p][u] = packets[p][u]
        /\ \A q \in Procs \ {p} : packets'[q][u] \in {packets[q][u], packets[q][u] + 1}
    <3>1. outbox'[p][u] = outbox[p][u] - 1 /\ outbox[p][u] > 0
      BY <1>0, <1>1, <1>2, <1>3
    <3>2. packets'[p][u] = packets[p][u]
      BY <1>1
    <3>3. ASSUME NEW q \in Procs PROVE packets'[q][u] \in {packets[q][u], packets[q][u] + 1}
      <4>1. packets'[q] = packets[q] \/ packets'[q] = [packets[q] EXCEPT ![u] = @ + 1]
        BY <1>1, <1>3
      <4>2. packets[q] \in [Triggers -> Nat]
        BY <1>0
      <4>. QED BY <4>1, <4>2
    <3>. QED BY <3>1, <3>2, <3>3
  <2>2. ASSUME NEW q \in Procs
        PROVE  IsFiniteSet(Units(Pending(q, u)))' /\ Load(u)'[q] <= Load(u)[q]
    <3>1. Pending(q, u) \in Amounts /\ Pending(q, u)' \in Amounts /\ IsFiniteSet(Units(Pending(q, u)))
      BY PendingType, PendingTypeNext DEF Bounded
    <3>2. CASE q = p
      <4>1. \A r \in Procs : Pending(q, u)'[r] <= Pending(q, u)[r]
        BY <1>0, <1>1, <1>2, <2>1, <3>2 DEF Pending
      <4>. QED BY <4>1, LoadFewer
    <3>3. CASE q # p
      <4>1. Pending(q, u)'[q] <= Pending(q, u)[q] + 1
        BY <1>0, <1>1, <2>1, <3>3 DEF Pending
      <4>2. Pending(q, u)'[p] < Pending(q, u)[p]
        BY <1>0, <1>1, <2>1, <3>3 DEF Pending
      <4>3. \A r \in Procs \ {q} : Pending(q, u)'[r] <= Pending(q, u)[r]
        BY <1>0, <1>1, <1>2, <2>1 DEF Pending
      <4>4. /\ IsFiniteSet(Units(Pending(q, u)'))
            /\ Cardinality(Units(Pending(q, u)')) <= Cardinality(Units(Pending(q, u)))
        BY <3>1, <3>3, <4>1, <4>2, <4>3, UnitMoved
      <4>. QED BY <4>4 DEF Load
    <3>. QED BY <3>2, <3>3
  <2>. QED BY <1>1, <2>2, BoundKept
<1>4. CASE t # u
  <2>1. \A q \in Procs : outbox'[q][u] = outbox[q][u] /\ packets'[q][u] = packets[q][u]
    BY <1>0, <1>1, <1>2, <1>4
  <2>. QED BY <1>0, <1>1, <2>1, BoundQuiet
<1>. QED BY <1>3, <1>4

\* A packet that will be sent again is one unit more to the receivers, and raises the limit
\* by one.
LEMMA ForwardAgainBound ==
  ASSUME TypeOK, TypeOK', NEW u \in Triggers, Bounded(u), NEW p \in Procs, NEW t \in Triggers,
         ForwardUnanswered(p, t)
  PROVE  Bounded(u)'
<1>0. \A q \in Procs : /\ packets[q] \in [Triggers -> Nat]
                       /\ inbox[q][u] \in Nat /\ outbox[q][u] \in Nat
  BY DEF TypeOK, Counters
<1>1. /\ UNCHANGED <<inbox, outbox, socket, copies, published>>
      /\ resent' = [resent EXCEPT ![t] = @ + 1]
      /\ \A q \in Procs : \/ packets'[q] = packets[q]
                          \/ packets'[q] = [packets[q] EXCEPT ![t] = @ + 1]
  BY DEF ForwardUnanswered, SendPacket, triggerVars, socketVars
<1>2. published[u] \in Nat /\ resent[u] \in Nat /\ Cardinality(Procs) \in Nat
  BY AlertsAssumption, Constants, FS_CardinalityType DEF TypeOK
<1>3. CASE t = u
  <2>1. Limit(u)' = Limit(u) + 1
    <3>1. resent'[u] = resent[u] + 1
      BY <1>1, <1>3 DEF TypeOK
    <3>. QED BY <1>1, <1>2, <3>1 DEF Limit
  <2>2. ASSUME NEW q \in Procs
        PROVE  IsFiniteSet(Units(Pending(q, u)))' /\ Load(u)'[q] <= Load(u)[q] + 1
    <3>1. Pending(q, u) \in Amounts /\ Pending(q, u)' \in Amounts /\ IsFiniteSet(Units(Pending(q, u)))
      BY PendingType, PendingTypeNext DEF Bounded
    <3>2. Pending(q, u)'[q] <= Pending(q, u)[q] + 1
      <4>1. packets'[q][u] \in {packets[q][u], packets[q][u] + 1}
        BY <1>0, <1>1, <1>3
      <4>. QED BY <1>0, <1>1, <4>1 DEF Pending
    <3>3. \A r \in Procs \ {q} : Pending(q, u)'[r] <= Pending(q, u)[r]
      BY <1>0, <1>1 DEF Pending
    <3>4. /\ IsFiniteSet(Units(Pending(q, u)'))
          /\ Cardinality(Units(Pending(q, u)')) <= Cardinality(Units(Pending(q, u))) + 1
      BY <3>1, <3>2, <3>3, OneUnitMore
    <3>. QED BY <3>4 DEF Load
  <2>. QED BY <1>1, <2>1, <2>2, BoundRaised
<1>4. CASE t # u
  <2>1. Limit(u)' = Limit(u) + 0
    <3>1. resent'[u] = resent[u]
      BY <1>1, <1>4 DEF TypeOK
    <3>. QED BY <1>1, <1>2, <3>1 DEF Limit
  <2>2. \A q \in Procs : packets'[q][u] = packets[q][u]
    BY <1>0, <1>1, <1>4
  <2>3. ASSUME NEW q \in Procs
        PROVE  IsFiniteSet(Units(Pending(q, u)))' /\ Load(u)'[q] <= Load(u)[q] + 0
    <3>1. \A r \in Procs : Pending(q, u)'[r] <= Pending(q, u)[r]
      BY <1>0, <1>1, <2>2 DEF Pending
    <3>2. IsFiniteSet(Units(Pending(q, u)))' /\ Load(u)'[q] <= Load(u)[q]
      BY <3>1, LoadFewer
    <3>3. Load(u)[q] \in Nat /\ Load(u)'[q] \in Nat
      BY <3>2, FS_CardinalityType DEF Bounded, Load
    <3>. QED BY <3>2, <3>3
  <2>. QED BY <1>1, <2>1, <2>3, BoundRaised
<1>. QED BY <1>3, <1>4

\* A packet that arrives becomes a copy.
LEMMA PacketBound ==
  ASSUME TypeOK, TypeOK', NEW u \in Triggers, Bounded(u), NEW p \in Procs, NEW t \in Triggers,
         EmitPacket(p, t)
  PROVE  Bounded(u)'
<1>0. \A q \in Procs : /\ packets[q] \in [Triggers -> Nat]
                       /\ inbox[q][u] \in Nat /\ outbox[q][u] \in Nat
  BY DEF TypeOK, Counters
<1>1. /\ packets[p][t] > 0 /\ Emit(p, t) /\ UNCHANGED <<inbox, outbox, resent, socket, published>>
      /\ packets' = [packets EXCEPT ![p][t] = @ - 1]
  BY DEF EmitPacket, triggerVars
<1>2. /\ \A q \in Procs \ {p} : packets'[q] = packets[q]
      /\ packets'[p] = [packets[p] EXCEPT ![t] = @ - 1]
  BY <1>1 DEF TypeOK, Counters
<1>3. CASE t = u
  <2>1. packets'[p][u] = packets[p][u] - 1
    BY <1>0, <1>2, <1>3
  <2>2. Pending(p, u)'[p] < Pending(p, u)[p]
    BY <1>0, <1>1, <2>1 DEF Pending
  <2>3. \A q, r \in Procs : Pending(q, u)'[r] <= Pending(q, u)[r]
    BY <1>0, <1>1, <1>2, <2>1 DEF Pending
  <2>. QED BY <1>1, <1>3, <2>2, <2>3, EmitBound
<1>4. CASE t # u
  <2>1. \A q \in Procs : packets'[q][u] = packets[q][u]
    BY <1>0, <1>2, <1>4
  <2>2. \A s \in Sockets : copies'[s][u] = copies[s][u]
    BY <1>1, <1>4, EmitCounts
  <2>. QED BY <1>0, <1>1, <2>1, <2>2, BoundQuiet
<1>. QED BY <1>3, <1>4

\* Every step keeps the bound on the copies.
LEMMA BoundStep ==
  ASSUME TypeOK, NEW u \in Triggers, Bounded(u), Next
  PROVE  Bounded(u)'
<1>. USE DEF triggerVars, relayVars, socketVars
<1>0. TypeOK'
  BY TypeStep
<1>1. /\ \A q \in Procs : inbox[q][u] \in Nat /\ outbox[q][u] \in Nat /\ packets[q][u] \in Nat
      /\ \A s \in Sockets : copies[s][u] \in Nat
  BY PendingType
<1>2. ASSUME UNCHANGED <<published, relayVars, socket, copies>> PROVE Bounded(u)'
  BY <1>0, <1>1, <1>2, BoundQuiet
<1>3. ASSUME NEW t \in Triggers, Trigger(t) \/ Handle(t) \/ Resend(t) \/ CallFails(t)
      PROVE  Bounded(u)'
  <2>1. CASE \E end \in Steps : Publish(t, end)
    BY <1>0, <2>1, PublishBound
  <2>2. CASE ~ \E end \in Steps : Publish(t, end)
    <3>1. UNCHANGED <<published, relayVars, socket, copies>>
      BY <1>3, <2>2 DEF Trigger, Handle, Resend, CallFails, Insert, Push, Update, Steps
    <3>. QED BY <1>2, <3>1
  <2>. QED BY <2>1, <2>2
<1>4. CASE QueueLost
  BY <1>2, <1>4 DEF QueueLost
<1>5. ASSUME NEW p \in Procs, GoesOn(p) \/ Link(p) PROVE Bounded(u)'
  BY <1>2, <1>5 DEF GoesOn, Start, WaitEnds, SetAdapter, Subscribe, Link
<1>6. ASSUME NEW p \in Procs, Unlink(p) PROVE Bounded(u)'
  <2>1. \A q \in Procs : inbox'[q][u] \in {inbox[q][u], 0} /\ packets'[q][u] \in {packets[q][u], 0}
    BY <1>6 DEF Unlink, Zero, TypeOK, Counters
  <2>2. UNCHANGED <<published, outbox, resent, socket, copies>>
    BY <1>6 DEF Unlink
  <2>. QED BY <1>0, <1>1, <2>1, <2>2, BoundQuiet
<1>7. ASSUME NEW s \in Sockets, NEW p \in Procs, HandleConnection(s, p) PROVE Bounded(u)'
  <2>1. /\ UNCHANGED <<published, relayVars, copies>> /\ socket[s].adapter = "none"
        /\ \E a \in {"old", "current"} : socket' = [socket EXCEPT ![s] = [proc |-> p, adapter |-> a]]
    BY <1>7 DEF HandleConnection
  <2>2. /\ Limit(u)' = Limit(u) /\ Load(u)' = Load(u) /\ Limit(u) \in Nat
        /\ \A q \in Procs : Pending(q, u)' = Pending(q, u)
    BY <2>1, PendingType DEF Limit, Load, Pending
  <2>3. /\ copies[s][u] = 0 /\ Load(u)[p] <= Limit(u) /\ Load(u)[p] \in Nat
    BY <2>1, FS_CardinalityType DEF Bounded, Load
  <2>4. /\ socket'[s].proc = p /\ socket'[s].adapter # "none"
        /\ \A r \in Sockets \ {s} : socket'[r] = socket[r]
    BY <2>1 DEF TypeOK
  <2>5. ASSUME NEW r \in Sockets
        PROVE  /\ copies'[r][u] <= Limit(u)
               /\ socket'[r].proc # None => copies'[r][u] + Load(u)[socket'[r].proc] <= Limit(u)
               /\ socket'[r].adapter = "none" => socket'[r].proc = None /\ copies'[r][u] = 0
    BY <2>1, <2>2, <2>3, <2>4 DEF Bounded
  <2>. QED BY <2>2, <2>5 DEF Bounded
<1>8. ASSUME NEW s \in Sockets, HandleDisconnect(s) PROVE Bounded(u)'
  <2>1. UNCHANGED <<published, relayVars, copies>> /\ socket' = [socket EXCEPT ![s].proc = None]
    BY <1>8 DEF HandleDisconnect
  <2>2. \A r \in Sockets : /\ socket'[r].proc \in {socket[r].proc, None}
                           /\ socket'[r].adapter = socket[r].adapter
    BY <2>1 DEF TypeOK, SocketState
  <2>. QED BY <1>0, <1>1, <2>1, <2>2, BoundQuiet
<1>9. ASSUME NEW p \in Procs, Die(p) PROVE Bounded(u)'
  <2>1. \A q \in Procs : /\ inbox'[q][u] \in {inbox[q][u], 0}
                         /\ outbox'[q][u] \in {outbox[q][u], 0}
                         /\ packets'[q][u] \in {packets[q][u], 0}
    BY <1>9 DEF Die, Zero, TypeOK, Counters
  <2>2. UNCHANGED <<published, resent, copies>>
    BY <1>9 DEF Die
  <2>3. \A r \in Sockets : /\ socket'[r].proc \in {socket[r].proc, None}
                           /\ socket'[r].adapter = socket[r].adapter
    BY <1>9 DEF Die, TypeOK, SocketState
  <2>. QED BY <1>0, <1>1, <2>1, <2>2, <2>3, BoundQuiet
<1>. QED BY <1>0, <1>3, <1>4, <1>5, <1>6, <1>7, <1>8, <1>9, RelayBound, ForwardBound,
         ForwardAgainBound, PacketBound
         DEF Next, Crash, Reject

\* At first nothing is pending.
LEMMA BoundInit == Init => \A u \in Triggers : Bounded(u)
<1>. SUFFICES ASSUME Init, NEW u \in Triggers
              PROVE  Bounded(u)
  OBVIOUS
<1>1. /\ \A q \in Procs : inbox[q][u] = 0 /\ outbox[q][u] = 0 /\ packets[q][u] = 0
      /\ \A s \in Sockets : /\ copies[s][u] = 0 /\ socket[s].proc = None
      /\ published[u] = 0 /\ resent[u] = 0
  BY DEF Init, Zero
<1>2. Limit(u) = 0
  <2>1. Cardinality(Procs) \in Nat
    BY AlertsAssumption, FS_CardinalityType
  <2>. QED BY <1>1, <2>1 DEF Limit
<1>3. ASSUME NEW p \in Procs PROVE Units(Pending(p, u)) = {}
  <2>1. \A q \in Procs : Pending(p, u)[q] = 0
    BY <1>1 DEF Pending
  <2>. QED BY <2>1 DEF Units
<1>4. \A p \in Procs : IsFiniteSet(Units(Pending(p, u))) /\ Load(u)[p] = 0
  BY <1>3, FS_EmptySet DEF Load
<1>. QED BY <1>1, <1>2, <1>4 DEF Bounded

-----------------------------------------------------------------------------
(* The theorems *)

\* Every step keeps the invariant.
LEMMA AlertStep == AlertInv /\ [Next]_vars => AlertInv'
<1>. SUFFICES ASSUME AlertInv, [Next]_vars
              PROVE  AlertInv'
  OBVIOUS
<1>1. TypeOK'
  BY TypeStep DEF AlertInv
<1>2. CASE Next
  <2>1. ASSUME NEW t \in Triggers PROVE (Handled(t) /\ Sent(t) /\ Due(t))'
    BY <1>1, <1>2, HandledStep, SentStep, DueStep DEF AlertInv
  <2>. QED BY <1>1, <2>1 DEF AlertInv
<1>3. CASE UNCHANGED vars
  <2>1. ASSUME NEW t \in Triggers, Handled(t), Sent(t), Due(t) PROVE (Handled(t) /\ Sent(t) /\ Due(t))'
    <3>1. Queued(t) => Queued(t)'
      BY <1>3, Zenon DEF vars, triggerVars, Queued
    <3>2. step' = step /\ incident' = incident /\ published' = published
            /\ UNCHANGED <<inbox, outbox, packets, copies, socket, audience>>
      BY <1>3 DEF vars, triggerVars, relayVars, socketVars
    <3>3. Handled(t)'
      BY <2>1, <3>1, <3>2, HandledQuiet
    <3>4. Sent(t)' /\ Due(t)'
      BY <2>1, <3>2 DEF Sent, Due
    <3>. QED BY <3>3, <3>4
  <2>. QED BY <1>1, <2>1 DEF AlertInv
<1>. QED BY <1>2, <1>3

\* The invariant holds in every state that the processes, the triggers, the
\* sockets and the failures of Alerts lead to.
THEOREM AlertsInvariance == Spec => []AlertInv
  BY AlertInit, AlertStep, PTL DEF Spec

\* The variables of the relays and the triggers keep their types.
THEOREM TypeCorrect == Spec => []TypeOK
<1>1. AlertInv => TypeOK
  BY DEF AlertInv
<1>. QED BY <1>1, AlertsInvariance, PTL

\* SosService.trigger: an answered trigger is stored and published; what is
\* published or shown is stored and was queued; for any number of triggers,
\* processes, repetitions and deaths.
THEOREM AlertsBacked == Spec => []AlertsAreBacked
<1>1. AlertInv => AlertsAreBacked
  <2>. SUFFICES ASSUME AlertInv, NEW t \in Triggers
                PROVE  /\ step[t] = "answered" => incident[t] = "timed" /\ published[t] > 0
                       /\ published[t] > 0 => incident[t] # "none" /\ (queue[t] > 0 \/ queueLost)
                       /\ \A s \in Sockets : copies[s][t] > 0 => published[t] > 0
    BY Zenon DEF AlertsAreBacked
  <2>1. Handled(t) /\ Sent(t)
    BY DEF AlertInv
  <2>2. Queued(t) => (queue[t] > 0 \/ queueLost)
    BY Zenon DEF Queued
  <2>3. /\ step[t] = "answered" => incident[t] = "timed" /\ published[t] > 0
        /\ published[t] > 0 => incident[t] # "none" /\ Queued(t)
        /\ \A s \in Sockets : copies[s][t] > 0 => published[t] > 0
    BY <2>1 DEF Handled, Sent
  <2>. QED BY <2>2, <2>3, Zenon
<1>. QED BY <1>1, AlertsInvariance, PTL

\* EventsGateway: a socket gets at most one copy per process of each PUBLISH, and one more for
\* each time that a packet of the adapter is repeated, in a cluster of any size, whatever is
\* delayed, lost or restarted.
THEOREM CopiesStayBounded == Spec => []CopiesBounded
<1>. DEFINE Inv == TypeOK /\ \A t \in Triggers : Bounded(t)
<1>1. Init => Inv
  BY AlertInit, BoundInit DEF AlertInv
<1>2. Inv /\ [Next]_vars => Inv'
  <2>. SUFFICES ASSUME Inv, [Next]_vars
                PROVE  \A t \in Triggers : Bounded(t)'
    BY TypeStep
  <2>1. CASE Next
    BY <2>1, BoundStep
  <2>2. CASE UNCHANGED vars
    <3>1. UNCHANGED <<inbox, outbox, packets, resent, socket, copies, published>>
      BY <2>2 DEF vars, triggerVars, relayVars, socketVars
    <3>2. \A t \in Triggers : /\ Limit(t)' = Limit(t) /\ Load(t)' = Load(t)
                              /\ \A q \in Procs : Pending(q, t)' = Pending(q, t)
      BY <3>1 DEF Limit, Load, Pending
    <3>. QED BY <3>1, <3>2 DEF Bounded
  <2>. QED BY <2>1, <2>2
<1>3. Inv => CopiesBounded
  BY DEF Bounded, Limit, CopiesBounded
<1>. HIDE DEF Inv
<1>. QED BY <1>1, <1>2, <1>3, PTL DEF Spec

\* EventsGateway: who is in the room of a process's present adapter when an alert
\* is published gets it or will, in a cluster of any size.
THEOREM AudienceAlwaysHears == Spec => []AudienceHears
<1>1. AlertInv => AudienceHears
  BY DEF AlertInv, Due, AudienceHears
<1>. QED BY <1>1, AlertsInvariance, PTL
=============================================================================

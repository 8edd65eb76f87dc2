------------------------------- MODULE Alerts -------------------------------
(***************************************************************************)
(* From the SOS button to the dispatchers' screens: SosService.trigger     *)
(* writes an incident, queues it and publishes it; in every API process    *)
(* EventsGateway subscribes to the channel and relays what it receives to  *)
(* the room 'admin:all', through a socket.io adapter that carries it to    *)
(* the rooms of the other processes.  The processes start, die and are     *)
(* forked again meanwhile (cluster.ts, main.ts), and lose their            *)
(* connections to redis-pubsub.                                            *)
(*                                                                         *)
(* A process has one connection to publish on and one to receive on; they  *)
(* are taken to be lost together, except that an answer to a PUBLISH, of   *)
(* an alert or of a packet of the adapter, may be lost alone.  Rows are    *)
(* taken to be durable, as in Auth.  Sockets are those of admins: nothing  *)
(* is sent to the other rooms.                                             *)
(***************************************************************************)
EXTENDS Naturals, FiniteSets

CONSTANTS
  Triggers,     \* POST /sos/trigger: a finite number of them
  Procs,        \* the processes of the cluster
  Sockets,      \* connections of admins, each made once
  Home,         \* the process that serves a trigger
  None,
  MaxSends,     \* bound on how often one command, or the packets of one trigger, are sent
  MaxCrashes    \* bound on the deaths that the alerts do not cause

ASSUME AlertsAssumption ==
  /\ IsFiniteSet(Procs)
  /\ Home \in [Triggers -> Procs]
  /\ None \notin Procs
  /\ MaxSends \in Nat \ {0} /\ MaxCrashes \in Nat

VARIABLES
  step,        \* step[t]: control point of trigger t
  incident,    \* incident[t]: its row in sos_incidents
  queue,       \* queue[t]: how often it is in queue:sos:p0
  queueLost,   \* has redis-queue restarted? (history)
  published,   \* published[t]: how often it has been published (history)
  boot,        \* boot[p]: how far process p has come
  linked,      \* the processes that are connected to redis-pubsub
  inbox,       \* inbox[p][t]: alerts on their way to the subscriber of p
  outbox,      \* outbox[p][t]: relayed by p, and not yet sent by its adapter
  packets,     \* packets[p][t]: on their way to the adapter of p
  resent,      \* resent[t]: how often a packet of t has been repeated (history)
  socket,      \* socket[s]: its process, and the adapter whose room it is in
  copies,      \* copies[s][t]: how often socket s has been sent t
  audience,    \* audience[t]: the sockets that are due to hear of t (history)
  crashes

triggerVars == <<step, incident, queue, queueLost, published>>
relayVars   == <<inbox, outbox, packets, resent>>
socketVars  == <<socket, copies, audience>>
vars == <<triggerVars, boot, linked, relayVars, socketVars, crashes>>

Steps    == {"idle", "insert", "push", "publish", "update", "answered", "error", "dead"}
Serving  == {"insert", "push", "publish", "update"}
Boots    == {"starting", "waitPub", "waitSub", "subscribing", "relaying"}
Waiting  == {"waitPub", "waitSub"}
Counters == [Procs -> [Triggers -> Nat]]
Zero     == [t \in Triggers |-> 0]

\* A socket that has not connected or has gone is at no process.
SocketState == [proc : Procs \cup {None}, adapter : {"none", "old", "current"}]

TypeOK ==
  /\ step \in [Triggers -> Steps]
  /\ incident \in [Triggers -> {"none", "open", "timed"}]
  /\ queue \in [Triggers -> Nat]
  /\ queueLost \in BOOLEAN
  /\ published \in [Triggers -> 0..MaxSends]
  /\ boot \in [Procs -> Boots]
  /\ linked \in SUBSET {p \in Procs : boot[p] # "starting"}
  /\ inbox \in Counters /\ outbox \in Counters /\ packets \in Counters
  /\ resent \in [Triggers -> Nat]
  /\ socket \in [Sockets -> SocketState]
  /\ copies \in [Sockets -> [Triggers -> Nat]]
  /\ audience \in [Triggers -> SUBSET Sockets]
  /\ crashes \in 0..MaxCrashes

Init ==
  /\ step = [t \in Triggers |-> "idle"]
  /\ incident = [t \in Triggers |-> "none"]
  /\ queue = Zero /\ queueLost = FALSE /\ published = Zero
  /\ boot = [p \in Procs |-> "starting"]
  /\ linked = {}
  /\ inbox = [p \in Procs |-> Zero] /\ outbox = [p \in Procs |-> Zero]
  /\ packets = [p \in Procs |-> Zero] /\ resent = Zero
  /\ socket = [s \in Sockets |-> [proc |-> None, adapter |-> "none"]]
  /\ copies = [s \in Sockets |-> Zero]
  /\ audience = [t \in Triggers |-> {}]
  /\ crashes = 0
-----------------------------------------------------------------------------
(* SosService.trigger *)

Step(t, from, to) ==
  /\ step[t] = from
  /\ step' = [step EXCEPT ![t] = to]

\* A process listens as soon as it has started, before its gateway is ready.
Trigger(t) ==
  /\ boot[Home[t]] # "starting"
  /\ Step(t, "idle", "insert")
  /\ UNCHANGED <<incident, queue, queueLost, published, boot, linked, relayVars,
                 socketVars, crashes>>

\* INSERT INTO sos_incidents.
Insert(t, end) ==
  /\ Step(t, "insert", end)
  /\ incident' = [incident EXCEPT ![t] = "open"]
  /\ UNCHANGED <<queue, queueLost, published, boot, linked, relayVars, socketVars, crashes>>

\* Mutant of Push: a failure of the RPUSH is ignored.
PushOrNot(t, end) ==
  /\ Step(t, "push", end)
  /\ queue' \in {queue, [queue EXCEPT ![t] = @ + 1]}
  /\ UNCHANGED <<incident, queueLost, published, boot, linked, relayVars, socketVars, crashes>>

\* RPUSH queue:sos:p0, which ioredis sends again when its answer is lost.
Push(t, end) ==
  /\ Step(t, "push", end)
  /\ queue' = [queue EXCEPT ![t] = @ + 1]
  /\ UNCHANGED <<incident, queueLost, published, boot, linked, relayVars, socketVars, crashes>>

Subscribed == {p \in linked : boot[p] = "relaying"}

\* PUBLISH channel:admin:sos reaches who is subscribed now.
Publish(t, end) ==
  /\ Home[t] \in linked
  /\ published[t] < MaxSends
  /\ Step(t, "publish", end)
  /\ published' = [published EXCEPT ![t] = @ + 1]
  /\ inbox' = [p \in Procs |->
                 IF p \in Subscribed THEN [inbox[p] EXCEPT ![t] = @ + 1] ELSE inbox[p]]
  /\ audience' = [audience EXCEPT ![t] = @ \cup
                    {s \in Sockets : socket[s].proc \in Subscribed
                                       /\ socket[s].adapter = "current"}]
  /\ UNCHANGED <<incident, queue, queueLost, boot, linked, outbox, packets, resent, socket,
                 copies, crashes>>

\* UPDATE sos_incidents SET alert_latency_ms; then the client is answered.
Update(t, end) ==
  /\ Step(t, "update", end)
  /\ incident' = [incident EXCEPT ![t] = "timed"]
  /\ UNCHANGED <<queue, queueLost, published, boot, linked, relayVars, socketVars, crashes>>

\* A command takes effect and its answer is lost: it is sent again.
Resend(t) ==
  \/ queue[t] + 1 < MaxSends /\ Push(t, "push")
  \/ published[t] + 1 < MaxSends /\ Publish(t, "publish")

\* A call rejects, before it has taken effect or after.
CallFails(t) ==
  \/ /\ \E s \in Serving : Step(t, s, "error")
     /\ UNCHANGED <<incident, queue, queueLost, published, boot, linked, relayVars, socketVars,
                    crashes>>
  \/ Insert(t, "error") \/ Push(t, "error") \/ Publish(t, "error") \/ Update(t, "error")

Handle(t) ==
  Insert(t, "push") \/ Push(t, "publish") \/ Publish(t, "update") \/ Update(t, "answered")

\* redis-queue persists nothing.
QueueLost ==
  /\ \E t \in Triggers : queue[t] > 0
  /\ queue' = Zero
  /\ queueLost' = TRUE
  /\ UNCHANGED <<step, incident, published, boot, linked, relayVars, socketVars, crashes>>
-----------------------------------------------------------------------------
(* EventsGateway: starting *)

Boot(p, from, to) ==
  /\ boot[p] = from
  /\ boot' = [boot EXCEPT ![p] = to]

\* bootstrap: afterInit has been called, nobody awaits it, and the process listens.
Start(p) ==
  /\ Boot(p, "starting", "waitPub")
  /\ UNCHANGED <<triggerVars, linked, relayVars, socketVars, crashes>>

\* Mutant of WaitEnds: it waits for the event 'ready' alone, which a connection that
\* is ready has had.
WaitForEvent(p) ==
  /\ p \notin linked
  /\ Boot(p, "waitPub", "waitSub")
  /\ UNCHANGED <<triggerVars, linked, relayVars, socketVars, crashes>>

\* waitReady: the connection is ready, or the ten seconds are over.
WaitEnds(p) ==
  /\ Boot(p, "waitPub", "waitSub")
  /\ UNCHANGED <<triggerVars, linked, relayVars, socketVars, crashes>>

\* The second waitReady; then the adapter is replaced and its subscriptions and
\* that of the alerts are on their way.  Sockets stay in the rooms of the
\* adapter that they found.
SetAdapter(p) ==
  /\ Boot(p, "waitSub", "subscribing")
  /\ UNCHANGED <<triggerVars, linked, relayVars, socketVars, crashes>>

Subscribe(p) ==
  /\ p \in linked
  /\ Boot(p, "subscribing", "relaying")
  /\ UNCHANGED <<triggerVars, linked, relayVars, socketVars, crashes>>

\* Mutant of Link: a connection that a process has not asked for yet.
LinkAtOnce(p) ==
  /\ p \notin linked
  /\ linked' = linked \cup {p}
  /\ UNCHANGED <<triggerVars, boot, relayVars, socketVars, crashes>>

\* ioredis connects, and subscribes again to what was subscribed before.
Link(p) ==
  /\ boot[p] # "starting" /\ p \notin linked
  /\ linked' = linked \cup {p}
  /\ UNCHANGED <<triggerVars, boot, relayVars, socketVars, crashes>>

\* The sockets in S have no claim any more to what they have not heard.
Excused(S) == audience' = [t \in Triggers |-> audience[t] \ S]

At(p) == {s \in Sockets : socket[s].proc = p}

\* What is on its way to p is lost.
Unlink(p) ==
  /\ p \in linked
  /\ linked' = linked \ {p}
  /\ inbox' = [inbox EXCEPT ![p] = Zero]
  /\ packets' = [packets EXCEPT ![p] = Zero]
  /\ Excused(At(p))
  /\ UNCHANGED <<triggerVars, boot, outbox, resent, socket, copies, crashes>>
-----------------------------------------------------------------------------
(* EventsGateway: relaying *)

\* Mutant of Emit: the rooms of the adapter that was there first are used.
EmitToOldRooms(p, t) ==
  copies' = [s \in Sockets |->
               IF s \in At(p) /\ socket[s].adapter = "old"
               THEN [copies[s] EXCEPT ![t] = @ + 1] ELSE copies[s]]

\* Emits t to the room that the current adapter of p keeps.
Emit(p, t) ==
  copies' = [s \in Sockets |->
               IF s \in At(p) /\ socket[s].adapter = "current"
               THEN [copies[s] EXCEPT ![t] = @ + 1] ELSE copies[s]]

\* on('message'): to the room here, and by the adapter to the rooms elsewhere.
Relay(p, t) ==
  /\ inbox[p][t] > 0
  /\ inbox' = [inbox EXCEPT ![p][t] = @ - 1]
  /\ outbox' = [outbox EXCEPT ![p][t] = @ + 1]
  /\ Emit(p, t)
  /\ UNCHANGED <<triggerVars, boot, linked, packets, resent, socket, audience, crashes>>

\* Mutant of SendPacket: the sender's own packet is not filtered out.
SendPacketToAll(p, t) ==
  /\ p \in linked /\ outbox[p][t] > 0
  /\ packets' = [q \in Procs |->
                   IF q \in Subscribed THEN [packets[q] EXCEPT ![t] = @ + 1] ELSE packets[q]]
  /\ UNCHANGED <<triggerVars, boot, linked, inbox, socketVars, crashes>>

\* The adapter publishes a packet, for the others.
SendPacket(p, t) ==
  /\ p \in linked /\ outbox[p][t] > 0
  /\ packets' = [q \in Procs |-> IF q \in Subscribed \ {p}
                                 THEN [packets[q] EXCEPT ![t] = @ + 1] ELSE packets[q]]
  /\ UNCHANGED <<triggerVars, boot, linked, inbox, socketVars, crashes>>

Forward(p, t) ==
  /\ SendPacket(p, t)
  /\ outbox' = [outbox EXCEPT ![p][t] = @ - 1]
  /\ UNCHANGED resent

\* The packet goes out and its answer is lost: ioredis will send it again, on the
\* connection that publishes the alerts too.
ForwardUnanswered(p, t) ==
  /\ resent[t] + 1 < MaxSends
  /\ SendPacket(p, t)
  /\ resent' = [resent EXCEPT ![t] = @ + 1]
  /\ UNCHANGED outbox

EmitPacket(p, t) ==
  /\ packets[p][t] > 0
  /\ packets' = [packets EXCEPT ![p][t] = @ - 1]
  /\ Emit(p, t)
  /\ UNCHANGED <<triggerVars, boot, linked, inbox, outbox, resent, socket, audience,
                 crashes>>

\* handleConnection: the socket joins 'admin:all' in the adapter of this moment.
HandleConnection(s, p) ==
  /\ boot[p] # "starting"
  /\ socket[s].adapter = "none"
  /\ socket' = [socket EXCEPT ![s] =
       [proc |-> p, adapter |-> IF boot[p] \in Waiting THEN "old" ELSE "current"]]
  /\ UNCHANGED <<triggerVars, boot, linked, relayVars, copies, audience, crashes>>

\* handleDisconnect: socket.io has taken the socket from its rooms.
HandleDisconnect(s) ==
  /\ socket[s].proc # None
  /\ socket' = [socket EXCEPT ![s].proc = None]
  /\ Excused({s})
  /\ UNCHANGED <<triggerVars, boot, linked, relayVars, copies, crashes>>
-----------------------------------------------------------------------------
(* Deaths *)

\* Process p dies with what it serves, and cluster.ts forks another.
Die(p) ==
  /\ boot' = [boot EXCEPT ![p] = "starting"]
  /\ linked' = linked \ {p}
  /\ step' = [t \in Triggers |->
                IF Home[t] = p /\ step[t] \in Serving THEN "dead" ELSE step[t]]
  /\ inbox' = [inbox EXCEPT ![p] = Zero]
  /\ outbox' = [outbox EXCEPT ![p] = Zero]
  /\ packets' = [packets EXCEPT ![p] = Zero]
  /\ socket' = [s \in Sockets |->
                  IF s \in At(p) THEN [socket[s] EXCEPT !.proc = None] ELSE socket[s]]
  /\ Excused(At(p))
  /\ UNCHANGED <<incident, queue, queueLost, published, resent, copies>>

\* bootstrap fails, or the process is killed.
Crash(p) ==
  /\ crashes < MaxCrashes
  /\ crashes' = crashes + 1
  /\ Die(p)

\* While it is not connected, ioredis rejects the subscriptions or the packets of
\* the adapter that wait for it.  Nobody handles that rejection: the process ends.
Reject(p) ==
  /\ p \notin linked
  /\ boot[p] = "subscribing" \/ \E t \in Triggers : outbox[p][t] > 0
  /\ Die(p)
  /\ UNCHANGED crashes
-----------------------------------------------------------------------------
GoesOn(p) == Start(p) \/ WaitEnds(p) \/ SetAdapter(p) \/ Subscribe(p)

Next ==
  \/ \E t \in Triggers : Trigger(t) \/ Handle(t) \/ Resend(t) \/ CallFails(t)
  \/ QueueLost
  \/ \E p \in Procs : GoesOn(p) \/ Link(p) \/ Unlink(p) \/ Crash(p) \/ Reject(p)
  \/ \E p \in Procs, t \in Triggers :
       Relay(p, t) \/ Forward(p, t) \/ ForwardUnanswered(p, t) \/ EmitPacket(p, t)
  \/ \E s \in Sockets : HandleDisconnect(s) \/ \E p \in Procs : HandleConnection(s, p)

Spec == Init /\ [][Next]_vars

\* A start goes on: its waits have a timeout.
FairSpec == Spec /\ \A p \in Procs : WF_vars(GoesOn(p))
-----------------------------------------------------------------------------
(* Correctness *)

(***************************************************************************)
(* Who has pressed the button and been answered has been heard: the        *)
(* incident is stored, and has been published at least once; and nothing   *)
(* is ever published, or reaches a screen, that is not stored and has not  *)
(* been queued before, so that a dispatcher can find what he is shown.  A  *)
(* trigger whose RPUSH or PUBLISH fails leaves an incident that nobody is  *)
(* shown: its client gets an error, and never "OPEN".                      *)
(***************************************************************************)
AlertsAreBacked ==
  \A t \in Triggers :
    /\ step[t] = "answered" => incident[t] = "timed" /\ published[t] > 0
    /\ published[t] > 0 => incident[t] # "none" /\ (queue[t] > 0 \/ queueLost)
    /\ \A s \in Sockets : copies[s][t] > 0 => published[t] > 0

(***************************************************************************)
(* Every process relays every alert through the adapter of all: a socket   *)
(* gets up to one copy per process of each PUBLISH of the alert, and up to *)
(* one more each time that ioredis repeats a packet of the adapter, which  *)
(* nobody recognises; but the relays do not relay each other, whatever is  *)
(* repeated, delayed or restarted.                                         *)
(***************************************************************************)
CopiesBounded ==
  \A s \in Sockets, t \in Triggers :
    copies[s][t] <= published[t] * Cardinality(Procs) + resent[t]

(***************************************************************************)
(* An alert is not lost between PUBLISH and the screen: a socket that is   *)
(* in the room of a process's present adapter when the alert is published  *)
(* gets it or will, unless the socket, its process or the process's        *)
(* connection to redis-pubsub goes.  (Who joined before the adapter was    *)
(* set, or at a process that is not connected, has no such claim.)         *)
(***************************************************************************)
AudienceHears ==
  \A t \in Triggers : \A s \in audience[t] :
    socket[s].proc # None /\ (copies[s][t] > 0 \/ inbox[socket[s].proc][t] > 0)

(***************************************************************************)
(* Outages of redis-pubsub are survived: whatever a process was doing - it *)
(* may have been waiting, timed out, subscribing, and may have died of it  *)
(* over and over - once its connection stays, it relays alerts for good.   *)
(***************************************************************************)
RelayRecovers ==
  \A p \in Procs : <>[](p \in linked) => <>[](boot[p] = "relaying")
=============================================================================

----------------------------- MODULE EventLoop ------------------------------
(***************************************************************************)
(* The event loop of src/src/lib.rs with everything it talks to: the       *)
(* Clients that queue commands for it (client.rs), the user who receives   *)
(* its notifications, the allocator of packet identifiers (IdPool, which   *)
(* PktIds implements), and, external to the repository, the two directions *)
(* of the TCP connection and the MQTT broker at its other end.             *)
(*                                                                         *)
(* The loop is one async task: it runs alone from one await to the next,   *)
(* and pc names the await it is at.  A branch of its select! is one        *)
(* action, up to the write or the notification that it ends with.          *)
(*                                                                         *)
(* Time is left out here: the ping timer may tick whenever the loop waits  *)
(* in its select!.  KeepAlive adds the clock.                              *)
(***************************************************************************)
EXTENDS Naturals, SequencesExt

CONSTANTS
  Clients,        \* the clones of the Client
  MaxId,          \* u16::MAX, the largest packet identifier
  CmdBuffer,      \* the argument of channel() for commands (code: 100)
  NotifBuffer,    \* the argument of channel() for notifications (code: 100)
  WireCap,        \* packets that one direction of the connection can hold
  CmdTypes,       \* the commands that the Clients use
  BrokerTypes,    \* the publishes that the broker sends
  Env,            \* what the surroundings may do to the loop
  MaxCmds,        \* bound on the commands that the Clients queue
  MaxDeliveries,  \* bound on the packets that the broker sends unasked
  MaxPings        \* bound on the PingReqs

AllCmdTypes ==
  {"publish0", "publish1", "publish2", "subscribe", "unsubscribe", "disconnect"}

AllBrokerTypes == {"publish0", "publish1", "publish2"}

AllEnv == {"noconnect", "refuse", "unexpected", "disconnect", "close", "reset",
           "dropclient", "dropuser"}

ASSUME EventLoopAssumption ==
  /\ IsFiniteSet(Clients) /\ Clients # {}
  /\ MaxId \in Nat \ {0}
  /\ CmdBuffer \in Nat /\ NotifBuffer \in Nat /\ WireCap \in Nat \ {0}
  /\ CmdTypes \subseteq AllCmdTypes
  /\ BrokerTypes \subseteq AllBrokerTypes
  /\ Env \subseteq AllEnv
  /\ MaxCmds \in Nat /\ MaxDeliveries \in Nat /\ MaxPings \in Nat

VARIABLES
  \* the event loop
  pc,             \* the await it is at; "done" when its future has resolved
  outcome,        \* how it resolved: Ok, Err, or a panic
  writing,        \* the packet given to mqtt_write.send
  queue,          \* identifiers of the publishes kept until their PubAck
  pingresp,       \* pingresp_received: "none", "waiting", "received"
  pings,          \* PingReqs so far, to bound them
  \* the packet identifiers
  free, out,
  \* the Clients and their channel
  clients,        \* those that are not dropped
  accepted,       \* commands that the channel has taken
  cmds, cmdsParked,
  \* the user and the notifications
  user,           \* the notification receiver exists
  notifs, notifsParked,
  received,       \* number of the last broker message the user received
  \* the connection
  toBroker, toClient, link,
  \* the broker
  session,        \* "none", "greeted", "accepted", "refused", "over"
  owed,           \* answers it has yet to send
  got,            \* number of the last command it received
  sent            \* packets it has sent unasked

loopVars == <<pc, outcome, writing, queue, pingresp, pings>>
idVars == <<free, out>>
cmdVars == <<clients, accepted, cmds, cmdsParked>>
notifVars == <<user, notifs, notifsParked, received>>
wireVars == <<toBroker, toClient, link>>
brokerVars == <<session, owed, got, sent>>
vars == <<loopVars, idVars, cmdVars, notifVars, wireVars, brokerVars>>

Pool == INSTANCE IdPool
Cmds == INSTANCE Mpsc WITH Buffer <- CmdBuffer, queue <- cmds, parked <- cmdsParked
Notifs == INSTANCE Mpsc WITH Buffer <- NotifBuffer, queue <- notifs, parked <- notifsParked

Ids == 1 .. MaxId

\* A packet: its type, its packet identifier (0: it has none) and the number
\* of the command or of the broker's message that it carries (0: neither).
Pkt(type, id, n) == [type |-> type, id |-> id, n |-> n]

NoPkt == Pkt("none", 0, 0)

Init ==
  /\ pc = "connecting" /\ outcome = "running"
  /\ writing = NoPkt /\ queue = <<>> /\ pingresp = "none" /\ pings = 0
  /\ Pool!PoolInit
  /\ clients = Clients /\ accepted = 0 /\ cmds = <<>> /\ cmdsParked = <<>>
  /\ user = TRUE /\ notifs = <<>> /\ notifsParked = <<>> /\ received = 0
  /\ toBroker = <<>> /\ toClient = <<>> /\ link = "none"
  /\ session = "none" /\ owed = {} /\ got = 0 /\ sent = 0

-----------------------------------------------------------------------------
(* The Clients: subscribe, publish, unsubscribe and disconnect.            *)

\* A command enters the channel.  (A call that finds the channel full, or the
\* loop gone, returns an error and changes nothing.)
TrySend(c, t) ==
  /\ accepted < MaxCmds
  /\ c \in clients
  /\ pc # "done"
  /\ Cmds!Send(c, [type |-> t, n |-> accepted + 1])
  /\ accepted' = accepted + 1
  /\ UNCHANGED <<clients, loopVars, idVars, notifVars, wireVars, brokerVars>>

DropClient(c) ==
  /\ "dropclient" \in Env
  /\ c \in clients
  /\ clients' = clients \ {c}
  /\ UNCHANGED <<accepted, cmds, cmdsParked, loopVars, idVars, notifVars, wireVars, brokerVars>>

(* The user of the notifications.                                          *)

UserReceives ==
  /\ user
  /\ Notifs!Receive
  /\ received' = IF Head(notifs).n = 0 THEN received ELSE Head(notifs).n
  /\ UNCHANGED <<user, loopVars, idVars, cmdVars, wireVars, brokerVars>>

DropUser ==
  /\ "dropuser" \in Env
  /\ user
  /\ user' = FALSE
  /\ Notifs!Close
  /\ UNCHANGED <<received, loopVars, idVars, cmdVars, wireVars, brokerVars>>

-----------------------------------------------------------------------------
(* Steps that the handlers of the loop share.                              *)

\* The future resolves, or its thread panics: the command receiver and both
\* halves of the socket are dropped.
Finish(how) ==
  /\ pc' = "done"
  /\ outcome' = how
  /\ writing' = NoPkt
  /\ Cmds!Close
  /\ toClient' = <<>>
  /\ link' = "closed"
  /\ UNCHANGED <<queue, pingresp, pings, idVars, clients, accepted, notifVars, brokerVars>>

\* mqtt_write.send(packet).await begins.
StartWrite(p) ==
  /\ writing' = p
  /\ pc' = "writing"
  /\ UNCHANGED outcome

\* A bug: try_send in place of send().await.
NotifyWithoutWaiting(type, n) ==
  /\ IF user /\ ~Notifs!Parked("loop")
     THEN Notifs!Send("loop", [type |-> type, n |-> n])
     ELSE UNCHANGED <<notifs, notifsParked>>
  /\ pc' = "select"
  /\ UNCHANGED <<outcome, user, received, writing>>

\* sender.send(notification).await: parked, the loop waits to be unparked.  An
\* error (the receiver was dropped) is ignored.
Notify(type, n) ==
  /\ IF user
     THEN Notifs!Send("loop", [type |-> type, n |-> n])
     ELSE UNCHANGED <<notifs, notifsParked>>
  /\ pc' = IF notifsParked' = <<>> THEN "select" ELSE "notifying"
  /\ UNCHANGED <<outcome, user, received, writing>>

\* The loop waits in its select! (or for the first packet), and the next packet
\* of the connection is one of these types.
Read(types) ==
  /\ toClient # <<>>
  /\ Head(toClient).type \in types
  /\ toClient' = Tail(toClient)

-----------------------------------------------------------------------------
(* EventLoop::poll and the handshake.                                      *)

Connect ==
  /\ pc = "connecting"
  /\ link' = "up"
  /\ StartWrite(Pkt("connect", 0, 0))
  /\ UNCHANGED <<queue, pingresp, pings, idVars, cmdVars, notifVars, toBroker, toClient, brokerVars>>

\* The future resolves but the EventLoop keeps the command receiver, ...
ConnectFails ==
  /\ "noconnect" \in Env
  /\ pc = "connecting"
  /\ pc' = "failed"
  /\ outcome' = "err"
  /\ UNCHANGED <<writing, queue, pingresp, pings, idVars, cmdVars, notifVars, wireVars, brokerVars>>

\* ... until it is dropped.
DropEventLoop ==
  /\ pc = "failed"
  /\ Finish("err")
  /\ UNCHANGED toBroker

\* The first packet is a Connack.  What it says is not looked at.
ReadConnack ==
  /\ pc = "handshake"
  /\ Read({"connack", "refused"})
  /\ Notify("connack", 0)
  /\ UNCHANGED <<queue, pingresp, pings, idVars, cmdVars, toBroker, link, brokerVars>>

ReadUnexpected ==
  /\ pc = "handshake"
  /\ toClient # <<>>
  /\ Head(toClient).type \notin {"connack", "refused"}
  /\ Finish("err")
  /\ UNCHANGED toBroker

\* A bug: an error of the connection is ignored as its end is.
HandshakeErrIgnored ==
  /\ pc = "handshake"
  /\ toClient = <<>> /\ link = "reset"
  /\ UNCHANGED vars

HandshakeErr ==
  /\ pc = "handshake"
  /\ toClient = <<>> /\ link = "reset"
  /\ Finish("err")
  /\ UNCHANGED toBroker

\* The connection was closed: next() returns None and the loop calls it again.
HandshakeSpins ==
  /\ pc = "handshake"
  /\ toClient = <<>> /\ link = "eof"
  /\ UNCHANGED vars

-----------------------------------------------------------------------------
(* mqtt_write.send(packet).await                                           *)

\* Packet::convert_to_mqtt has no encoding for the others.
Encodable == {"connect", "pingreq", "publish0", "publish1", "publish2",
              "subscribe", "unsubscribe", "disconnect"}

\* The packet is in the socket's buffer.
Written ==
  /\ pc = "writing"
  /\ writing.type \in Encodable
  /\ link \in {"up", "eof"}
  /\ Len(toBroker) < WireCap
  /\ toBroker' = Append(toBroker, writing)

\* A bug: the loop does not wait for the Connack.
WriteSkipsHandshake ==
  /\ Written
  /\ writing.type # "disconnect"
  /\ pc' = "select"
  /\ pingresp' = IF writing.type = "pingreq" THEN "waiting" ELSE pingresp
  /\ writing' = NoPkt
  /\ UNCHANGED <<outcome, queue, pings, idVars, cmdVars, notifVars, toClient, link, brokerVars>>

Write ==
  /\ Written
  /\ writing.type # "disconnect"
  /\ pc' = IF writing.type = "connect" THEN "handshake" ELSE "select"
  /\ pingresp' = IF writing.type = "pingreq" THEN "waiting" ELSE pingresp
  /\ writing' = NoPkt
  /\ UNCHANGED <<outcome, queue, pings, idVars, cmdVars, notifVars, toClient, link, brokerVars>>

\* A bug: the loop goes on after its Disconnect.
WriteDisconnectGoesOn ==
  /\ Written
  /\ writing.type = "disconnect"
  /\ pc' = "select"
  /\ writing' = NoPkt
  /\ UNCHANGED <<outcome, queue, pingresp, pings, idVars, cmdVars, notifVars, toClient, link, brokerVars>>

WriteDisconnect ==
  /\ Written
  /\ writing.type = "disconnect"
  /\ Finish("ok")

WriteFails ==
  /\ pc = "writing"
  /\ writing.type \in Encodable
  /\ link \in {"eof", "reset"}
  /\ Finish("err")
  /\ UNCHANGED toBroker

WritePanics ==
  /\ pc = "writing"
  /\ writing.type \notin Encodable
  /\ Finish("panic")
  /\ UNCHANGED toBroker

\* sender.send(notification).await ends.
Notified ==
  /\ pc = "notifying"
  /\ notifsParked = <<>>
  /\ pc' = "select"
  /\ UNCHANGED <<outcome, writing, queue, pingresp, pings, idVars, cmdVars, notifVars, wireVars, brokerVars>>

-----------------------------------------------------------------------------
(* The select!: ping.tick()                                                *)

\* A bug: a PingReq at every tick.
TickPingAlways ==
  /\ pc = "select"
  /\ pings < MaxPings
  /\ pings' = pings + 1
  /\ StartWrite(Pkt("pingreq", 0, 0))
  /\ UNCHANGED <<queue, pingresp, idVars, cmdVars, notifVars, wireVars, brokerVars>>

TickPing ==
  /\ pc = "select"
  /\ pingresp # "waiting"
  /\ pings < MaxPings
  /\ pings' = pings + 1
  /\ StartWrite(Pkt("pingreq", 0, 0))
  /\ UNCHANGED <<queue, pingresp, idVars, cmdVars, notifVars, wireVars, brokerVars>>

\* A bug: the loop goes on waiting for the PingResp.
TickIgnored ==
  /\ pc = "select"
  /\ pingresp = "waiting"
  /\ UNCHANGED vars

TickTimesOut ==
  /\ pc = "select"
  /\ pingresp = "waiting"
  /\ Finish("err")
  /\ UNCHANGED toBroker

-----------------------------------------------------------------------------
(* The select!: mqtt_read.next()                                           *)

ReadDisconnect ==
  /\ pc = "select"
  /\ toClient # <<>>
  /\ \/ Head(toClient).type = "disconnect" /\ Finish("ok")
     \/ Head(toClient).type = "disconnecterr" /\ Finish("err")
  /\ UNCHANGED toBroker

\* A bug: the arrival of the PingResp is not recorded.
ReadPingRespForgets ==
  /\ pc = "select"
  /\ Read({"pingresp"})
  /\ UNCHANGED <<pc, outcome, writing, queue, pingresp, pings, idVars, cmdVars, notifVars, toBroker, link, brokerVars>>

ReadPingResp ==
  /\ pc = "select"
  /\ Read({"pingresp"})
  /\ pingresp' = "received"
  /\ UNCHANGED <<pc, outcome, writing, queue, pings, idVars, cmdVars, notifVars, toBroker, link, brokerVars>>

\* SubAck and UnsubAck.
ReadAck ==
  /\ pc = "select"
  /\ Read({"suback", "unsuback"})
  /\ Pool!GiveId(Head(toClient).id)
  /\ Notify(Head(toClient).type, 0)
  /\ UNCHANGED <<queue, pingresp, pings, cmdVars, toBroker, link, brokerVars>>

\* A bug: the oldest publish leaves the queue, as if PubAcks came in order.
UnqueueOldest(id) == IF queue = <<>> THEN queue ELSE Tail(queue)

\* The publish with this identifier leaves the queue, if it is there.
Unqueue(id) == RemoveFirst(queue, id)

\* A bug: the publish stays in the queue.
ReadPubAckKeepsPublish ==
  /\ pc = "select"
  /\ Read({"puback"})
  /\ Pool!GiveId(Head(toClient).id)
  /\ UNCHANGED <<pc, outcome, writing, queue, pingresp, pings, cmdVars, notifVars, toBroker, link, brokerVars>>

\* A bug: the identifier is not returned.
ReadPubAckKeepsId ==
  /\ pc = "select"
  /\ Read({"puback"})
  /\ queue' = Unqueue(Head(toClient).id)
  /\ UNCHANGED <<pc, outcome, writing, pingresp, pings, idVars, cmdVars, notifVars, toBroker, link, brokerVars>>

ReadPubAck ==
  /\ pc = "select"
  /\ Read({"puback"})
  /\ queue' = Unqueue(Head(toClient).id)
  /\ Pool!GiveId(Head(toClient).id)
  /\ UNCHANGED <<pc, outcome, writing, pingresp, pings, cmdVars, notifVars, toBroker, link, brokerVars>>

\* A publish with QoS 0, and any packet that no other arm takes (a Connack).
ReadMessage ==
  /\ pc = "select"
  /\ Read({"publish0", "connack"})
  /\ Notify("message", Head(toClient).n)
  /\ UNCHANGED <<queue, pingresp, pings, idVars, cmdVars, toBroker, link, brokerVars>>

\* A publish with QoS 1 is acknowledged before the user is notified of it.
ReadPublish1 ==
  /\ pc = "select"
  /\ Read({"publish1"})
  /\ StartWrite(Pkt("puback", 0, 0))
  /\ UNCHANGED <<queue, pingresp, pings, idVars, cmdVars, notifVars, toBroker, link, brokerVars>>

\* todo!("Send pubrec"), and the decoder's unimplemented! for a PubRec.
ReadQos2 ==
  /\ pc = "select"
  /\ toClient # <<>>
  /\ Head(toClient).type \in {"publish2", "pubrec"}
  /\ Finish("panic")
  /\ UNCHANGED toBroker


\* Some(Err(_)) and None.
ReadEnd ==
  /\ pc = "select"
  /\ toClient = <<>>
  /\ \/ link = "eof" /\ Finish("ok")
     \/ link = "reset" /\ Finish("err")
  /\ UNCHANGED toBroker

ReadStep ==
  \/ ReadDisconnect \/ ReadPingResp \/ ReadAck \/ ReadPubAck \/ ReadMessage
  \/ ReadPublish1 \/ ReadQos2 \/ ReadEnd

-----------------------------------------------------------------------------
(* The select!: commands_rx.next()                                         *)

\* Commands whose packet has an identifier.
Identified == {"publish1", "publish2", "subscribe", "unsubscribe"}

\* next_id panics when only u16::MAX is left (PktIds!NextIdPanics), and the
\* loop panics when next_id returns None.
NoIdLeft == free \subseteq {MaxId}

\* A bug: the write of the packet before is not awaited.
CmdPlainWithoutWaiting ==
  /\ pc \in {"select", "writing"}
  /\ Cmds!Receive
  /\ Head(cmds).type \notin Identified
  /\ StartWrite(Pkt(Head(cmds).type, 0, Head(cmds).n))
  /\ UNCHANGED <<queue, pingresp, pings, idVars, clients, accepted, notifVars, wireVars, brokerVars>>

CmdPlain ==
  /\ pc = "select"
  /\ Cmds!Receive
  /\ Head(cmds).type \notin Identified
  /\ StartWrite(Pkt(Head(cmds).type, 0, Head(cmds).n))
  /\ UNCHANGED <<queue, pingresp, pings, idVars, clients, accepted, notifVars, wireVars, brokerVars>>

\* A bug: the publish is queued before its identifier is taken.
CmdQueuedTooEarly ==
  /\ pc = "select"
  /\ Cmds!Receive
  /\ Head(cmds).type \in Identified
  /\ ~NoIdLeft
  /\ Pool!Grant
  /\ queue' = IF Head(cmds).type = "publish1" THEN Append(queue, out) ELSE queue
  /\ StartWrite(Pkt(Head(cmds).type, out', Head(cmds).n))
  /\ UNCHANGED <<pingresp, pings, clients, accepted, notifVars, wireVars, brokerVars>>

\* A publish with QoS 1 is queued before it is written.
CmdIdentified ==
  /\ pc = "select"
  /\ Cmds!Receive
  /\ Head(cmds).type \in Identified
  /\ ~NoIdLeft
  /\ Pool!Grant
  /\ queue' = IF Head(cmds).type = "publish1" THEN Append(queue, out') ELSE queue
  /\ StartWrite(Pkt(Head(cmds).type, out', Head(cmds).n))
  /\ UNCHANGED <<pingresp, pings, clients, accepted, notifVars, wireVars, brokerVars>>

CmdPanics ==
  /\ pc = "select"
  /\ cmds # <<>>
  /\ Head(cmds).type \in Identified
  /\ NoIdLeft
  /\ Finish("panic")
  /\ UNCHANGED toBroker

\* All Clients are dropped: next() returns None, and the loop polls it again.
CmdsEnd ==
  /\ pc = "select"
  /\ cmds = <<>> /\ clients = {}
  /\ UNCHANGED vars

CmdStep == CmdPlain \/ CmdIdentified \/ CmdPanics

-----------------------------------------------------------------------------
(* The broker and the network (external).                                  *)

\* The answer that a packet calls for.
Answers(p) ==
  CASE p.type = "publish1" -> {Pkt("puback", p.id, 0)}
    [] p.type = "publish2" -> {Pkt("pubrec", p.id, 0)}
    [] p.type = "subscribe" -> {Pkt("suback", p.id, 0)}
    [] p.type = "unsubscribe" -> {Pkt("unsuback", p.id, 0)}
    [] p.type = "pingreq" -> {Pkt("pingresp", 0, 0)}
    [] OTHER -> {}

\* The broker reads what it is sent, before it has sent the Connack too.
BrokerReceives ==
  /\ toBroker # <<>>
  /\ link \in {"up", "closed"}
  /\ session \in {"none", "greeted", "accepted"}
  /\ LET p == Head(toBroker) IN
       /\ owed' = owed \cup Answers(p)
       /\ session' = CASE p.type = "connect" -> "greeted"
                       [] p.type = "disconnect" -> "over"
                       [] OTHER -> session
       /\ got' = IF p.n = 0 THEN got ELSE p.n
  /\ toBroker' = Tail(toBroker)
  /\ UNCHANGED <<toClient, link, sent, loopVars, idVars, cmdVars, notifVars>>

CanSend == link = "up" /\ Len(toClient) < WireCap

BrokerGreets ==
  /\ CanSend
  /\ session = "greeted"
  /\ \/ session' = "accepted" /\ toClient' = Append(toClient, Pkt("connack", 0, 0))
     \/ /\ "refuse" \in Env
        /\ session' = "refused"
        /\ toClient' = Append(toClient, Pkt("refused", 0, 0))
  /\ UNCHANGED <<toBroker, link, owed, got, sent, loopVars, idVars, cmdVars, notifVars>>

\* Answers leave in any order.
BrokerAnswers(p) ==
  /\ CanSend
  /\ session = "accepted"
  /\ toClient' = Append(toClient, p)
  /\ owed' = owed \ {p}
  /\ UNCHANGED <<toBroker, link, session, got, sent, loopVars, idVars, cmdVars, notifVars>>

\* A publish, or a packet out of place: a publish before the Connack, a second
\* Connack.
BrokerSends(t) ==
  /\ CanSend
  /\ sent < MaxDeliveries
  /\ \/ session = "accepted" /\ (t \in BrokerTypes \/ "unexpected" \in Env)
     \/ session = "greeted" /\ t = "publish0" /\ "unexpected" \in Env
  /\ toClient' = Append(toClient, Pkt(t, 0, sent + 1))
  /\ sent' = sent + 1
  /\ UNCHANGED <<toBroker, link, session, owed, got, loopVars, idVars, cmdVars, notifVars>>

\* The broker ends the session with a Disconnect.
BrokerDisconnects(t) ==
  /\ "disconnect" \in Env
  /\ CanSend
  /\ session = "accepted"
  /\ toClient' = Append(toClient, Pkt(t, 0, 0))
  /\ link' = "eof"
  /\ session' = "over"
  /\ UNCHANGED <<toBroker, owed, got, sent, loopVars, idVars, cmdVars, notifVars>>

\* The broker closes the connection, as it must when it refused it.
BrokerCloses ==
  /\ link = "up"
  /\ "close" \in Env \/ session = "refused"
  /\ link' = "eof"
  /\ session' = "over"
  /\ UNCHANGED <<toBroker, toClient, owed, got, sent, loopVars, idVars, cmdVars, notifVars>>

\* The connection breaks: packets under way are lost.
Reset(k) ==
  /\ "reset" \in Env
  /\ link \in {"up", "eof", "closed"}
  /\ link' = IF link = "closed" THEN "closed" ELSE "reset"
  /\ session' = "over"
  /\ toClient' = SubSeq(toClient, 1, k)
  /\ toBroker' = <<>>
  /\ UNCHANGED <<owed, got, sent, loopVars, idVars, cmdVars, notifVars>>

BrokerStep ==
  \/ BrokerReceives
  \/ BrokerGreets
  \/ \E p \in owed : BrokerAnswers(p)
  \/ \E t \in BrokerTypes \cup {"publish0", "connack"} : BrokerSends(t)
  \/ \E t \in {"disconnect", "disconnecterr"} : BrokerDisconnects(t)
  \/ BrokerCloses

NetworkStep == \E k \in 0 .. Len(toClient) : Reset(k)

-----------------------------------------------------------------------------
HandshakeStep == ReadConnack \/ ReadUnexpected \/ HandshakeErr \/ HandshakeSpins

WriteStep == Write \/ WriteDisconnect \/ WriteFails \/ WritePanics

TickStep == TickPing \/ TickTimesOut

\* What the loop does but for the ticks of its timer.
UntimedStep ==
  \/ Connect \/ ConnectFails \/ DropEventLoop
  \/ HandshakeStep \/ WriteStep \/ Notified
  \/ ReadStep \/ CmdStep \/ CmdsEnd

LoopStep == TickStep \/ UntimedStep

ClientStep ==
  \E c \in Clients : DropClient(c) \/ \E t \in CmdTypes : TrySend(c, t)

UserStep == UserReceives \/ DropUser

\* The loop has resolved, or waits in its select! for something to happen.
Rest ==
  /\ pc \in {"select", "done"}
  /\ UNCHANGED vars

Next == LoopStep \/ ClientStep \/ UserStep \/ BrokerStep \/ NetworkStep \/ Rest

Spec == Init /\ [][Next]_vars

\* The executor keeps polling the task; select! starts with a branch that it
\* picks at random, so that a branch that is ready again and again is taken.
LoopFairness ==
  /\ WF_vars(Connect \/ ConnectFails)
  /\ WF_vars(DropEventLoop)
  /\ WF_vars(HandshakeStep)
  /\ WF_vars(WriteStep)
  /\ WF_vars(Notified)
  /\ SF_vars(ReadStep)
  /\ SF_vars(CmdStep)
  /\ SF_vars(TickStep)

\* A broker that reads what it is sent, greets, answers and closes a connection
\* that it refused.
BrokerReads == WF_vars(BrokerReceives)

BrokerFairness ==
  /\ BrokerReads
  /\ WF_vars(BrokerGreets)
  /\ WF_vars(\E p \in owed : BrokerAnswers(p))
  /\ WF_vars(BrokerCloses /\ session = "refused")

\* A user who keeps receiving.
UserFairness == WF_vars(UserReceives)

FairSpec == Spec /\ LoopFairness /\ BrokerFairness /\ UserFairness

-----------------------------------------------------------------------------
Packet ==
  [type : Encodable \cup
          {"none", "connack", "refused", "pingresp", "suback", "unsuback", "puback",
           "pubrec", "disconnecterr"},
   id : 0 .. MaxId,
   n : Nat]

TypeOK ==
  /\ pc \in {"connecting", "failed", "handshake", "select", "writing", "notifying", "done"}
  /\ outcome \in {"running", "ok", "err", "panic"}
  /\ writing \in Packet
  /\ queue \in Seq(Ids)
  /\ pingresp \in {"none", "waiting", "received"}
  /\ pings \in 0 .. MaxPings
  /\ Pool!PoolTypeOK
  /\ clients \subseteq Clients
  /\ accepted \in 0 .. MaxCmds
  /\ cmds \in Seq([type : CmdTypes, n : Nat])
  /\ cmdsParked \in Seq(Clients)
  /\ user \in BOOLEAN
  /\ notifs \in Seq([type : {"connack", "suback", "unsuback", "message"}, n : Nat])
  /\ notifsParked \in Seq({"loop"})
  /\ received \in Nat
  /\ toBroker \in Seq(Packet) /\ Len(toBroker) <= WireCap
  /\ toClient \in Seq(Packet) /\ Len(toClient) <= WireCap
  /\ link \in {"none", "up", "eof", "reset", "closed"}
  /\ session \in {"none", "greeted", "accepted", "refused", "over"}
  /\ owed \subseteq Packet
  /\ got \in 0 .. MaxCmds
  /\ sent \in 0 .. MaxDeliveries

\* How many packets of this kind the sequence holds.
HowMany(s, kind) == Cardinality({i \in DOMAIN s : s[i] \in kind})

\* How many travel between the loop and the broker and back.
Travelling(kind) ==
  HowMany(toBroker, kind) + HowMany(toClient, kind)
    + Cardinality(owed \cap kind) + (IF writing \in kind THEN 1 ELSE 0)

\* The packets with this identifier, those of a publish with QoS 1 and its
\* PubAck, and those of a ping.
WithId(id) == {p \in Packet : p.id = id}
Unacked(id) == {p \in WithId(id) : p.type \in {"publish1", "puback"}}
Pings == {p \in Packet : p.type \in {"pingreq", "pingresp"}}

\* The connection is whole: nothing that entered it has been lost.
Whole == link = "up"

\* A packet identifier is either free or carried by exactly one packet: the
\* request it was taken for or the acknowledgement of that request, wherever on
\* the way they are.  No acknowledgement frees an identifier that was given to
\* a second request, and none is leaked while the connection lasts.
IdAccounting ==
  \A id \in Ids :
    LET carriers == Travelling(WithId(id))
    IN  IF id \in free THEN carriers = 0
        ELSE carriers = 1 \/ (~Whole /\ carriers = 0)

\* The queue of unacknowledged publishes holds an identifier once, and holds it
\* exactly as long as its publish or its PubAck is on the way: what a new
\* connection would have to repeat.
QueueIsUnacked ==
  /\ IsInjective(queue)
  /\ ToSet(queue) \cap free = {}
  /\ \A id \in Ids :
       LET unacked == Travelling(Unacked(id))
       IN  IF id \in ToSet(queue) THEN unacked = 1 \/ ~Whole
                                  ELSE unacked = 0

\* One ping at a time, and the loop waits for a PingResp exactly when a PingReq
\* or its PingResp is on the way: a late PingResp is never taken for the answer
\* to the next PingReq.
PingAccounting ==
  LET pinging == Travelling(Pings)
  IN  /\ pinging <= 1
      /\ Whole => (pinging = 1 <=> pingresp = "waiting" \/ writing.type = "pingreq")

\* A Client that finds the channel full is right: the buffer is, and its own
\* command is among those that wait.  A user who is slow holds up the loop
\* before the notifications exceed their buffer by more than one, and the loop
\* neither reads nor writes until there is room again.
Backpressure ==
  /\ \A c \in Clients : Cmds!Parked(c) => Len(cmds) > CmdBuffer
  /\ Len(cmds) <= CmdBuffer + Cardinality(Clients)
  /\ Len(notifs) <= NotifBuffer + 1
  /\ pc \in {"select", "writing"} => Len(notifs) <= NotifBuffer

\* A Disconnect is the last packet written.
DisconnectIsLast ==
  \A i \in DOMAIN toBroker :
    toBroker[i].type = "disconnect" => i = Len(toBroker) /\ outcome = "ok"

\* Until the broker has sent the Connack the loop writes nothing but the Connect
\* packet, however many commands are queued: neither what is on its way to the
\* broker nor what the broker has read is a command or a ping.  And what the user
\* receives first is the Connack.
ConnackFirst ==
  /\ session \in {"none", "greeted"} =>
       /\ got = 0 /\ pingresp = "none"
       /\ \A i \in DOMAIN toBroker : toBroker[i].type = "connect"
  /\ received # 0 => \A i \in DOMAIN notifs : notifs[i].type # "connack"
  /\ \A i \in DOMAIN notifs : notifs[i].type = "connack" => i = 1

Uplink == INSTANCE Pipe WITH entered <- accepted, left <- got
Downlink == INSTANCE Pipe WITH entered <- sent, left <- received

\* Commands reach the broker in the order in which the Clients queued them,
\* each once and none skipped, through the channel, the loop and the connection.
CommandsInOrder == Uplink!PipeSpec

\* The user receives the broker's messages in the order in which they were sent.
MessagesInOrder == Downlink!PipeSpec

\* In the handshake, with the connection closed, the loop calls next() for ever.
SpinsInHandshake == pc = "handshake" /\ link = "eof" /\ toClient = <<>>

\* A command that the channel took reaches the broker, unless the connection
\* ends first and the future resolves (or spins in the handshake).
CommandsHandled ==
  \A k \in 1 .. MaxCmds :
    accepted >= k ~> got >= k \/ pc = "done" \/ SpinsInHandshake

\* A publish with QoS 1 that was queued is acknowledged and leaves the queue, or
\* the future resolves.
PublishesSettled ==
  \A id \in Ids : id \in ToSet(queue) ~> id \notin ToSet(queue) \/ pc = "done"

\* A message that the broker sent reaches the user, or the future resolves.
MessagesReachUser ==
  \A k \in 1 .. MaxDeliveries : sent >= k ~> received >= k \/ pc = "done" \/ ~user


\* The future of the event loop resolves when the connection ends: its output is
\* the connection's result (lib.rs:160).
ConnectionResult == link = "eof" ~> pc = "done"

\* "Client never sends this" (protocol/mod.rs:117).
NeverSendsPubAck == writing.type # "puback"
=============================================================================

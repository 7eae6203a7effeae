------------------------ MODULE EventLoopInvariants -------------------------
(***************************************************************************)
(* For every number of Clients, identifiers, packets, every size of the    *)
(* buffers and every capacity of the connection: the invariants of the     *)
(* event loop, in three parts.                                             *)
(*                                                                         *)
(* Types: the state keeps its types, and the packets on their way keep     *)
(* their form.                                                             *)
(*                                                                         *)
(* Channels: what the two channels hold, how they hold up those who send,  *)
(* and that a Disconnect is the last that the connection is given.         *)
(*                                                                         *)
(* Accounting: each packet identifier in use, each unacknowledged publish  *)
(* and each ping has one packet on the way between the loop and the        *)
(* broker.  The packets of a kind are counted; what a step does to their   *)
(* number is the same for each of these kinds.                             *)
(***************************************************************************)
EXTENDS EventLoop, DataLemmas, FiniteSetTheorems, SequenceTheorems, TLAPS

-----------------------------------------------------------------------------
(* The packets that each direction of the connection can hold.             *)

Acks == {"suback", "unsuback", "puback", "pubrec"}

\* What the loop writes: a request has an identifier, anything else has none.
Outgoing ==
  {p \in Packet : /\ p.type \in Encodable
                  /\ p.id # 0 <=> p.type \in Identified
                  /\ p.n <= MaxCmds}

\* What the broker answers with: an acknowledgement has the identifier of its
\* request.
Answer ==
  {p \in Packet : /\ p.type \in Acks \cup {"pingresp"}
                  /\ p.id # 0 <=> p.type \in Acks
                  /\ p.n = 0}

Unasked == {"connack", "refused", "publish0", "publish1", "publish2",
            "disconnect", "disconnecterr"}

Incoming ==
  Answer \cup {p \in Packet : p.type \in Unasked /\ p.id = 0 /\ p.n <= MaxDeliveries}

Command == [type : CmdTypes, n : 1 .. MaxCmds]

\* TypeOK and the form of the packets, by the component whose state it is.
LoopTypes ==
  /\ pc \in {"connecting", "failed", "handshake", "select", "writing", "notifying", "done"}
  /\ outcome \in {"running", "ok", "err", "panic"}
  /\ writing \in Outgoing \cup {NoPkt, Pkt("puback", 0, 0)}
  /\ writing # NoPkt <=> pc = "writing"
  /\ queue \in Seq(Ids)
  /\ pingresp \in {"none", "waiting", "received"}
  /\ pings \in 0 .. MaxPings

IdTypes == Pool!PoolTypeOK

CommandTypes ==
  /\ clients \subseteq Clients
  /\ accepted \in 0 .. MaxCmds
  /\ cmds \in Seq(Command)
  /\ cmdsParked \in Seq(Clients)

Notification == [type : {"connack", "suback", "unsuback", "message"}, n : Nat]

NotifTypes ==
  /\ user \in BOOLEAN
  /\ notifs \in Seq(Notification)
  /\ notifsParked \in Seq({"loop"})
  /\ received \in Nat

WireTypes ==
  /\ toBroker \in Seq(Outgoing) /\ Len(toBroker) <= WireCap
  /\ toClient \in Seq(Incoming) /\ Len(toClient) <= WireCap
  /\ link \in {"none", "up", "eof", "reset", "closed"}

AnswerTypes ==
  /\ session \in {"none", "greeted", "accepted", "refused", "over"}
  /\ owed \subseteq Answer /\ IsFiniteSet(owed)
  /\ got \in 0 .. MaxCmds
  /\ sent \in 0 .. MaxDeliveries

TypeInv ==
  LoopTypes /\ IdTypes /\ CommandTypes /\ NotifTypes /\ WireTypes /\ AnswerTypes

-----------------------------------------------------------------------------
(* The steps of the specification.                                         *)

\* The loop comes to its end and writes nothing more.
Ends ==
  /\ pc \in {"failed", "handshake", "select", "writing"}
  /\ \E how \in {"ok", "err", "panic"} : Finish(how)
  /\ UNCHANGED toBroker

\* All but the ticks of the ping timer.
Untimed == UntimedStep \/ ClientStep \/ UserStep \/ BrokerStep \/ NetworkStep

LEMMA UntimedCases ==
  ASSUME Untimed
  PROVE  \/ Connect \/ ConnectFails \/ ReadConnack
         \/ Write \/ WriteDisconnect \/ Notified
         \/ ReadPingResp \/ ReadAck \/ ReadPubAck
         \/ ReadMessage \/ ReadPublish1
         \/ CmdPlain \/ CmdIdentified
         \/ Ends
         \/ \E c \in Clients : DropClient(c)
         \/ \E c \in Clients, t \in CmdTypes : TrySend(c, t)
         \/ UserReceives \/ DropUser
         \/ BrokerReceives \/ BrokerGreets \/ BrokerCloses
         \/ \E p \in owed : BrokerAnswers(p)
         \/ \E t \in BrokerTypes \cup {"publish0", "connack"} : BrokerSends(t)
         \/ \E t \in {"disconnect", "disconnecterr"} : BrokerDisconnects(t)
         \/ \E k \in 0 .. Len(toClient) : Reset(k)
         \/ UNCHANGED vars
<1>1. CASE UntimedStep
  <2>1. DropEventLoop \/ ReadUnexpected \/ HandshakeErr \/ WriteFails \/ WritePanics
        \/ ReadDisconnect \/ ReadQos2 \/ ReadEnd \/ CmdPanics => Ends
    <3>1. DropEventLoop => Ends BY DEF DropEventLoop, Ends
    <3>2. ReadUnexpected => Ends BY DEF ReadUnexpected, Ends
    <3>3. HandshakeErr => Ends BY DEF HandshakeErr, Ends
    <3>4. WriteFails => Ends BY DEF WriteFails, Ends
    <3>5. WritePanics => Ends BY DEF WritePanics, Ends
    <3>6. ReadDisconnect => Ends BY DEF ReadDisconnect, Ends
    <3>7. ReadQos2 => Ends BY DEF ReadQos2, Ends
    <3>8. ReadEnd => Ends BY DEF ReadEnd, Ends
    <3>9. CmdPanics => Ends BY DEF CmdPanics, Ends
    <3>10. QED BY <3>1, <3>2, <3>3, <3>4, <3>5, <3>6, <3>7, <3>8, <3>9
  <2>2. HandshakeSpins \/ CmdsEnd => UNCHANGED vars
    BY DEF HandshakeSpins, CmdsEnd
  <2>3. QED
    BY <1>1, <2>1, <2>2 DEF UntimedStep, HandshakeStep, WriteStep, ReadStep, CmdStep
<1>2. CASE ClientStep BY <1>2 DEF ClientStep
<1>3. CASE UserStep BY <1>3 DEF UserStep
<1>4. CASE BrokerStep BY <1>4 DEF BrokerStep
<1>5. CASE NetworkStep BY <1>5 DEF NetworkStep
<1>6. QED BY <1>1, <1>2, <1>3, <1>4, <1>5 DEF Untimed

\* What a step of the specification can be.
LEMMA StepCases ==
  ASSUME [Next]_vars
  PROVE  \/ Connect \/ ConnectFails \/ ReadConnack
         \/ Write \/ WriteDisconnect \/ Notified
         \/ TickPing \/ ReadPingResp \/ ReadAck \/ ReadPubAck
         \/ ReadMessage \/ ReadPublish1
         \/ CmdPlain \/ CmdIdentified
         \/ Ends
         \/ \E c \in Clients : DropClient(c)
         \/ \E c \in Clients, t \in CmdTypes : TrySend(c, t)
         \/ UserReceives \/ DropUser
         \/ BrokerReceives \/ BrokerGreets \/ BrokerCloses
         \/ \E p \in owed : BrokerAnswers(p)
         \/ \E t \in BrokerTypes \cup {"publish0", "connack"} : BrokerSends(t)
         \/ \E t \in {"disconnect", "disconnecterr"} : BrokerDisconnects(t)
         \/ \E k \in 0 .. Len(toClient) : Reset(k)
         \/ UNCHANGED vars
<1>1. TickTimesOut => Ends BY DEF TickTimesOut, Ends
<1>2. Untimed \/ TickPing \/ TickTimesOut \/ UNCHANGED vars
  BY DEF Next, LoopStep, TickStep, Rest, Untimed
<1>3. QED BY <1>1, <1>2, UntimedCases

-----------------------------------------------------------------------------
(* Packets and queues have their types.                                    *)

LEMMA OutgoingPkt ==
  /\ \A t \in Encodable \ Identified, n \in 0 .. MaxCmds : Pkt(t, 0, n) \in Outgoing
  /\ \A t \in Identified, id \in Ids, n \in 0 .. MaxCmds : Pkt(t, id, n) \in Outgoing
  /\ \A p \in Outgoing : p # NoPkt /\ p # Pkt("puback", 0, 0)
BY EventLoopAssumption DEF Outgoing, Packet, Pkt, Encodable, Identified, NoPkt, Ids

LEMMA IncomingPkt ==
  /\ \A t \in Unasked, n \in 0 .. MaxDeliveries : Pkt(t, 0, n) \in Incoming
  /\ Answer \subseteq Incoming
<1> SUFFICES ASSUME NEW t \in Unasked, NEW n \in 0 .. MaxDeliveries
             PROVE  Pkt(t, 0, n) \in Incoming
  BY DEF Incoming
<1>1. Pkt(t, 0, n) \in Packet
  BY EventLoopAssumption DEF Unasked, Packet, Encodable, Pkt
<1>2. QED BY <1>1 DEF Incoming, Pkt

\* A packet calls for no answer, or for one that has its identifier.
LEMMA AnswersFacts ==
  ASSUME NEW p \in Outgoing
  PROVE  \/ p.type \in {"connect", "publish0", "disconnect"} /\ Answers(p) = {}
         \/ \E a \in Answer : /\ Answers(p) = {a}
                              /\ a.id = p.id
                              /\ a.type = "puback" <=> p.type = "publish1"
                              /\ a.type = "pingresp" <=> p.type = "pingreq"
<1> USE EventLoopAssumption DEF Answer, Acks
<1> DEFINE Is(a, type) == /\ a \in Packet /\ a.id = p.id
                          /\ a.type = type /\ a.n = 0
<1>1. p.type \in Encodable /\ p.id \in 0 .. MaxId /\ p.n \in Nat
      /\ (p.id # 0 <=> p.type \in Identified)
  BY DEF Outgoing, Packet
<1>2. \A t \in {"puback", "pubrec", "suback", "unsuback"} : Is(Pkt(t, p.id, 0), t)
  BY <1>1 DEF Pkt, Packet
<1>3. CASE p.type = "publish1"
  <2>1. Answers(p) = {Pkt("puback", p.id, 0)} BY <1>3 DEF Answers
  <2>2. QED BY <1>1, <1>2, <1>3, <2>1 DEF Identified
<1>4. CASE p.type = "publish2"
  <2>1. Answers(p) = {Pkt("pubrec", p.id, 0)} BY <1>4 DEF Answers
  <2>2. QED BY <1>1, <1>2, <1>4, <2>1 DEF Identified
<1>5. CASE p.type = "subscribe"
  <2>1. Answers(p) = {Pkt("suback", p.id, 0)} BY <1>5 DEF Answers
  <2>2. QED BY <1>1, <1>2, <1>5, <2>1 DEF Identified
<1>6. CASE p.type = "unsubscribe"
  <2>1. Answers(p) = {Pkt("unsuback", p.id, 0)} BY <1>6 DEF Answers
  <2>2. QED BY <1>1, <1>2, <1>6, <2>1 DEF Identified
<1>7. CASE p.type = "pingreq"
  <2>1. Answers(p) = {Pkt("pingresp", 0, 0)} BY <1>7 DEF Answers
  <2>2. p.id = 0 BY <1>1, <1>7 DEF Identified
  <2>3. Is(Pkt("pingresp", 0, 0), "pingresp") BY <2>2 DEF Pkt, Packet
  <2>4. QED BY <1>7, <2>1, <2>2, <2>3
<1>8. CASE p.type \in {"connect", "publish0", "disconnect"}
  BY <1>8 DEF Answers
<1>9. QED BY <1>1, <1>3, <1>4, <1>5, <1>6, <1>7, <1>8 DEF Encodable

LEMMA IncomingFacts ==
  ASSUME NEW p \in Incoming
  PROVE  /\ p \in Packet
         /\ p.type \in Acks => p.id \in Ids /\ p.n = 0
         /\ p.type \notin Acks => p.id = 0
         /\ p.n \in 0 .. MaxDeliveries
BY EventLoopAssumption DEF Incoming, Answer, Acks, Unasked, Packet, Ids

LEMMA OutgoingFacts ==
  ASSUME NEW p \in Outgoing
  PROVE  /\ p \in Packet
         /\ p.type \in Encodable
         /\ p.type \in Identified => p.id \in Ids
         /\ p.type \notin Identified => p.id = 0
         /\ p.n \in 0 .. MaxCmds
BY EventLoopAssumption DEF Outgoing, Packet, Ids

LEMMA NotifyTypes ==
  ASSUME NotifTypes, LoopTypes, pc # "writing",
         NEW type \in {"connack", "suback", "unsuback", "message"}, NEW n \in Nat,
         Notify(type, n), UNCHANGED <<pingresp, pings>>, queue' \in Seq(Ids)
  PROVE  NotifTypes' /\ LoopTypes'
<1>1. [type |-> type, n |-> n] \in Notification BY DEF Notification
<1>2. NotifTypes'
  <2> DEFINE m == [type |-> type, n |-> n]
  <2>1. Append(notifs, m) \in Seq(Notification) BY <1>1 DEF NotifTypes
  <2>2. Append(notifsParked, "loop") \in Seq({"loop"}) BY DEF NotifTypes
  <2> HIDE DEF m
  <2>3. CASE user
    <3>1. Notifs!Send("loop", m) BY <2>3 DEF Notify, m
    <3>2. notifs' \in Seq(Notification) /\ notifsParked' \in Seq({"loop"})
      BY <3>1, <2>1, <2>2 DEF Notifs!Send, NotifTypes
    <3>3. QED BY <3>2 DEF NotifTypes, Notify
  <2>4. CASE ~user BY <2>4 DEF NotifTypes, Notify
  <2>5. QED BY <2>3, <2>4
<1>3. LoopTypes'
  BY DEF LoopTypes, Notify
<1>4. QED BY <1>2, <1>3

LEMMA StartWriteTypes ==
  ASSUME LoopTypes, NEW p \in Outgoing \cup {Pkt("puback", 0, 0)}, StartWrite(p),
         queue' \in Seq(Ids), UNCHANGED pingresp, pings' \in 0 .. MaxPings
  PROVE  LoopTypes'
<1>1. p # NoPkt BY OutgoingPkt DEF NoPkt, Pkt
<1>2. QED BY <1>1 DEF LoopTypes, StartWrite

\* A command has the type of its packet.
LEMMA CommandFacts ==
  ASSUME NEW c \in Command
  PROVE  c.type \in Encodable /\ c.n \in 0 .. MaxCmds /\ c.n # 0
<1>1. c.type \in CmdTypes /\ c.n \in 1 .. MaxCmds BY DEF Command
<1>2. CmdTypes \subseteq Encodable BY EventLoopAssumption DEF AllCmdTypes, Encodable
<1>3. QED BY <1>1, <1>2, EventLoopAssumption

\* next_id takes the least of the identifiers that are left.
LEMMA GrantFacts ==
  ASSUME free \subseteq Pool!Ids, Pool!Grant
  PROVE  /\ out' \in free
         /\ \A j \in free : out' <= j
         /\ free' = free \ {out'}
<1>1. free \in SUBSET Nat /\ free # {}
  BY EventLoopAssumption DEF Pool!Ids, Pool!Grant
<1>2. \E m \in free : \A k \in free : m <= k BY <1>1, LeastNat
<1>3. QED BY <1>2 DEF Pool!Grant, Pool!Lowest

\* The publish with an identifier leaves the queue, if it is there; the others
\* keep their order.
LEMMA UnqueueCases ==
  ASSUME NEW S, queue \in Seq(S), NEW id
  PROVE  \/ Unqueue(id) = queue /\ \A i \in 1 .. Len(queue) : queue[i] # id
         \/ \E k \in 1 .. Len(queue) :
              /\ queue[k] = id
              /\ Unqueue(id) \in Seq(S)
              /\ Len(Unqueue(id)) = Len(queue) - 1
              /\ \A i \in 1 .. Len(queue) - 1 :
                   Unqueue(id)[i] = IF i < k THEN queue[i] ELSE queue[i + 1]
<1> DEFINE I == {i \in 1 .. Len(queue) : queue[i] = id}
           k == Min(I)
           before == SubSeq(queue, 1, k - 1)
           after == SubSeq(queue, k + 1, Len(queue))
<1>1. CASE \A i \in 1 .. Len(queue) : queue[i] # id
  BY <1>1 DEF Unqueue, RemoveFirst
<1>2. CASE \E i \in 1 .. Len(queue) : queue[i] = id
  <2>1. I # {} /\ I \in SUBSET Nat /\ Len(queue) \in Nat BY <1>2
  <2>2. k \in I
    <3>1. \E m \in I : \A j \in I : m <= j
      <4> HIDE DEF I
      <4> QED BY <2>1, LeastNat
    <3>2. QED BY <3>1 DEF Min
  <2>3. Unqueue(id) = before \o after
    BY <1>2, <2>1 DEF Unqueue, RemoveFirst, RemoveAt, SelectInSeq
  <2>4. k \in 1 .. Len(queue) /\ queue[k] = id BY <2>2
  <2>5. /\ before \in Seq(S) /\ Len(before) = k - 1
        /\ \A i \in 1 .. k - 1 : before[i] = queue[i]
    <3> HIDE DEF k
    <3> QED BY <2>4, SubSeqProperties
  <2>6. /\ after \in Seq(S) /\ Len(after) = Len(queue) - k
        /\ \A i \in 1 .. Len(queue) - k : after[i] = queue[k + i]
    <3> HIDE DEF k
    <3> QED BY <2>4, SubSeqProperties
  <2> HIDE DEF k, before, after
  <2>7. /\ before \o after \in Seq(S)
        /\ Len(before \o after) = Len(queue) - 1
        /\ \A i \in 1 .. Len(queue) - 1 :
             (before \o after)[i] = IF i < k THEN queue[i] ELSE queue[i + 1]
    <3>1. \A i \in 1 .. Len(queue) - 1 :
             (before \o after)[i] = IF i <= k - 1 THEN before[i] ELSE after[i - (k - 1)]
      BY <2>4, <2>5, <2>6, ConcatProperties
    <3>2. \A i \in 1 .. Len(queue) - 1 : i > k - 1 => after[i - (k - 1)] = queue[i + 1]
      <4>1. SUFFICES ASSUME NEW i \in 1 .. Len(queue) - 1, i > k - 1
                     PROVE  after[i - (k - 1)] = queue[i + 1]
        OBVIOUS
      <4>2. i - (k - 1) \in 1 .. Len(queue) - k /\ k + (i - (k - 1)) = i + 1
        BY <4>1, <2>4, <2>1
      <4>3. QED BY <4>2, <2>6
    <3>3. before \o after \in Seq(S) /\ Len(before \o after) = Len(before) + Len(after)
      BY <2>5, <2>6, ConcatProperties
    <3>4. Len(before \o after) = Len(queue) - 1 BY <3>3, <2>1, <2>4, <2>5, <2>6
    <3>5. QED BY <3>1, <3>2, <3>3, <3>4, <2>4, <2>5
  <2>8. QED BY <2>3, <2>4, <2>7
<1>3. QED BY <1>1, <1>2

LEMMA UnqueueTypes ==
  ASSUME NEW S, queue \in Seq(S), NEW id
  PROVE  Unqueue(id) \in Seq(S)
BY UnqueueCases

-----------------------------------------------------------------------------
(* Type correctness.                                                       *)

LEMMA TypeInvInit == Init => TypeInv
<1> SUFFICES ASSUME Init PROVE TypeInv OBVIOUS
<1> USE EventLoopAssumption DEF Init
<1>1. LoopTypes BY DEF LoopTypes
<1>2. IdTypes BY DEF IdTypes, Pool!PoolInit, Pool!PoolTypeOK, Pool!Ids
<1>3. CommandTypes BY DEF CommandTypes
<1>4. NotifTypes BY DEF NotifTypes
<1>5. WireTypes BY DEF WireTypes
<1>6. AnswerTypes BY FS_EmptySet DEF AnswerTypes
<1>7. QED BY <1>1, <1>2, <1>3, <1>4, <1>5, <1>6 DEF TypeInv

\* A component that a step leaves alone keeps its types.
LEMMA TypesUnchanged ==
  /\ LoopTypes /\ UNCHANGED loopVars => LoopTypes'
  /\ IdTypes /\ UNCHANGED idVars => IdTypes'
  /\ CommandTypes /\ UNCHANGED cmdVars => CommandTypes'
  /\ NotifTypes /\ UNCHANGED notifVars => NotifTypes'
  /\ WireTypes /\ UNCHANGED wireVars => WireTypes'
  /\ AnswerTypes /\ UNCHANGED brokerVars => AnswerTypes'
<1>1. LoopTypes /\ UNCHANGED loopVars => LoopTypes' BY DEF LoopTypes, loopVars
<1>2. IdTypes /\ UNCHANGED idVars => IdTypes'
  BY DEF IdTypes, idVars, Pool!PoolTypeOK
<1>3. CommandTypes /\ UNCHANGED cmdVars => CommandTypes' BY DEF CommandTypes, cmdVars
<1>4. NotifTypes /\ UNCHANGED notifVars => NotifTypes' BY DEF NotifTypes, notifVars
<1>5. WireTypes /\ UNCHANGED wireVars => WireTypes' BY DEF WireTypes, wireVars
<1>6. AnswerTypes /\ UNCHANGED brokerVars => AnswerTypes' BY DEF AnswerTypes, brokerVars
<1>7. QED BY <1>1, <1>2, <1>3, <1>4, <1>5, <1>6

LEMMA TypeInvStep ==
  ASSUME TypeInv, [Next]_vars
  PROVE  TypeInv'
<1> USE EventLoopAssumption
<1> USE DEF TypeInv
<1>1. CASE Connect
  <2>1. Pkt("connect", 0, 0) \in Outgoing BY OutgoingPkt DEF Encodable, Identified
  <2>2. LoopTypes' BY <1>1, <2>1, StartWriteTypes DEF Connect, LoopTypes
  <2>3. WireTypes' BY <1>1 DEF Connect, WireTypes
  <2>4. QED BY TypesUnchanged, <1>1, <2>2, <2>3 DEF Connect
<1>2. CASE ConnectFails
  <2>1. LoopTypes' BY <1>2 DEF ConnectFails, LoopTypes
  <2>2. QED BY TypesUnchanged, <1>2, <2>1 DEF ConnectFails
<1>3. CASE ReadConnack
  <2>1. LoopTypes' /\ NotifTypes' BY <1>3, NotifyTypes DEF ReadConnack, LoopTypes
  <2>2. WireTypes' BY <1>3 DEF ReadConnack, Read, WireTypes
  <2>3. QED BY TypesUnchanged, <1>3, <2>1, <2>2 DEF ReadConnack
<1>4. CASE Write
  <2>1. LoopTypes' BY <1>4 DEF Write, Written, LoopTypes
  <2>2. writing \in Outgoing BY <1>4 DEF Write, Written, LoopTypes, Encodable, NoPkt, Pkt
  <2>3. WireTypes' BY <1>4, <2>2 DEF Write, Written, WireTypes
  <2>4. QED BY TypesUnchanged, <1>4, <2>1, <2>3 DEF Write
<1>5. CASE WriteDisconnect
  <2>1. LoopTypes' BY <1>5 DEF WriteDisconnect, Finish, LoopTypes
  <2>2. CommandTypes' BY <1>5 DEF WriteDisconnect, Finish, Cmds!Close, CommandTypes
  <2>3. writing \in Outgoing
    BY <1>5 DEF WriteDisconnect, Written, LoopTypes, Encodable, NoPkt, Pkt
  <2>4. WireTypes' BY <1>5, <2>3 DEF WriteDisconnect, Written, Finish, WireTypes
  <2>5. QED BY TypesUnchanged, <1>5, <2>1, <2>2, <2>4 DEF WriteDisconnect, Finish
<1>6. CASE Notified
  <2>1. LoopTypes' BY <1>6 DEF Notified, LoopTypes
  <2>2. QED BY TypesUnchanged, <1>6, <2>1 DEF Notified
<1>7. CASE TickPing
  <2>1. Pkt("pingreq", 0, 0) \in Outgoing BY OutgoingPkt DEF Encodable, Identified
  <2>2. queue' \in Seq(Ids) /\ pings' \in 0 .. MaxPings BY <1>7 DEF TickPing, LoopTypes
  <2>3. LoopTypes' BY <1>7, <2>1, <2>2, StartWriteTypes DEF TickPing
  <2>4. QED BY TypesUnchanged, <1>7, <2>3 DEF TickPing
<1>8. CASE ReadPingResp
  <2>1. LoopTypes' BY <1>8 DEF ReadPingResp, LoopTypes
  <2>2. WireTypes' BY <1>8 DEF ReadPingResp, Read, WireTypes
  <2>3. QED BY TypesUnchanged, <1>8, <2>1, <2>2 DEF ReadPingResp
<1>9. CASE ReadAck
  <2>1. Head(toClient) \in Incoming /\ Head(toClient).type \in {"suback", "unsuback"}
    BY <1>9 DEF ReadAck, Read, WireTypes
  <2>2. Head(toClient).id \in Ids BY <2>1, IncomingFacts DEF Acks
  <2>3. IdTypes'
    BY <1>9, <2>2 DEF ReadAck, Pool!GiveId, IdTypes, Pool!PoolTypeOK, Pool!Ids, Ids
  <2>4. pc # "writing" /\ queue' \in Seq(Ids) BY <1>9 DEF ReadAck, LoopTypes
  <2>5. LoopTypes' /\ NotifTypes'
    BY <1>9, <2>1, <2>4, NotifyTypes DEF ReadAck
  <2>6. WireTypes' BY <1>9 DEF ReadAck, Read, WireTypes
  <2>7. QED BY TypesUnchanged, <1>9, <2>3, <2>5, <2>6 DEF ReadAck
<1>10. CASE ReadPubAck
  <2>1. Head(toClient) \in Incoming /\ Head(toClient).type = "puback"
    BY <1>10 DEF ReadPubAck, Read, WireTypes
  <2>2. Head(toClient).id \in Ids BY <2>1, IncomingFacts DEF Acks
  <2>3. IdTypes'
    BY <1>10, <2>2 DEF ReadPubAck, Pool!GiveId, IdTypes, Pool!PoolTypeOK, Pool!Ids, Ids
  <2>4. queue' \in Seq(Ids)
    BY <1>10, UnqueueTypes DEF ReadPubAck, LoopTypes
  <2>5. LoopTypes' BY <1>10, <2>4 DEF ReadPubAck, LoopTypes
  <2>6. WireTypes' BY <1>10 DEF ReadPubAck, Read, WireTypes
  <2>7. QED BY TypesUnchanged, <1>10, <2>3, <2>5, <2>6 DEF ReadPubAck
<1>11. CASE ReadMessage
  <2>1. Head(toClient) \in Incoming BY <1>11 DEF ReadMessage, Read, WireTypes
  <2>2. Head(toClient).n \in Nat BY <2>1, IncomingFacts
  <2>3. pc # "writing" /\ queue' \in Seq(Ids) BY <1>11 DEF ReadMessage, LoopTypes
  <2>4. LoopTypes' /\ NotifTypes'
    BY <1>11, <2>2, <2>3, NotifyTypes DEF ReadMessage
  <2>5. WireTypes' BY <1>11 DEF ReadMessage, Read, WireTypes
  <2>6. QED BY TypesUnchanged, <1>11, <2>4, <2>5 DEF ReadMessage
<1>12. CASE ReadPublish1
  <2>1. queue' \in Seq(Ids) /\ pings' \in 0 .. MaxPings
    BY <1>12 DEF ReadPublish1, LoopTypes
  <2>2. LoopTypes' BY <1>12, <2>1, StartWriteTypes DEF ReadPublish1
  <2>3. WireTypes' BY <1>12 DEF ReadPublish1, Read, WireTypes
  <2>4. QED BY TypesUnchanged, <1>12, <2>2, <2>3 DEF ReadPublish1
<1>13. CASE CmdPlain
  <2>1. Head(cmds) \in Command /\ CommandTypes'
    BY <1>13 DEF CmdPlain, Cmds!Receive, CommandTypes
  <2>2. Pkt(Head(cmds).type, 0, Head(cmds).n) \in Outgoing
    BY <1>13, <2>1, CommandFacts, OutgoingPkt DEF CmdPlain
  <2>3. queue' \in Seq(Ids) /\ pings' \in 0 .. MaxPings
    BY <1>13 DEF CmdPlain, LoopTypes
  <2>4. LoopTypes' BY <1>13, <2>2, <2>3, StartWriteTypes DEF CmdPlain
  <2>5. QED BY TypesUnchanged, <1>13, <2>1, <2>4 DEF CmdPlain
<1>14. CASE CmdIdentified
  <2>1. Head(cmds) \in Command /\ CommandTypes'
    BY <1>14 DEF CmdIdentified, Cmds!Receive, CommandTypes
  <2>2. out' \in free /\ free' = free \ {out'}
    BY <1>14, GrantFacts DEF CmdIdentified, IdTypes, Pool!PoolTypeOK
  <2>3. out' \in Ids /\ IdTypes'
    BY <2>2 DEF IdTypes, Pool!PoolTypeOK, Pool!Ids, Ids
  <2>4. Pkt(Head(cmds).type, out', Head(cmds).n) \in Outgoing
    BY <1>14, <2>1, <2>3, CommandFacts, OutgoingPkt DEF CmdIdentified
  <2>5. queue' \in Seq(Ids) /\ pings' \in 0 .. MaxPings
    BY <1>14, <2>3 DEF CmdIdentified, LoopTypes
  <2>6. LoopTypes' BY <1>14, <2>4, <2>5, StartWriteTypes DEF CmdIdentified
  <2>7. QED BY TypesUnchanged, <1>14, <2>1, <2>3, <2>6 DEF CmdIdentified
<1>15. CASE Ends
  <2>1. LoopTypes' BY <1>15 DEF Ends, Finish, LoopTypes
  <2>2. CommandTypes' BY <1>15 DEF Ends, Finish, Cmds!Close, CommandTypes
  <2>3. WireTypes' BY <1>15 DEF Ends, Finish, WireTypes
  <2>4. QED BY TypesUnchanged, <1>15, <2>1, <2>2, <2>3 DEF Ends, Finish
<1>16. CASE \E c \in Clients : DropClient(c)
  <2>1. CommandTypes' BY <1>16 DEF DropClient, CommandTypes
  <2>2. QED BY TypesUnchanged, <1>16, <2>1 DEF DropClient
<1>17. CASE \E c \in Clients, t \in CmdTypes : TrySend(c, t)
  <2>1. PICK c \in Clients, t \in CmdTypes : TrySend(c, t) BY <1>17
  <2>2. [type |-> t, n |-> accepted + 1] \in Command /\ accepted' \in 0 .. MaxCmds
    BY <2>1 DEF TrySend, Command, CommandTypes
  <2>3. cmds' \in Seq(Command)
    BY <2>1, <2>2 DEF TrySend, Cmds!Send, CommandTypes
  <2>4. cmdsParked' \in Seq(Clients)
    BY <2>1 DEF TrySend, Cmds!Send, CommandTypes
  <2>5. CommandTypes' BY <2>1, <2>2, <2>3, <2>4 DEF TrySend, CommandTypes
  <2>6. QED BY TypesUnchanged, <2>1, <2>5 DEF TrySend
<1>18. CASE UserReceives
  <2>1. Head(notifs) \in Notification
    BY <1>18 DEF UserReceives, Notifs!Receive, NotifTypes
  <2>2. received' \in Nat BY <1>18, <2>1 DEF UserReceives, NotifTypes, Notification
  <2>3. NotifTypes' BY <1>18, <2>2 DEF UserReceives, Notifs!Receive, NotifTypes
  <2>4. QED BY TypesUnchanged, <1>18, <2>3 DEF UserReceives
<1>19. CASE DropUser
  <2>1. notifs' \in Seq(Notification) /\ notifsParked' \in Seq({"loop"})
    BY <1>19 DEF DropUser, Notifs!Close
  <2>2. user' \in BOOLEAN /\ received' \in Nat BY <1>19 DEF DropUser, NotifTypes
  <2>3. NotifTypes' BY <2>1, <2>2 DEF NotifTypes
  <2>4. QED BY TypesUnchanged, <1>19, <2>3 DEF DropUser
<1>20. CASE BrokerReceives
  <2>1. Head(toBroker) \in Outgoing BY <1>20 DEF BrokerReceives, WireTypes
  <2>2. WireTypes' BY <1>20 DEF BrokerReceives, WireTypes
  <2>3. owed' \subseteq Answer /\ IsFiniteSet(owed')
    <3>1. owed' = owed \cup Answers(Head(toBroker)) BY <1>20 DEF BrokerReceives
    <3>2. owed' = owed \/ \E a \in Answer : owed' = owed \cup {a}
      BY <2>1, <3>1, AnswersFacts
    <3>3. QED BY <3>2, FS_AddElement DEF AnswerTypes
  <2>4. got' \in 0 .. MaxCmds
    BY <1>20, <2>1, OutgoingFacts DEF BrokerReceives, AnswerTypes
  <2>5. AnswerTypes' BY <1>20, <2>3, <2>4 DEF BrokerReceives, AnswerTypes
  <2>6. QED BY TypesUnchanged, <1>20, <2>2, <2>5 DEF BrokerReceives
<1>21. CASE BrokerGreets
  <2>1. \A t \in {"connack", "refused"} : Pkt(t, 0, 0) \in Incoming
    BY IncomingPkt DEF Unasked
  <2>2. WireTypes'
    <3>1. PICK p \in Incoming : toClient' = Append(toClient, p)
      BY <1>21, <2>1 DEF BrokerGreets
    <3>2. QED BY <1>21, <3>1 DEF BrokerGreets, CanSend, WireTypes
  <2>3. AnswerTypes' BY <1>21 DEF BrokerGreets, AnswerTypes
  <2>4. QED BY TypesUnchanged, <1>21, <2>2, <2>3 DEF BrokerGreets
<1>22. CASE BrokerCloses
  <2>1. WireTypes' BY <1>22 DEF BrokerCloses, WireTypes
  <2>2. AnswerTypes' BY <1>22 DEF BrokerCloses, AnswerTypes
  <2>3. QED BY TypesUnchanged, <1>22, <2>1, <2>2 DEF BrokerCloses
<1>23. CASE \E p \in owed : BrokerAnswers(p)
  <2>1. PICK p \in owed : BrokerAnswers(p) BY <1>23
  <2>2. p \in Incoming BY IncomingPkt DEF AnswerTypes
  <2>3. WireTypes' BY <2>1, <2>2 DEF BrokerAnswers, CanSend, WireTypes
  <2>4. AnswerTypes' BY <2>1, FS_RemoveElement DEF BrokerAnswers, AnswerTypes
  <2>5. QED BY TypesUnchanged, <2>1, <2>3, <2>4 DEF BrokerAnswers
<1>24. CASE \E t \in BrokerTypes \cup {"publish0", "connack"} : BrokerSends(t)
  <2>1. PICK t \in BrokerTypes \cup {"publish0", "connack"} : BrokerSends(t) BY <1>24
  <2>2. t \in Unasked BY DEF Unasked, AllBrokerTypes
  <2>3. sent + 1 \in 0 .. MaxDeliveries BY <2>1 DEF BrokerSends, AnswerTypes
  <2>4. Pkt(t, 0, sent + 1) \in Incoming BY <2>2, <2>3, IncomingPkt
  <2>5. WireTypes' BY <2>1, <2>4 DEF BrokerSends, CanSend, WireTypes
  <2>6. AnswerTypes' BY <2>1, <2>3 DEF BrokerSends, AnswerTypes
  <2>7. QED BY TypesUnchanged, <2>1, <2>5, <2>6 DEF BrokerSends
<1>25. CASE \E t \in {"disconnect", "disconnecterr"} : BrokerDisconnects(t)
  <2>1. PICK t \in {"disconnect", "disconnecterr"} : BrokerDisconnects(t) BY <1>25
  <2>2. Pkt(t, 0, 0) \in Incoming BY IncomingPkt DEF Unasked
  <2>3. WireTypes' BY <2>1, <2>2 DEF BrokerDisconnects, CanSend, WireTypes
  <2>4. AnswerTypes' BY <2>1 DEF BrokerDisconnects, AnswerTypes
  <2>5. QED BY TypesUnchanged, <2>1, <2>3, <2>4 DEF BrokerDisconnects
<1>26. CASE \E k \in 0 .. Len(toClient) : Reset(k)
  <2>1. PICK k \in 0 .. Len(toClient) : Reset(k) BY <1>26
  <2>2. SubSeq(toClient, 1, k) \in Seq(Incoming) /\ Len(SubSeq(toClient, 1, k)) = k
    BY SubSeqProperties DEF WireTypes
  <2>3. WireTypes' BY <2>1, <2>2 DEF Reset, WireTypes
  <2>4. AnswerTypes' BY <2>1 DEF Reset, AnswerTypes
  <2>5. QED BY TypesUnchanged, <2>1, <2>3, <2>4 DEF Reset
<1>27. CASE UNCHANGED vars BY TypesUnchanged, <1>27 DEF vars
<1>28. QED
  BY <1>1, <1>2, <1>3, <1>4, <1>5, <1>6, <1>7, <1>8, <1>9, <1>10, <1>11, <1>12,
     <1>13, <1>14, <1>15, <1>16, <1>17, <1>18, <1>19, <1>20, <1>21, <1>22, <1>23,
     <1>24, <1>25, <1>26, <1>27, StepCases

\* The parts of the invariant say what TypeOK says.
LEMMA TypeInvImplies == TypeInv => TypeOK
<1> SUFFICES ASSUME TypeInv PROVE TypeOK OBVIOUS
<1> USE EventLoopAssumption DEF TypeInv
<1>1. \A p \in Outgoing \cup Incoming \cup Answer : p \in Packet
  BY DEF Outgoing, Incoming, Answer
<1>2. NoPkt \in Packet /\ Pkt("puback", 0, 0) \in Packet
  BY DEF NoPkt, Pkt, Packet
<1>3. toBroker \in Seq(Packet) /\ toClient \in Seq(Packet)
  BY <1>1 DEF WireTypes
<1>4. cmds \in Seq([type : CmdTypes, n : Nat])
  <2>1. Command \subseteq [type : CmdTypes, n : Nat] BY DEF Command
  <2>2. QED BY <2>1, SeqMonotonic DEF CommandTypes
<1>5. QED
  BY <1>1, <1>2, <1>3, <1>4
  DEF TypeOK, LoopTypes, IdTypes, CommandTypes, NotifTypes, Notification, WireTypes,
      AnswerTypes

LEMMA PacketsWellFormed == Spec => []TypeInv
<1>1. Init => TypeInv BY TypeInvInit
<1>2. TypeInv /\ [Next]_vars => TypeInv' BY TypeInvStep
<1>3. QED BY <1>1, <1>2, PTL DEF Spec

\* The state of the event loop, of its channels and of the connection keeps its
\* types: no packet is malformed, no identifier out of range is taken or
\* returned, and the connection never exceeds its capacity.
THEOREM Types == Spec => []TypeOK
BY PacketsWellFormed, TypeInvImplies, PTL

-----------------------------------------------------------------------------
(* A channel has as many parked senders as messages beyond its buffer.     *)

Slots(q, w, buffer) == Len(w) = IF Len(q) > buffer THEN Len(q) - buffer ELSE 0

LEMMA SlotsSend ==
  ASSUME NEW M, NEW q \in Seq(M), NEW m \in M, NEW S, NEW w \in Seq(S), NEW s \in S,
         NEW b \in Nat, Slots(q, w, b)
  PROVE  Slots(Append(q, m), IF Len(q) >= b THEN Append(w, s) ELSE w, b)
<1>1. Len(Append(q, m)) = Len(q) + 1 /\ Len(Append(w, s)) = Len(w) + 1
      /\ Len(q) \in Nat /\ Len(w) \in Nat
  OBVIOUS
<1>2. QED BY <1>1 DEF Slots

LEMMA SlotsReceive ==
  ASSUME NEW M, NEW q \in Seq(M), q # <<>>, NEW S, NEW w \in Seq(S),
         NEW b \in Nat, Slots(q, w, b)
  PROVE  Slots(Tail(q), IF w = <<>> THEN <<>> ELSE Tail(w), b)
<1>1. Len(Tail(q)) = Len(q) - 1 /\ Len(q) \in Nat /\ Len(q) > 0 /\ Len(w) \in Nat
  BY EmptySeq
<1> DEFINE u == IF w = <<>> THEN <<>> ELSE Tail(w)
           n == Len(q)
           k == Len(w)
<1>2. Len(u) = IF Len(w) = 0 THEN 0 ELSE Len(w) - 1
  <2>1. CASE w = <<>> BY <2>1
  <2>2. CASE w # <<>> BY <2>2, EmptySeq
  <2>3. QED BY <2>1, <2>2
<1>3. /\ n \in Nat /\ n > 0 /\ k \in Nat
      /\ k = IF n > b THEN n - b ELSE 0
  BY <1>1 DEF Slots
<1>4. Len(Tail(q)) = n - 1 /\ Len(u) = IF k = 0 THEN 0 ELSE k - 1
  BY <1>1, <1>2
<1> HIDE DEF n, k, u
<1>5. (IF k = 0 THEN 0 ELSE k - 1) = IF n - 1 > b THEN (n - 1) - b ELSE 0
  BY <1>3
<1>6. Slots(Tail(q), u, b) BY <1>4, <1>5 DEF Slots
<1>7. QED BY <1>6 DEF u

LEMMA SlotsClosed == ASSUME NEW b \in Nat PROVE Slots(<<>>, <<>>, b)
BY DEF Slots

\* A sequence without repetitions is no longer than the set it is drawn from.
LEMMA InjectiveLen ==
  ASSUME NEW S, IsFiniteSet(S), NEW w \in Seq(S), IsInjective(w)
  PROVE  Len(w) <= Cardinality(S)
<1>1. Len(w) \in Nat /\ w \in [1 .. Len(w) -> S] BY LenProperties
<1>2. w \in Injection(1 .. Len(w), S) BY <1>1 DEF Injection, IsInjective
<1>3. Cardinality(1 .. Len(w)) = Len(w) BY <1>1, FS_Interval
<1>4. QED BY <1>2, <1>3, FS_Injection

-----------------------------------------------------------------------------
(* What the steps do to the channels.                                      *)

LEMMA CommandSteps ==
  ASSUME [Next]_vars
  PROVE  \/ UNCHANGED <<accepted, cmds, cmdsParked>>
         \/ \E c \in Clients, t \in CmdTypes : TrySend(c, t)
         \/ Cmds!Receive /\ UNCHANGED accepted
         \/ Cmds!Close /\ UNCHANGED accepted
<1> USE DEF cmdVars
<1>1. CASE Connect \/ ConnectFails \/ ReadConnack \/ Write \/ Notified
  BY <1>1 DEF Connect, ConnectFails, ReadConnack, Write, Notified
<1>2. CASE TickPing \/ ReadPingResp \/ ReadAck \/ ReadPubAck \/ ReadMessage \/ ReadPublish1
  BY <1>2 DEF TickPing, ReadPingResp, ReadAck, ReadPubAck, ReadMessage, ReadPublish1
<1>3. CASE CmdPlain \/ CmdIdentified BY <1>3 DEF CmdPlain, CmdIdentified
<1>4. CASE WriteDisconnect \/ Ends BY <1>4 DEF WriteDisconnect, Ends, Finish
<1>5. CASE UserReceives \/ DropUser \/ \E c \in Clients : DropClient(c)
  BY <1>5 DEF UserReceives, DropUser, DropClient
<1>6. CASE \/ BrokerReceives \/ BrokerGreets \/ BrokerCloses
           \/ \E p \in owed : BrokerAnswers(p)
           \/ \E t \in BrokerTypes \cup {"publish0", "connack"} : BrokerSends(t)
           \/ \E t \in {"disconnect", "disconnecterr"} : BrokerDisconnects(t)
           \/ \E k \in 0 .. Len(toClient) : Reset(k)
  BY <1>6 DEF BrokerReceives, BrokerGreets, BrokerCloses, BrokerAnswers, BrokerSends,
              BrokerDisconnects, Reset
<1>7. CASE UNCHANGED vars BY <1>7 DEF vars
<1>8. QED BY <1>1, <1>2, <1>3, <1>4, <1>5, <1>6, <1>7, StepCases

\* The loop sends to its user from the handshake or the select!, and waits
\* until it is no longer parked.
LEMMA NotifSteps ==
  ASSUME [Next]_vars
  PROVE  \/ UNCHANGED notifVars /\ (pc = "notifying" => pc' = pc \/ notifsParked = <<>>)
         \/ /\ pc \in {"handshake", "select"}
            /\ \E t \in {"connack", "suback", "unsuback", "message"} :
                 \/ Notify(t, 0)
                 \/ t = "message" /\ toClient # <<>> /\ Notify(t, Head(toClient).n)
         \/ UserReceives \/ DropUser
<1> USE DEF notifVars
<1>1. CASE Connect \/ ConnectFails \/ Write \/ Notified
  BY <1>1 DEF Connect, ConnectFails, Write, Written, Notified
<1>2. CASE TickPing \/ ReadPingResp \/ ReadPubAck \/ ReadPublish1
  BY <1>2 DEF TickPing, ReadPingResp, ReadPubAck, ReadPublish1
<1>3. CASE CmdPlain \/ CmdIdentified BY <1>3 DEF CmdPlain, CmdIdentified
<1>4. CASE WriteDisconnect \/ Ends
  BY <1>4 DEF WriteDisconnect, Written, Ends, Finish
<1>5. CASE UserReceives \/ DropUser \/ \E c \in Clients : DropClient(c)
  BY <1>5 DEF DropClient, loopVars
<1>6. CASE \/ BrokerReceives \/ BrokerGreets \/ BrokerCloses
           \/ \E p \in owed : BrokerAnswers(p)
           \/ \E t \in BrokerTypes \cup {"publish0", "connack"} : BrokerSends(t)
           \/ \E t \in {"disconnect", "disconnecterr"} : BrokerDisconnects(t)
           \/ \E k \in 0 .. Len(toClient) : Reset(k)
  BY <1>6 DEF BrokerReceives, BrokerGreets, BrokerCloses, BrokerAnswers, BrokerSends,
              BrokerDisconnects, Reset, loopVars
<1>7. CASE UNCHANGED vars BY <1>7 DEF vars, loopVars
<1>8. CASE \E c \in Clients, t \in CmdTypes : TrySend(c, t) BY <1>8 DEF TrySend, loopVars
<1>9. CASE ReadConnack BY <1>9 DEF ReadConnack
<1>10. CASE ReadAck BY <1>10 DEF ReadAck, Read
<1>11. CASE ReadMessage BY <1>11 DEF ReadMessage, Read
<1>12. QED
  BY <1>1, <1>2, <1>3, <1>4, <1>5, <1>6, <1>7, <1>8, <1>9, <1>10, <1>11, StepCases

-----------------------------------------------------------------------------
(* Backpressure.                                                           *)

\* Each parked Client has one command beyond the buffer.
CmdSlots == Slots(cmds, cmdsParked, CmdBuffer) /\ IsInjective(cmdsParked)

\* The loop is the only sender of notifications, and does nothing while parked.
NotifSlots ==
  /\ Slots(notifs, notifsParked, NotifBuffer)
  /\ Len(notifsParked) <= 1
  /\ notifsParked # <<>> => pc = "notifying"

ChannelInv == CmdSlots /\ NotifSlots

LEMMA ChannelInvInit == Init => ChannelInv
BY EventLoopAssumption
DEF Init, ChannelInv, CmdSlots, NotifSlots, Slots, IsInjective

LEMMA CmdSlotsStep ==
  ASSUME TypeInv, CmdSlots, [Next]_vars
  PROVE  CmdSlots'
<1> USE EventLoopAssumption DEF TypeInv, CommandTypes, CmdSlots
<1>1. CASE UNCHANGED <<accepted, cmds, cmdsParked>> BY <1>1 DEF Slots, IsInjective
<1>2. CASE \E c \in Clients, t \in CmdTypes : TrySend(c, t)
  <2>1. PICK c \in Clients, t \in CmdTypes : TrySend(c, t) BY <1>2
  <2> DEFINE m == [type |-> t, n |-> accepted + 1]
  <2>2. m \in Command BY <2>1 DEF TrySend, Command
  <2>3. /\ cmds' = Append(cmds, m)
        /\ cmdsParked' = IF Len(cmds) >= CmdBuffer THEN Append(cmdsParked, c) ELSE cmdsParked
        /\ \A i \in DOMAIN cmdsParked : cmdsParked[i] # c
    BY <2>1 DEF TrySend, Cmds!Send, Cmds!Parked
  <2>4. Slots(cmds', cmdsParked', CmdBuffer)
    <3> HIDE DEF m
    <3> QED BY <2>2, <2>3, SlotsSend
  <2>5. IsInjective(Append(cmdsParked, c)) BY <2>3 DEF IsInjective
  <2>6. QED BY <2>3, <2>4, <2>5
<1>3. CASE Cmds!Receive
  <2>1. Slots(cmds', cmdsParked', CmdBuffer) BY <1>3, SlotsReceive DEF Cmds!Receive
  <2>2. cmdsParked # <<>> => IsInjective(Tail(cmdsParked)) BY DEF IsInjective
  <2>3. IsInjective(cmdsParked')
    BY <1>3, <2>2 DEF Cmds!Receive, IsInjective
  <2>4. QED BY <2>1, <2>3
<1>4. CASE Cmds!Close
  BY <1>4, SlotsClosed DEF Cmds!Close, IsInjective
<1>5. QED BY <1>1, <1>2, <1>3, <1>4, CommandSteps

LEMMA NotifSlotsStep ==
  ASSUME TypeInv, NotifSlots, [Next]_vars
  PROVE  NotifSlots'
<1> USE EventLoopAssumption DEF TypeInv, NotifTypes, NotifSlots
<1>1. CASE UNCHANGED notifVars /\ (pc = "notifying" => pc' = pc \/ notifsParked = <<>>)
  BY <1>1 DEF notifVars, Slots
<1>2. ASSUME pc \in {"handshake", "select"},
             NEW t \in {"connack", "suback", "unsuback", "message"}, NEW n \in Nat,
             Notify(t, n)
      PROVE  NotifSlots'
  <2> DEFINE m == [type |-> t, n |-> n]
  <2>1. m \in Notification BY DEF Notification
  <2>2. notifsParked = <<>> BY <1>2
  <2> HIDE DEF m
  <2>3. CASE user
    <3>1. /\ notifs' = Append(notifs, m)
          /\ notifsParked' = IF Len(notifs) >= NotifBuffer
                             THEN Append(notifsParked, "loop") ELSE notifsParked
      BY <1>2, <2>3 DEF Notify, Notifs!Send, m
    <3>2. Slots(notifs', notifsParked', NotifBuffer) BY <2>1, <3>1, SlotsSend
    <3>3. Len(notifsParked') <= 1 BY <2>2, <3>1
    <3>4. QED BY <1>2, <3>2, <3>3 DEF Notify
  <2>4. CASE ~user
    <3>1. UNCHANGED <<notifs, notifsParked>> BY <1>2, <2>4 DEF Notify
    <3>2. QED BY <2>2, <3>1 DEF Slots
  <2>5. QED BY <2>3, <2>4
<1>3. toClient # <<>> => Head(toClient).n \in Nat
  BY IncomingFacts DEF WireTypes
<1>4. CASE UserReceives
  <2>1. Slots(notifs', notifsParked', NotifBuffer)
    BY <1>4, SlotsReceive DEF UserReceives, Notifs!Receive
  <2>2. Len(notifsParked') <= 1 /\ (notifsParked' # <<>> => notifsParked # <<>>)
    BY <1>4 DEF UserReceives, Notifs!Receive
  <2>3. QED BY <1>4, <2>1, <2>2 DEF UserReceives, loopVars
<1>5. CASE DropUser
  BY <1>5, SlotsClosed DEF DropUser, Notifs!Close
<1>6. QED BY <1>1, <1>2, <1>3, <1>4, <1>5, NotifSteps

LEMMA ChannelInvHolds == Spec => []ChannelInv
<1>1. TypeInv /\ ChannelInv /\ [Next]_vars => ChannelInv'
  BY CmdSlotsStep, NotifSlotsStep DEF ChannelInv
<1>2. QED BY <1>1, ChannelInvInit, PacketsWellFormed, PTL DEF Spec

LEMMA ChannelInvImplies == TypeInv /\ ChannelInv => Backpressure
<1> SUFFICES ASSUME TypeInv, ChannelInv PROVE Backpressure OBVIOUS
<1> USE EventLoopAssumption
        DEF TypeInv, CommandTypes, NotifTypes, ChannelInv, CmdSlots, NotifSlots
<1>1. Len(cmds) \in Nat /\ Len(cmdsParked) \in Nat /\ Len(notifs) \in Nat
      /\ Len(notifsParked) \in Nat /\ Cardinality(Clients) \in Nat
  BY FS_CardinalityType
<1>2. \A c \in Clients : Cmds!Parked(c) => Len(cmds) > CmdBuffer
  <2>1. cmdsParked # <<>> => Len(cmdsParked) > 0 BY EmptySeq
  <2>2. QED BY <1>1, <2>1 DEF Slots, Cmds!Parked
<1>3. Len(cmds) <= CmdBuffer + Cardinality(Clients)
  <2>1. Len(cmdsParked) <= Cardinality(Clients) BY InjectiveLen
  <2>2. QED BY <1>1, <2>1 DEF Slots
<1>4. Len(notifs) <= NotifBuffer + 1 BY <1>1 DEF Slots
<1>5. notifsParked = <<>> => Len(notifs) <= NotifBuffer
  BY <1>1 DEF Slots
<1>6. QED BY <1>2, <1>3, <1>4, <1>5 DEF Backpressure

\* A Client that finds the channel full is right, the channel exceeds its
\* buffer by at most one command of each Client, and a slow user holds up the
\* loop before it exceeds the other by more than one notification.
THEOREM SlowUserHoldsUpLoop == Spec => []Backpressure
BY PacketsWellFormed, ChannelInvHolds, ChannelInvImplies, PTL

-----------------------------------------------------------------------------
(* The end of the loop.                                                    *)

LEMMA OutcomeSteps ==
  ASSUME [Next]_vars
  PROVE  \/ UNCHANGED <<pc, outcome>>
         \/ /\ UNCHANGED outcome
            /\ pc \notin {"failed", "done"} /\ pc' \notin {"failed", "done"}
         \/ pc = "connecting" /\ pc' = "failed" /\ outcome' = "err"
         \/ WriteDisconnect \/ Ends
<1> USE DEF loopVars, StartWrite, Notify
<1>1. CASE Connect \/ ConnectFails \/ ReadConnack \/ Write \/ Notified
  BY <1>1 DEF Connect, ConnectFails, ReadConnack, Write, Written, Notified
<1>2. CASE TickPing \/ ReadPingResp \/ ReadAck \/ ReadPubAck \/ ReadMessage \/ ReadPublish1
  BY <1>2 DEF TickPing, ReadPingResp, ReadAck, ReadPubAck, ReadMessage, ReadPublish1
<1>3. CASE CmdPlain \/ CmdIdentified BY <1>3 DEF CmdPlain, CmdIdentified
<1>4. CASE WriteDisconnect \/ Ends BY <1>4
<1>5. CASE \/ UserReceives \/ DropUser \/ \E c \in Clients : DropClient(c)
           \/ \E c \in Clients, t \in CmdTypes : TrySend(c, t)
  BY <1>5 DEF UserReceives, DropUser, DropClient, TrySend
<1>6. CASE \/ BrokerReceives \/ BrokerGreets \/ BrokerCloses
           \/ \E p \in owed : BrokerAnswers(p)
           \/ \E t \in BrokerTypes \cup {"publish0", "connack"} : BrokerSends(t)
           \/ \E t \in {"disconnect", "disconnecterr"} : BrokerDisconnects(t)
           \/ \E k \in 0 .. Len(toClient) : Reset(k)
  BY <1>6 DEF BrokerReceives, BrokerGreets, BrokerCloses, BrokerAnswers, BrokerSends,
              BrokerDisconnects, Reset
<1>7. CASE UNCHANGED vars BY <1>7 DEF vars
<1>8. QED BY <1>1, <1>2, <1>3, <1>4, <1>5, <1>6, <1>7, StepCases

LEMMA UplinkSteps ==
  ASSUME [Next]_vars
  PROVE  \/ UNCHANGED toBroker
         \/ Write \/ WriteDisconnect
         \/ BrokerReceives
         \/ \E k \in 0 .. Len(toClient) : Reset(k)
<1> USE DEF wireVars
<1>1. CASE Connect \/ ConnectFails \/ ReadConnack \/ Notified \/ Ends
  BY <1>1 DEF Connect, ConnectFails, ReadConnack, Notified, Ends
<1>2. CASE TickPing \/ ReadPingResp \/ ReadAck \/ ReadPubAck \/ ReadMessage \/ ReadPublish1
  BY <1>2 DEF TickPing, ReadPingResp, ReadAck, ReadPubAck, ReadMessage, ReadPublish1
<1>3. CASE CmdPlain \/ CmdIdentified BY <1>3 DEF CmdPlain, CmdIdentified
<1>4. CASE \/ UserReceives \/ DropUser \/ \E c \in Clients : DropClient(c)
           \/ \E c \in Clients, t \in CmdTypes : TrySend(c, t)
  BY <1>4 DEF UserReceives, DropUser, DropClient, TrySend
<1>5. CASE \/ BrokerGreets \/ BrokerCloses
           \/ \E p \in owed : BrokerAnswers(p)
           \/ \E t \in BrokerTypes \cup {"publish0", "connack"} : BrokerSends(t)
           \/ \E t \in {"disconnect", "disconnecterr"} : BrokerDisconnects(t)
  BY <1>5 DEF BrokerGreets, BrokerCloses, BrokerAnswers, BrokerSends, BrokerDisconnects
<1>6. CASE UNCHANGED vars BY <1>6 DEF vars
<1>7. QED BY <1>1, <1>2, <1>3, <1>4, <1>5, <1>6, StepCases

\* The loop has resolved only when it is done, or has failed to connect.
Resolved ==
  /\ outcome = "running" <=> pc \notin {"failed", "done"}
  /\ outcome = "ok" => pc = "done"

LEMMA ResolvedStep ==
  ASSUME Resolved, [Next]_vars
  PROVE  Resolved'
<1>1. CASE WriteDisconnect BY <1>1 DEF WriteDisconnect, Finish, Resolved
<1>2. CASE Ends BY <1>2 DEF Ends, Finish, Resolved
<1>3. QED BY <1>1, <1>2, OutcomeSteps DEF Resolved

LEMMA DisconnectIsLastStep ==
  ASSUME TypeInv, Resolved, DisconnectIsLast, [Next]_vars
  PROVE  DisconnectIsLast'
<1> USE DEF TypeInv, WireTypes
<1>1. outcome = "ok" => pc = "done" /\ outcome' = "ok"
  <2>1. WriteDisconnect \/ Ends => pc # "done"
    BY DEF WriteDisconnect, Written, Ends
  <2>2. QED BY <2>1, OutcomeSteps DEF Resolved
<1>2. CASE UNCHANGED toBroker BY <1>1, <1>2 DEF DisconnectIsLast
<1>3. CASE Write \/ WriteDisconnect
  <2>1. pc = "writing" /\ toBroker' = Append(toBroker, writing)
    BY <1>3 DEF Write, WriteDisconnect, Written
  <2>2. writing.type = "disconnect" => outcome' = "ok"
    BY <1>3 DEF Write, WriteDisconnect, Finish
  <2>3. \A i \in DOMAIN toBroker : toBroker[i].type # "disconnect"
    BY <1>1, <2>1 DEF DisconnectIsLast
  <2>4. QED BY <2>1, <2>2, <2>3 DEF DisconnectIsLast
<1>4. CASE BrokerReceives
  <2>1. toBroker # <<>> /\ toBroker' = Tail(toBroker) BY <1>4 DEF BrokerReceives
  <2>2. /\ Len(toBroker') = Len(toBroker) - 1 /\ DOMAIN toBroker' = 1 .. Len(toBroker')
        /\ \A i \in DOMAIN toBroker' : toBroker'[i] = toBroker[i + 1] /\ i + 1 \in DOMAIN toBroker
    BY <2>1, HeadTailProperties
  <2>3. QED BY <1>1, <2>2 DEF DisconnectIsLast
<1>5. CASE \E k \in 0 .. Len(toClient) : Reset(k)
  BY <1>5 DEF Reset, DisconnectIsLast
<1>6. QED BY <1>2, <1>3, <1>4, <1>5, UplinkSteps

\* After a Disconnect the loop writes nothing, and its future resolves with Ok.
THEOREM NothingAfterDisconnect == Spec => []DisconnectIsLast
<1>1. Init => Resolved /\ DisconnectIsLast BY DEF Init, Resolved, DisconnectIsLast
<1>2. TypeInv /\ Resolved /\ DisconnectIsLast /\ [Next]_vars
        => Resolved' /\ DisconnectIsLast'
  BY ResolvedStep, DisconnectIsLastStep
<1>3. QED BY <1>1, <1>2, PacketsWellFormed, PTL DEF Spec

-----------------------------------------------------------------------------
(* Counting the packets of a kind.                                         *)

In(p, kind) == IF p \in kind THEN 1 ELSE 0

LEMMA HowManyFinite ==
  ASSUME NEW M, NEW s \in Seq(M), NEW kind
  PROVE  IsFiniteSet({i \in DOMAIN s : s[i] \in kind}) /\ HowMany(s, kind) \in Nat
<1>1. IsFiniteSet(DOMAIN s) BY LenProperties, FS_Interval
<1>2. IsFiniteSet({i \in DOMAIN s : s[i] \in kind}) BY <1>1, FS_Subset
<1>3. QED BY <1>2, FS_CardinalityType DEF HowMany

LEMMA HowManyEmpty == \A kind : HowMany(<<>>, kind) = 0
BY FS_EmptySet DEF HowMany

LEMMA HowManyAppend ==
  ASSUME NEW M, NEW s \in Seq(M), NEW p \in M, NEW kind
  PROVE  HowMany(Append(s, p), kind) = HowMany(s, kind) + In(p, kind)
<1> DEFINE I == {i \in DOMAIN s : s[i] \in kind}
           J == {i \in DOMAIN Append(s, p) : Append(s, p)[i] \in kind}
           n == Len(s) + 1
<1>1. IsFiniteSet(I) /\ Cardinality(I) \in Nat BY HowManyFinite DEF HowMany
<1>2. J = I \cup (IF p \in kind THEN {n} ELSE {}) /\ n \notin I
  <2>1. DOMAIN s = 1 .. Len(s) /\ DOMAIN Append(s, p) = 1 .. n /\ Len(s) \in Nat
    OBVIOUS
  <2>2. \A i \in 1 .. Len(s) : Append(s, p)[i] = s[i] OBVIOUS
  <2>3. Append(s, p)[n] = p OBVIOUS
  <2>4. QED BY <2>1, <2>2, <2>3
<1> HIDE DEF I, J, n
<1>3. Cardinality(J) = Cardinality(I) + In(p, kind)
  <2>1. CASE p \in kind BY <1>1, <1>2, <2>1, FS_AddElement DEF In
  <2>2. CASE p \notin kind
    <3>1. J = I BY <1>2, <2>2
    <3>2. QED BY <1>1, <2>2, <3>1 DEF In
  <2>3. QED BY <2>1, <2>2
<1>4. QED BY <1>3 DEF HowMany, I, J

LEMMA HowManyTail ==
  ASSUME NEW M, NEW s \in Seq(M), s # <<>>, NEW kind
  PROVE  HowMany(s, kind) = HowMany(Tail(s), kind) + In(Head(s), kind)
<1> DEFINE I == {i \in DOMAIN s : s[i] \in kind}
           J == {i \in DOMAIN Tail(s) : Tail(s)[i] \in kind}
           f == [i \in J |-> i + 1]
<1>1. /\ Tail(s) \in Seq(M) /\ Len(s) \in Nat /\ Len(s) > 0
      /\ Len(Tail(s)) = Len(s) - 1
      /\ DOMAIN s = 1 .. Len(s) /\ DOMAIN Tail(s) = 1 .. Len(s) - 1
      /\ \A i \in 1 .. Len(s) - 1 : Tail(s)[i] = s[i + 1]
      /\ Head(s) = s[1]
  BY EmptySeq, HeadTailProperties
<1>2. IsFiniteSet(I) /\ IsFiniteSet(J) /\ Cardinality(J) \in Nat
  BY <1>1, HowManyFinite DEF HowMany
<1>3. f \in Bijection(J, I \ {1})
  <2>1. \A i \in J : i \in Nat /\ i + 1 \in I \ {1} BY <1>1
  <2>2. \A k \in I \ {1} : k - 1 \in J /\ k = (k - 1) + 1 BY <1>1
  <2>3. \A i, j \in J : i + 1 = j + 1 => i = j BY <2>1
  <2> HIDE DEF I, J
  <2>4. f \in [J -> I \ {1}] BY <2>1
  <2>5. f \in Injection(J, I \ {1}) BY <2>3, <2>4 DEF Injection, IsInjective
  <2>6. f \in Surjection(J, I \ {1}) BY <2>2, <2>4 DEF Surjection
  <2>7. QED BY <2>5, <2>6 DEF Bijection
<1>4. 1 \in I <=> Head(s) \in kind BY <1>1
<1> HIDE DEF I, J, f
<1>5. Cardinality(I \ {1}) = Cardinality(J)
  BY <1>2, <1>3, FS_Bijection DEF ExistsBijection
<1>6. Cardinality(I) = Cardinality(J) + In(Head(s), kind)
  <2>1. Cardinality(I) \in Nat BY <1>2, FS_CardinalityType
  <2>2. Cardinality(I \ {1}) = IF 1 \in I THEN Cardinality(I) - 1 ELSE Cardinality(I)
    BY <1>2, FS_RemoveElement
  <2>3. QED BY <1>2, <1>4, <1>5, <2>1, <2>2 DEF In
<1>7. QED BY <1>6 DEF HowMany, I, J

LEMMA HowManyPrefix ==
  ASSUME NEW M, NEW s \in Seq(M), NEW k \in 0 .. Len(s), NEW kind
  PROVE  HowMany(SubSeq(s, 1, k), kind) <= HowMany(s, kind)
<1> DEFINE I == {i \in DOMAIN s : s[i] \in kind}
           J == {i \in DOMAIN SubSeq(s, 1, k) : SubSeq(s, 1, k)[i] \in kind}
<1>1. J \subseteq I
  <2>1. DOMAIN s = 1 .. Len(s) /\ DOMAIN SubSeq(s, 1, k) = 1 .. k OBVIOUS
  <2>2. \A i \in 1 .. k : SubSeq(s, 1, k)[i] = s[i] OBVIOUS
  <2>3. QED BY <2>1, <2>2
<1>2. IsFiniteSet(I) BY HowManyFinite
<1> HIDE DEF I, J
<1>3. Cardinality(J) <= Cardinality(I) BY <1>1, <1>2, FS_Subset
<1>4. QED BY <1>3 DEF HowMany, I, J

LEMMA HowManySubset ==
  ASSUME NEW M, NEW s \in Seq(M), NEW kind, NEW wider, kind \subseteq wider
  PROVE  HowMany(s, kind) <= HowMany(s, wider)
<1> DEFINE I == {i \in DOMAIN s : s[i] \in wider}
           J == {i \in DOMAIN s : s[i] \in kind}
<1>1. J \subseteq I OBVIOUS
<1>2. IsFiniteSet(I) BY HowManyFinite
<1> HIDE DEF I, J
<1>3. Cardinality(J) <= Cardinality(I) BY <1>1, <1>2, FS_Subset
<1>4. QED BY <1>3 DEF HowMany, I, J

LEMMA OwedFinite ==
  ASSUME TypeInv, NEW kind
  PROVE  IsFiniteSet(owed \cap kind) /\ Cardinality(owed \cap kind) \in Nat
BY FS_Subset, FS_CardinalityType DEF TypeInv, AnswerTypes

LEMMA TravellingNat ==
  ASSUME TypeInv, NEW kind
  PROVE  /\ HowMany(toBroker, kind) \in Nat
         /\ HowMany(toClient, kind) \in Nat
         /\ Cardinality(owed \cap kind) \in Nat
         /\ In(writing, kind) \in Nat
         /\ Travelling(kind) = HowMany(toBroker, kind) + HowMany(toClient, kind)
                                 + Cardinality(owed \cap kind) + In(writing, kind)
         /\ Travelling(kind) \in Nat
<1>1. HowMany(toBroker, kind) \in Nat BY HowManyFinite DEF TypeInv, WireTypes
<1>2. HowMany(toClient, kind) \in Nat BY HowManyFinite DEF TypeInv, WireTypes
<1>3. Cardinality(owed \cap kind) \in Nat BY OwedFinite
<1>4. QED BY <1>1, <1>2, <1>3 DEF Travelling, In

LEMMA TravellingNatNext ==
  ASSUME TypeInv', NEW kind
  PROVE  Travelling(kind)' \in Nat
<1>1. HowMany(toBroker', kind) \in Nat BY HowManyFinite DEF TypeInv, WireTypes
<1>2. HowMany(toClient', kind) \in Nat BY HowManyFinite DEF TypeInv, WireTypes
<1>3. Cardinality(owed' \cap kind) \in Nat
  BY FS_Subset, FS_CardinalityType DEF TypeInv, AnswerTypes
<1>4. QED BY <1>1, <1>2, <1>3 DEF Travelling

LEMMA TravellingSubset ==
  ASSUME TypeInv, NEW kind, NEW wider, kind \subseteq wider
  PROVE  Travelling(kind) <= Travelling(wider)
<1>1. HowMany(toBroker, kind) <= HowMany(toBroker, wider)
  BY HowManySubset DEF TypeInv, WireTypes
<1>2. HowMany(toClient, kind) <= HowMany(toClient, wider)
  BY HowManySubset DEF TypeInv, WireTypes
<1>3. Cardinality(owed \cap kind) <= Cardinality(owed \cap wider)
  <2>1. owed \cap kind \subseteq owed \cap wider OBVIOUS
  <2>2. QED BY <2>1, OwedFinite, FS_Subset
<1>4. In(writing, kind) <= In(writing, wider) BY DEF In
<1>5. QED BY <1>1, <1>2, <1>3, <1>4, TravellingNat

-----------------------------------------------------------------------------
(* How a step changes the number of packets of a kind.                     *)

\* Packets of such a kind come from a request of the loop and from its answer:
\* as one arrives the other leaves.
Conserved(kind) ==
  /\ \A p \in Packet : p.id = 0 /\ p.type \notin {"pingreq", "pingresp"} => p \notin kind
  /\ \A p \in Outgoing, a \in Answer : Answers(p) = {a} => (a \in kind <=> p \in kind)

LEMMA ConservedFacts ==
  ASSUME NEW kind, Conserved(kind)
  PROVE  /\ NoPkt \notin kind /\ Pkt("puback", 0, 0) \notin kind
         /\ \A t \in Unasked, n \in Nat : Pkt(t, 0, n) \notin kind
         /\ \A t \in Encodable \ (Identified \cup {"pingreq"}), n \in Nat : Pkt(t, 0, n) \notin kind
<1>1. NoPkt \in Packet /\ Pkt("puback", 0, 0) \in Packet
  BY EventLoopAssumption DEF NoPkt, Pkt, Packet
<1>2. \A t \in Unasked \cup Encodable, n \in Nat : Pkt(t, 0, n) \in Packet
  BY EventLoopAssumption DEF Unasked, Encodable, Pkt, Packet
<1>3. \A t, n : Pkt(t, 0, n).id = 0 /\ Pkt(t, 0, n).type = t BY DEF Pkt
<1>4. NoPkt.id = 0 /\ NoPkt.type = "none" BY DEF NoPkt, Pkt
<1>5. \A p \in Packet : p.id = 0 /\ p.type \notin {"pingreq", "pingresp"} => p \notin kind
  BY DEF Conserved
<1>6. NoPkt \notin kind /\ Pkt("puback", 0, 0) \notin kind
  BY <1>1, <1>3, <1>4, <1>5
<1>7. ASSUME NEW t \in Unasked \cup (Encodable \ (Identified \cup {"pingreq"})), NEW n \in Nat
      PROVE  Pkt(t, 0, n) \notin kind
  <2>1. t \notin {"pingreq", "pingresp"} BY DEF Unasked, Encodable
  <2>2. QED BY <1>2, <1>3, <1>5, <2>1
<1>8. QED BY <1>6, <1>7

\* The loop starts to write a packet, having read one or not.
LEMMA FlowStart ==
  ASSUME TypeInv, TypeInv', NEW kind, writing = NoPkt, NoPkt \notin kind,
         UNCHANGED <<toBroker, toClient, owed>>
  PROVE  Travelling(kind)' = Travelling(kind) + In(writing', kind)
<1>1. In(writing, kind) = 0 BY DEF In
<1>2. Travelling(kind)' = HowMany(toBroker, kind) + HowMany(toClient, kind)
                           + Cardinality(owed \cap kind) + In(writing', kind)
  BY DEF Travelling, In
<1>3. QED BY <1>1, <1>2, TravellingNat DEF In

LEMMA FlowRead ==
  ASSUME TypeInv, NEW kind, In(writing', kind) = In(writing, kind),
         toClient # <<>>, toClient' = Tail(toClient), UNCHANGED <<toBroker, owed>>
  PROVE  /\ Travelling(kind) = Travelling(kind)' + In(Head(toClient), kind)
         /\ Travelling(kind)' \in Nat
<1>1. HowMany(toClient, kind) = HowMany(toClient', kind) + In(Head(toClient), kind)
  BY HowManyTail DEF TypeInv, WireTypes
<1>2. HowMany(toClient', kind) \in Nat
  BY HowManyFinite, HeadTailProperties DEF TypeInv, WireTypes
<1>3. Travelling(kind)' = HowMany(toBroker, kind) + HowMany(toClient', kind)
                           + Cardinality(owed \cap kind) + In(writing, kind)
  BY DEF Travelling, In
<1>4. Travelling(kind) = HowMany(toBroker, kind) + HowMany(toClient, kind)
                          + Cardinality(owed \cap kind) + In(writing, kind)
  BY DEF Travelling, In
<1>5. /\ HowMany(toBroker, kind) \in Nat /\ Cardinality(owed \cap kind) \in Nat
      /\ In(writing, kind) \in Nat /\ In(Head(toClient), kind) \in Nat
  BY TravellingNat DEF In
<1>6. QED BY <1>1, <1>2, <1>3, <1>4, <1>5

LEMMA FlowWrite ==
  ASSUME TypeInv, NEW kind, NoPkt \notin kind, Write
  PROVE  Travelling(kind)' = Travelling(kind)
<1>1. /\ toBroker' = Append(toBroker, writing) /\ writing' = NoPkt
      /\ UNCHANGED <<toClient, owed>> /\ writing \in Packet
  BY TypeInvImplies DEF Write, Written, wireVars, brokerVars, TypeOK
<1>2. toBroker \in Seq(Packet) BY TypeInvImplies DEF TypeOK
<1>3. HowMany(toBroker', kind) = HowMany(toBroker, kind) + In(writing, kind)
  BY <1>1, <1>2, HowManyAppend
<1>4. Travelling(kind)' = HowMany(toBroker', kind) + HowMany(toClient, kind)
                           + Cardinality(owed \cap kind) + 0
  BY <1>1 DEF Travelling
<1>5. QED BY <1>3, <1>4, TravellingNat DEF In

LEMMA FlowBrokerReceives ==
  ASSUME TypeInv, NEW kind, Conserved(kind), Travelling(kind) <= 1, BrokerReceives
  PROVE  Travelling(kind)' = Travelling(kind)
<1> DEFINE p == Head(toBroker)
<1>1. /\ toBroker # <<>> /\ toBroker' = Tail(toBroker) /\ owed' = owed \cup Answers(p)
      /\ UNCHANGED <<toClient, writing>>
  BY DEF BrokerReceives, loopVars
<1>2. p \in Outgoing BY <1>1 DEF TypeInv, WireTypes
<1>3. HowMany(toBroker, kind) = HowMany(toBroker', kind) + In(p, kind)
  BY <1>1, HowManyTail DEF TypeInv, WireTypes
<1>4. HowMany(toBroker', kind) \in Nat
  BY <1>1, HowManyFinite, HeadTailProperties DEF TypeInv, WireTypes
<1> HIDE DEF p
<1>5. Cardinality(owed' \cap kind) = Cardinality(owed \cap kind) + In(p, kind)
  <2>1. CASE p.type \in {"connect", "publish0", "disconnect"} /\ Answers(p) = {}
    <3>1. p \notin kind
      BY <1>2, <2>1, OutgoingFacts DEF Conserved, Identified
    <3>2. owed' = owed BY <1>1, <2>1
    <3>3. QED BY <3>1, <3>2, OwedFinite DEF In
  <2>2. ASSUME NEW a \in Answer, Answers(p) = {a}
        PROVE  Cardinality(owed' \cap kind) = Cardinality(owed \cap kind) + In(p, kind)
    <3>1. a \in kind <=> p \in kind BY <1>2, <2>2 DEF Conserved
    <3>2. CASE p \notin kind
      <4>1. owed' \cap kind = owed \cap kind BY <1>1, <2>2, <3>1, <3>2
      <4>2. QED BY <3>2, <4>1, OwedFinite DEF In
    <3>3. CASE p \in kind
      <4>1. owed' \cap kind = (owed \cap kind) \cup {a} BY <1>1, <2>2, <3>1, <3>3
      <4>2. Cardinality(owed \cap kind) = 0
        BY <1>3, <1>4, <3>3, TravellingNat DEF In
      <4>3. owed \cap kind = {} BY <4>2, OwedFinite, FS_EmptySet
      <4>4. owed' \cap kind = {a} BY <4>1, <4>3
      <4>5. QED BY <3>3, <4>2, <4>4, FS_Singleton DEF In
    <3>4. QED BY <3>2, <3>3
  <2>3. QED BY <1>2, <2>1, <2>2, AnswersFacts
<1>6. Travelling(kind)' = HowMany(toBroker', kind) + HowMany(toClient, kind)
                           + Cardinality(owed' \cap kind) + In(writing, kind)
  BY <1>1 DEF Travelling, In
<1>7. QED BY <1>3, <1>4, <1>5, <1>6, TravellingNat DEF In

LEMMA FlowBrokerAnswers ==
  ASSUME TypeInv, NEW kind, NEW p \in owed, BrokerAnswers(p)
  PROVE  Travelling(kind)' = Travelling(kind)
<1>1. /\ toClient' = Append(toClient, p) /\ owed' = owed \ {p}
      /\ UNCHANGED <<toBroker, writing>>
  BY DEF BrokerAnswers, loopVars
<1>2. p \in Incoming BY IncomingPkt DEF TypeInv, AnswerTypes
<1>3. HowMany(toClient', kind) = HowMany(toClient, kind) + In(p, kind)
  BY <1>1, <1>2, HowManyAppend DEF TypeInv, WireTypes
<1>4. Cardinality(owed \cap kind) = Cardinality(owed' \cap kind) + In(p, kind)
  <2>1. owed' \cap kind = (owed \cap kind) \ {p} BY <1>1
  <2>2. Cardinality(owed' \cap kind) = IF p \in owed \cap kind
          THEN Cardinality(owed \cap kind) - 1 ELSE Cardinality(owed \cap kind)
    BY <2>1, OwedFinite, FS_RemoveElement
  <2>3. QED BY <2>2, OwedFinite DEF In
<1>5. Travelling(kind)' = HowMany(toBroker, kind) + HowMany(toClient', kind)
                           + Cardinality(owed' \cap kind) + In(writing, kind)
  BY <1>1 DEF Travelling, In
<1>6. Cardinality(owed' \cap kind) \in Nat
  BY <1>1, FS_Subset, FS_CardinalityType DEF TypeInv, AnswerTypes
<1>7. QED BY <1>3, <1>4, <1>5, <1>6, TravellingNat DEF In

\* The broker sends what is no answer.
LEMMA FlowUnasked ==
  ASSUME TypeInv, NEW kind, NEW p \in Incoming, p \notin kind,
         toClient' = Append(toClient, p), UNCHANGED <<toBroker, owed, writing>>
  PROVE  Travelling(kind)' = Travelling(kind)
<1>1. HowMany(toClient', kind) = HowMany(toClient, kind) + 0
  BY HowManyAppend DEF TypeInv, WireTypes, In
<1>2. QED BY <1>1, TravellingNat DEF Travelling

\* The connection breaks, or the loop ends and drops its half of it.
LEMMA FlowReset ==
  ASSUME TypeInv, NEW kind, NEW k \in 0 .. Len(toClient), Reset(k)
  PROVE  Travelling(kind)' <= Travelling(kind)
<1>1. /\ toClient' = SubSeq(toClient, 1, k) /\ toBroker' = <<>>
      /\ UNCHANGED <<owed, writing>>
  BY DEF Reset, loopVars
<1>2. HowMany(toClient', kind) <= HowMany(toClient, kind)
  BY <1>1, HowManyPrefix DEF TypeInv, WireTypes
<1>3. HowMany(toClient', kind) \in Nat
  <2>1. SubSeq(toClient, 1, k) \in Seq(Incoming)
    BY SubSeqProperties DEF TypeInv, WireTypes
  <2>2. QED BY <1>1, <2>1, HowManyFinite
<1>4. Travelling(kind)' = 0 + HowMany(toClient', kind)
                           + Cardinality(owed \cap kind) + In(writing, kind)
  BY <1>1, HowManyEmpty DEF Travelling, In
<1>5. /\ HowMany(toBroker, kind) \in Nat /\ HowMany(toClient, kind) \in Nat
      /\ Cardinality(owed \cap kind) \in Nat /\ In(writing, kind) \in Nat
      /\ Travelling(kind) = HowMany(toBroker, kind) + HowMany(toClient, kind)
                              + Cardinality(owed \cap kind) + In(writing, kind)
  BY TravellingNat
<1>6. QED BY <1>2, <1>3, <1>4, <1>5

LEMMA FlowEnds ==
  ASSUME TypeInv, NEW kind, NoPkt \notin kind, Ends
  PROVE  Travelling(kind)' + In(writing, kind) <= Travelling(kind)
<1>1. /\ toClient' = <<>> /\ writing' = NoPkt
      /\ UNCHANGED <<toBroker, owed>>
  BY DEF Ends, Finish, brokerVars
<1>2. Travelling(kind)' = HowMany(toBroker, kind) + 0 + Cardinality(owed \cap kind) + 0
  BY <1>1, HowManyEmpty DEF Travelling
<1>3. /\ HowMany(toBroker, kind) \in Nat /\ HowMany(toClient, kind) \in Nat
      /\ Cardinality(owed \cap kind) \in Nat /\ In(writing, kind) \in Nat
      /\ Travelling(kind) = HowMany(toBroker, kind) + HowMany(toClient, kind)
                              + Cardinality(owed \cap kind) + In(writing, kind)
  BY TravellingNat
<1>4. QED BY <1>2, <1>3

LEMMA FlowWriteDisconnect ==
  ASSUME TypeInv, NEW kind, NoPkt \notin kind, WriteDisconnect
  PROVE  Travelling(kind)' <= Travelling(kind)
<1>1. /\ toBroker' = Append(toBroker, writing) /\ writing' = NoPkt
      /\ toClient' = <<>> /\ UNCHANGED owed /\ writing \in Packet
  BY TypeInvImplies DEF WriteDisconnect, Written, Finish, brokerVars, TypeOK
<1>2. toBroker \in Seq(Packet) BY TypeInvImplies DEF TypeOK
<1>3. HowMany(toBroker', kind) = HowMany(toBroker, kind) + In(writing, kind)
  BY <1>1, <1>2, HowManyAppend
<1>4. Travelling(kind)' = HowMany(toBroker', kind) + 0 + Cardinality(owed \cap kind) + 0
  BY <1>1, HowManyEmpty DEF Travelling
<1>5. QED BY <1>3, <1>4, TravellingNat

\* Of the requests with an identifier, those that are no publish with QoS 1,
\* and their answers.
Others(id) == WithId(id) \ Unacked(id)

LEMMA KindsConserved ==
  /\ \A id \in Ids :
       Conserved(WithId(id)) /\ Conserved(Unacked(id)) /\ Conserved(Others(id))
  /\ Conserved(Pings)
<1>1. \A p \in Outgoing : p \in Packet /\ p.type \in Encodable
      /\ (p.type = "pingreq" => p.id = 0)
  BY OutgoingFacts DEF Identified
<1>2. \A a \in Answer : /\ a \in Packet /\ a.type \notin Encodable
                        /\ a.type = "pingresp" => a.id = 0
  BY DEF Answer, Acks, Encodable
<1>3. ASSUME NEW p \in Outgoing, NEW a \in Answer, Answers(p) = {a}
      PROVE  /\ a.id = p.id
             /\ a.type = "puback" <=> p.type = "publish1"
             /\ a.type = "pingresp" <=> p.type = "pingreq"
  <2>1. Answers(p) # {} BY <1>3
  <2>2. \E b \in Answer : /\ Answers(p) = {b}
                          /\ b.id = p.id
                          /\ b.type = "puback" <=> p.type = "publish1"
                          /\ b.type = "pingresp" <=> p.type = "pingreq"
    BY <2>1, AnswersFacts, Zenon
  <2>3. \A b : {a} = {b} => a = b OBVIOUS
  <2>4. QED BY <1>3, <2>2, <2>3, Zenon
<1>4. \A id \in Ids : id # 0 BY EventLoopAssumption DEF Ids
<1>5. ASSUME NEW id \in Ids PROVE Conserved(WithId(id))
  <2>1. \A p \in Packet : p.id = 0 => p \notin WithId(id) BY <1>4 DEF WithId
  <2>2. ASSUME NEW p \in Outgoing, NEW a \in Answer, Answers(p) = {a}
        PROVE  a \in WithId(id) <=> p \in WithId(id)
    <3>1. p \in Packet /\ p.type \in Encodable BY <1>1, Zenon
    <3>2. a \in Packet /\ a.type \notin Encodable BY <1>2, Zenon
    <3>3. /\ a.id = p.id
          /\ a.type = "puback" <=> p.type = "publish1"
          /\ a.type = "pingresp" <=> p.type = "pingreq"
      BY <1>3, <2>2, Zenon
    <3>4. QED BY <3>1, <3>2, <3>3 DEF WithId
  <2>3. QED BY <2>1, <2>2 DEF Conserved
<1>6. ASSUME NEW id \in Ids PROVE Conserved(Unacked(id))
  <2>1. \A p \in Packet : p.id = 0 => p \notin Unacked(id) BY <1>4 DEF Unacked, WithId
  <2>2. ASSUME NEW p \in Outgoing, NEW a \in Answer, Answers(p) = {a}
        PROVE  a \in Unacked(id) <=> p \in Unacked(id)
    <3>1. p \in Packet /\ p.type \in Encodable BY <1>1, Zenon
    <3>2. a \in Packet /\ a.type \notin Encodable BY <1>2, Zenon
    <3>3. /\ a.id = p.id
          /\ a.type = "puback" <=> p.type = "publish1"
          /\ a.type = "pingresp" <=> p.type = "pingreq"
      BY <1>3, <2>2, Zenon
    <3>4. QED BY <3>1, <3>2, <3>3 DEF Unacked, WithId, Encodable
  <2>3. QED BY <2>1, <2>2 DEF Conserved
<1>7. ASSUME NEW id \in Ids PROVE Conserved(Others(id))
  BY <1>5, <1>6, <1>7 DEF Conserved, Others
<1>8. Conserved(Pings)
  <2>1. ASSUME NEW p \in Outgoing, NEW a \in Answer, Answers(p) = {a}
        PROVE  a \in Pings <=> p \in Pings
    <3>1. p \in Packet /\ p.type \in Encodable BY <1>1, Zenon
    <3>2. a \in Packet /\ a.type \notin Encodable BY <1>2, Zenon
    <3>3. /\ a.id = p.id
          /\ a.type = "puback" <=> p.type = "publish1"
          /\ a.type = "pingresp" <=> p.type = "pingreq"
      BY <1>3, <2>1, Zenon
    <3>4. QED BY <3>1, <3>2, <3>3 DEF Pings, Encodable
  <2>2. QED BY <2>1 DEF Conserved, Pings
<1>9. QED BY <1>5, <1>6, <1>7, <1>8

\* Identifiers, queue and ping are as they were.
Still ==
  /\ UNCHANGED <<free, queue, pingresp>>
  /\ writing'.type = "pingreq" <=> writing.type = "pingreq"
  /\ link' = "up" => link = "up" \/ pc = "connecting"
  /\ pc' = "connecting" => pc = "connecting" /\ (link = "none" => link' = "none")

LEMMA Flow ==
  ASSUME TypeInv, TypeInv', [Next]_vars,
         NEW kind, Conserved(kind), Travelling(kind) <= 1
  PROVE  \/ /\ CmdIdentified \/ TickPing
            /\ Travelling(kind)' = Travelling(kind) + In(writing', kind)
         \/ /\ ReadAck \/ ReadPubAck \/ ReadPingResp
            /\ Travelling(kind) = Travelling(kind)' + In(Head(toClient), kind)
         \/ Write /\ Travelling(kind)' = Travelling(kind)
         \/ Ends /\ Travelling(kind)' + In(writing, kind) <= Travelling(kind)
         \/ /\ WriteDisconnect \/ \E k \in 0 .. Len(toClient) : Reset(k)
            /\ Travelling(kind)' <= Travelling(kind)
         \/ Still /\ Travelling(kind)' = Travelling(kind)
<1> USE DEF idVars, cmdVars, notifVars, wireVars, brokerVars
<1>0. Travelling(kind) \in Nat /\ \A p : p \notin kind => In(p, kind) = 0
  BY TravellingNat DEF In
<1>1. pc # "writing" => writing = NoPkt BY DEF TypeInv, LoopTypes
<1>2. NoPkt \notin kind BY ConservedFacts
<1>3. NoPkt.type # "pingreq" BY DEF NoPkt, Pkt
<1>4. toClient # <<>> => Head(toClient) \in Incoming BY DEF TypeInv, WireTypes
<1>5. CASE CmdIdentified \/ TickPing
  <2>1. pc # "writing" /\ UNCHANGED <<toBroker, toClient, owed>>
    BY <1>5 DEF CmdIdentified, TickPing
  <2>2. QED BY <1>1, <1>2, <1>5, <2>1, FlowStart
<1>6. CASE ReadAck \/ ReadPubAck \/ ReadPingResp
  <2>1. UNCHANGED <<writing, toBroker, owed>> /\ toClient # <<>> /\ toClient' = Tail(toClient)
    BY <1>6 DEF ReadAck, ReadPubAck, ReadPingResp, Read, Notify
  <2>2. In(writing', kind) = In(writing, kind) BY <2>1 DEF In
  <2>3. QED BY <1>6, <2>1, <2>2, FlowRead
<1>7. CASE Write BY <1>2, <1>7, FlowWrite
<1>8. CASE Ends BY <1>2, <1>8, FlowEnds
<1>9. CASE WriteDisconnect BY <1>2, <1>9, FlowWriteDisconnect
<1>10. CASE \E k \in 0 .. Len(toClient) : Reset(k) BY <1>10, FlowReset
<1>11. CASE Connect
  <2>1. Travelling(kind)' = Travelling(kind) + In(writing', kind)
    BY <1>1, <1>2, <1>11, FlowStart DEF Connect
  <2>2. Pkt("connect", 0, 0) \notin kind
    BY ConservedFacts DEF Encodable, Identified
  <2>3. Travelling(kind)' = Travelling(kind)
    <3>1. writing' = Pkt("connect", 0, 0) BY <1>11 DEF Connect, StartWrite
    <3>2. In(writing', kind) = 0 BY <1>0, <2>2, <3>1
    <3>3. QED BY <1>0, <2>1, <3>2
  <2>4. Still BY <1>1, <1>11 DEF Connect, StartWrite, Still, NoPkt, Pkt
  <2>5. QED BY <2>3, <2>4
<1>12. CASE CmdPlain
  <2>1. Travelling(kind)' = Travelling(kind) + In(writing', kind)
    BY <1>1, <1>2, <1>12, FlowStart DEF CmdPlain
  <2>2. Head(cmds) \in Command BY <1>12 DEF CmdPlain, Cmds!Receive, TypeInv, CommandTypes
  <2>3. Head(cmds).type \in Encodable \ (Identified \cup {"pingreq"}) /\ Head(cmds).n \in Nat
    BY <1>12, <2>2, CommandFacts, EventLoopAssumption DEF CmdPlain, Command, AllCmdTypes
  <2>4. Travelling(kind)' = Travelling(kind)
    <3>1. writing' = Pkt(Head(cmds).type, 0, Head(cmds).n)
      BY <1>12 DEF CmdPlain, StartWrite
    <3>2. In(writing', kind) = 0 BY <1>0, <2>3, <3>1, ConservedFacts
    <3>3. QED BY <1>0, <2>1, <3>2
  <2>5. Still BY <1>1, <1>12, <2>3 DEF CmdPlain, StartWrite, Still, NoPkt, Pkt
  <2>6. QED BY <2>4, <2>5
<1>13. CASE ReadPublish1
  <2>1. Head(toClient) \notin kind /\ writing' = Pkt("puback", 0, 0) /\ writing = NoPkt
    BY <1>1, <1>4, <1>13, IncomingFacts
    DEF ReadPublish1, Read, StartWrite, Conserved, Acks
  <2>2. In(writing', kind) = In(writing, kind) BY <2>1, ConservedFacts DEF In
  <2>3. /\ Travelling(kind) = Travelling(kind)' + In(Head(toClient), kind)
        /\ Travelling(kind)' \in Nat
    BY <1>13, <2>2, FlowRead DEF ReadPublish1, Read
  <2>4. Still BY <1>13, <2>1 DEF ReadPublish1, StartWrite, Still, NoPkt, Pkt
  <2>5. QED BY <1>0, <2>1, <2>3, <2>4
<1>14. CASE ReadConnack \/ ReadMessage
  <2>1. /\ Head(toClient).type \notin Acks \cup {"pingreq", "pingresp"}
        /\ toClient # <<>> /\ toClient' = Tail(toClient)
        /\ UNCHANGED <<writing, toBroker, owed>>
    BY <1>14 DEF ReadConnack, ReadMessage, Read, Notify, Acks
  <2>2. Head(toClient) \notin kind BY <1>4, <2>1, IncomingFacts DEF Conserved
  <2>3. In(writing', kind) = In(writing, kind) BY <2>1 DEF In
  <2>4. /\ Travelling(kind) = Travelling(kind)' + In(Head(toClient), kind)
        /\ Travelling(kind)' \in Nat
    BY <2>1, <2>3, FlowRead
  <2>5. Still BY <1>14, <2>1 DEF ReadConnack, ReadMessage, Notify, Still
  <2>6. QED BY <1>0, <2>2, <2>4, <2>5
<1>15. CASE ConnectFails \/ Notified
  <2>1. UNCHANGED <<toBroker, toClient, owed, writing>>
    BY <1>15 DEF ConnectFails, Notified
  <2>2. Still BY <1>15 DEF ConnectFails, Notified, Still
  <2>3. QED BY <2>1, <2>2 DEF Travelling
<1>16. CASE \/ UserReceives \/ DropUser \/ BrokerCloses
            \/ \E c \in Clients : DropClient(c)
            \/ \E c \in Clients, t \in CmdTypes : TrySend(c, t)
  <2>1. UNCHANGED <<toBroker, toClient, owed, writing>>
    BY <1>16 DEF UserReceives, DropUser, BrokerCloses, DropClient, TrySend, loopVars
  <2>2. UNCHANGED <<free, queue, pingresp, pc>> /\ (link' = link \/ link' = "eof")
    BY <1>16 DEF UserReceives, DropUser, BrokerCloses, DropClient, TrySend, loopVars
  <2>3. link = "none" => link' = "none"
    BY <1>16 DEF UserReceives, DropUser, BrokerCloses, DropClient, TrySend
  <2>4. Still BY <2>1, <2>2, <2>3 DEF Still
  <2>5. QED BY <2>1, <2>4 DEF Travelling
<1>17. CASE BrokerReceives
  BY <1>17, FlowBrokerReceives DEF BrokerReceives, loopVars, Still
<1>18. CASE \E p \in owed : BrokerAnswers(p)
  BY <1>18, FlowBrokerAnswers DEF BrokerAnswers, loopVars, Still
<1>19. ASSUME NEW t \in Unasked, NEW n \in 0 .. MaxDeliveries,
              toClient' = Append(toClient, Pkt(t, 0, n)), UNCHANGED <<toBroker, owed, writing>>
       PROVE  Travelling(kind)' = Travelling(kind)
  BY <1>19, IncomingPkt, ConservedFacts, FlowUnasked, EventLoopAssumption
<1>20. CASE BrokerGreets
  BY <1>19, <1>20, EventLoopAssumption DEF BrokerGreets, CanSend, loopVars, Still, Unasked
<1>21. CASE \E t \in BrokerTypes \cup {"publish0", "connack"} : BrokerSends(t)
  <2>1. PICK t \in BrokerTypes \cup {"publish0", "connack"} : BrokerSends(t) BY <1>21
  <2>2. t \in Unasked BY EventLoopAssumption DEF Unasked, AllBrokerTypes
  <2>3. sent + 1 \in 0 .. MaxDeliveries
    BY <2>1, EventLoopAssumption DEF BrokerSends, TypeInv, AnswerTypes
  <2>4. Travelling(kind)' = Travelling(kind)
    BY <1>19, <2>1, <2>2, <2>3 DEF BrokerSends, loopVars
  <2>5. Still BY <2>1 DEF BrokerSends, CanSend, loopVars, Still
  <2>6. QED BY <2>4, <2>5
<1>22. CASE \E t \in {"disconnect", "disconnecterr"} : BrokerDisconnects(t)
  BY <1>19, <1>22, EventLoopAssumption
  DEF BrokerDisconnects, CanSend, loopVars, Still, Unasked
<1>23. CASE UNCHANGED vars
  <2>1. UNCHANGED <<toBroker, toClient, owed, writing>> BY <1>23 DEF vars, loopVars
  <2>2. Still BY <1>23 DEF vars, loopVars, Still
  <2>3. QED BY <2>1, <2>2 DEF Travelling
<1>24. QED
  BY <1>5, <1>6, <1>7, <1>8, <1>9, <1>10, <1>11, <1>12, <1>13, <1>14, <1>15, <1>16,
     <1>17, <1>18, <1>20, <1>21, <1>22, <1>23, StepCases

-----------------------------------------------------------------------------
(* The identifiers.                                                        *)

\* A free identifier has no carrier, and one that is in use has at most one:
\* exactly one, while nothing has been lost.
IdInv ==
  /\ pc = "connecting" => link = "none" /\ free = Ids
  /\ \A id \in Ids :
       /\ id \in free => Travelling(WithId(id)) = 0
       /\ Travelling(WithId(id)) <= 1
       /\ Whole /\ id \notin free => Travelling(WithId(id)) = 1

LEMMA NothingTravels == \A kind : Init /\ NoPkt \notin kind => Travelling(kind) = 0
<1> SUFFICES ASSUME NEW kind, Init, NoPkt \notin kind PROVE Travelling(kind) = 0
  OBVIOUS
<1>1. HowMany(toBroker, kind) = 0 /\ HowMany(toClient, kind) = 0
  BY HowManyEmpty DEF Init
<1>2. Cardinality(owed \cap kind) = 0 BY FS_EmptySet DEF Init
<1>3. QED BY <1>1, <1>2 DEF Travelling, Init

LEMMA IdInvInit == Init => IdInv
<1> SUFFICES ASSUME Init PROVE IdInv OBVIOUS
<1>1. pc = "connecting" /\ link = "none" /\ free = Ids
  BY DEF Init, Pool!PoolInit, Pool!Ids, Ids
<1>2. ASSUME NEW id \in Ids PROVE Travelling(WithId(id)) = 0
  <2>1. NoPkt \notin WithId(id) BY KindsConserved, ConservedFacts
  <2>2. QED BY <2>1, NothingTravels
<1>3. QED BY <1>1, <1>2 DEF IdInv

\* What the loop reads and what it starts to write has an identifier or none.
LEMMA ReadIds ==
  ASSUME TypeInv, ReadAck \/ ReadPubAck \/ ReadPingResp
  PROVE  /\ Head(toClient) \in Packet
         /\ ReadAck \/ ReadPubAck => /\ Head(toClient).id \in Ids
                                     /\ free' = free \cup {Head(toClient).id}
         /\ ReadPingResp => Head(toClient).id = 0 /\ free' = free
         /\ link' = link /\ pc' # "connecting"
<1>1. toClient # <<>> BY DEF ReadAck, ReadPubAck, ReadPingResp, Read
<1>2. Head(toClient) \in Incoming BY <1>1 DEF TypeInv, WireTypes
<1>3. CASE ReadAck
  BY <1>2, <1>3, IncomingFacts DEF ReadAck, ReadPubAck, ReadPingResp, Read, Notify, Acks, Pool!GiveId
<1>4. CASE ReadPubAck
  BY <1>2, <1>4, IncomingFacts DEF ReadAck, ReadPubAck, ReadPingResp, Read, Acks, Pool!GiveId
<1>5. CASE ReadPingResp
  BY <1>2, <1>5, IncomingFacts DEF ReadAck, ReadPubAck, ReadPingResp, Read, Acks, idVars
<1>6. QED BY <1>3, <1>4, <1>5

LEMMA TakesId ==
  ASSUME TypeInv, TypeInv', CmdIdentified
  PROVE  /\ writing' = Pkt(Head(cmds).type, out', Head(cmds).n) /\ writing' \in Packet
         /\ Head(cmds).type \in Identified
         /\ out' \in free /\ out' \in Ids /\ free' = free \ {out'}
         /\ link' = link /\ pc = "select" /\ pc' = "writing"
<1>1. out' \in free /\ free' = free \ {out'}
  BY GrantFacts DEF CmdIdentified, TypeInv, IdTypes, Pool!PoolTypeOK
<1>2. out' \in Ids BY <1>1 DEF TypeInv, IdTypes, Pool!PoolTypeOK, Pool!Ids, Ids
<1>3. writing' = Pkt(Head(cmds).type, out', Head(cmds).n) /\ pc' = "writing"
  BY DEF CmdIdentified, StartWrite
<1>4. writing' \in Packet
  <2>1. NoPkt \in Packet /\ Pkt("puback", 0, 0) \in Packet
    BY EventLoopAssumption DEF NoPkt, Pkt, Packet
  <2>2. QED BY <2>1, OutgoingFacts DEF TypeInv, LoopTypes
<1>5. QED BY <1>1, <1>2, <1>3, <1>4 DEF CmdIdentified, wireVars

LEMMA TickFacts ==
  ASSUME TickPing
  PROVE  /\ writing' = Pkt("pingreq", 0, 0)
         /\ pc = "select" /\ pc' = "writing" /\ pingresp # "waiting"
         /\ UNCHANGED <<link, free, queue, pingresp>>
BY DEF TickPing, StartWrite, wireVars, idVars

\* The other steps neither take nor return an identifier, and a connection that
\* loses packets is no longer whole.
LEMMA OtherSteps ==
  ASSUME \/ Write \/ WriteDisconnect \/ Ends
         \/ \E k \in 0 .. Len(toClient) : Reset(k)
  PROVE  /\ UNCHANGED <<free, queue>>
         /\ Write => link' = link /\ pc' # "connecting"
         /\ WriteDisconnect \/ Ends => link' = "closed" /\ pc' = "done"
         /\ (\E k \in 0 .. Len(toClient) : Reset(k))
              => link # "none" /\ link' # "up" /\ pc' = pc /\ pingresp' = pingresp /\ writing' = writing
<1> USE DEF idVars, loopVars
<1>1. CASE Write BY <1>1 DEF Write, WriteDisconnect, Ends, Finish, Reset
<1>2. CASE WriteDisconnect BY <1>2 DEF Write, WriteDisconnect, Finish, Reset
<1>3. CASE Ends BY <1>3 DEF Write, Ends, Finish, Reset
<1>4. CASE \E k \in 0 .. Len(toClient) : Reset(k) BY <1>4 DEF Write, WriteDisconnect, Ends, Finish, Reset
<1>5. QED BY <1>1, <1>2, <1>3, <1>4

LEMMA StepKinds ==
  ASSUME TypeInv, TypeInv', IdInv, [Next]_vars
  PROVE  \/ CmdIdentified \/ TickPing \/ ReadAck \/ ReadPubAck \/ ReadPingResp
         \/ Write \/ Ends \/ WriteDisconnect
         \/ (\E k \in 0 .. Len(toClient) : Reset(k))
         \/ Still
<1>1. 1 \in Ids BY EventLoopAssumption DEF Ids
<1>2. Conserved(WithId(1)) /\ Travelling(WithId(1)) <= 1
  BY <1>1, KindsConserved DEF IdInv
<1>3. QED BY <1>2, Flow

LEMMA IdInvStep ==
  ASSUME TypeInv, TypeInv', IdInv, [Next]_vars
  PROVE  IdInv'
<1> DEFINE T(id) == Travelling(WithId(id))
<1>1. ASSUME NEW id \in Ids
      PROVE  /\ T(id) \in Nat /\ T(id)' \in Nat
             /\ \A p \in Packet : In(p, WithId(id)) = IF p.id = id THEN 1 ELSE 0
  BY TravellingNat, TravellingNatNext DEF In, WithId
<1>2. \A id \in Ids : id # 0 BY EventLoopAssumption DEF Ids
<1>3. ASSUME NEW id \in Ids
      PROVE  /\ id \in free' => T(id)' = 0
             /\ T(id)' <= 1
             /\ link' = "up" /\ id \notin free' => T(id)' = 1
  <2>1. /\ id \in free => T(id) = 0
        /\ T(id) <= 1
        /\ link = "up" /\ id \notin free => T(id) = 1
    BY DEF IdInv, Whole
  <2>2. Conserved(WithId(id)) BY KindsConserved
  <2>3. CASE CmdIdentified /\ T(id)' = T(id) + In(writing', WithId(id))
    <3>1. writing' \in Packet /\ writing'.id = out' BY <2>3, TakesId DEF Pkt
    <3>2. In(writing', WithId(id)) = IF out' = id THEN 1 ELSE 0 BY <1>1, <3>1
    <3>3. out' \in free /\ free' = free \ {out'} /\ link' = link BY <2>3, TakesId
    <3> HIDE DEF T
    <3>4. CASE out' = id BY <1>1, <2>1, <2>3, <3>2, <3>3, <3>4
    <3>5. CASE out' # id BY <1>1, <2>1, <2>3, <3>2, <3>3, <3>5
    <3>6. QED BY <3>4, <3>5
  <2>4. CASE TickPing /\ T(id)' = T(id) + In(writing', WithId(id))
    <3>1. writing' \notin WithId(id) BY <1>2, <2>4, TickFacts DEF Pkt, WithId
    <3>2. In(writing', WithId(id)) = 0 BY <3>1 DEF In
    <3> HIDE DEF T
    <3>3. QED BY <1>1, <2>1, <2>4, <3>2, TickFacts
  <2>5. CASE /\ ReadAck \/ ReadPubAck \/ ReadPingResp
             /\ T(id) = T(id)' + In(Head(toClient), WithId(id))
    <3>1. In(Head(toClient), WithId(id)) = IF Head(toClient).id = id THEN 1 ELSE 0
      BY <1>1, <2>5, ReadIds
    <3> HIDE DEF T
    <3>2. CASE Head(toClient).id = id
      <4>1. T(id)' = 0 BY <1>1, <2>1, <2>5, <3>1, <3>2
      <4>2. ReadAck \/ ReadPubAck BY <1>2, <2>5, <3>2, ReadIds
      <4>3. id \in free' BY <3>2, <4>2, <2>5, ReadIds
      <4>4. QED BY <4>1, <4>3
    <3>3. CASE Head(toClient).id # id
      <4>1. T(id)' = T(id) BY <1>1, <2>5, <3>1, <3>3
      <4>2. link' = link /\ (id \in free' <=> id \in free) BY <2>5, <3>3, ReadIds
      <4>3. QED BY <2>1, <4>1, <4>2
    <3>4. QED BY <3>2, <3>3
  <2>6. CASE Write /\ T(id)' = T(id)
    <3>1. UNCHANGED <<free, link>> BY <2>6, OtherSteps
    <3> HIDE DEF T
    <3>2. QED BY <2>1, <2>6, <3>1
  <2>7. CASE Ends /\ T(id)' + In(writing, WithId(id)) <= T(id)
    <3>1. free' = free /\ link' # "up" BY <2>7, OtherSteps
    <3>2. In(writing, WithId(id)) \in Nat BY DEF In
    <3> HIDE DEF T
    <3>3. QED BY <1>1, <2>1, <2>7, <3>1, <3>2
  <2>8. CASE /\ WriteDisconnect \/ \E k \in 0 .. Len(toClient) : Reset(k)
             /\ T(id)' <= T(id)
    <3>1. free' = free /\ link' # "up" BY <2>8, OtherSteps
    <3> HIDE DEF T
    <3>2. QED BY <1>1, <2>1, <2>8, <3>1
  <2>9. CASE Still /\ T(id)' = T(id)
    <3>1. free' = free /\ (link' = "up" => link = "up" \/ pc = "connecting")
      BY <2>9 DEF Still
    <3>2. pc = "connecting" => id \in free BY DEF IdInv
    <3> HIDE DEF T
    <3>3. QED BY <2>1, <2>9, <3>1, <3>2
  <2>10. QED BY <2>1, <2>2, <2>3, <2>4, <2>5, <2>6, <2>7, <2>8, <2>9, Flow
<1>4. pc' = "connecting" => link' = "none" /\ free' = Ids
  <2>1. pc = "connecting" => link = "none" /\ free = Ids BY DEF IdInv
  <2>2. QED BY <2>1, StepKinds, TakesId, TickFacts, ReadIds, OtherSteps DEF Still, Ids
<1>5. QED BY <1>3, <1>4 DEF IdInv, Whole

LEMMA IdInvHolds == Spec => []IdInv
<1>1. TypeInv /\ TypeInv' /\ IdInv /\ [Next]_vars => IdInv' BY IdInvStep
<1>2. QED BY <1>1, IdInvInit, PacketsWellFormed, PTL DEF Spec

\* A packet identifier is free or carried by exactly one packet, its request or
\* the acknowledgement: no acknowledgement frees an identifier that was given to
\* a second request, and none is leaked while the connection lasts.
THEOREM EachIdHasOneCarrier == Spec => []IdAccounting
<1>1. TypeInv /\ IdInv => IdAccounting
  <2> SUFFICES ASSUME TypeInv, IdInv, NEW id \in Ids
               PROVE  LET carriers == Travelling(WithId(id))
                      IN  IF id \in free THEN carriers = 0
                          ELSE carriers = 1 \/ (~Whole /\ carriers = 0)
    BY DEF IdAccounting
  <2>1. Travelling(WithId(id)) \in Nat BY TravellingNat
  <2>2. QED BY <2>1 DEF IdInv
<1>2. QED BY <1>1, IdInvHolds, PacketsWellFormed, PTL

-----------------------------------------------------------------------------
(* The queue of unacknowledged publishes.                                  *)

\* The identifiers of the queue are in use, for a publish and for nothing else.
QueueInv ==
  /\ IsInjective(queue)
  /\ \A id \in Ids : id \in ToSet(queue) => id \notin free
  /\ pc = "connecting" => queue = <<>>
  /\ \A id \in Ids :
       /\ id \notin ToSet(queue) => Travelling(Unacked(id)) = 0
       /\ id \in ToSet(queue) => Travelling(Others(id)) = 0
       /\ Whole /\ id \in ToSet(queue) => Travelling(Unacked(id)) = 1

LEMMA QueueInvInit == Init => QueueInv
<1> SUFFICES ASSUME Init PROVE QueueInv OBVIOUS
<1>1. queue = <<>> /\ ToSet(queue) = {} /\ IsInjective(queue)
  BY DEF Init, ToSet, IsInjective
<1>2. ASSUME NEW id \in Ids PROVE Travelling(Unacked(id)) = 0
  <2>1. NoPkt \notin Unacked(id) BY KindsConserved, ConservedFacts
  <2>2. QED BY <2>1, NothingTravels
<1>3. QED BY <1>1, <1>2 DEF QueueInv

\* A publish enters the queue with a new identifier, ...
LEMMA QueueAppend ==
  ASSUME TypeInv, IsInjective(queue), NEW id \in Ids, id \notin ToSet(queue)
  PROVE  /\ IsInjective(Append(queue, id))
         /\ ToSet(Append(queue, id)) = ToSet(queue) \cup {id}
<1>1. queue \in Seq(Ids) BY DEF TypeInv, LoopTypes
<1>2. \A i \in DOMAIN queue : queue[i] # id BY DEF ToSet
<1>3. /\ DOMAIN queue = 1 .. Len(queue) /\ Len(queue) \in Nat
      /\ DOMAIN Append(queue, id) = 1 .. Len(queue) + 1
      /\ \A i \in 1 .. Len(queue) : Append(queue, id)[i] = queue[i]
      /\ Append(queue, id)[Len(queue) + 1] = id
  BY <1>1
<1>4. IsInjective(Append(queue, id)) BY <1>2, <1>3 DEF IsInjective
<1>5. ToSet(Append(queue, id)) = ToSet(queue) \cup {id}
  <2>1. ASSUME NEW j PROVE j \in ToSet(Append(queue, id)) <=> j \in ToSet(queue) \cup {id}
    <3>1. \A i : i \in 1 .. Len(queue) + 1 <=> i \in 1 .. Len(queue) \/ i = Len(queue) + 1
      BY <1>3
    <3>2. QED BY <1>3, <3>1 DEF ToSet
  <2>2. QED BY <2>1
<1>6. QED BY <1>4, <1>5

\* ... and leaves it with its PubAck, once and for all.
LEMMA QueueRemove ==
  ASSUME TypeInv, IsInjective(queue), NEW id
  PROVE  /\ IsInjective(Unqueue(id))
         /\ ToSet(Unqueue(id)) = ToSet(queue) \ {id}
<1>1. queue \in Seq(Ids) /\ Len(queue) \in Nat /\ DOMAIN queue = 1 .. Len(queue)
  BY DEF TypeInv, LoopTypes
<1>2. CASE Unqueue(id) = queue /\ \A i \in 1 .. Len(queue) : queue[i] # id
  BY <1>1, <1>2 DEF ToSet
<1>3. CASE \E k \in 1 .. Len(queue) :
             /\ queue[k] = id
             /\ Unqueue(id) \in Seq(Ids)
             /\ Len(Unqueue(id)) = Len(queue) - 1
             /\ \A i \in 1 .. Len(queue) - 1 :
                  Unqueue(id)[i] = IF i < k THEN queue[i] ELSE queue[i + 1]
  <2>1. PICK k \in 1 .. Len(queue) :
             /\ queue[k] = id
             /\ Unqueue(id) \in Seq(Ids)
             /\ Len(Unqueue(id)) = Len(queue) - 1
             /\ \A i \in 1 .. Len(queue) - 1 :
                  Unqueue(id)[i] = IF i < k THEN queue[i] ELSE queue[i + 1]
    BY <1>3
  <2> DEFINE rest == Unqueue(id)
  <2>2. DOMAIN rest = 1 .. Len(queue) - 1 BY <2>1
  <2>3. \A i, j \in 1 .. Len(queue) : queue[i] = queue[j] => i = j
    BY <1>1 DEF IsInjective
  <2>4. /\ \A i \in 1 .. Len(queue) - 1 : i < k => rest[i] = queue[i]
        /\ \A i \in 1 .. Len(queue) - 1 : ~(i < k) => rest[i] = queue[i + 1]
    BY <2>1
  <2> HIDE DEF rest
  <2>5. \A i \in 1 .. Len(queue) - 1 :
           \E m \in 1 .. Len(queue) : rest[i] = queue[m] /\ m # k
                                      /\ m = IF i < k THEN i ELSE i + 1
    BY <1>1, <2>4
  <2>6. IsInjective(rest)
    <3>1. ASSUME NEW i \in 1 .. Len(queue) - 1, NEW j \in 1 .. Len(queue) - 1,
                 rest[i] = rest[j]
          PROVE  i = j
      <4>1. (IF i < k THEN i ELSE i + 1) = IF j < k THEN j ELSE j + 1
        BY <2>3, <2>5, <3>1
      <4>2. QED BY <1>1, <4>1
    <3>2. QED BY <2>2, <3>1 DEF IsInjective
  <2>7. ASSUME NEW j
        PROVE  j \in ToSet(rest) <=> j \in ToSet(queue) /\ j # id
    <3>1. ASSUME j \in ToSet(rest) PROVE j \in ToSet(queue) /\ j # id
      <4>1. PICK i \in 1 .. Len(queue) - 1 : j = rest[i] BY <2>2, <3>1 DEF ToSet
      <4>2. PICK m \in 1 .. Len(queue) : rest[i] = queue[m] /\ m # k BY <2>5
      <4>3. QED BY <1>1, <2>1, <2>3, <4>1, <4>2 DEF ToSet
    <3>2. ASSUME j \in ToSet(queue), j # id PROVE j \in ToSet(rest)
      <4>1. PICK m \in 1 .. Len(queue) : j = queue[m] BY <1>1, <3>2 DEF ToSet
      <4>2. m # k BY <2>1, <3>2, <4>1
      <4>3. CASE m < k
        <5>1. m \in 1 .. Len(queue) - 1 BY <1>1, <4>3
        <5>2. rest[m] = j BY <2>4, <4>1, <4>3, <5>1
        <5>3. QED BY <2>2, <5>1, <5>2 DEF ToSet
      <4>4. CASE k < m
        <5>1. m - 1 \in 1 .. Len(queue) - 1 /\ ~(m - 1 < k) /\ (m - 1) + 1 = m
          BY <1>1, <4>4
        <5>2. rest[m - 1] = queue[(m - 1) + 1] BY <2>4, <5>1
        <5>3. rest[m - 1] = j BY <4>1, <5>1, <5>2
        <5>4. QED BY <2>2, <5>1, <5>3 DEF ToSet
      <4>5. QED BY <1>1, <4>2, <4>3, <4>4
    <3>3. QED BY <3>1, <3>2
  <2>8. ToSet(rest) = ToSet(queue) \ {id} BY <2>7
  <2>9. QED BY <2>6, <2>8 DEF rest
<1>4. QED BY <1>1, <1>2, <1>3, UnqueueCases

\* Which packets a publish and its PubAck are, and which the others.
LEMMA UnackedFacts ==
  ASSUME NEW id \in Ids
  PROVE  /\ Unacked(id) \subseteq WithId(id) /\ Others(id) \subseteq WithId(id)
         /\ \A p \in Packet :
              /\ In(p, Unacked(id)) =
                   IF p.id = id /\ p.type \in {"publish1", "puback"} THEN 1 ELSE 0
              /\ In(p, Others(id)) =
                   IF p.id = id /\ p.type \notin {"publish1", "puback"} THEN 1 ELSE 0
BY DEF Unacked, Others, WithId, In

\* An identifier has at most one carrier, of a publish or of another request.
LEMMA OneCarrier ==
  ASSUME TypeInv, IdInv, NEW id \in Ids
  PROVE  /\ Travelling(Unacked(id)) \in Nat /\ Travelling(Others(id)) \in Nat
         /\ Travelling(Unacked(id)) <= 1 /\ Travelling(Others(id)) <= 1
         /\ id \in free => Travelling(Unacked(id)) = 0 /\ Travelling(Others(id)) = 0
<1>1. /\ Travelling(Unacked(id)) <= Travelling(WithId(id))
      /\ Travelling(Others(id)) <= Travelling(WithId(id))
  BY UnackedFacts, TravellingSubset
<1>2. /\ Travelling(Unacked(id)) \in Nat /\ Travelling(Others(id)) \in Nat
      /\ Travelling(WithId(id)) \in Nat
  BY TravellingNat
<1>3. QED BY <1>1, <1>2 DEF IdInv

LEMMA QueueSteps ==
  ASSUME TypeInv, TypeInv', IdInv, QueueInv, [Next]_vars
  PROVE  /\ IsInjective(queue')
         /\ CmdIdentified => IF Head(cmds).type = "publish1"
                             THEN ToSet(queue') = ToSet(queue) \cup {out'}
                             ELSE queue' = queue
         /\ TickPing \/ ReadAck \/ ReadPingResp => queue' = queue
         /\ ReadPubAck => ToSet(queue') = ToSet(queue) \ {Head(toClient).id}
<1>1. IsInjective(queue) BY DEF QueueInv
<1>2. CmdIdentified => queue' = IF Head(cmds).type = "publish1" THEN Append(queue, out') ELSE queue
  BY DEF CmdIdentified
<1>3. CmdIdentified => out' \in Ids /\ out' \notin ToSet(queue)
  BY TakesId DEF QueueInv
<1>4. CmdIdentified => IsInjective(queue') BY <1>1, <1>2, <1>3, QueueAppend
<1>5. CmdIdentified /\ Head(cmds).type = "publish1"
        => ToSet(queue') = ToSet(queue) \cup {out'}
  BY <1>1, <1>2, <1>3, QueueAppend
<1>6. TickPing \/ ReadAck \/ ReadPingResp => queue' = queue
  BY DEF TickPing, ReadAck, ReadPingResp
<1>7. ReadPubAck => queue' = Unqueue(Head(toClient).id) BY DEF ReadPubAck
<1>8. ReadPubAck => /\ IsInjective(queue')
                    /\ ToSet(queue') = ToSet(queue) \ {Head(toClient).id}
  BY <1>1, <1>7, QueueRemove
<1>9. IsInjective(queue')
  BY <1>1, <1>4, <1>6, <1>8, StepKinds, OtherSteps DEF Still
<1>10. QED BY <1>2, <1>5, <1>6, <1>8, <1>9

LEMMA QueueInvStep ==
  ASSUME TypeInv, TypeInv', IdInv, QueueInv, [Next]_vars
  PROVE  QueueInv'
<1> DEFINE U(id) == Travelling(Unacked(id))
           O(id) == Travelling(Others(id))
<1>1. ASSUME NEW id \in Ids
      PROVE  /\ U(id) \in Nat /\ U(id)' \in Nat /\ O(id) \in Nat /\ O(id)' \in Nat
             /\ U(id) <= 1 /\ O(id) <= 1
             /\ id \in free => U(id) = 0 /\ O(id) = 0
             /\ id \notin ToSet(queue) => U(id) = 0
             /\ id \in ToSet(queue) => O(id) = 0 /\ id \notin free
             /\ link = "up" /\ id \in ToSet(queue) => U(id) = 1
  BY OneCarrier, TravellingNatNext DEF QueueInv, Whole
<1>2. \A id \in Ids : id # 0 BY EventLoopAssumption DEF Ids
<1>3. pc = "connecting" => queue = <<>> BY DEF QueueInv
<1>4. ASSUME NEW id \in Ids
      PROVE  /\ id \notin ToSet(queue') => U(id)' = 0
             /\ link' = "up" /\ id \in ToSet(queue') => U(id)' = 1
  <2>1. Conserved(Unacked(id)) BY KindsConserved
  <2>2. \A p \in Packet : In(p, Unacked(id)) =
                         IF p.id = id /\ p.type \in {"publish1", "puback"} THEN 1 ELSE 0
    BY UnackedFacts
  <2>3. CASE CmdIdentified /\ U(id)' = U(id) + In(writing', Unacked(id))
    <3>1. /\ writing' \in Packet /\ writing'.id = out'
          /\ writing'.type = Head(cmds).type /\ Head(cmds).type \in Identified
          /\ out' \in free /\ out' \in Ids /\ link' = link
      BY <2>3, TakesId DEF Pkt
    <3>2. IF Head(cmds).type = "publish1" THEN ToSet(queue') = ToSet(queue) \cup {out'}
                                         ELSE queue' = queue
      BY <2>3, QueueSteps
    <3>3. In(writing', Unacked(id)) =
            IF out' = id /\ Head(cmds).type = "publish1" THEN 1 ELSE 0
      BY <2>2, <3>1 DEF Identified
    <3> HIDE DEF U, O
    <3>4. CASE out' = id /\ Head(cmds).type = "publish1"
      BY <1>1, <2>3, <3>1, <3>2, <3>3, <3>4
    <3>5. CASE ~(out' = id /\ Head(cmds).type = "publish1")
      <4>1. U(id)' = U(id) BY <1>1, <2>3, <3>3, <3>5
      <4>2. id \in ToSet(queue') <=> id \in ToSet(queue) BY <3>2, <3>5
      <4>3. QED BY <1>1, <3>1, <4>1, <4>2
    <3>6. QED BY <3>4, <3>5
  <2>4. CASE TickPing /\ U(id)' = U(id) + In(writing', Unacked(id))
    <3>1. writing' \notin Unacked(id) BY <1>2, <2>4, TickFacts DEF Pkt, WithId, Unacked
    <3>2. In(writing', Unacked(id)) = 0 BY <3>1 DEF In
    <3> HIDE DEF U, O
    <3>3. QED BY <1>1, <2>4, <3>2, TickFacts
  <2>5. CASE /\ ReadAck \/ ReadPubAck \/ ReadPingResp
             /\ U(id) = U(id)' + In(Head(toClient), Unacked(id))
    <3> DEFINE h == Head(toClient)
    <3>1. /\ h \in Packet /\ link' = link
          /\ In(h, Unacked(id)) =
               IF h.id = id /\ h.type \in {"publish1", "puback"} THEN 1 ELSE 0
      BY <2>2, <2>5, ReadIds
    <3>2. /\ ReadAck => h.type \notin {"publish1", "puback"}
          /\ ReadPubAck => h.type = "puback"
          /\ ReadPingResp => h.type = "pingresp"
      BY DEF ReadAck, ReadPubAck, ReadPingResp, Read
    <3>3. /\ ReadAck \/ ReadPingResp => queue' = queue
          /\ ReadPubAck => ToSet(queue') = ToSet(queue) \ {h.id}
      BY QueueSteps
    <3> HIDE DEF U, O, h
    <3>4. CASE ReadAck \/ ReadPingResp
      BY <1>1, <2>5, <3>1, <3>2, <3>3, <3>4 DEF h
    <3>5. CASE ReadPubAck
      <4>1. CASE h.id = id BY <1>1, <2>5, <3>1, <3>2, <3>3, <3>5, <4>1 DEF h
      <4>2. CASE h.id # id BY <1>1, <2>5, <3>1, <3>2, <3>3, <3>5, <4>2 DEF h
      <4>3. QED BY <4>1, <4>2
    <3>6. QED BY <2>5, <3>4, <3>5
  <2>6. CASE Write /\ U(id)' = U(id)
    <3>1. UNCHANGED <<queue, link>> BY <2>6, OtherSteps
    <3> HIDE DEF U, O
    <3>2. QED BY <1>1, <2>6, <3>1
  <2>7. CASE Ends /\ U(id)' + In(writing, Unacked(id)) <= U(id)
    <3>1. queue' = queue /\ link' # "up" BY <2>7, OtherSteps
    <3>2. In(writing, Unacked(id)) \in Nat BY DEF In
    <3> HIDE DEF U, O
    <3>3. QED BY <1>1, <2>7, <3>1, <3>2
  <2>8. CASE /\ WriteDisconnect \/ \E k \in 0 .. Len(toClient) : Reset(k)
             /\ U(id)' <= U(id)
    <3>1. queue' = queue /\ link' # "up" BY <2>8, OtherSteps
    <3> HIDE DEF U, O
    <3>2. QED BY <1>1, <2>8, <3>1
  <2>9. CASE Still /\ U(id)' = U(id)
    <3>1. queue' = queue /\ (link' = "up" => link = "up" \/ pc = "connecting")
      BY <2>9 DEF Still
    <3>2. pc = "connecting" => id \notin ToSet(queue) BY <1>3 DEF ToSet
    <3> HIDE DEF U, O
    <3>3. QED BY <1>1, <2>9, <3>1, <3>2
  <2>10. U(id) <= 1 BY <1>1
  <2>11. QED BY <2>1, <2>3, <2>4, <2>5, <2>6, <2>7, <2>8, <2>9, <2>10, Flow
<1>5. ASSUME NEW id \in Ids, id \in ToSet(queue') PROVE O(id)' = 0
  <2>1. Conserved(Others(id)) /\ O(id) <= 1 BY <1>1, KindsConserved
  <2>2. CASE CmdIdentified /\ O(id)' = O(id) + In(writing', Others(id))
    <3>1. /\ writing' \in Packet /\ writing'.id = out'
          /\ writing'.type = Head(cmds).type /\ out' \in free /\ out' \in Ids
      BY <2>2, TakesId DEF Pkt
    <3>2. IF Head(cmds).type = "publish1" THEN ToSet(queue') = ToSet(queue) \cup {out'}
                                         ELSE queue' = queue
      BY <2>2, QueueSteps
    <3>3. In(writing', Others(id)) =
            IF out' = id /\ Head(cmds).type \notin {"publish1", "puback"} THEN 1 ELSE 0
      BY <3>1, UnackedFacts
    <3> HIDE DEF U, O
    <3>4. CASE out' = id
      <4>1. O(id) = 0 /\ id \notin ToSet(queue) BY <1>1, <3>1, <3>4
      <4>2. Head(cmds).type = "publish1" BY <1>5, <3>2, <4>1
      <4>3. QED BY <2>2, <3>3, <4>1, <4>2
    <3>5. CASE out' # id
      <4>1. id \in ToSet(queue) BY <1>5, <3>2, <3>5
      <4>2. QED BY <1>1, <2>2, <3>3, <3>5, <4>1
    <3>6. QED BY <3>4, <3>5
  <2>3. CASE TickPing /\ O(id)' = O(id) + In(writing', Others(id))
    <3>1. writing' \notin Others(id) BY <1>2, <2>3, TickFacts DEF Pkt, WithId, Others
    <3>2. In(writing', Others(id)) = 0 BY <3>1 DEF In
    <3>3. id \in ToSet(queue) BY <1>5, <2>3, TickFacts
    <3> HIDE DEF U, O
    <3>4. QED BY <1>1, <2>3, <3>2, <3>3
  <2>4. CASE /\ ReadAck \/ ReadPubAck \/ ReadPingResp
             /\ O(id) = O(id)' + In(Head(toClient), Others(id))
    <3>1. id \in ToSet(queue) BY <1>5, <2>4, QueueSteps
    <3>2. In(Head(toClient), Others(id)) \in Nat BY DEF In
    <3> HIDE DEF U, O
    <3>3. QED BY <1>1, <2>4, <3>1, <3>2
  <2>5. CASE Ends /\ O(id)' + In(writing, Others(id)) <= O(id)
    <3>1. id \in ToSet(queue) BY <1>5, <2>5, OtherSteps
    <3>2. In(writing, Others(id)) \in Nat BY DEF In
    <3> HIDE DEF U, O
    <3>3. QED BY <1>1, <2>5, <3>1, <3>2
  <2>6. CASE \/ Write /\ O(id)' = O(id)
             \/ /\ WriteDisconnect \/ \E k \in 0 .. Len(toClient) : Reset(k)
                /\ O(id)' <= O(id)
             \/ Still /\ O(id)' = O(id)
    <3>1. id \in ToSet(queue) BY <1>5, <2>6, OtherSteps DEF Still
    <3>2. O(id)' = O(id) \/ O(id)' <= O(id) BY <2>6
    <3> HIDE DEF U, O
    <3>3. QED BY <1>1, <3>1, <3>2
  <2>7. QED BY <2>1, <2>2, <2>3, <2>4, <2>5, <2>6, Flow
<1>6. ASSUME NEW id \in Ids, id \in ToSet(queue') PROVE id \notin free'
  <2>1. CASE CmdIdentified
    <3>1. CASE id = out' BY <2>1, <3>1, TakesId
    <3>2. CASE id # out'
      <4>1. id \in ToSet(queue) BY <1>6, <2>1, <3>2, QueueSteps
      <4>2. QED BY <1>1, <2>1, <4>1, TakesId
    <3>3. QED BY <3>1, <3>2
  <2>2. CASE ReadAck
    <3>1. id \in ToSet(queue) BY <1>6, <2>2, QueueSteps
    <3>2. CASE id = Head(toClient).id
      <4>1. /\ toClient # <<>> /\ toClient' = Tail(toClient)
            /\ Head(toClient).type \in {"suback", "unsuback"}
            /\ UNCHANGED <<writing, toBroker, owed>>
        BY <2>2 DEF ReadAck, Read, Notify, brokerVars
      <4>2. Head(toClient) \in Packet BY <2>2, ReadIds
      <4>3. In(Head(toClient), Others(id)) = 1 BY <3>2, <4>1, <4>2, UnackedFacts
      <4>4. In(writing', Others(id)) = In(writing, Others(id)) BY <4>1 DEF In
      <4>5. O(id) = O(id)' + 1 BY <4>1, <4>3, <4>4, FlowRead
      <4> HIDE DEF U, O
      <4>6. QED BY <1>1, <3>1, <4>5
    <3>3. CASE id # Head(toClient).id BY <1>1, <2>2, <3>1, <3>3, ReadIds
    <3>4. QED BY <3>2, <3>3
  <2>3. CASE ReadPubAck
    <3>1. id \in ToSet(queue) /\ id # Head(toClient).id BY <1>6, <2>3, QueueSteps
    <3>2. QED BY <1>1, <2>3, <3>1, ReadIds
  <2>4. CASE TickPing \/ ReadPingResp
    <3>1. queue' = queue /\ free' = free BY <2>4, TickFacts, ReadIds, QueueSteps
    <3>2. QED BY <1>1, <1>6, <3>1
  <2>5. CASE \/ Write \/ Ends \/ WriteDisconnect
             \/ (\E k \in 0 .. Len(toClient) : Reset(k))
             \/ Still
    <3>1. queue' = queue /\ free' = free BY <2>5, OtherSteps DEF Still
    <3>2. QED BY <1>1, <1>6, <3>1
  <2>6. QED BY <2>1, <2>2, <2>3, <2>4, <2>5, StepKinds
<1>7. pc' = "connecting" => queue' = <<>>
  BY <1>3, StepKinds, TakesId, TickFacts, ReadIds, OtherSteps DEF Still
<1>8. IsInjective(queue') BY QueueSteps
<1>9. QED BY <1>4, <1>5, <1>6, <1>7, <1>8 DEF QueueInv, Whole

LEMMA QueueInvHolds == Spec => []QueueInv
<1>1. TypeInv /\ TypeInv' /\ IdInv /\ QueueInv /\ [Next]_vars => QueueInv'
  BY QueueInvStep
<1>2. QED BY <1>1, QueueInvInit, IdInvHolds, PacketsWellFormed, PTL DEF Spec

\* The queue of unacknowledged publishes holds an identifier once, and exactly
\* as long as its publish or its PubAck is on the way: in whatever order the
\* PubAcks arrive, each takes its own publish from the queue.
THEOREM QueueHoldsUnacked == Spec => []QueueIsUnacked
<1>1. TypeInv /\ IdInv /\ QueueInv => QueueIsUnacked
  <2> SUFFICES ASSUME TypeInv, IdInv, QueueInv PROVE QueueIsUnacked OBVIOUS
  <2>1. ToSet(queue) \cap free = {}
    <3>1. ToSet(queue) \subseteq Ids BY DEF TypeInv, LoopTypes, ToSet
    <3>2. QED BY <3>1 DEF QueueInv
  <2>2. ASSUME NEW id \in Ids
        PROVE  LET unacked == Travelling(Unacked(id))
               IN  IF id \in ToSet(queue) THEN unacked = 1 \/ ~Whole
                                          ELSE unacked = 0
    BY DEF QueueInv
  <2>3. QED BY <2>1, <2>2 DEF QueueIsUnacked, QueueInv
<1>2. QED BY <1>1, QueueInvHolds, IdInvHolds, PacketsWellFormed, PTL

-----------------------------------------------------------------------------
(* The ping.                                                               *)

\* The loop waits for a PingResp, or will when it has written the PingReq.
Awaited == pingresp = "waiting" \/ writing.type = "pingreq"

PingInv ==
  /\ Travelling(Pings) <= 1
  /\ ~Awaited => Travelling(Pings) = 0
  /\ Whole /\ Awaited => Travelling(Pings) = 1
  /\ pc = "connecting" => ~Awaited

LEMMA PingInvInit == Init => PingInv
<1> SUFFICES ASSUME Init PROVE PingInv OBVIOUS
<1>1. NoPkt \notin Pings BY KindsConserved, ConservedFacts
<1>2. Travelling(Pings) = 0 BY <1>1, NothingTravels
<1>3. ~Awaited /\ link = "none" BY DEF Init, Awaited, NoPkt, Pkt
<1>4. QED BY <1>2, <1>3 DEF PingInv, Whole

LEMMA PingInvStep ==
  ASSUME TypeInv, TypeInv', PingInv, [Next]_vars
  PROVE  PingInv'
<1> DEFINE T == Travelling(Pings)
<1>1. /\ T \in Nat /\ T' \in Nat /\ T <= 1
      /\ ~Awaited => T = 0
      /\ link = "up" /\ Awaited => T = 1
      /\ pc = "connecting" => ~Awaited
  BY TravellingNat, TravellingNatNext DEF PingInv, Whole
<1>2. pc = "select" => writing.type # "pingreq"
  BY DEF TypeInv, LoopTypes, NoPkt, Pkt
<1>3. \A p \in Packet : In(p, Pings) = IF p.type \in {"pingreq", "pingresp"} THEN 1 ELSE 0
  BY DEF In, Pings
<1>4. SUFFICES /\ T' <= 1
               /\ ~Awaited' => T' = 0
               /\ link' = "up" /\ Awaited' => T' = 1
               /\ pc' = "connecting" => ~Awaited'
  BY DEF PingInv, Whole
<1>5. CASE CmdIdentified /\ T' = T + In(writing', Pings)
  <2>1. /\ writing' \in Packet /\ writing'.type \in Identified
        /\ link' = link /\ pc = "select" /\ pc' = "writing"
    BY <1>5, TakesId DEF Pkt
  <2>2. pingresp' = pingresp BY <1>5 DEF CmdIdentified
  <2>3. Awaited' <=> Awaited BY <1>2, <2>1, <2>2 DEF Awaited, Identified
  <2>4. In(writing', Pings) = 0 BY <1>3, <2>1 DEF Identified
  <2> HIDE DEF T
  <2>5. QED BY <1>1, <1>5, <2>1, <2>3, <2>4
<1>6. CASE TickPing /\ T' = T + In(writing', Pings)
  <2>1. writing'.type = "pingreq" /\ writing' \in Packet
    <3>1. Pkt("pingreq", 0, 0) \in Packet
      BY EventLoopAssumption DEF Pkt, Packet, Encodable
    <3>2. QED BY <1>6, <3>1, TickFacts DEF Pkt
  <2>2. Awaited' /\ ~Awaited BY <1>2, <1>6, <2>1, TickFacts DEF Awaited
  <2>3. In(writing', Pings) = 1 BY <1>3, <2>1
  <2>4. pc' = "writing" BY <1>6, TickFacts
  <2> HIDE DEF T
  <2>5. QED BY <1>1, <1>6, <2>2, <2>3, <2>4
<1>7. CASE /\ ReadAck \/ ReadPubAck \/ ReadPingResp
           /\ T = T' + In(Head(toClient), Pings)
  <2> DEFINE h == Head(toClient)
  <2>1. h \in Packet /\ link' = link /\ pc' # "connecting" BY <1>7, ReadIds
  <2>2. In(h, Pings) = IF h.type \in {"pingreq", "pingresp"} THEN 1 ELSE 0
    BY <1>3, <2>1
  <2>3. CASE ReadPingResp
    <3>1. /\ h.type = "pingresp" /\ pingresp' = "received" /\ writing' = writing
          /\ pc = "select"
      BY <2>3 DEF ReadPingResp, Read
    <3>2. ~Awaited' BY <1>2, <3>1 DEF Awaited
    <3> HIDE DEF T, h
    <3>3. QED BY <1>1, <1>7, <2>1, <2>2, <3>1, <3>2 DEF h
  <2>4. CASE ReadAck \/ ReadPubAck
    <3>1. /\ h.type \in {"suback", "unsuback", "puback"}
          /\ UNCHANGED <<pingresp, writing>>
      BY <2>4 DEF ReadAck, ReadPubAck, Read, Notify
    <3>2. Awaited' <=> Awaited BY <3>1 DEF Awaited
    <3>3. In(h, Pings) = 0 BY <2>2, <3>1
    <3> HIDE DEF T, h
    <3>4. QED BY <1>1, <1>7, <2>1, <3>2, <3>3 DEF h
  <2>5. QED BY <1>7, <2>3, <2>4
<1>8. CASE Write /\ T' = T
  <2>1. link' = link /\ pc' # "connecting" BY <1>8, OtherSteps
  <2>2. Awaited' <=> Awaited BY <1>8 DEF Write, Awaited, NoPkt, Pkt
  <2> HIDE DEF T
  <2>3. QED BY <1>1, <1>8, <2>1, <2>2
<1>9. CASE Ends /\ T' + In(writing, Pings) <= T
  <2>1. link' # "up" /\ pc' = "done" BY <1>9, OtherSteps
  <2>2. pingresp' = pingresp /\ writing' = NoPkt BY <1>9 DEF Ends, Finish
  <2>3. writing \in Packet BY TypeInvImplies DEF TypeOK
  <2>4. /\ In(writing, Pings) \in Nat
        /\ writing.type = "pingreq" => In(writing, Pings) = 1
    BY <1>3, <2>3 DEF In
  <2>5. ~Awaited' => ~Awaited \/ writing.type = "pingreq" BY <2>2 DEF Awaited
  <2> HIDE DEF T
  <2>6. T' <= T /\ (writing.type = "pingreq" => T' = 0) BY <1>1, <1>9, <2>4
  <2>7. QED BY <1>1, <2>1, <2>5, <2>6
<1>10. CASE /\ WriteDisconnect \/ \E k \in 0 .. Len(toClient) : Reset(k)
            /\ T' <= T
  <2>1. /\ link' # "up"
        /\ WriteDisconnect \/ UNCHANGED <<pc, pingresp, writing>>
    BY <1>10, OtherSteps
  <2>2. WriteDisconnect => pc' = "done" /\ (Awaited' <=> Awaited)
    BY DEF WriteDisconnect, Finish, Awaited, NoPkt, Pkt
  <2>3. UNCHANGED <<pc, pingresp, writing>> => UNCHANGED pc /\ (Awaited' <=> Awaited)
    BY DEF Awaited
  <2> HIDE DEF T
  <2>4. QED BY <1>1, <1>10, <2>1, <2>2, <2>3
<1>11. CASE Still /\ T' = T
  <2>1. /\ Awaited' <=> Awaited
        /\ link' = "up" => link = "up" \/ pc = "connecting"
        /\ pc' = "connecting" => pc = "connecting"
    <3>1. pingresp' = pingresp /\ (writing'.type = "pingreq" <=> writing.type = "pingreq")
      BY <1>11 DEF Still
    <3>2. Awaited' <=> Awaited BY <3>1, Zenon DEF Awaited
    <3>3. QED BY <1>11, <3>2 DEF Still
  <2> HIDE DEF T
  <2>2. QED BY <1>1, <1>11, <2>1
<1>12. Conserved(Pings) /\ T <= 1 BY <1>1, KindsConserved
<1>13. QED BY <1>5, <1>6, <1>7, <1>8, <1>9, <1>10, <1>11, <1>12, Flow

LEMMA PingInvHolds == Spec => []PingInv
<1>1. TypeInv /\ TypeInv' /\ PingInv /\ [Next]_vars => PingInv' BY PingInvStep
<1>2. QED BY <1>1, PingInvInit, PacketsWellFormed, PTL DEF Spec

\* One ping at a time, and the loop waits for a PingResp exactly when a ping is
\* on the way: a late PingResp is never taken for the answer to a later ping.
THEOREM OnePingAtATime == Spec => []PingAccounting
<1>1. TypeInv /\ PingInv => PingAccounting
  <2> SUFFICES ASSUME TypeInv, PingInv PROVE PingAccounting OBVIOUS
  <2> DEFINE pinging == Travelling(Pings)
  <2>1. /\ pinging <= 1 /\ (~Awaited => pinging = 0)
        /\ (Whole /\ Awaited => pinging = 1)
    BY DEF PingInv
  <2>2. Awaited <=> pingresp = "waiting" \/ writing.type = "pingreq" BY DEF Awaited
  <2>3. PingAccounting <=> /\ pinging <= 1
                           /\ Whole => (pinging = 1 <=> pingresp = "waiting" \/ writing.type = "pingreq")
    BY DEF PingAccounting
  <2> HIDE DEF pinging
  <2>4. QED BY <2>1, <2>2, <2>3
<1>2. QED BY <1>1, PingInvHolds, PacketsWellFormed, PTL
=============================================================================

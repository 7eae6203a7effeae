--------------------------- MODULE EventLoopOrder ----------------------------
(***************************************************************************)
(* For every number of Clients, identifiers, packets and every capacity of *)
(* the connection: the Connack comes first, the commands reach the broker  *)
(* in the order in which they were queued, and the broker's messages reach *)
(* the user in the order in which they were sent.                          *)
(***************************************************************************)
EXTENDS EventLoopInvariants

-----------------------------------------------------------------------------
(* Sequences of numbered items.                                            *)

\* The numbers that the items of a sequence carry (0 is none), ...
Numbers(s) == {s[i].n : i \in DOMAIN s} \ {0}

\* ... and that they come in order.
Ordered(s) == \A i, j \in DOMAIN s : i < j /\ s[j].n # 0 => s[i].n < s[j].n

LEMMA NumbersEmpty == Numbers(<<>>) = {} /\ Ordered(<<>>)
BY DEF Numbers, Ordered

LEMMA NumbersNat ==
  ASSUME NEW M, \A p \in M : p.n \in Nat, NEW s \in Seq(M)
  PROVE  Numbers(s) \subseteq Nat \ {0}
BY DEF Numbers

LEMMA NumbersAppend ==
  ASSUME NEW M, \A p \in M : p.n \in Nat, NEW s \in Seq(M), NEW p \in M,
         Ordered(s), p.n # 0 => \A m \in Numbers(s) : m < p.n
  PROVE  /\ Numbers(Append(s, p)) = Numbers(s) \cup ({p.n} \ {0})
         /\ Ordered(Append(s, p))
<1> DEFINE t == Append(s, p)
<1>1. /\ DOMAIN s = 1 .. Len(s) /\ Len(s) \in Nat
      /\ DOMAIN t = 1 .. Len(s) + 1
      /\ \A i \in 1 .. Len(s) : t[i] = s[i] /\ s[i].n \in Nat
      /\ t[Len(s) + 1] = p
  OBVIOUS
<1>2. \A i : i \in 1 .. Len(s) + 1 <=> i \in 1 .. Len(s) \/ i = Len(s) + 1
  BY <1>1
<1> HIDE DEF t
<1>3. ASSUME NEW m PROVE m \in Numbers(t) <=> m \in Numbers(s) \cup ({p.n} \ {0})
  BY <1>1, <1>2 DEF Numbers
<1>4. ASSUME NEW i \in DOMAIN t, NEW j \in DOMAIN t, i < j, t[j].n # 0
      PROVE  t[i].n < t[j].n
  <2>1. i \in 1 .. Len(s) BY <1>1, <1>4
  <2>2. CASE j \in 1 .. Len(s) BY <1>1, <1>4, <2>1, <2>2 DEF Ordered
  <2>3. CASE j = Len(s) + 1
    <3>1. t[i].n = s[i].n /\ t[j].n = p.n /\ p.n # 0 BY <1>1, <1>4, <2>1, <2>3
    <3>2. CASE s[i].n = 0 BY <3>1, <3>2
    <3>3. CASE s[i].n # 0
      <4>1. s[i].n \in Numbers(s) BY <1>1, <2>1, <3>3 DEF Numbers
      <4>2. QED BY <3>1, <4>1
    <3>4. QED BY <3>2, <3>3
  <2>4. QED BY <1>1, <1>2, <2>2, <2>3
<1>5. QED BY <1>3, <1>4 DEF Ordered, t

LEMMA NumbersTail ==
  ASSUME NEW M, \A p \in M : p.n \in Nat, NEW s \in Seq(M), s # <<>>, Ordered(s)
  PROVE  /\ Numbers(s) = Numbers(Tail(s)) \cup ({Head(s).n} \ {0})
         /\ \A m \in Numbers(Tail(s)) : Head(s).n < m
         /\ Ordered(Tail(s))
         /\ Head(s).n \in Nat
<1> DEFINE t == Tail(s)
<1>1. /\ DOMAIN s = 1 .. Len(s) /\ Len(s) \in Nat /\ Len(s) > 0
      /\ DOMAIN t = 1 .. Len(s) - 1
      /\ \A i \in 1 .. Len(s) - 1 : t[i] = s[i + 1]
      /\ Head(s) = s[1]
      /\ \A i \in 1 .. Len(s) : s[i].n \in Nat
  BY EmptySeq, HeadTailProperties
<1> HIDE DEF t
<1>2. \A i \in 1 .. Len(s) - 1 : i + 1 \in 1 .. Len(s) /\ 1 < i + 1 BY <1>1
<1>3. \A i \in 1 .. Len(s) : i = 1 \/ (i - 1 \in 1 .. Len(s) - 1 /\ (i - 1) + 1 = i) BY <1>1
<1>4. ASSUME NEW m \in Numbers(t) PROVE m \in Numbers(s) /\ Head(s).n < m
  <2>1. PICK i \in 1 .. Len(s) - 1 : m = t[i].n /\ m # 0 BY <1>1 DEF Numbers
  <2>2. i + 1 \in DOMAIN s /\ m = s[i + 1].n /\ 1 \in DOMAIN s /\ 1 < i + 1
    BY <1>1, <1>2, <2>1
  <2>3. m \in Numbers(s) BY <2>1, <2>2 DEF Numbers
  <2>4. s[1].n < s[i + 1].n BY <2>1, <2>2 DEF Ordered
  <2>5. QED BY <1>1, <2>2, <2>3, <2>4
<1>5. ASSUME NEW m \in Numbers(s) PROVE m \in Numbers(t) \/ m = Head(s).n
  <2>1. PICK i \in 1 .. Len(s) : m = s[i].n /\ m # 0 BY <1>1 DEF Numbers
  <2>2. CASE i = 1 BY <1>1, <2>1, <2>2
  <2>3. CASE i # 1
    <3>1. i - 1 \in DOMAIN t /\ t[i - 1] = s[(i - 1) + 1] /\ (i - 1) + 1 = i
      BY <1>1, <1>3, <2>3
    <3>2. t[i - 1].n = m BY <2>1, <3>1
    <3>3. QED BY <2>1, <3>1, <3>2 DEF Numbers
  <2>4. QED BY <2>2, <2>3
<1>6. Head(s).n # 0 => Head(s).n \in Numbers(s) BY <1>1 DEF Numbers
<1>7. 0 \notin Numbers(s) BY DEF Numbers
<1>8. ASSUME NEW i \in DOMAIN t, NEW j \in DOMAIN t, i < j, t[j].n # 0
      PROVE  t[i].n < t[j].n
  <2>1. t[i] = s[i + 1] /\ t[j] = s[j + 1] /\ i + 1 < j + 1
        /\ i + 1 \in DOMAIN s /\ j + 1 \in DOMAIN s
    BY <1>1, <1>2, <1>8
  <2>2. QED BY <1>8, <2>1 DEF Ordered
<1>9. Numbers(s) = Numbers(t) \cup ({Head(s).n} \ {0}) BY <1>4, <1>5, <1>6, <1>7
<1>10. Head(s).n \in Nat BY <1>1
<1>11. QED BY <1>4, <1>8, <1>9, <1>10 DEF Ordered, t

LEMMA NumbersPrefix ==
  ASSUME NEW M, \A p \in M : p.n \in Nat, NEW s \in Seq(M), NEW k \in 0 .. Len(s), Ordered(s)
  PROVE  /\ Numbers(SubSeq(s, 1, k)) \subseteq Numbers(s)
         /\ \A n \in Numbers(SubSeq(s, 1, k)), m \in Numbers(s) :
              m <= n => m \in Numbers(SubSeq(s, 1, k))
         /\ Ordered(SubSeq(s, 1, k))
<1> DEFINE t == SubSeq(s, 1, k)
<1>1. /\ DOMAIN s = 1 .. Len(s) /\ DOMAIN t = 1 .. k /\ k \in Nat /\ Len(s) \in Nat
      /\ \A i \in 1 .. k : t[i] = s[i] /\ i \in 1 .. Len(s)
      /\ \A i \in 1 .. Len(s) : s[i].n \in Nat
  OBVIOUS
<1> HIDE DEF t
<1>2. Numbers(t) \subseteq Numbers(s) BY <1>1 DEF Numbers
<1>3. ASSUME NEW n \in Numbers(t), NEW m \in Numbers(s), m <= n PROVE m \in Numbers(t)
  <2>1. PICK i \in 1 .. k : n = s[i].n /\ n # 0 BY <1>1 DEF Numbers
  <2>2. PICK j \in 1 .. Len(s) : m = s[j].n /\ m # 0 BY <1>1 DEF Numbers
  <2>3. j <= i
    <3>1. i < j => s[i].n < s[j].n BY <1>1, <2>2 DEF Ordered
    <3>2. n \in Nat /\ m \in Nat BY <1>1, <2>1, <2>2
    <3>3. ~(n < m) BY <1>3, <3>2
    <3>4. QED BY <1>1, <2>1, <2>2, <3>1, <3>3
  <2>4. j \in 1 .. k BY <1>1, <2>3
  <2>5. QED BY <1>1, <2>2, <2>4 DEF Numbers
<1>4. Ordered(t) BY <1>1 DEF Ordered
<1>5. QED BY <1>2, <1>3, <1>4 DEF t

-----------------------------------------------------------------------------
(* The phases of the loop.                                                 *)

\* The Connect packet is not yet written, ...
Unconnected == pc \in {"connecting", "failed"} \/ writing.type = "connect"

\* ... or the Connack is not yet read.
Early == Unconnected \/ pc = "handshake"

\* The packet given to the socket is in its buffer, or the loop has none.
Uplinks == toBroker' = toBroker \/ toBroker' = Append(toBroker, writing)

\* Past the handshake.
LoopRuns ==
  /\ pc \in {"select", "writing", "notifying"} /\ writing.type # "connect"
  /\ pc' \notin {"connecting", "failed", "handshake"} /\ writing'.type # "connect"
  /\ UNCHANGED <<session, got, sent, received>>
  /\ Uplinks
  /\ \/ notifs' = notifs
     \/ \E t \in {"suback", "unsuback", "message"}, n \in Nat :
          notifs' = Append(notifs, [type |-> t, n |-> n])

\* Nothing happens to the loop, the user, the connection or the broker.
Quiet ==
  UNCHANGED <<pc, writing, pingresp, notifs, received, toBroker, toClient, link,
              session, got, sent>>

LEMMA NotifyAppends ==
  ASSUME NEW t, NEW n, Notify(t, n)
  PROVE  /\ notifs' = notifs \/ notifs' = Append(notifs, [type |-> t, n |-> n])
         /\ pc' \in {"select", "notifying"}
         /\ UNCHANGED <<writing, received, user>>
BY DEF Notify, Notifs!Send

LEMMA CmdRuns ==
  ASSUME TypeInv, CmdPlain \/ CmdIdentified
  PROVE  LoopRuns
<1> USE DEF wireVars, brokerVars, notifVars
<1>1. cmds # <<>> BY DEF CmdPlain, CmdIdentified, Cmds!Receive
<1>2. Head(cmds) \in Command BY <1>1 DEF TypeInv, CommandTypes
<1>3. Head(cmds).type # "connect"
  BY <1>2, EventLoopAssumption DEF Command, AllCmdTypes
<1>4. pc = "select" /\ writing = NoPkt
  BY DEF CmdPlain, CmdIdentified, TypeInv, LoopTypes
<1>5. writing'.type = Head(cmds).type /\ pc' = "writing"
  BY DEF CmdPlain, CmdIdentified, StartWrite, Pkt
<1>6. UNCHANGED <<session, got, sent, received, toBroker, notifs>>
  BY DEF CmdPlain, CmdIdentified
<1>7. QED BY <1>3, <1>4, <1>5, <1>6 DEF LoopRuns, Uplinks, NoPkt, Pkt

LEMMA ReadRuns ==
  ASSUME TypeInv,
         TickPing \/ ReadPingResp \/ ReadPubAck \/ ReadPublish1 \/ ReadAck \/ ReadMessage
  PROVE  LoopRuns
<1> USE DEF wireVars, brokerVars, notifVars
<1>1. pc = "select" /\ writing = NoPkt
  BY DEF TickPing, ReadPingResp, ReadPubAck, ReadPublish1, ReadAck, ReadMessage,
         TypeInv, LoopTypes
<1>2. NoPkt.type # "connect" BY DEF NoPkt, Pkt
<1>3. UNCHANGED <<session, got, sent, toBroker>>
  BY DEF TickPing, ReadPingResp, ReadPubAck, ReadPublish1, ReadAck, ReadMessage
<1>4. CASE TickPing \/ ReadPublish1
  <2>1. writing'.type # "connect" /\ pc' = "writing" /\ UNCHANGED <<notifs, received>>
    BY <1>4 DEF TickPing, ReadPublish1, StartWrite, Pkt
  <2>2. QED BY <1>1, <1>2, <1>3, <2>1 DEF LoopRuns, Uplinks
<1>5. CASE ReadPingResp \/ ReadPubAck
  <2>1. UNCHANGED <<pc, writing, notifs, received>>
    BY <1>5 DEF ReadPingResp, ReadPubAck
  <2>2. QED BY <1>1, <1>2, <1>3, <2>1 DEF LoopRuns, Uplinks
<1>6. CASE ReadAck \/ ReadMessage
  <2>1. \E t \in {"suback", "unsuback", "message"}, n \in Nat : Notify(t, n)
    <3>1. toClient # <<>> BY <1>6 DEF ReadAck, ReadMessage, Read
    <3>2. Head(toClient).n \in Nat BY <3>1, IncomingFacts DEF TypeInv, WireTypes
    <3>3. QED BY <1>6, <3>2 DEF ReadAck, ReadMessage, Read
  <2>2. PICK t \in {"suback", "unsuback", "message"}, n \in Nat : Notify(t, n) BY <2>1
  <2>3. /\ notifs' = notifs \/ notifs' = Append(notifs, [type |-> t, n |-> n])
        /\ pc' \in {"select", "notifying"} /\ writing' = writing /\ received' = received
    BY <2>2, NotifyAppends
  <2>4. \/ notifs' = notifs
        \/ \E type \in {"suback", "unsuback", "message"}, k \in Nat :
             notifs' = Append(notifs, [type |-> type, n |-> k])
    BY <2>3
  <2>5. QED BY <1>1, <1>2, <1>3, <2>3, <2>4 DEF LoopRuns, Uplinks
<1>7. QED BY <1>4, <1>5, <1>6

LEMMA PhaseSteps ==
  ASSUME TypeInv, [Next]_vars
  PROVE  \/ Connect \/ ConnectFails \/ ReadConnack \/ Ends
         \/ Write /\ writing.type = "connect"
         \/ LoopRuns
         \/ Quiet
         \/ UserReceives \/ DropUser
         \/ BrokerReceives \/ BrokerGreets \/ BrokerCloses
         \/ \E p \in owed : BrokerAnswers(p)
         \/ \E t \in BrokerTypes \cup {"publish0", "connack"} : BrokerSends(t)
         \/ \E t \in {"disconnect", "disconnecterr"} : BrokerDisconnects(t)
         \/ \E k \in 0 .. Len(toClient) : Reset(k)
<1> USE DEF wireVars, brokerVars, notifVars
<1>1. CASE Write \/ WriteDisconnect
  <2>1. CASE Write /\ writing.type = "connect" BY <2>1
  <2>2. CASE writing.type # "connect"
    <3>1. /\ pc = "writing" /\ pc' \in {"select", "done"} /\ writing' = NoPkt
          /\ UNCHANGED <<session, got, sent, received, notifs>>
          /\ toBroker' = Append(toBroker, writing)
      BY <1>1, <2>2 DEF Write, WriteDisconnect, Written, Finish
    <3>2. NoPkt.type # "connect" BY DEF NoPkt, Pkt
    <3>3. LoopRuns BY <2>2, <3>1, <3>2 DEF LoopRuns, Uplinks
    <3>4. QED BY <3>3
  <2>3. CASE WriteDisconnect /\ writing.type = "connect" BY <2>3 DEF WriteDisconnect
  <2>4. QED BY <1>1, <2>1, <2>2, <2>3
<1>2. CASE Notified
  <2>1. /\ pc = "notifying" /\ pc' = "select" /\ writing' = writing
        /\ UNCHANGED <<session, got, sent, received, notifs, toBroker>>
    BY <1>2 DEF Notified
  <2>2. writing = NoPkt BY <2>1 DEF TypeInv, LoopTypes
  <2>3. writing.type # "connect" BY <2>2 DEF NoPkt, Pkt
  <2>4. LoopRuns BY <2>1, <2>3 DEF LoopRuns, Uplinks
  <2>5. QED BY <2>4
<1>3. CASE \/ \E c \in Clients : DropClient(c)
           \/ \E c \in Clients, t \in CmdTypes : TrySend(c, t)
           \/ UNCHANGED vars
  <2>1. Quiet BY <1>3 DEF DropClient, TrySend, vars, loopVars, Quiet
  <2>2. QED BY <2>1
<1>4. CmdPlain \/ CmdIdentified => LoopRuns BY CmdRuns
<1>5. TickPing \/ ReadPingResp \/ ReadPubAck \/ ReadPublish1 \/ ReadAck \/ ReadMessage
        => LoopRuns
  BY ReadRuns
<1>6. QED BY <1>1, <1>2, <1>3, <1>4, <1>5, StepCases

-----------------------------------------------------------------------------
(* The Connack comes first.                                                *)

\* The user is notified of the Connack before anything else, and once.
NotifsGreeted ==
  /\ Early => notifs = <<>> /\ received = 0
  /\ received # 0 => \A i \in DOMAIN notifs : notifs[i].type # "connack"
  /\ \A i \in DOMAIN notifs : notifs[i].type = "connack" => i = 1

\* Before the Connect packet is written the broker is sent nothing, and before
\* it has arrived it sends nothing.
NotYetConnected ==
  /\ Unconnected => toClient = <<>> /\ toBroker = <<>> /\ session \in {"none", "over"}
  /\ pc \in {"connecting", "failed"} => session = "none" /\ link = "none"
  /\ session = "none" => toClient = <<>> /\ Len(toBroker) <= 1 /\ sent = 0

\* Until the broker sends the Connack the loop does not leave its handshake.
BeforeConnack ==
  session \in {"none", "greeted"} =>
    /\ Early \/ pc = "done"
    /\ got = 0 /\ pingresp = "none"
    /\ \A i \in DOMAIN toBroker : toBroker[i].type = "connect"
    /\ \A i \in DOMAIN toClient : toClient[i].type \notin {"connack", "refused"}

\* There is one Connect packet.
ConnectOnce ==
  /\ session \in {"greeted", "accepted", "refused"} =>
       \A i \in DOMAIN toBroker : toBroker[i].type # "connect"
  /\ writing.type = "connect" => writing.n = 0
  /\ \A i \in DOMAIN toBroker : toBroker[i].type = "connect" => toBroker[i].n = 0

\* What the loop takes for the Connack is the broker's answer to the Connect
\* packet.
ConnackIsAnswer ==
  pc = "handshake" =>
    /\ session = "accepted" => toClient # <<>>
    /\ toClient # <<>> /\ Head(toClient).type \in {"connack", "refused"}
         => Head(toClient).n = 0

GreetInv ==
  NotifsGreeted /\ NotYetConnected /\ BeforeConnack /\ ConnectOnce /\ ConnackIsAnswer

LEMMA GreetInvInit == Init => GreetInv
BY DEF Init, GreetInv, NotifsGreeted, NotYetConnected, BeforeConnack, ConnectOnce,
       ConnackIsAnswer, Early, Unconnected, NoPkt, Pkt

LEMMA EarlyCalm ==
  ASSUME UNCHANGED <<pc, writing>>
  PROVE  (Early' <=> Early) /\ (Unconnected' <=> Unconnected)
<1>1. Unconnected' <=> Unconnected BY DEF Unconnected
<1>2. QED BY <1>1 DEF Early

LEMMA LoopRunsLate ==
  ASSUME LoopRuns
  PROVE  ~Early /\ ~Unconnected /\ ~Early' /\ ~Unconnected'
BY DEF LoopRuns, Early, Unconnected

LEMMA AroundFacts ==
  ASSUME \/ BrokerReceives \/ BrokerGreets \/ BrokerCloses
         \/ \E p \in owed : BrokerAnswers(p)
         \/ \E t \in BrokerTypes \cup {"publish0", "connack"} : BrokerSends(t)
         \/ \E t \in {"disconnect", "disconnecterr"} : BrokerDisconnects(t)
         \/ \E k \in 0 .. Len(toClient) : Reset(k)
         \/ Quiet
  PROVE  UNCHANGED <<pc, writing, pingresp, notifs, received>>
BY DEF BrokerReceives, BrokerGreets, BrokerCloses, BrokerAnswers, BrokerSends,
       BrokerDisconnects, Reset, Quiet, loopVars, notifVars

LEMMA NotifsGreetedStep ==
  ASSUME TypeInv, GreetInv, [Next]_vars
  PROVE  NotifsGreeted'
<1> USE DEF GreetInv, NotifsGreeted, notifVars
<1>0. notifs \in Seq(Notification) BY DEF TypeInv, NotifTypes
<1>1. CASE Connect \/ ConnectFails \/ (Write /\ writing.type = "connect")
  <2>1. Early /\ UNCHANGED <<notifs, received>>
    BY <1>1 DEF Early, Unconnected, Connect, ConnectFails, Write
  <2>2. QED BY <2>1
<1>2. CASE ReadConnack
  <2>1. Notify("connack", 0) /\ Early BY <1>2 DEF ReadConnack, Early
  <2>2. /\ notifs' = notifs \/ notifs' = Append(notifs, [type |-> "connack", n |-> 0])
        /\ pc' \in {"select", "notifying"} /\ writing' = writing /\ received' = received
    BY <2>1, NotifyAppends
  <2>3. writing = NoPkt BY <1>2 DEF ReadConnack, TypeInv, LoopTypes
  <2>4. ~Early' BY <2>2, <2>3 DEF Early, Unconnected, NoPkt, Pkt
  <2>5. notifs = <<>> /\ received = 0 BY <2>1
  <2>6. QED BY <2>2, <2>4, <2>5
<1>3. CASE Ends
  <2>1. ~Early' BY <1>3 DEF Ends, Finish, Early, Unconnected, NoPkt, Pkt
  <2>2. UNCHANGED <<notifs, received>> BY <1>3 DEF Ends, Finish
  <2>3. QED BY <2>1, <2>2
<1>4. CASE LoopRuns
  <2>1. ~Early' /\ received' = received BY <1>4, LoopRunsLate DEF LoopRuns
  <2>2. CASE notifs' = notifs BY <2>1, <2>2
  <2>3. ASSUME NEW t \in {"suback", "unsuback", "message"}, NEW n \in Nat,
               notifs' = Append(notifs, [type |-> t, n |-> n])
        PROVE  NotifsGreeted'
    BY <1>0, <2>1, <2>3
  <2>4. QED BY <1>4, <2>2, <2>3 DEF LoopRuns
<1>5. CASE \/ BrokerReceives \/ BrokerGreets \/ BrokerCloses
           \/ \E p \in owed : BrokerAnswers(p)
           \/ \E t \in BrokerTypes \cup {"publish0", "connack"} : BrokerSends(t)
           \/ \E t \in {"disconnect", "disconnecterr"} : BrokerDisconnects(t)
           \/ \E k \in 0 .. Len(toClient) : Reset(k)
           \/ Quiet
  <2>1. UNCHANGED <<pc, writing, notifs, received>> BY <1>5, AroundFacts
  <2>2. Early' <=> Early BY <2>1, EarlyCalm
  <2>3. QED BY <2>1, <2>2
<1>6. CASE UserReceives
  <2>1. UNCHANGED <<pc, writing>> /\ notifs # <<>> /\ notifs' = Tail(notifs)
    BY <1>6 DEF UserReceives, Notifs!Receive, loopVars
  <2>2. ~Early' BY <2>1, EarlyCalm
  <2>3. /\ DOMAIN notifs' = 1 .. Len(notifs) - 1 /\ DOMAIN notifs = 1 .. Len(notifs)
        /\ \A i \in 1 .. Len(notifs) - 1 : notifs'[i] = notifs[i + 1]
        /\ Len(notifs) \in Nat
    BY <1>0, <2>1, HeadTailProperties
  <2>4. \A i \in DOMAIN notifs' : notifs'[i].type # "connack" BY <2>3
  <2>5. QED BY <2>2, <2>4
<1>7. CASE DropUser
  <2>1. UNCHANGED <<pc, writing, received>> /\ notifs' = <<>>
    BY <1>7 DEF DropUser, Notifs!Close, loopVars
  <2>2. Early' <=> Early BY <2>1, EarlyCalm
  <2>3. QED BY <2>1, <2>2
<1>8. QED BY <1>1, <1>2, <1>3, <1>4, <1>5, <1>6, <1>7, PhaseSteps

LEMMA NotYetConnectedStep ==
  ASSUME TypeInv, GreetInv, [Next]_vars
  PROVE  NotYetConnected'
<1> USE DEF wireVars, brokerVars
<1>0. /\ Unconnected => toClient = <<>> /\ toBroker = <<>> /\ session \in {"none", "over"}
      /\ pc \in {"connecting", "failed"} => session = "none" /\ link = "none"
      /\ session = "none" => toClient = <<>> /\ Len(toBroker) <= 1 /\ sent = 0
      /\ session = "none" => Early \/ pc = "done"
      /\ session = "none" => \A i \in DOMAIN toBroker : toBroker[i].type = "connect"
      /\ toBroker \in Seq(Outgoing) /\ toClient \in Seq(Incoming)
  BY DEF GreetInv, NotYetConnected, BeforeConnack, TypeInv, WireTypes
<1>1. CASE Connect \/ ConnectFails
  <2>1. /\ UNCHANGED <<toBroker, toClient, session, sent>> /\ Unconnected
        /\ pc' \in {"connecting", "failed"} => link' = link
        /\ pc = "connecting"
    BY <1>1 DEF Connect, ConnectFails, StartWrite, Unconnected
  <2>2. QED BY <1>0, <2>1 DEF NotYetConnected
<1>2. CASE Write /\ writing.type = "connect"
  <2>1. /\ UNCHANGED <<toClient, session, sent>> /\ toBroker' = Append(toBroker, writing)
        /\ pc' = "handshake" /\ writing' = NoPkt
    BY <1>2 DEF Write, Written
  <2>2. ~Unconnected' BY <2>1 DEF Unconnected, NoPkt, Pkt
  <2>3. toBroker = <<>> /\ toClient = <<>> BY <1>0, <1>2 DEF Unconnected
  <2>4. Len(toBroker') = 1 BY <2>1, <2>3
  <2>5. QED BY <1>0, <2>1, <2>2, <2>3, <2>4 DEF NotYetConnected
<1>3. CASE ReadConnack
  <2>1. /\ UNCHANGED <<toBroker, session, sent, writing>>
        /\ toClient # <<>> /\ pc' \in {"select", "notifying"}
    BY <1>3, NotifyAppends DEF ReadConnack, Read
  <2>2. writing = NoPkt BY <1>3 DEF ReadConnack, TypeInv, LoopTypes
  <2>3. ~Unconnected' BY <2>1, <2>2 DEF Unconnected, NoPkt, Pkt
  <2>4. session # "none" BY <1>0, <2>1
  <2>5. QED BY <2>1, <2>3, <2>4 DEF NotYetConnected
<1>4. CASE Ends
  <2>1. /\ UNCHANGED <<toBroker, session, sent>> /\ toClient' = <<>>
        /\ pc' = "done" /\ writing' = NoPkt
    BY <1>4 DEF Ends, Finish
  <2>2. ~Unconnected' BY <2>1 DEF Unconnected, NoPkt, Pkt
  <2>3. QED BY <1>0, <2>1, <2>2 DEF NotYetConnected
<1>5. CASE LoopRuns
  <2>1. /\ session' = session /\ session # "none"
        /\ pc' \notin {"connecting", "failed"} /\ ~Unconnected'
    BY <1>0, <1>5, LoopRunsLate DEF LoopRuns
  <2>2. QED BY <2>1 DEF NotYetConnected
<1>6. CASE Quiet \/ UserReceives \/ DropUser
  <2>1. UNCHANGED <<pc, writing, toBroker, toClient, link, session, sent>>
    BY <1>6 DEF Quiet, UserReceives, DropUser, loopVars
  <2>2. Unconnected' <=> Unconnected BY <2>1, EarlyCalm
  <2>3. QED BY <1>0, <2>1, <2>2 DEF NotYetConnected
<1>7. CASE \/ BrokerReceives \/ BrokerGreets
           \/ \E p \in owed : BrokerAnswers(p)
           \/ \E t \in BrokerTypes \cup {"publish0", "connack"} : BrokerSends(t)
           \/ \E t \in {"disconnect", "disconnecterr"} : BrokerDisconnects(t)
  <2>1. UNCHANGED <<pc, writing>> BY <1>7, AroundFacts
  <2>2. Unconnected' <=> Unconnected BY <2>1, EarlyCalm
  <2>3. ~Unconnected
    BY <1>0, <1>7 DEF BrokerReceives, BrokerGreets, BrokerAnswers, BrokerSends, BrokerDisconnects
  <2>4. session' # "none"
    <3>1. CASE BrokerReceives
      <4>1. toBroker # <<>> /\ session' = CASE Head(toBroker).type = "connect" -> "greeted"
                                          [] Head(toBroker).type = "disconnect" -> "over"
                                          [] OTHER -> session
        BY <3>1 DEF BrokerReceives
      <4>2. session = "none" => Head(toBroker).type = "connect" BY <1>0, <4>1
      <4>3. QED BY <4>1, <4>2
    <3>2. CASE ~BrokerReceives
      BY <1>7, <3>2 DEF BrokerGreets, BrokerAnswers, BrokerSends, BrokerDisconnects
    <3>3. QED BY <3>1, <3>2
  <2>5. QED BY <2>1, <2>2, <2>3, <2>4 DEF NotYetConnected, Unconnected
<1>8. CASE BrokerCloses \/ \E k \in 0 .. Len(toClient) : Reset(k)
  <2>1. UNCHANGED <<pc, writing>> BY <1>8, AroundFacts
  <2>2. Unconnected' <=> Unconnected BY <2>1, EarlyCalm
  <2>3. /\ link \in {"up", "eof", "closed"} /\ session' = "over"
        /\ toBroker = <<>> => toBroker' = <<>>
        /\ toClient = <<>> => toClient' = <<>>
    BY <1>8 DEF BrokerCloses, Reset
  <2>4. QED BY <1>0, <2>1, <2>2, <2>3 DEF NotYetConnected
<1>9. QED BY <1>1, <1>2, <1>3, <1>4, <1>5, <1>6, <1>7, <1>8, PhaseSteps

LEMMA BeforeConnackStep ==
  ASSUME TypeInv, GreetInv, [Next]_vars
  PROVE  BeforeConnack'
<1> USE DEF wireVars, brokerVars
<1> DEFINE NoConnack(s) == \A i \in DOMAIN s : s[i].type \notin {"connack", "refused"}
           AllConnect(s) == \A i \in DOMAIN s : s[i].type = "connect"
<1>0. /\ toBroker \in Seq(Outgoing) /\ toClient \in Seq(Incoming) /\ writing \in Packet
      /\ session \in {"none", "greeted"} =>
           /\ Early \/ pc = "done"
           /\ got = 0 /\ pingresp = "none" /\ AllConnect(toBroker) /\ NoConnack(toClient)
  BY TypeInvImplies DEF GreetInv, BeforeConnack, TypeInv, WireTypes, TypeOK
<1>1. CASE Connect \/ ConnectFails
  <2>1. UNCHANGED <<toBroker, toClient, session, got, pingresp>> /\ Early'
    BY <1>1 DEF Connect, ConnectFails, StartWrite, Early, Unconnected, Pkt
  <2>2. QED BY <1>0, <2>1 DEF BeforeConnack
<1>2. CASE Write /\ writing.type = "connect"
  <2>1. /\ UNCHANGED <<toClient, session, got, pingresp>>
        /\ toBroker' = Append(toBroker, writing) /\ Early'
    BY <1>2 DEF Write, Written, Early
  <2>2. AllConnect(toBroker) => AllConnect(toBroker') BY <1>0, <1>2, <2>1
  <2>3. QED BY <1>0, <2>1, <2>2 DEF BeforeConnack
<1>3. CASE ReadConnack
  <2>1. /\ session' = session /\ toClient # <<>>
        /\ Head(toClient).type \in {"connack", "refused"}
    BY <1>3 DEF ReadConnack, Read
  <2>2. ~NoConnack(toClient) BY <1>0, <2>1
  <2>3. QED BY <1>0, <2>1, <2>2 DEF BeforeConnack
<1>4. CASE Ends
  <2>1. UNCHANGED <<toBroker, session, got, pingresp>> /\ toClient' = <<>> /\ pc' = "done"
    BY <1>4 DEF Ends, Finish
  <2>2. QED BY <1>0, <2>1 DEF BeforeConnack
<1>5. CASE LoopRuns
  <2>1. session' = session /\ ~Early /\ pc # "done"
    BY <1>5, LoopRunsLate DEF LoopRuns
  <2>2. QED BY <1>0, <2>1 DEF BeforeConnack
<1>6. CASE Quiet \/ UserReceives \/ DropUser
  <2>1. UNCHANGED <<pc, writing, pingresp, toBroker, toClient, session, got>>
    BY <1>6 DEF Quiet, UserReceives, DropUser, loopVars
  <2>2. Early' <=> Early BY <2>1, EarlyCalm
  <2>3. QED BY <1>0, <2>1, <2>2 DEF BeforeConnack
<1>7. CASE BrokerReceives
  <2> DEFINE p == Head(toBroker)
  <2>1. /\ toBroker # <<>> /\ toBroker' = Tail(toBroker)
        /\ session \in {"none", "greeted", "accepted"} /\ toClient' = toClient
        /\ session' = CASE p.type = "connect" -> "greeted"
                        [] p.type = "disconnect" -> "over"
                        [] OTHER -> session
        /\ got' = IF p.n = 0 THEN got ELSE p.n
    BY <1>7 DEF BrokerReceives
  <2>2. p = toBroker[1] /\ 1 \in DOMAIN toBroker BY <1>0, <2>1
  <2>3. CASE session = "accepted"
    <3>1. p.type # "connect" BY <2>2, <2>3 DEF GreetInv, ConnectOnce
    <3>2. session' \notin {"none", "greeted"} BY <2>1, <2>3, <3>1
    <3>3. QED BY <3>2 DEF BeforeConnack
  <2>4. CASE session = "none"
    <3>1. p.type = "connect" /\ p.n = 0
      BY <1>0, <2>2, <2>4 DEF GreetInv, ConnectOnce
    <3>2. got' = 0 BY <1>0, <2>1, <2>4, <3>1
    <3>3. AllConnect(Tail(toBroker)) BY <1>0, <2>1, <2>4
    <3>4. UNCHANGED <<pc, writing, pingresp>> BY <1>7, AroundFacts
    <3>5. Early' <=> Early BY <3>4, EarlyCalm
    <3>6. QED BY <1>0, <2>1, <2>4, <3>2, <3>3, <3>4, <3>5 DEF BeforeConnack
  <2>5. CASE session = "greeted"
    <3>1. p.type = "connect" BY <1>0, <2>2, <2>5
    <3>2. p.type # "connect" BY <2>2, <2>5 DEF GreetInv, ConnectOnce
    <3>3. QED BY <3>1, <3>2
  <2>6. QED BY <2>1, <2>3, <2>4, <2>5
<1>8. CASE \/ BrokerGreets \/ BrokerCloses
           \/ \E p \in owed : BrokerAnswers(p)
           \/ \E t \in {"disconnect", "disconnecterr"} : BrokerDisconnects(t)
           \/ \E k \in 0 .. Len(toClient) : Reset(k)
  <2>1. session' \notin {"none", "greeted"}
    BY <1>8 DEF BrokerGreets, BrokerCloses, BrokerAnswers, BrokerDisconnects, Reset
  <2>2. QED BY <2>1 DEF BeforeConnack
<1>9. CASE \E t \in BrokerTypes \cup {"publish0", "connack"} : BrokerSends(t)
  <2>1. PICK t \in BrokerTypes \cup {"publish0", "connack"} : BrokerSends(t) BY <1>9
  <2>2. /\ UNCHANGED <<toBroker, session, got>>
        /\ toClient' = Append(toClient, Pkt(t, 0, sent + 1))
        /\ session = "accepted" \/ (session = "greeted" /\ t = "publish0")
    BY <2>1 DEF BrokerSends
  <2>3. UNCHANGED <<pc, writing, pingresp>> BY <1>9, AroundFacts
  <2>4. Early' <=> Early BY <2>3, EarlyCalm
  <2>5. CASE session = "accepted"
    <3>1. session' = "accepted" BY <2>2, <2>5
    <3>2. QED BY <3>1 DEF BeforeConnack
  <2>6. CASE session = "greeted" /\ t = "publish0"
    <3>1. Pkt(t, 0, sent + 1).type \notin {"connack", "refused"} BY <2>6 DEF Pkt
    <3>2. NoConnack(toClient') BY <1>0, <2>2, <2>6, <3>1
    <3>3. Early' \/ pc' = "done" BY <1>0, <2>3, <2>4, <2>6
    <3>4. got' = 0 /\ pingresp' = "none" BY <1>0, <2>2, <2>3, <2>6
    <3>5. AllConnect(toBroker') BY <1>0, <2>2, <2>6
    <3>6. QED BY <3>2, <3>3, <3>4, <3>5 DEF BeforeConnack
  <2>7. QED BY <2>2, <2>5, <2>6
<1>10. QED BY <1>1, <1>2, <1>3, <1>4, <1>5, <1>6, <1>7, <1>8, <1>9, PhaseSteps

LEMMA ConnectOnceStep ==
  ASSUME TypeInv, GreetInv, [Next]_vars
  PROVE  ConnectOnce'
<1> USE DEF wireVars, brokerVars
<1>0. /\ toBroker \in Seq(Outgoing) /\ writing \in Packet
      /\ session \in {"greeted", "accepted", "refused"} =>
           \A i \in DOMAIN toBroker : toBroker[i].type # "connect"
      /\ writing.type = "connect" => writing.n = 0
      /\ \A i \in DOMAIN toBroker : toBroker[i].type = "connect" => toBroker[i].n = 0
      /\ Unconnected => session \in {"none", "over"}
      /\ session = "none" => Len(toBroker) <= 1
  BY TypeInvImplies
  DEF GreetInv, ConnectOnce, NotYetConnected, TypeInv, WireTypes, TypeOK
<1>1. CASE Connect
  <2>1. UNCHANGED <<toBroker, session>> /\ writing' = Pkt("connect", 0, 0)
    BY <1>1 DEF Connect, StartWrite
  <2>2. QED BY <1>0, <2>1 DEF ConnectOnce, Pkt
<1>2. CASE ConnectFails \/ ReadConnack \/ Quiet \/ UserReceives \/ DropUser
  <2>1. UNCHANGED <<toBroker, session, writing>>
    BY <1>2 DEF ConnectFails, ReadConnack, Notify, Quiet, UserReceives, DropUser, loopVars
  <2>2. QED BY <1>0, <2>1 DEF ConnectOnce
<1>3. CASE Write /\ writing.type = "connect"
  <2>1. session' = session /\ toBroker' = Append(toBroker, writing) /\ writing' = NoPkt
    BY <1>3 DEF Write, Written
  <2>2. session \in {"none", "over"} BY <1>0, <1>3 DEF Unconnected
  <2>3. \A i \in DOMAIN toBroker' : toBroker'[i].type = "connect" => toBroker'[i].n = 0
    BY <1>0, <1>3, <2>1
  <2>4. QED BY <2>1, <2>2, <2>3 DEF ConnectOnce, NoPkt, Pkt
<1>4. CASE Ends
  <2>1. UNCHANGED <<toBroker, session>> /\ writing' = NoPkt BY <1>4 DEF Ends, Finish
  <2>2. QED BY <1>0, <2>1 DEF ConnectOnce, NoPkt, Pkt
<1>5. CASE LoopRuns
  <2>1. /\ session' = session /\ writing.type # "connect" /\ writing'.type # "connect"
        /\ toBroker' = toBroker \/ toBroker' = Append(toBroker, writing)
    BY <1>5 DEF LoopRuns, Uplinks
  <2>2. CASE toBroker' = toBroker BY <1>0, <2>1, <2>2 DEF ConnectOnce
  <2>3. CASE toBroker' = Append(toBroker, writing)
    <3>1. \A i \in DOMAIN toBroker' : toBroker'[i] = writing \/
            \E j \in DOMAIN toBroker : toBroker'[i] = toBroker[j]
      BY <1>0, <2>3
    <3>2. QED BY <1>0, <2>1, <3>1 DEF ConnectOnce
  <2>4. QED BY <2>1, <2>2, <2>3
<1>6. CASE BrokerReceives
  <2>1. /\ toBroker # <<>> /\ toBroker' = Tail(toBroker) /\ writing' = writing
        /\ session \in {"none", "greeted", "accepted"}
    BY <1>6 DEF BrokerReceives, loopVars
  <2>2. \A i \in DOMAIN toBroker' : \E j \in DOMAIN toBroker : toBroker'[i] = toBroker[j]
    BY <1>0, <2>1
  <2>3. CASE session = "none"
    <3>1. \A i \in DOMAIN toBroker' : FALSE BY <1>0, <2>1, <2>3
    <3>2. QED BY <1>0, <2>1, <3>1 DEF ConnectOnce
  <2>4. CASE session \in {"greeted", "accepted"}
    <3>1. QED BY <1>0, <2>1, <2>2, <2>4 DEF ConnectOnce
  <2>5. QED BY <2>1, <2>3, <2>4
<1>7. CASE \/ BrokerGreets \/ BrokerCloses
           \/ \E p \in owed : BrokerAnswers(p)
           \/ \E t \in BrokerTypes \cup {"publish0", "connack"} : BrokerSends(t)
           \/ \E t \in {"disconnect", "disconnecterr"} : BrokerDisconnects(t)
  <2>1. UNCHANGED <<toBroker, writing>>
    BY <1>7 DEF BrokerGreets, BrokerCloses, BrokerAnswers, BrokerSends, BrokerDisconnects, loopVars
  <2>2. session' = "over" \/ session \in {"greeted", "accepted", "refused"}
    BY <1>7 DEF BrokerGreets, BrokerCloses, BrokerAnswers, BrokerSends, BrokerDisconnects
  <2>3. QED BY <1>0, <2>1, <2>2 DEF ConnectOnce
<1>8. CASE \E k \in 0 .. Len(toClient) : Reset(k)
  <2>1. toBroker' = <<>> /\ writing' = writing BY <1>8 DEF Reset, loopVars
  <2>2. QED BY <1>0, <2>1 DEF ConnectOnce
<1>9. QED BY <1>1, <1>2, <1>3, <1>4, <1>5, <1>6, <1>7, <1>8, PhaseSteps

LEMMA ConnackIsAnswerStep ==
  ASSUME TypeInv, GreetInv, [Next]_vars
  PROVE  ConnackIsAnswer'
<1> USE DEF wireVars, brokerVars
<1>0. /\ toClient \in Seq(Incoming)
      /\ pc = "handshake" /\ session = "accepted" => toClient # <<>>
      /\ pc = "handshake" /\ toClient # <<>> /\ Head(toClient).type \in {"connack", "refused"}
           => Head(toClient).n = 0
      /\ Unconnected => toClient = <<>> /\ session \in {"none", "over"}
  BY DEF GreetInv, NotYetConnected, ConnackIsAnswer, TypeInv, WireTypes
<1>1. CASE Connect \/ ConnectFails \/ ReadConnack \/ Ends \/ LoopRuns
  <2>1. pc' # "handshake"
    BY <1>1, NotifyAppends
    DEF Connect, ConnectFails, ReadConnack, Ends, Finish, LoopRuns, StartWrite
  <2>2. QED BY <2>1 DEF ConnackIsAnswer
<1>2. CASE Write /\ writing.type = "connect"
  <2>1. UNCHANGED <<toClient, session>> BY <1>2 DEF Write
  <2>2. toClient = <<>> /\ session \in {"none", "over"} BY <1>0, <1>2 DEF Unconnected
  <2>3. QED BY <2>1, <2>2 DEF ConnackIsAnswer
<1>3. CASE Quiet \/ UserReceives \/ DropUser \/ BrokerCloses
  <2>1. UNCHANGED <<pc, toClient>> /\ (session' = session \/ session' = "over")
    BY <1>3 DEF Quiet, UserReceives, DropUser, BrokerCloses, loopVars
  <2>2. QED BY <1>0, <2>1 DEF ConnackIsAnswer
<1>4. CASE BrokerReceives
  <2>1. UNCHANGED <<pc, toClient>> BY <1>4 DEF BrokerReceives, loopVars
  <2>2. session' = "accepted" => session = "accepted" BY <1>4 DEF BrokerReceives
  <2>3. QED BY <1>0, <2>1, <2>2 DEF ConnackIsAnswer
<1>5. CASE BrokerGreets
  <2>1. PICK p \in {Pkt("connack", 0, 0), Pkt("refused", 0, 0)} : toClient' = Append(toClient, p)
    BY <1>5 DEF BrokerGreets
  <2>2. pc' = pc BY <1>5 DEF BrokerGreets, loopVars
  <2>3. p \in Incoming /\ p.n = 0
    <3>1. p.n = 0 BY DEF Pkt
    <3>2. p \in Incoming BY IncomingPkt, EventLoopAssumption DEF Unasked
    <3>3. QED BY <3>1, <3>2
  <2>4. toClient' # <<>> /\ Head(toClient') = IF toClient = <<>> THEN p ELSE Head(toClient)
    BY <1>0, <2>1, <2>3
  <2>5. QED BY <1>0, <2>2, <2>3, <2>4 DEF ConnackIsAnswer
<1>6. ASSUME NEW p \in Incoming, toClient' = Append(toClient, p), pc' = pc,
             session = "accepted" \/ p.type \notin {"connack", "refused"}
      PROVE  ConnackIsAnswer'
  <2>1. toClient' # <<>> /\ Head(toClient') = IF toClient = <<>> THEN p ELSE Head(toClient)
    BY <1>0, <1>6
  <2>2. QED BY <1>0, <1>6, <2>1 DEF ConnackIsAnswer
<1>7. CASE \E p \in owed : BrokerAnswers(p)
  <2>1. PICK p \in owed : BrokerAnswers(p) BY <1>7
  <2>2. p \in Incoming BY IncomingPkt DEF TypeInv, AnswerTypes
  <2>3. QED BY <1>6, <2>1, <2>2 DEF BrokerAnswers, loopVars
<1>8. CASE \E t \in BrokerTypes \cup {"publish0", "connack"} : BrokerSends(t)
  <2>1. PICK t \in BrokerTypes \cup {"publish0", "connack"} : BrokerSends(t) BY <1>8
  <2>2. t \in Unasked BY EventLoopAssumption DEF Unasked, AllBrokerTypes
  <2>3. sent + 1 \in 0 .. MaxDeliveries
    BY <2>1, EventLoopAssumption DEF BrokerSends, TypeInv, AnswerTypes
  <2>4. Pkt(t, 0, sent + 1) \in Incoming BY <2>2, <2>3, IncomingPkt
  <2>5. session = "accepted" \/ t = "publish0" BY <2>1 DEF BrokerSends
  <2>6. Pkt(t, 0, sent + 1).type = t BY DEF Pkt
  <2>7. QED BY <1>6, <2>1, <2>4, <2>5, <2>6 DEF BrokerSends, loopVars
<1>9. CASE \E t \in {"disconnect", "disconnecterr"} : BrokerDisconnects(t)
  <2>1. PICK t \in {"disconnect", "disconnecterr"} : BrokerDisconnects(t) BY <1>9
  <2>2. Pkt(t, 0, 0) \in Incoming BY IncomingPkt, EventLoopAssumption DEF Unasked
  <2>3. QED BY <1>6, <2>1, <2>2 DEF BrokerDisconnects, loopVars
<1>10. CASE \E k \in 0 .. Len(toClient) : Reset(k)
  <2>1. PICK k \in 0 .. Len(toClient) : Reset(k) BY <1>10
  <2>2. toClient' = SubSeq(toClient, 1, k) /\ pc' = pc /\ session' = "over"
    BY <2>1 DEF Reset, loopVars
  <2>3. toClient' # <<>> => toClient # <<>> /\ Head(toClient') = Head(toClient)
    <3>1. CASE k = 0 BY <1>0, <2>2, <3>1
    <3>2. CASE k # 0
      <4>1. k >= 1 /\ Len(toClient) >= 1 BY <1>0, <3>2
      <4>2. /\ Len(SubSeq(toClient, 1, k)) = k
            /\ SubSeq(toClient, 1, k)[1] = toClient[1]
        BY <1>0, <4>1
      <4>3. toClient # <<>> BY <4>1
      <4>4. SubSeq(toClient, 1, k) \in Seq(Incoming) /\ SubSeq(toClient, 1, k) # <<>>
        BY <1>0, <4>1, <4>2
      <4>5. QED BY <2>2, <4>2, <4>3, <4>4
    <3>3. QED BY <3>1, <3>2
  <2>4. QED BY <1>0, <2>2, <2>3 DEF ConnackIsAnswer
<1>11. QED
  BY <1>1, <1>2, <1>3, <1>4, <1>5, <1>7, <1>8, <1>9, <1>10, PhaseSteps

LEMMA GreetInvHolds == Spec => []GreetInv
<1>1. TypeInv /\ GreetInv /\ [Next]_vars => GreetInv'
  BY NotifsGreetedStep, NotYetConnectedStep, BeforeConnackStep, ConnectOnceStep,
     ConnackIsAnswerStep DEF GreetInv
<1>2. QED BY <1>1, GreetInvInit, PacketsWellFormed, PTL DEF Spec

\* Nothing but the Connect packet enters the connection before the broker has sent
\* the Connack, whether or not the broker reads on meanwhile, and the first that
\* the user receives is the Connack.
THEOREM NothingBeforeConnack == Spec => []ConnackFirst
<1>1. GreetInv => ConnackFirst
  BY DEF GreetInv, BeforeConnack, NotifsGreeted, ConnackFirst
<1>2. QED BY <1>1, GreetInvHolds, PTL

-----------------------------------------------------------------------------
(* Numbers on their way: those of N, none of them left out below another   *)
(* (Closed), or none at all up to the number k (Full).                     *)

Closed(N, left) == \A n \in N : left + 1 .. n \subseteq N

Full(N, left, k) == left + 1 .. k \subseteq N

\* The first that comes out is the next.
LEMMA FirstIsNext ==
  ASSUME NEW N \in SUBSET Nat, NEW left \in Nat, NEW k \in Nat, N \subseteq left + 1 .. k,
         NEW h \in N, NEW R \in SUBSET Nat, N = R \cup {h}, \A m \in R : h < m
  PROVE  /\ h <= k /\ R \subseteq h + 1 .. k
         /\ Closed(N, left) => h = left + 1 /\ Closed(R, h)
         /\ \A w, j \in Nat : Full(N \cup {w}, left, j) /\ h = left + 1
              => Full(R \cup {w}, h, j)
<1>1. h \in Nat /\ left + 1 <= h /\ h <= k BY DEF Closed
<1>2. ASSUME Closed(N, left) PROVE h = left + 1 /\ Closed(R, h)
  <2>1. left + 1 \in left + 1 .. h BY <1>1
  <2>2. left + 1 \in N BY <1>2, <2>1 DEF Closed
  <2>3. h = left + 1
    <3>1. CASE left + 1 = h BY <3>1
    <3>2. CASE left + 1 \in R
      <4>1. h < left + 1 BY <3>2
      <4>2. QED BY <1>1, <4>1
    <3>3. QED BY <2>2, <3>1, <3>2
  <2>4. ASSUME NEW n \in R, NEW m \in h + 1 .. n PROVE m \in R
    <3>1. n \in N /\ n \in Nat /\ m \in left + 1 .. n /\ m # h BY <1>1, <2>3, <2>4
    <3>2. m \in N BY <1>2, <3>1 DEF Closed
    <3>3. QED BY <3>1, <3>2
  <2>5. QED BY <2>3, <2>4 DEF Closed
<1>3. ASSUME NEW w \in Nat, NEW j \in Nat, Full(N \cup {w}, left, j), h = left + 1,
             NEW m \in h + 1 .. j
      PROVE  m \in R \cup {w}
  <2>1. m \in left + 1 .. j /\ m # h BY <1>1, <1>3
  <2>2. m \in N \cup {w} BY <1>3, <2>1 DEF Full
  <2>3. QED BY <2>1, <2>2
<1>4. ASSUME NEW m \in R PROVE m \in h + 1 .. k
  <2>1. h < m /\ m \in Nat /\ m \in N BY <1>4
  <2>2. m \in left + 1 .. k BY <2>1
  <2>3. QED BY <1>1, <2>1, <2>2
<1>5. QED BY <1>1, <1>2, <1>3, <1>4 DEF Full

-----------------------------------------------------------------------------
(* The commands.                                                           *)

\* The number of the last command that the loop took from the channel.
Taken == accepted - Len(cmds)

\* The commands on their way, from the broker back to the Clients: those in the
\* connection, the one being written, and those in the channel.
UpInv ==
  /\ pc = "done" => cmds = <<>>
  /\ \A i \in DOMAIN cmds : cmds[i].n = Taken + i
  /\ got <= Taken
  /\ Ordered(toBroker) /\ Numbers(toBroker) \subseteq got + 1 .. Taken
  /\ writing.n # 0 => writing.n = Taken /\ got < Taken /\ Taken \notin Numbers(toBroker)
  /\ session # "over" => Closed(Numbers(toBroker), got)
  /\ session # "over" /\ pc # "done" => Full(Numbers(toBroker) \cup {writing.n}, got, Taken)

LEMMA UpInvInit == Init => UpInv
<1> SUFFICES ASSUME Init PROVE UpInv OBVIOUS
<1>1. Taken = 0
  <2>1. accepted = 0 /\ Len(cmds) = 0
    <3>1. accepted = 0 /\ cmds = <<>> BY DEF Init
    <3>2. QED BY <3>1
  <2>2. QED BY <2>1 DEF Taken
<1>2. Numbers(toBroker) = {} /\ Ordered(toBroker) BY NumbersEmpty DEF Init
<1>3. writing.n = 0 /\ got = 0 /\ cmds = <<>> /\ pc = "connecting"
  BY DEF Init, NoPkt, Pkt
<1>4. Closed({}, 0) /\ Full({0}, 0, 0) BY DEF Closed, Full
<1>5. \A i \in DOMAIN cmds : cmds[i].n = Taken + i BY <1>3
<1>6. QED BY <1>1, <1>2, <1>3, <1>4, <1>5 DEF UpInv

UpCalm ==
  /\ UNCHANGED <<toBroker, got, accepted, cmds>> /\ writing'.n = writing.n
  /\ session' # "over" => session # "over"
  /\ pc' = "done" <=> pc = "done"

\* The loop takes a command.
UpTakes ==
  /\ cmds # <<>> /\ cmds' = Tail(cmds)
  /\ writing.n = 0 /\ writing'.n = Head(cmds).n
  /\ UNCHANGED <<toBroker, got, accepted, session>>
  /\ pc # "done" /\ pc' # "done"

LEMMA UpSteps ==
  ASSUME TypeInv, [Next]_vars
  PROVE  \/ UpCalm \/ UpTakes
         \/ Write \/ WriteDisconnect \/ Ends
         \/ \E c \in Clients, t \in CmdTypes : TrySend(c, t)
         \/ BrokerReceives
         \/ \E k \in 0 .. Len(toClient) : Reset(k)
<1> USE DEF wireVars, brokerVars, cmdVars
<1>1. pc # "writing" => writing = NoPkt BY DEF TypeInv, LoopTypes
<1>2. NoPkt.n = 0 /\ \A t : Pkt(t, 0, 0).n = 0 BY DEF NoPkt, Pkt
<1>3. CASE CmdPlain \/ CmdIdentified
  <2>1. /\ pc = "select" /\ pc' = "writing" /\ Cmds!Receive
        /\ writing'.n = Head(cmds).n
        /\ UNCHANGED <<toBroker, got, accepted, session>>
    BY <1>3 DEF CmdPlain, CmdIdentified, StartWrite, Pkt
  <2>2. UpTakes BY <1>1, <1>2, <2>1 DEF UpTakes, Cmds!Receive
  <2>3. QED BY <2>2
<1>4. CASE Connect \/ TickPing \/ ReadPublish1
  <2>1. /\ pc # "writing" /\ pc # "done" /\ pc' = "writing" /\ writing'.n = 0
        /\ UNCHANGED <<toBroker, got, accepted, session, cmds>>
    BY <1>2, <1>4 DEF Connect, TickPing, ReadPublish1, StartWrite
  <2>2. UpCalm BY <1>1, <1>2, <2>1 DEF UpCalm
  <2>3. QED BY <2>2
<1>5. CASE ConnectFails \/ Notified \/ ReadPingResp \/ ReadPubAck
  <2>1. UpCalm
    BY <1>5 DEF UpCalm, ConnectFails, Notified, ReadPingResp, ReadPubAck
  <2>2. QED BY <2>1
<1>6. CASE ReadConnack \/ ReadAck \/ ReadMessage
  <2>1. \E t, n : Notify(t, n)
    BY <1>6 DEF ReadConnack, ReadAck, ReadMessage
  <2>2. pc' # "done" /\ writing' = writing BY <2>1, NotifyAppends
  <2>3. UpCalm
    BY <1>6, <2>2 DEF UpCalm, ReadConnack, ReadAck, ReadMessage
  <2>4. QED BY <2>3
<1>7. CASE \/ UserReceives \/ DropUser \/ \E c \in Clients : DropClient(c)
           \/ UNCHANGED vars
  <2>1. UpCalm BY <1>7 DEF UpCalm, UserReceives, DropUser, DropClient, vars, loopVars
  <2>2. QED BY <2>1
<1>8. CASE \/ BrokerGreets \/ BrokerCloses
           \/ \E p \in owed : BrokerAnswers(p)
           \/ \E t \in BrokerTypes \cup {"publish0", "connack"} : BrokerSends(t)
           \/ \E t \in {"disconnect", "disconnecterr"} : BrokerDisconnects(t)
  <2>1. UNCHANGED <<pc, writing, toBroker, got, accepted, cmds>>
    BY <1>8 DEF BrokerGreets, BrokerCloses, BrokerAnswers, BrokerSends,
                BrokerDisconnects, loopVars
  <2>2. session' # "over" => session # "over"
    BY <1>8 DEF BrokerGreets, BrokerCloses, BrokerAnswers, BrokerSends, BrokerDisconnects
  <2>3. UpCalm BY <2>1, <2>2 DEF UpCalm
  <2>4. QED BY <2>3
<1>9. QED BY <1>3, <1>4, <1>5, <1>6, <1>7, <1>8, StepCases

\* What is known of the numbers, as far as the steps below need it.
LEMMA UpFacts ==
  ASSUME TypeInv, UpInv
  PROVE  /\ toBroker \in Seq(Outgoing) /\ \A p \in Outgoing : p.n \in Nat
         /\ cmds \in Seq(Command) /\ Len(cmds) \in Nat
         /\ accepted \in Nat /\ got \in Nat /\ Taken \in Nat /\ Taken <= accepted
         /\ writing.n \in Nat
         /\ Numbers(toBroker) \in SUBSET Nat
<1>1. \A p \in Outgoing : p.n \in Nat BY OutgoingFacts, EventLoopAssumption
<1>2. toBroker \in Seq(Outgoing) /\ cmds \in Seq(Command) /\ Len(cmds) \in Nat
  BY DEF TypeInv, WireTypes, CommandTypes
<1>3. accepted \in Nat /\ got \in Nat
  BY EventLoopAssumption DEF TypeInv, CommandTypes, AnswerTypes
<1>4. got <= Taken BY DEF UpInv
<1>5. Taken \in Nat /\ Taken <= accepted BY <1>2, <1>3, <1>4 DEF Taken
<1>6. writing.n \in Nat BY TypeInvImplies DEF TypeOK, Packet
<1>7. Numbers(toBroker) \in SUBSET Nat BY <1>1, <1>2, NumbersNat
<1>8. QED BY <1>1, <1>2, <1>3, <1>5, <1>6, <1>7

\* A command is written: it is the last of those in the connection.
LEMMA UpWrites ==
  ASSUME TypeInv, UpInv, Write \/ WriteDisconnect
  PROVE  /\ Numbers(toBroker') = Numbers(toBroker) \cup ({writing.n} \ {0})
         /\ Ordered(toBroker')
         /\ writing'.n = 0 /\ UNCHANGED <<got, accepted, session>> /\ pc # "done"
<1>1. /\ toBroker' = Append(toBroker, writing) /\ writing' = NoPkt /\ pc = "writing"
      /\ writing.type \in Encodable
      /\ UNCHANGED <<got, accepted, session>>
  BY DEF Write, WriteDisconnect, Written, Finish, brokerVars, cmdVars
<1>2. writing \in Outgoing
  BY <1>1 DEF TypeInv, LoopTypes, Encodable, NoPkt, Pkt
<1>3. ASSUME writing.n # 0, NEW m \in Numbers(toBroker) PROVE m < writing.n
  <2>1. m \in got + 1 .. Taken /\ m # Taken /\ writing.n = Taken BY <1>3 DEF UpInv
  <2>2. m <= Taken /\ m \in Nat /\ Taken \in Nat BY <2>1, UpFacts
  <2>3. QED BY <2>1, <2>2
<1>4. Ordered(toBroker) BY DEF UpInv
<1>5. /\ Numbers(toBroker') = Numbers(toBroker) \cup ({writing.n} \ {0})
      /\ Ordered(toBroker')
  BY <1>1, <1>2, <1>3, <1>4, UpFacts, NumbersAppend
<1>6. writing'.n = 0 BY <1>1 DEF NoPkt, Pkt
<1>7. QED BY <1>1, <1>5, <1>6

\* The broker receives a packet: of the commands on their way, the next.
LEMMA UpReceives ==
  ASSUME TypeInv, UpInv, BrokerReceives
  PROVE  LET h == Head(toBroker).n
         IN  /\ h \in Nat
             /\ h # 0 => h = got + 1 /\ h <= Taken
             /\ got' = IF h = 0 THEN got ELSE h
             /\ Numbers(toBroker) = Numbers(toBroker') \cup ({h} \ {0})
             /\ \A m \in Numbers(toBroker') : h < m
             /\ Ordered(toBroker') /\ Numbers(toBroker') \in SUBSET Nat
             /\ session # "over"
             /\ UNCHANGED <<pc, writing, cmds, accepted>>
<1> DEFINE h == Head(toBroker).n
<1>1. /\ toBroker # <<>> /\ toBroker' = Tail(toBroker) /\ session # "over"
      /\ got' = IF h = 0 THEN got ELSE h
      /\ UNCHANGED <<pc, writing, cmds, accepted>>
  BY DEF BrokerReceives, loopVars, cmdVars
<1>2. Ordered(toBroker) BY DEF UpInv
<1>3. /\ Numbers(toBroker) = Numbers(toBroker') \cup ({h} \ {0})
      /\ \A m \in Numbers(toBroker') : h < m
      /\ Ordered(toBroker') /\ h \in Nat
  BY <1>1, <1>2, UpFacts, NumbersTail
<1>4. Closed(Numbers(toBroker), got) /\ Numbers(toBroker) \subseteq got + 1 .. Taken
  BY <1>1 DEF UpInv
<1>5. /\ Numbers(toBroker) \in SUBSET Nat /\ got \in Nat /\ Taken \in Nat
      /\ Numbers(toBroker') \in SUBSET Nat
  BY <1>3, UpFacts
<1> HIDE DEF h
<1>6. ASSUME h # 0 PROVE h = got + 1 /\ h <= Taken
  <2>1. h \in Numbers(toBroker) /\ Numbers(toBroker) = Numbers(toBroker') \cup {h}
    BY <1>3, <1>6
  <2>2. QED BY <1>3, <1>4, <1>5, <2>1, FirstIsNext
<1>7. QED BY <1>1, <1>3, <1>5, <1>6 DEF h

LEMMA UpInvStep ==
  ASSUME TypeInv, UpInv, [Next]_vars
  PROVE  UpInv'
<1> DEFINE N == Numbers(toBroker)
<1>0. /\ accepted \in Nat /\ got \in Nat /\ Taken \in Nat /\ Taken <= accepted
      /\ writing.n \in Nat /\ N \in SUBSET Nat /\ Len(cmds) \in Nat
  BY UpFacts
<1>1. /\ pc = "done" => cmds = <<>>
      /\ \A i \in DOMAIN cmds : cmds[i].n = Taken + i
      /\ got <= Taken
      /\ Ordered(toBroker) /\ N \subseteq got + 1 .. Taken
      /\ writing.n # 0 => writing.n = Taken /\ got < Taken /\ Taken \notin N
      /\ session # "over" => Closed(N, got)
      /\ session # "over" /\ pc # "done" => Full(N \cup {writing.n}, got, Taken)
  BY DEF UpInv
<1>2. CASE UpCalm
  <2>1. /\ UNCHANGED <<toBroker, got, accepted, cmds>> /\ writing'.n = writing.n
        /\ session' # "over" => session # "over"
        /\ pc' = "done" <=> pc = "done"
    BY <1>2 DEF UpCalm
  <2>2. Taken' = Taken /\ N' = N /\ Ordered(toBroker') BY <1>1, <2>1 DEF Taken
  <2>3. QED BY <1>1, <2>1, <2>2 DEF UpInv
<1>3. CASE UpTakes
  <2>1. /\ cmds # <<>> /\ cmds' = Tail(cmds)
        /\ writing.n = 0 /\ writing'.n = Head(cmds).n
        /\ UNCHANGED <<toBroker, got, accepted, session>>
        /\ pc # "done" /\ pc' # "done"
    BY <1>3 DEF UpTakes
  <2>2. cmds \in Seq(Command) BY UpFacts
  <2>3. Len(cmds') = Len(cmds) - 1 /\ Len(cmds) > 0 BY <2>1, <2>2, EmptySeq
  <2>4. Taken' = Taken + 1 BY <1>0, <2>1, <2>3 DEF Taken
  <2>5. writing'.n = Taken + 1
    <3>1. Head(cmds) = cmds[1] /\ 1 \in DOMAIN cmds BY <2>1, <2>2
    <3>2. QED BY <1>1, <2>1, <3>1
  <2>6. \A i \in DOMAIN cmds' : cmds'[i].n = Taken' + i
    <3>1. DOMAIN cmds' = 1 .. Len(cmds) - 1 /\ DOMAIN cmds = 1 .. Len(cmds)
      BY <2>1, <2>2, HeadTailProperties
    <3>2. \A i \in 1 .. Len(cmds) - 1 : cmds'[i] = cmds[i + 1]
      BY <2>1, <2>2, HeadTailProperties
    <3>3. SUFFICES ASSUME NEW i \in 1 .. Len(cmds) - 1 PROVE cmds'[i].n = Taken' + i
      BY <3>1
    <3>4. i + 1 \in 1 .. Len(cmds) /\ i \in Nat BY <1>0
    <3>5. cmds[i + 1].n = Taken + (i + 1) BY <1>1, <3>1, <3>4
    <3>6. cmds'[i].n = Taken + (i + 1) BY <3>2, <3>5
    <3>7. QED BY <1>0, <2>4, <3>4, <3>6
  <2>7. N \subseteq got + 1 .. Taken + 1 /\ Taken + 1 \notin N
    <3>1. N \subseteq got + 1 .. Taken BY <1>1
    <3> HIDE DEF N
    <3>2. QED BY <1>0, <3>1
  <2>8. Full(N \cup {writing.n}, got, Taken) => Full(N \cup {Taken + 1}, got, Taken + 1)
    <3> HIDE DEF N
    <3>1. SUFFICES ASSUME Full(N \cup {writing.n}, got, Taken),
                          NEW m \in got + 1 .. Taken + 1
                   PROVE  m \in N \cup {Taken + 1}
      BY DEF Full
    <3>2. CASE m = Taken + 1 BY <3>2
    <3>3. CASE m # Taken + 1
      <4>1. m \in got + 1 .. Taken /\ m # 0 BY <1>0, <3>3
      <4>2. m \in N \cup {writing.n} BY <3>1, <4>1 DEF Full
      <4>3. QED BY <2>1, <4>1, <4>2
    <3>4. QED BY <3>2, <3>3
  <2>9. N' = N /\ Ordered(toBroker') BY <1>1, <2>1
  <2>10. got < Taken + 1 /\ got <= Taken + 1 BY <1>0, <1>1
  <2>11. QED
    BY <1>1, <2>1, <2>4, <2>5, <2>6, <2>7, <2>8, <2>9, <2>10 DEF UpInv
<1>4. CASE Write \/ WriteDisconnect
  <2>1. /\ N' = N \cup ({writing.n} \ {0}) /\ Ordered(toBroker')
        /\ writing'.n = 0 /\ UNCHANGED <<got, accepted, session>> /\ pc # "done"
    BY <1>4, UpWrites
  <2>2. \/ cmds' = cmds /\ pc' # "done" /\ Taken' = Taken
        \/ cmds' = <<>> /\ pc' = "done" /\ Taken' = accepted
    <3>1. CASE Write
      <4>1. UNCHANGED cmds /\ pc' # "done" BY <3>1 DEF Write, cmdVars
      <4>2. QED BY <2>1, <4>1 DEF Taken
    <3>2. CASE WriteDisconnect
      <4>1. cmds' = <<>> /\ pc' = "done"
        BY <3>2 DEF WriteDisconnect, Finish, Cmds!Close
      <4>2. Len(cmds') = 0 BY <4>1
      <4>3. Taken' = accepted BY <1>0, <2>1, <4>2 DEF Taken
      <4>4. QED BY <4>1, <4>3
    <3>3. QED BY <1>4, <3>1, <3>2
  <2>3. Taken <= Taken' /\ Taken' \in Nat /\ got <= Taken'
    BY <1>0, <1>1, <2>2
  <2>4. N' \subseteq got + 1 .. Taken'
    <3>1. N' \subseteq got + 1 .. Taken
      <4>1. CASE writing.n = 0 BY <1>1, <2>1, <4>1
      <4>2. CASE writing.n # 0
        <5>1. writing.n = Taken /\ got < Taken BY <1>1, <4>2
        <5>2. Taken \in got + 1 .. Taken BY <1>0, <5>1
        <5>3. QED BY <1>1, <2>1, <5>1, <5>2
      <4>3. QED BY <4>1, <4>2
    <3> HIDE DEF N
    <3>2. QED BY <1>0, <2>3, <3>1
  <2>5. Full(N \cup {writing.n}, got, Taken) => Full(N', got, Taken)
    <3>1. \A m \in got + 1 .. Taken : m # 0 BY <1>0
    <3>2. QED BY <2>1, <3>1 DEF Full
  <2>6. ASSUME session # "over" PROVE Closed(N', got)
    <3>1. Full(N', got, Taken) BY <1>1, <2>1, <2>5, <2>6
    <3>2. ASSUME NEW n \in N', NEW m \in got + 1 .. n PROVE m \in N'
      <4>1. n \in got + 1 .. Taken
        <5>1. CASE n \in N BY <1>1, <5>1
        <5>2. CASE n \notin N
          <6>1. n = writing.n /\ n # 0 BY <2>1, <3>2, <5>2
          <6>2. n = Taken /\ got < Taken BY <1>1, <6>1
          <6>3. QED BY <1>0, <6>2
        <5>3. QED BY <5>1, <5>2
      <4>2. m \in got + 1 .. Taken BY <1>0, <3>2, <4>1
      <4>3. QED BY <3>1, <4>2 DEF Full
    <3>3. QED BY <3>2 DEF Closed
  <2>7. ASSUME session # "over", pc' # "done" PROVE Full(N' \cup {writing'.n}, got, Taken')
    <3>1. Full(N', got, Taken) /\ Taken' = Taken BY <1>1, <2>1, <2>2, <2>5, <2>7
    <3>2. QED BY <3>1 DEF Full
  <2>8. \A i \in DOMAIN cmds' : cmds'[i].n = Taken' + i BY <1>1, <2>2
  <2>9. pc' = "done" => cmds' = <<>> BY <2>2
  <2>10. QED BY <2>1, <2>3, <2>4, <2>6, <2>7, <2>8, <2>9 DEF UpInv
<1>5. CASE Ends
  <2>1. /\ cmds' = <<>> /\ pc' = "done" /\ writing'.n = 0
        /\ UNCHANGED <<toBroker, got, accepted, session>>
    BY <1>5 DEF Ends, Finish, Cmds!Close, brokerVars, NoPkt, Pkt
  <2>2. Taken' = accepted
    <3>1. Len(cmds') = 0 BY <2>1
    <3>2. QED BY <1>0, <2>1, <3>1 DEF Taken
  <2>3. N' = N /\ Ordered(toBroker') BY <1>1, <2>1
  <2>4. N \subseteq got + 1 .. accepted /\ got <= accepted
    <3>1. N \subseteq got + 1 .. Taken /\ got <= Taken BY <1>1
    <3> HIDE DEF N
    <3>2. QED BY <1>0, <3>1
  <2>5. QED BY <1>1, <2>1, <2>2, <2>3, <2>4 DEF UpInv
<1>6. CASE \E c \in Clients, t \in CmdTypes : TrySend(c, t)
  <2>1. PICK c \in Clients, t \in CmdTypes : TrySend(c, t) BY <1>6
  <2> DEFINE m == [type |-> t, n |-> accepted + 1]
  <2>2. /\ cmds' = Append(cmds, m) /\ accepted' = accepted + 1 /\ pc # "done"
        /\ UNCHANGED <<pc, writing, toBroker, got, session>>
    BY <2>1 DEF TrySend, Cmds!Send, loopVars, wireVars, brokerVars
  <2>3. m.n = accepted + 1 OBVIOUS
  <2>4. cmds \in Seq(Command) BY UpFacts
  <2> HIDE DEF m
  <2>5. Len(cmds') = Len(cmds) + 1 BY <2>2, <2>4
  <2>6. Taken' = Taken BY <1>0, <2>2, <2>5 DEF Taken
  <2>7. \A i \in DOMAIN cmds' : cmds'[i].n = Taken' + i
    <3>1. /\ DOMAIN cmds' = 1 .. Len(cmds) + 1 /\ DOMAIN cmds = 1 .. Len(cmds)
          /\ \A i \in 1 .. Len(cmds) : cmds'[i] = cmds[i]
          /\ cmds'[Len(cmds) + 1] = m
      BY <2>2, <2>4
    <3>2. accepted + 1 = Taken + (Len(cmds) + 1) BY <1>0 DEF Taken
    <3>3. \A i \in 1 .. Len(cmds) + 1 : i \in 1 .. Len(cmds) \/ i = Len(cmds) + 1
      BY <1>0
    <3>4. QED BY <1>1, <2>3, <2>6, <3>1, <3>2, <3>3
  <2>8. N' = N /\ Ordered(toBroker') BY <1>1, <2>2
  <2>9. QED BY <1>1, <2>2, <2>6, <2>7, <2>8 DEF UpInv
<1>7. CASE BrokerReceives
  <2> DEFINE h == Head(toBroker).n
  <2>1. /\ h \in Nat
        /\ h # 0 => h = got + 1 /\ h <= Taken
        /\ got' = IF h = 0 THEN got ELSE h
        /\ N = N' \cup ({h} \ {0})
        /\ \A m \in N' : h < m
        /\ Ordered(toBroker') /\ N' \in SUBSET Nat
        /\ session # "over"
        /\ UNCHANGED <<pc, writing, cmds, accepted>>
    BY <1>7, UpReceives
  <2>2. Taken' = Taken BY <2>1 DEF Taken
  <2>3. CASE h = 0
    <3>1. N' = N /\ got' = got BY <2>1, <2>3
    <3>2. QED BY <1>1, <2>1, <2>2, <3>1 DEF UpInv
  <2>4. CASE h # 0
    <3>1. h \in N /\ N = N' \cup {h} /\ got' = h /\ h = got + 1 /\ h <= Taken
      BY <2>1, <2>4
    <3>2. /\ N' \subseteq h + 1 .. Taken
          /\ Closed(N', h)
          /\ \A w, j \in Nat : Full(N \cup {w}, got, j) => Full(N' \cup {w}, h, j)
      <4>1. Closed(N, got) /\ N \subseteq got + 1 .. Taken BY <1>1, <2>1
      <4> DEFINE R == N'
      <4>2. N = R \cup {h} /\ R \in SUBSET Nat /\ \A m \in R : h < m BY <2>1, <3>1
      <4>3. h \in N /\ h = got + 1 BY <3>1
      <4> HIDE DEF N, h, R
      <4>4. /\ R \subseteq h + 1 .. Taken
            /\ Closed(R, h)
            /\ \A w, j \in Nat : Full(N \cup {w}, got, j) => Full(R \cup {w}, h, j)
        <5>1. /\ N \in SUBSET Nat /\ got \in Nat /\ Taken \in Nat
              /\ N \subseteq got + 1 .. Taken
              /\ R \in SUBSET Nat /\ N = R \cup {h} /\ h \in N
          BY <1>0, <4>1, <4>2, <4>3
        <5>2. \A m \in R : h < m BY <4>2
        <5>3. /\ R \subseteq h + 1 .. Taken
              /\ Closed(N, got) => h = got + 1 /\ Closed(R, h)
              /\ \A w, j \in Nat : Full(N \cup {w}, got, j) /\ h = got + 1
                   => Full(R \cup {w}, h, j)
          BY <5>1, <5>2, FirstIsNext
        <5>4. QED BY <4>1, <4>3, <5>3
      <4>5. QED BY <4>4 DEF R
    <3>3. pc # "done" => Full(N' \cup {writing.n}, h, Taken) BY <1>0, <1>1, <2>1, <3>2
    <3>4. writing.n # 0 => writing.n = Taken /\ h < Taken /\ Taken \notin N'
      <4>1. writing.n # 0 => Taken \notin N BY <1>1
      <4>2. writing.n # 0 => h # Taken /\ Taken \notin N' BY <3>1, <4>1
      <4> HIDE DEF N, h
      <4>3. QED BY <1>0, <1>1, <2>1, <3>1, <4>2
    <3>5. QED BY <1>1, <2>1, <2>2, <3>1, <3>2, <3>3, <3>4 DEF UpInv
  <2>5. QED BY <2>3, <2>4
<1>8. CASE \E k \in 0 .. Len(toClient) : Reset(k)
  <2>1. /\ toBroker' = <<>> /\ session' = "over"
        /\ UNCHANGED <<pc, writing, cmds, accepted, got>>
    BY <1>8 DEF Reset, loopVars, cmdVars
  <2>2. Taken' = Taken /\ N' = {} /\ Ordered(toBroker') BY <2>1, NumbersEmpty DEF Taken
  <2>3. QED BY <1>1, <2>1, <2>2 DEF UpInv
<1>9. QED BY <1>2, <1>3, <1>4, <1>5, <1>6, <1>7, <1>8, UpSteps

LEMMA UpInvHolds == Spec => []UpInv
<1>1. TypeInv /\ UpInv /\ [Next]_vars => UpInv' BY UpInvStep
<1>2. QED BY <1>1, UpInvInit, PacketsWellFormed, PTL DEF Spec

\* The commands reach the broker in the order in which the Clients queued them,
\* each once and none left out: the channel, the loop and the connection
\* implement the pipe.
THEOREM CommandsKeepOrder == Spec => CommandsInOrder
<1>1. Init => Uplink!PipeInit BY DEF Init, Uplink!PipeInit
<1>2. ASSUME TypeInv, UpInv, [Next]_vars
      PROVE  [Uplink!Enter \/ Uplink!Leave]_(Uplink!pipeVars)
  <2> USE DEF Uplink!Enter, Uplink!Leave, Uplink!pipeVars
  <2>1. CASE UpCalm \/ UpTakes BY <2>1 DEF UpCalm, UpTakes
  <2>2. CASE Write \/ WriteDisconnect
    <3>1. UNCHANGED <<got, accepted>> BY <1>2, <2>2, UpWrites
    <3>2. QED BY <3>1
  <2>3. CASE Ends BY <2>3 DEF Ends, Finish, brokerVars
  <2>4. CASE \E c \in Clients, t \in CmdTypes : TrySend(c, t)
    BY <2>4 DEF TrySend, brokerVars
  <2>5. CASE BrokerReceives
    <3>1. /\ accepted' = accepted
          /\ got' = got \/ (got' = got + 1 /\ got + 1 <= Taken)
      BY <1>2, <2>5, UpReceives
    <3>2. Taken <= accepted /\ got \in Nat /\ Taken \in Nat /\ accepted \in Nat
      BY <1>2, UpFacts
    <3>3. got + 1 <= Taken => got < accepted BY <3>2
    <3>4. QED BY <3>1, <3>3
  <2>6. CASE \E k \in 0 .. Len(toClient) : Reset(k) BY <2>6 DEF Reset, cmdVars
  <2>7. QED BY <1>2, <2>1, <2>2, <2>3, <2>4, <2>5, <2>6, UpSteps
<1>3. QED
  BY <1>1, <1>2, PacketsWellFormed, UpInvHolds, PTL
  DEF Spec, CommandsInOrder, Uplink!PipeSpec

-----------------------------------------------------------------------------
(* The broker's messages.                                                  *)

\* The loop has taken a message that it will not give to the user.
Lost == pc \in {"done", "failed"} \/ writing.type = "puback"

\* The messages on their way to the user.
Within == Numbers(notifs) \cup Numbers(toClient)

\* What is on its way to the user comes in order, first the notifications and
\* then the connection, and no message is missing between two of them.
DownInv ==
  /\ received <= sent
  /\ Ordered(notifs) /\ Ordered(toClient)
  /\ Within \subseteq received + 1 .. sent
  /\ \A m \in Numbers(notifs), n \in Numbers(toClient) : m < n
  /\ user => Closed(Numbers(notifs), received)
  /\ user /\ ~Lost => Closed(Within, received)
  /\ user /\ ~Lost /\ Whole => Full(Within, received, sent)

LEMMA DownInvInit == Init => DownInv
<1> SUFFICES ASSUME Init PROVE DownInv OBVIOUS
<1>1. notifs = <<>> /\ toClient = <<>> /\ received = 0 /\ sent = 0 BY DEF Init
<1>2. Numbers(notifs) = {} /\ Numbers(toClient) = {} /\ Ordered(notifs) /\ Ordered(toClient)
  BY <1>1, NumbersEmpty
<1>3. Within = {} BY <1>2 DEF Within
<1>4. Closed({}, 0) /\ Full({}, 0, 0) BY DEF Closed, Full
<1>5. QED BY <1>1, <1>2, <1>3, <1>4 DEF DownInv

\* What is known of the numbers, as far as the steps below need it.
LEMMA DownFacts ==
  ASSUME TypeInv
  PROVE  /\ notifs \in Seq(Notification) /\ \A p \in Notification : p.n \in Nat
         /\ toClient \in Seq(Incoming) /\ \A p \in Incoming : p.n \in Nat
         /\ received \in Nat /\ sent \in Nat
         /\ Numbers(notifs) \in SUBSET (Nat \ {0})
         /\ Numbers(toClient) \in SUBSET (Nat \ {0})
         /\ Within \in SUBSET (Nat \ {0})
<1>1. \A p \in Incoming : p.n \in Nat BY IncomingFacts
<1>2. \A p \in Notification : p.n \in Nat BY DEF Notification
<1>3. notifs \in Seq(Notification) /\ toClient \in Seq(Incoming)
  BY DEF TypeInv, NotifTypes, WireTypes
<1>4. received \in Nat /\ sent \in Nat
  BY EventLoopAssumption DEF TypeInv, NotifTypes, AnswerTypes
<1>5. Numbers(notifs) \in SUBSET (Nat \ {0}) BY <1>2, <1>3, NumbersNat
<1>6. Numbers(toClient) \in SUBSET (Nat \ {0}) BY <1>1, <1>3, NumbersNat
<1>7. QED BY <1>1, <1>2, <1>3, <1>4, <1>5, <1>6 DEF Within

\* The steps that neither add a message nor take one.
DownCalm ==
  /\ UNCHANGED <<notifs, user, received, toClient, sent>>
  /\ Whole' => Whole
  /\ Lost => Lost'

\* The loop reads a packet, and notifies the user of the message in it, if
\* there is one and the loop is not about to end.
DownReads ==
  /\ toClient # <<>> /\ toClient' = Tail(toClient) /\ ~Lost
  /\ UNCHANGED <<user, received, sent, link>>
  /\ \/ notifs' = notifs /\ (Head(toClient).n = 0 \/ ~user \/ Lost')
     \/ \E t \in {"connack", "suback", "unsuback", "message"} :
          notifs' = Append(notifs, [type |-> t, n |-> Head(toClient).n])

\* The broker sends a packet without a number.
DownAnswers ==
  /\ \E p \in Incoming : p.n = 0 /\ toClient' = Append(toClient, p)
  /\ UNCHANGED <<pc, writing, notifs, user, received, sent>>
  /\ Whole' => Whole

\* The loop ends and drops its side of the connection.
DownEnds ==
  toClient' = <<>> /\ Lost' /\ UNCHANGED <<notifs, user, received, sent>>

LEMMA DownSteps ==
  ASSUME TypeInv, GreetInv, [Next]_vars
  PROVE  \/ DownCalm \/ DownReads \/ DownAnswers \/ DownEnds
         \/ Connect \/ UserReceives \/ DropUser
         \/ \E t \in BrokerTypes \cup {"publish0", "connack"} : BrokerSends(t)
         \/ \E k \in 0 .. Len(toClient) : Reset(k)
<1> USE DEF wireVars, brokerVars, notifVars
<1>1. pc # "writing" => writing = NoPkt BY DEF TypeInv, LoopTypes
<1>2. NoPkt.type # "puback" BY DEF NoPkt, Pkt
<1>3. pc \in {"handshake", "select", "notifying"} => ~Lost BY <1>1, <1>2 DEF Lost
<1>4. CASE CmdPlain \/ CmdIdentified \/ TickPing \/ Notified
  <2>1. /\ pc \in {"select", "notifying"}
        /\ UNCHANGED <<notifs, user, received, toClient, sent, link>>
    BY <1>4 DEF CmdPlain, CmdIdentified, TickPing, Notified
  <2>2. DownCalm BY <1>3, <2>1 DEF DownCalm, Whole
  <2>3. QED BY <2>2
<1>5. CASE Write
  <2>1. /\ pc = "writing" /\ writing.type \in Encodable
        /\ UNCHANGED <<notifs, user, received, toClient, sent, link>>
    BY <1>5 DEF Write, Written
  <2>2. ~Lost BY <2>1 DEF Lost, Encodable
  <2>3. DownCalm BY <2>1, <2>2 DEF DownCalm, Whole
  <2>4. QED BY <2>3
<1>6. CASE ConnectFails
  <2>1. DownCalm BY <1>6 DEF ConnectFails, DownCalm, Whole, Lost
  <2>2. QED BY <2>1
<1>7. CASE \/ BrokerReceives \/ BrokerCloses \/ \E c \in Clients : DropClient(c)
           \/ \E c \in Clients, t \in CmdTypes : TrySend(c, t)
           \/ UNCHANGED vars
  <2>1. UNCHANGED <<pc, writing, notifs, user, received, toClient, sent>>
    BY <1>7 DEF BrokerReceives, BrokerCloses, DropClient, TrySend, vars, loopVars
  <2>2. link' = link \/ link' = "eof"
    BY <1>7 DEF BrokerReceives, BrokerCloses, DropClient, TrySend, vars
  <2>3. DownCalm BY <2>1, <2>2 DEF DownCalm, Whole, Lost
  <2>4. QED BY <2>3
<1>8. CASE WriteDisconnect \/ Ends
  <2>1. DownEnds BY <1>8 DEF WriteDisconnect, Ends, Finish, DownEnds, Lost
  <2>2. QED BY <2>1
<1>9. CASE BrokerGreets \/ \E p \in owed : BrokerAnswers(p)
  <2>1. \E p \in Incoming : p.n = 0 /\ toClient' = Append(toClient, p)
    <3>1. CASE BrokerGreets
      <4>1. /\ Pkt("connack", 0, 0) \in Incoming /\ Pkt("refused", 0, 0) \in Incoming
            /\ \A t : Pkt(t, 0, 0).n = 0
        BY IncomingPkt, EventLoopAssumption DEF Unasked, Pkt
      <4>2. QED BY <3>1, <4>1 DEF BrokerGreets
    <3>2. CASE \E p \in owed : BrokerAnswers(p)
      <4>1. PICK p \in owed : BrokerAnswers(p) BY <3>2
      <4>2. p \in Incoming /\ p.n = 0 BY IncomingPkt DEF TypeInv, AnswerTypes, Answer
      <4>3. QED BY <4>1, <4>2 DEF BrokerAnswers
    <3>3. QED BY <1>9, <3>1, <3>2
  <2>2. UNCHANGED <<pc, writing, notifs, user, received, sent, link>>
    BY <1>9 DEF BrokerGreets, BrokerAnswers, loopVars
  <2>3. DownAnswers BY <2>1, <2>2 DEF DownAnswers, Whole
  <2>4. QED BY <2>3
<1>10. CASE \E t \in {"disconnect", "disconnecterr"} : BrokerDisconnects(t)
  <2>1. PICK t \in {"disconnect", "disconnecterr"} : BrokerDisconnects(t) BY <1>10
  <2>2. Pkt(t, 0, 0) \in Incoming /\ Pkt(t, 0, 0).n = 0
    BY IncomingPkt, EventLoopAssumption DEF Unasked, Pkt
  <2>3. /\ UNCHANGED <<pc, writing, notifs, user, received, sent>> /\ link' = "eof"
        /\ toClient' = Append(toClient, Pkt(t, 0, 0))
    BY <2>1 DEF BrokerDisconnects, loopVars
  <2>4. DownAnswers BY <2>2, <2>3 DEF DownAnswers, Whole
  <2>5. QED BY <2>4
<1>11. CASE ReadConnack \/ ReadAck \/ ReadMessage
  <2>1. toClient # <<>> /\ toClient' = Tail(toClient) /\ ~Lost
    BY <1>3, <1>11 DEF ReadConnack, ReadAck, ReadMessage, Read
  <2>2. \E t \in {"connack", "suback", "unsuback", "message"} :
          Notify(t, Head(toClient).n)
    <3>1. CASE ReadConnack
      <4>1. Head(toClient).n = 0 BY <3>1 DEF ReadConnack, Read, GreetInv, ConnackIsAnswer
      <4>2. QED BY <3>1, <4>1 DEF ReadConnack
    <3>2. CASE ReadAck
      <4>1. Head(toClient).type \in Acks BY <3>2 DEF ReadAck, Read, Acks
      <4>2. Head(toClient) \in Incoming BY <2>1, DownFacts
      <4>3. Head(toClient).n = 0 BY <4>1, <4>2 DEF Incoming, Answer, Acks, Unasked
      <4>4. QED BY <3>2, <4>3 DEF ReadAck, Read
    <3>3. CASE ReadMessage BY <3>3 DEF ReadMessage
    <3>4. QED BY <1>11, <3>1, <3>2, <3>3
  <2>3. PICK t \in {"connack", "suback", "unsuback", "message"} :
          Notify(t, Head(toClient).n)
    BY <2>2
  <2>4. UNCHANGED <<user, received, sent, link>>
    BY <1>11, <2>3 DEF ReadConnack, ReadAck, ReadMessage, Notify
  <2>5. \/ notifs' = notifs /\ ~user
        \/ notifs' = Append(notifs, [type |-> t, n |-> Head(toClient).n])
    BY <2>3 DEF Notify, Notifs!Send
  <2>6. DownReads BY <2>1, <2>4, <2>5 DEF DownReads
  <2>7. QED BY <2>6
<1>12. CASE ReadPingResp \/ ReadPubAck
  <2>1. /\ toClient # <<>> /\ toClient' = Tail(toClient) /\ ~Lost
        /\ UNCHANGED <<notifs, user, received, sent, link>>
        /\ Head(toClient).type \in {"pingresp", "puback"}
    BY <1>3, <1>12 DEF ReadPingResp, ReadPubAck, Read
  <2>2. Head(toClient) \in Incoming BY <2>1, DownFacts
  <2>3. Head(toClient).n = 0 BY <2>1, <2>2 DEF Incoming, Answer, Unasked
  <2>4. DownReads BY <2>1, <2>3 DEF DownReads
  <2>5. QED BY <2>4
<1>13. CASE ReadPublish1
  <2>1. /\ toClient # <<>> /\ toClient' = Tail(toClient) /\ ~Lost
        /\ UNCHANGED <<notifs, user, received, sent, link>>
        /\ writing' = Pkt("puback", 0, 0)
    BY <1>3, <1>13 DEF ReadPublish1, Read, StartWrite
  <2>2. Lost' BY <2>1 DEF Lost, Pkt
  <2>3. DownReads BY <2>1, <2>2 DEF DownReads
  <2>4. QED BY <2>3
<1>14. QED
  BY <1>4, <1>5, <1>6, <1>7, <1>8, <1>9, <1>10, <1>11, <1>12, <1>13, StepCases

\* The loop reads a packet: its message leaves the connection for the
\* notifications, behind those that are there.
LEMMA DownReadsStep ==
  ASSUME TypeInv, DownInv, DownReads
  PROVE  DownInv'
<1> DEFINE h == Head(toClient).n
           N == Numbers(notifs)
           C == Numbers(toClient)
           R == Numbers(toClient')
<1>0. /\ received \in Nat /\ sent \in Nat
      /\ N \in SUBSET (Nat \ {0}) /\ C \in SUBSET (Nat \ {0})
      /\ Within = N \cup C /\ Within' = N' \cup R
  BY DownFacts DEF Within
<1>1. /\ received <= sent /\ Ordered(notifs) /\ Ordered(toClient)
      /\ N \cup C \subseteq received + 1 .. sent
      /\ \A m \in N, n \in C : m < n
      /\ user => Closed(N, received)
      /\ user => Closed(N \cup C, received)
      /\ user /\ Whole => Full(N \cup C, received, sent)
  BY DEF DownInv, DownReads, Within
<1>2. /\ toClient # <<>> /\ toClient' = Tail(toClient)
      /\ UNCHANGED <<user, received, sent, link>>
      /\ Whole' <=> Whole
  BY DEF DownReads, Whole
<1>3. /\ C = R \cup ({h} \ {0})
      /\ \A m \in R : h < m
      /\ Ordered(toClient') /\ h \in Nat
  BY <1>1, <1>2, DownFacts, NumbersTail
<1>4. CASE notifs' = notifs /\ (h = 0 \/ ~user \/ Lost')
  <2>1. N' = N /\ Ordered(notifs') BY <1>1, <1>4
  <2>2. N' \cup R \subseteq N \cup C /\ (h = 0 => N' \cup R = N \cup C) /\ R \subseteq C
    BY <1>3, <2>1
  <2>3. Within' \subseteq received + 1 .. sent BY <1>0, <1>1, <2>2
  <2>4. \A m \in N', n \in R : m < n BY <1>1, <2>1, <2>2
  <2>5. user /\ ~Lost' => Closed(Within', received) /\ (Whole => Full(Within', received, sent))
    BY <1>0, <1>1, <1>4, <2>2
  <2>6. user => Closed(N', received) BY <1>1, <2>1
  <2>7. QED BY <1>1, <1>2, <1>3, <2>1, <2>3, <2>4, <2>5, <2>6 DEF DownInv
<1>5. ASSUME NEW t \in {"connack", "suback", "unsuback", "message"},
             notifs' = Append(notifs, [type |-> t, n |-> h])
      PROVE  DownInv'
  <2> DEFINE p == [type |-> t, n |-> h]
  <2>1. N' = N \cup ({h} \ {0}) /\ Ordered(notifs')
    <3>1. p \in Notification /\ p.n = h BY <1>3 DEF Notification
    <3>2. h # 0 => h \in C BY <1>3
    <3>3. h # 0 => \A m \in N : m < h BY <1>1, <3>2
    <3> HIDE DEF p, h
    <3>4. /\ Numbers(Append(notifs, p)) = N \cup ({p.n} \ {0})
          /\ Ordered(Append(notifs, p))
      BY <1>1, <3>1, <3>3, DownFacts, NumbersAppend
    <3>5. notifs' = Append(notifs, p) BY <1>5 DEF p, h
    <3>6. QED BY <3>1, <3>4, <3>5
  <2> HIDE DEF p, h
  <2>2. N' \cup R = N \cup C BY <1>3, <2>1
  <2>3. Within' = Within BY <1>0, <2>2
  <2>4. ASSUME NEW m \in N', NEW n \in R PROVE m < n
    <3>1. CASE m \in N BY <1>1, <1>3, <3>1
    <3>2. CASE m \notin N BY <1>3, <2>1, <3>2
    <3>3. QED BY <3>1, <3>2
  <2>5. ASSUME user, NEW n \in N', NEW m \in received + 1 .. n PROVE m \in N'
    <3>1. n \in N \cup C /\ Closed(N \cup C, received) BY <1>1, <1>3, <2>1, <2>5
    <3>2. m \in N \cup C BY <2>5, <3>1 DEF Closed
    <3>3. n \in Nat /\ m \in Nat /\ m <= n BY <1>0, <2>5, <3>1
    <3>4. CASE n \in N
      <4>1. Closed(N, received) BY <1>1, <2>5
      <4>2. m \in N BY <2>5, <3>4, <4>1 DEF Closed
      <4>3. QED BY <2>1, <4>2
    <3>5. CASE n \notin N
      <4>1. n = h /\ h # 0 BY <2>1, <2>5, <3>5
      <4>2. ~(h < m) BY <3>3, <4>1
      <4>3. m \notin R BY <1>3, <4>2
      <4>4. QED BY <1>3, <2>1, <3>2, <4>3
    <3>6. QED BY <3>4, <3>5
  <2>6. user => Closed(N', received) BY <2>5 DEF Closed
  <2>7. Within \subseteq received + 1 .. sent BY <1>0, <1>1
  <2>8. user => Closed(Within, received) /\ (Whole => Full(Within, received, sent))
    BY <1>0, <1>1
  <2>9. QED BY <1>1, <1>2, <1>3, <2>1, <2>3, <2>4, <2>6, <2>7, <2>8 DEF DownInv
<1>6. QED BY <1>4, <1>5 DEF DownReads

\* The user receives a notification: of the messages on their way, the next.
LEMMA DownReceives ==
  ASSUME TypeInv, DownInv, UserReceives
  PROVE  /\ DownInv'
         /\ sent' = sent
         /\ received' = received \/ (received' = received + 1 /\ received < sent)
<1> DEFINE h == Head(notifs).n
           N == Numbers(notifs)
           R == Numbers(notifs')
           C == Numbers(toClient)
<1>0. /\ received \in Nat /\ sent \in Nat
      /\ N \in SUBSET (Nat \ {0}) /\ C \in SUBSET (Nat \ {0})
      /\ Within = N \cup C /\ Within' = R \cup C'
  BY DownFacts DEF Within
<1>1. /\ received <= sent /\ Ordered(notifs) /\ Ordered(toClient)
      /\ N \cup C \subseteq received + 1 .. sent
      /\ \A m \in N, n \in C : m < n
      /\ user => Closed(N, received)
      /\ user /\ ~Lost => Closed(N \cup C, received)
      /\ user /\ ~Lost /\ Whole => Full(N \cup C, received, sent)
  BY DEF DownInv, Within
<1>2. /\ notifs # <<>> /\ notifs' = Tail(notifs) /\ user
      /\ received' = IF h = 0 THEN received ELSE h
      /\ UNCHANGED <<user, pc, writing, toClient, link, sent>>
  BY DEF UserReceives, Notifs!Receive, loopVars, wireVars, brokerVars
<1>3. /\ N = R \cup ({h} \ {0})
      /\ \A m \in R : h < m
      /\ Ordered(notifs') /\ h \in Nat
  BY <1>1, <1>2, DownFacts, NumbersTail
<1>4. (Lost' <=> Lost) /\ (Whole' <=> Whole) /\ C' = C /\ Ordered(toClient')
  BY <1>1, <1>2 DEF Lost, Whole
<1>5. CASE h = 0
  <2>1. R = N /\ received' = received BY <1>2, <1>3, <1>5
  <2>2. Within' = Within BY <1>0, <1>4, <2>1
  <2>3. DownInv' BY <1>0, <1>1, <1>2, <1>3, <1>4, <2>1, <2>2 DEF DownInv
  <2>4. QED BY <1>2, <2>1, <2>3
<1>6. CASE h # 0
  <2>1. received' = h /\ N = R \cup {h} /\ h \in N BY <1>2, <1>3, <1>6
  <2>2. R \in SUBSET Nat /\ N \in SUBSET Nat BY <1>0, <2>1
  <2> HIDE DEF h, N, R, C
  <2>3. N \subseteq received + 1 .. sent /\ Closed(N, received) BY <1>1, <1>2
  <2>4. \A m \in R : h < m BY <1>3
  <2>5. /\ h <= sent /\ R \subseteq h + 1 .. sent
        /\ h = received + 1 /\ Closed(R, h)
    <3>1. /\ N \in SUBSET Nat /\ R \in SUBSET Nat /\ received \in Nat /\ sent \in Nat
          /\ N \subseteq received + 1 .. sent /\ h \in N /\ N = R \cup {h}
      BY <1>0, <2>1, <2>2, <2>3
    <3>2. /\ h <= sent /\ R \subseteq h + 1 .. sent
          /\ Closed(N, received) => h = received + 1 /\ Closed(R, h)
      BY <2>4, <3>1, FirstIsNext
    <3>3. QED BY <2>3, <3>2
  <2>6. \A n \in C : h < n BY <1>1, <2>1
  <2>7. \A n \in R \cup C : h < n BY <2>4, <2>6
  <2>8. /\ N \cup C \in SUBSET Nat /\ R \cup C \in SUBSET Nat
        /\ h \in N \cup C /\ N \cup C = (R \cup C) \cup {h}
    BY <1>0, <2>1, <2>2
  <2>9. /\ R \cup C \subseteq h + 1 .. sent
        /\ Closed(N \cup C, received) => Closed(R \cup C, h)
    <3> DEFINE W == N \cup C
               V == R \cup C
    <3>1. /\ W \in SUBSET Nat /\ V \in SUBSET Nat /\ h \in W /\ W = V \cup {h}
          /\ \A m \in V : h < m
      BY <2>7, <2>8
    <3>2. W \subseteq received + 1 .. sent /\ received \in Nat /\ sent \in Nat
      BY <1>0, <1>1
    <3> HIDE DEF W, V
    <3>3. /\ V \subseteq h + 1 .. sent
          /\ Closed(W, received) => h = received + 1 /\ Closed(V, h)
      BY <3>1, <3>2, FirstIsNext
    <3>4. QED BY <3>3 DEF W, V
  <2>10. ASSUME Full(N \cup C, received, sent), NEW m \in h + 1 .. sent PROVE m \in R \cup C
    <3>1. m \in received + 1 .. sent /\ m # h BY <1>0, <2>5, <2>10
    <3>2. m \in N \cup C BY <2>10, <3>1 DEF Full
    <3>3. QED BY <2>8, <3>1, <3>2
  <2>11. Full(N \cup C, received, sent) => Full(R \cup C, h, sent) BY <2>10 DEF Full
  <2>12. Within' = R \cup C BY <1>0, <1>4
  <2>13. \A m \in R, n \in C : m < n BY <1>1, <2>1
  <2>14. DownInv'
    <3>1. /\ received' <= sent' /\ Ordered(notifs') /\ Ordered(toClient')
          /\ Within' \subseteq received' + 1 .. sent'
          /\ \A m \in R, n \in C' : m < n
          /\ user' => Closed(R, received')
      BY <1>2, <1>3, <1>4, <2>1, <2>5, <2>9, <2>12, <2>13
    <3>2. /\ user' /\ ~Lost' => Closed(Within', received')
          /\ user' /\ ~Lost' /\ Whole' => Full(Within', received', sent')
      BY <1>1, <1>2, <1>4, <2>1, <2>9, <2>11, <2>12
    <3>3. QED BY <3>1, <3>2 DEF DownInv, R, C
  <2>15. received < sent BY <1>0, <2>5
  <2>16. QED BY <1>2, <2>1, <2>5, <2>14, <2>15
<1>7. QED BY <1>5, <1>6

\* The connection begins, and nothing is on its way.
LEMMA DownConnects ==
  ASSUME TypeInv, GreetInv, DownInv, Connect
  PROVE  DownInv'
<1>1. /\ pc = "connecting"
      /\ UNCHANGED <<notifs, user, received, toClient, sent>>
  BY DEF Connect, notifVars, brokerVars
<1>2. sent = 0 /\ toClient = <<>> /\ notifs = <<>> /\ received = 0
  BY <1>1 DEF GreetInv, NotYetConnected, NotifsGreeted, Early, Unconnected
<1>3. Numbers(notifs') = {} /\ Numbers(toClient') = {} /\ Ordered(notifs') /\ Ordered(toClient')
  BY <1>1, <1>2, NumbersEmpty
<1>4. Within' = {} BY <1>3 DEF Within
<1>5. Closed({}, 0) /\ Full({}, 0, 0) BY DEF Closed, Full
<1>6. received' = 0 /\ sent' = 0 BY <1>1, <1>2
<1>7. QED BY <1>3, <1>4, <1>5, <1>6 DEF DownInv

\* The broker sends a message: the next.
LEMMA DownSends ==
  ASSUME TypeInv, DownInv,
         NEW t \in BrokerTypes \cup {"publish0", "connack"}, BrokerSends(t)
  PROVE  DownInv'
<1> DEFINE N == Numbers(notifs)
           C == Numbers(toClient)
           p == Pkt(t, 0, sent + 1)
<1>0. /\ received \in Nat /\ sent \in Nat
      /\ N \in SUBSET (Nat \ {0}) /\ C \in SUBSET (Nat \ {0})
      /\ Within = N \cup C /\ Within' = N' \cup C'
  BY DownFacts DEF Within
<1>1. /\ received <= sent /\ Ordered(notifs) /\ Ordered(toClient)
      /\ N \cup C \subseteq received + 1 .. sent
      /\ \A m \in N, n \in C : m < n
      /\ user => Closed(N, received)
      /\ user /\ ~Lost => Closed(N \cup C, received)
      /\ user /\ ~Lost /\ Whole => Full(N \cup C, received, sent)
  BY DEF DownInv, Within
<1>2. /\ UNCHANGED <<pc, writing, notifs, user, received, link>>
      /\ link = "up" /\ toClient' = Append(toClient, p) /\ sent' = sent + 1
      /\ sent < MaxDeliveries
  BY DEF BrokerSends, CanSend, loopVars, notifVars
<1>3. p \in Incoming /\ p.n = sent + 1
  <2>1. t \in Unasked BY EventLoopAssumption DEF Unasked, AllBrokerTypes
  <2>2. sent + 1 \in 0 .. MaxDeliveries BY <1>0, <1>2, EventLoopAssumption
  <2>3. p \in Incoming BY <2>1, <2>2, IncomingPkt
  <2>4. QED BY <2>3 DEF Pkt
<1> HIDE DEF p
<1>4. \A m \in N \cup C : m < sent + 1 BY <1>0, <1>1
<1>5. C' = C \cup {sent + 1} /\ Ordered(toClient')
  <2>1. p.n # 0 /\ \A m \in C : m < p.n BY <1>0, <1>3, <1>4
  <2>2. /\ Numbers(Append(toClient, p)) = C \cup ({p.n} \ {0})
        /\ Ordered(Append(toClient, p))
    BY <1>1, <1>3, <2>1, DownFacts, NumbersAppend
  <2>3. QED BY <1>2, <1>3, <2>1, <2>2
<1>6. N' = N /\ Ordered(notifs') BY <1>1, <1>2
<1>7. Within' = (N \cup C) \cup {sent + 1} BY <1>0, <1>5, <1>6
<1>8. (Lost' <=> Lost) /\ Whole BY <1>2 DEF Lost, Whole
<1> HIDE DEF N, C
<1> DEFINE W == N \cup C
<1>9. W \subseteq received + 1 .. sent BY <1>1
<1> HIDE DEF W
<1>10. W \cup {sent + 1} \subseteq received + 1 .. sent + 1
  <2>1. received <= sent /\ received \in Nat /\ sent \in Nat BY <1>0, <1>1
  <2>2. QED BY <1>9, <2>1
<1>11. ASSUME Full(W, received, sent)
       PROVE  /\ Full(W \cup {sent + 1}, received, sent + 1)
              /\ Closed(W \cup {sent + 1}, received)
  <2>1. ASSUME NEW m \in received + 1 .. sent + 1 PROVE m \in W \cup {sent + 1}
    <3>1. m = sent + 1 \/ m \in received + 1 .. sent BY <1>0
    <3>2. QED BY <1>11, <3>1 DEF Full
  <2>2. ASSUME NEW n \in W \cup {sent + 1}, NEW m \in received + 1 .. n
        PROVE  m \in W \cup {sent + 1}
    <3>1. n \in received + 1 .. sent + 1 BY <1>10
    <3>2. m \in received + 1 .. sent + 1 BY <1>0, <2>2, <3>1
    <3>3. QED BY <2>1, <3>2
  <2>3. QED BY <2>1, <2>2 DEF Full, Closed
<1>12. user' /\ ~Lost' => Closed(Within', received') /\ Full(Within', received', sent')
  BY <1>1, <1>2, <1>7, <1>8, <1>11 DEF W
<1>13. Within' \subseteq received' + 1 .. sent' /\ received' <= sent'
  <2>1. Within' \subseteq received + 1 .. sent + 1 BY <1>7, <1>10 DEF W
  <2>2. received <= sent /\ received \in Nat /\ sent \in Nat BY <1>0, <1>1
  <2>3. QED BY <1>2, <2>1, <2>2
<1>14. \A m \in N', n \in C' : m < n BY <1>1, <1>4, <1>5, <1>6
<1>15. user' => Closed(N', received') BY <1>1, <1>2, <1>6
<1>16. QED BY <1>5, <1>6, <1>12, <1>13, <1>14, <1>15 DEF DownInv, N, C

\* The steps after which fewer messages are on their way.
LEMMA DownLoses ==
  ASSUME TypeInv, DownInv,
         DownEnds \/ DropUser \/ \E k \in 0 .. Len(toClient) : Reset(k)
  PROVE  DownInv' /\ UNCHANGED <<received, sent>>
<1> DEFINE N == Numbers(notifs)
           C == Numbers(toClient)
<1>0. /\ received \in Nat /\ sent \in Nat /\ Within = N \cup C /\ Within' = N' \cup C'
      /\ N \in SUBSET (Nat \ {0}) /\ C \in SUBSET (Nat \ {0})
  BY DownFacts DEF Within
<1>1. /\ received <= sent /\ Ordered(notifs) /\ Ordered(toClient)
      /\ N \cup C \subseteq received + 1 .. sent
      /\ \A m \in N, n \in C : m < n
      /\ user => Closed(N, received)
      /\ user /\ ~Lost => Closed(N \cup C, received)
  BY DEF DownInv, Within
<1>2. ASSUME N' \subseteq N, C' \subseteq C, Ordered(notifs'), Ordered(toClient'),
             UNCHANGED <<received, sent>>,
             user' => Closed(N', received),
             user' /\ ~Lost' => Closed(N' \cup C', received) /\ ~Whole'
      PROVE  DownInv'
  <2>1. \A m \in N', n \in C' : m < n BY <1>1, <1>2
  <2>2. Within' \subseteq received' + 1 .. sent' BY <1>0, <1>1, <1>2
  <2>3. QED BY <1>0, <1>1, <1>2, <2>1, <2>2 DEF DownInv
<1>3. CASE DownEnds
  <2>1. toClient' = <<>> /\ Lost' /\ UNCHANGED <<notifs, user, received, sent>>
    BY <1>3 DEF DownEnds
  <2>2. C' = {} /\ N' = N /\ Ordered(toClient') /\ Ordered(notifs')
    BY <1>1, <2>1, NumbersEmpty
  <2>3. QED BY <1>1, <1>2, <2>1, <2>2
<1>4. CASE DropUser
  <2>1. ~user' /\ notifs' = <<>> /\ UNCHANGED <<toClient, received, sent>>
    BY <1>4 DEF DropUser, Notifs!Close, wireVars, brokerVars
  <2>2. N' = {} /\ C' = C /\ Ordered(toClient') /\ Ordered(notifs')
    BY <1>1, <2>1, NumbersEmpty
  <2>3. QED BY <1>2, <2>1, <2>2
<1>5. CASE \E k \in 0 .. Len(toClient) : Reset(k)
  <2>1. PICK k \in 0 .. Len(toClient) : Reset(k) BY <1>5
  <2>2. /\ toClient' = SubSeq(toClient, 1, k) /\ ~Whole'
        /\ UNCHANGED <<pc, writing, notifs, user, received, sent>>
    BY <2>1 DEF Reset, Whole, loopVars, notifVars
  <2>3. /\ C' \subseteq C /\ Ordered(toClient')
        /\ \A n \in C', m \in C : m <= n => m \in C'
    <3>1. /\ Numbers(SubSeq(toClient, 1, k)) \subseteq C
          /\ Ordered(SubSeq(toClient, 1, k))
          /\ \A n \in Numbers(SubSeq(toClient, 1, k)), m \in C :
               m <= n => m \in Numbers(SubSeq(toClient, 1, k))
      BY <1>1, DownFacts, NumbersPrefix
    <3>2. QED BY <2>2, <3>1
  <2>4. N' = N /\ Ordered(notifs') /\ (Lost' <=> Lost) BY <1>1, <2>2 DEF Lost
  <2>5. ASSUME Closed(N \cup C, received), Closed(N, received),
               NEW n \in N \cup C', NEW m \in received + 1 .. n
        PROVE  m \in N \cup C'
    <3>1. m \in N \cup C BY <2>3, <2>5 DEF Closed
    <3>2. CASE n \in N BY <2>5, <3>2 DEF Closed
    <3>3. CASE n \in C'
      <4>1. m <= n /\ (m \in C => m \in C') BY <1>0, <2>3, <2>5, <3>3
      <4>2. QED BY <3>1, <4>1
    <3>4. QED BY <2>5, <3>2, <3>3
  <2>6. user /\ ~Lost => Closed(N \cup C', received) BY <1>1, <2>5 DEF Closed
  <2>7. QED BY <1>1, <1>2, <2>2, <2>3, <2>4, <2>6
<1>6. UNCHANGED <<received, sent>>
  BY DEF DownEnds, DropUser, Reset, notifVars, brokerVars
<1>7. QED BY <1>3, <1>4, <1>5, <1>6

LEMMA DownInvStep ==
  ASSUME TypeInv, GreetInv, DownInv, [Next]_vars
  PROVE  DownInv'
<1>1. CASE DownCalm
  <2>1. /\ UNCHANGED <<notifs, user, received, toClient, sent>>
        /\ Whole' => Whole
        /\ Lost => Lost'
    BY <1>1 DEF DownCalm
  <2>2. Within' = Within BY <2>1 DEF Within
  <2>3. Numbers(notifs') = Numbers(notifs) /\ Numbers(toClient') = Numbers(toClient)
    BY <2>1
  <2>4. Ordered(notifs') /\ Ordered(toClient') BY <2>1 DEF DownInv
  <2>5. QED BY <2>1, <2>2, <2>3, <2>4 DEF DownInv
<1>2. CASE DownAnswers
  <2>1. PICK p \in Incoming : p.n = 0 /\ toClient' = Append(toClient, p)
    BY <1>2 DEF DownAnswers
  <2>2. /\ UNCHANGED <<notifs, user, received, sent>> /\ (Whole' => Whole)
        /\ (Lost' <=> Lost)
    BY <1>2 DEF DownAnswers, Lost
  <2>3. Ordered(toClient) /\ Ordered(notifs) BY DEF DownInv
  <2>4. /\ Numbers(Append(toClient, p)) = Numbers(toClient) \cup ({p.n} \ {0})
        /\ Ordered(Append(toClient, p))
    BY <2>1, <2>3, DownFacts, NumbersAppend
  <2>5. Numbers(toClient') = Numbers(toClient) /\ Ordered(toClient') BY <2>1, <2>4
  <2>6. Numbers(notifs') = Numbers(notifs) /\ Ordered(notifs') BY <2>2, <2>3
  <2>7. Within' = Within BY <2>5, <2>6 DEF Within
  <2>8. QED BY <2>2, <2>5, <2>6, <2>7 DEF DownInv
<1>3. QED
  BY <1>1, <1>2, DownSteps, DownReadsStep, DownReceives, DownConnects, DownSends, DownLoses

LEMMA DownInvHolds == Spec => []DownInv
<1>1. TypeInv /\ GreetInv /\ DownInv /\ [Next]_vars => DownInv' BY DownInvStep
<1>2. QED BY <1>1, DownInvInit, GreetInvHolds, PacketsWellFormed, PTL DEF Spec

\* The user receives the broker's messages in the order in which they were
\* sent, each once and none left out: the connection, the loop and the channel
\* implement the pipe.
THEOREM MessagesKeepOrder == Spec => MessagesInOrder
<1>1. Init => Downlink!PipeInit BY DEF Init, Downlink!PipeInit
<1>2. ASSUME TypeInv, GreetInv, DownInv, [Next]_vars
      PROVE  [Downlink!Enter \/ Downlink!Leave]_(Downlink!pipeVars)
  <2> USE DEF Downlink!Enter, Downlink!Leave, Downlink!pipeVars
  <2>1. CASE DownCalm \/ DownReads \/ DownAnswers
    BY <2>1 DEF DownCalm, DownReads, DownAnswers
  <2>2. CASE Connect BY <2>2 DEF Connect, notifVars, brokerVars
  <2>3. CASE DownEnds \/ DropUser \/ \E k \in 0 .. Len(toClient) : Reset(k)
    <3>1. UNCHANGED <<received, sent>> BY <1>2, <2>3, DownLoses
    <3>2. QED BY <3>1
  <2>4. CASE UserReceives
    <3>1. /\ sent' = sent
          /\ received' = received \/ (received' = received + 1 /\ received < sent)
      BY <1>2, <2>4, DownReceives
    <3>2. QED BY <3>1
  <2>5. CASE \E t \in BrokerTypes \cup {"publish0", "connack"} : BrokerSends(t)
    BY <2>5 DEF BrokerSends, notifVars
  <2>6. QED BY <1>2, <2>1, <2>2, <2>3, <2>4, <2>5, DownSteps
<1>3. QED
  BY <1>1, <1>2, PacketsWellFormed, GreetInvHolds, DownInvHolds, PTL
  DEF Spec, MessagesInOrder, Downlink!PipeSpec
=============================================================================

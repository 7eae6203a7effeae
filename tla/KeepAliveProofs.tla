--------------------------- MODULE KeepAliveProofs ---------------------------
(***************************************************************************)
(* For every period, answer time and hold-up: what the ping timer of the   *)
(* event loop guarantees.  The time since the last write, the age of a     *)
(* ping and the timer are bound together by sums that no step changes.     *)
(***************************************************************************)
EXTENDS KeepAlive, EventLoopOrder

-----------------------------------------------------------------------------
(* The event loop with time is the event loop.                             *)

LEMMA TimedStepIsStep ==
  ASSUME [TimedNext]_timedVars
  PROVE  [Next]_vars
<1>1. CASE Tick BY <1>1 DEF Tick, Next, LoopStep
<1>2. CASE Timed(UntimedStep \/ ClientStep \/ UserStep \/ BrokerStep \/ NetworkStep)
  BY <1>2 DEF Timed, Next, LoopStep
<1>3. CASE Elapse BY <1>3 DEF Elapse
<1>4. CASE Rest /\ UNCHANGED clockVars BY <1>4 DEF Next
<1>5. CASE UNCHANGED timedVars BY <1>5 DEF timedVars
<1>6. QED BY <1>1, <1>2, <1>3, <1>4, <1>5 DEF TimedNext

\* Whatever holds of the event loop, its timer ticking at any time, holds of it
\* with the clock.
THEOREM ClockOnlyRestricts == TimedSpec => Spec
<1>1. TimedInit => Init BY DEF TimedInit
<1>2. [TimedNext]_timedVars => [Next]_vars BY TimedStepIsStep
<1>3. QED BY <1>1, <1>2, PTL DEF TimedSpec, Spec

-----------------------------------------------------------------------------
(* The invariant.                                                          *)

\* The timer runs once the handshake is over.  Its deadline is missed only by
\* what the loop was held up.
ClockInv ==
  /\ ClockOK
  /\ 0 - until <= held /\ behind <= held
  /\ ~armed => until = Period /\ pc # "select" /\ ~Pinging
  /\ armed => ~Early

\* What has passed since the last write and what is left until the next
\* deadline make up a period at most.
IdleInv ==
  /\ idle <= Period + greeting
  /\ ~armed => idle <= greeting
  /\ armed /\ pc # "done" /\ writing.type # "pingreq" => idle + until <= Period + greeting

\* A ping that was written on time is as old as its period is over; what it was
\* late is in behind.
WaitInv ==
  /\ writing.type = "pingreq" => until + behind = Period
  /\ pingresp = "waiting" /\ pc # "done" =>
       /\ until + behind >= 0
       /\ age + until <= Period
       /\ age + until + behind >= Period
       /\ prompt /\ Whole /\ session = "accepted" => until + behind + AnswerTime >= Period

\* A Disconnect with an error is the last that comes in.
ErrInv ==
  Whole => \A i \in DOMAIN toClient : toClient[i].type # "disconnecterr"

\* What is known of the event loop.
LoopInv == TypeInv /\ GreetInv /\ PingInv

TimedInv == ClockInv /\ IdleInv /\ WaitInv /\ ErrInv

LEMMA TimedInvInit == TimedInit => TimedInv
<1> SUFFICES ASSUME TimedInit PROVE TimedInv OBVIOUS
<1>1. Init /\ pc = "connecting" /\ writing.type = "none" /\ pingresp = "none" /\ toClient = <<>>
  BY DEF TimedInit, Init, NoPkt, Pkt
<1>2. armed \in BOOLEAN /\ prompt \in BOOLEAN /\ ~armed BY Zenon DEF TimedInit
<1>3. until = Period /\ age = 0 /\ idle = 0 /\ greeting = 0 /\ held = 0 /\ behind = 0
  BY DEF TimedInit
<1>4. ClockInv
  BY <1>1, <1>2, <1>3, KeepAliveAssumption DEF ClockInv, ClockOK, Pinging, Long
<1>5. IdleInv BY <1>2, <1>3, KeepAliveAssumption DEF IdleInv
<1>6. WaitInv BY <1>1 DEF WaitInv
<1>7. ErrInv BY <1>1 DEF ErrInv
<1>8. QED BY <1>4, <1>5, <1>6, <1>7 DEF TimedInv

-----------------------------------------------------------------------------
(* The steps of the event loop, as the clock sees them.                    *)

\* The PingReq has been written.
PingSent ==
  /\ pc = "writing" /\ writing.type = "pingreq"
  /\ pc' = "select" /\ writing' = NoPkt /\ pingresp' = "waiting"

\* No ping is begun; one that is being written stays so until the end.
NoPing ==
  /\ pingresp' = "waiting" => pingresp = "waiting"
  /\ writing'.type = "pingreq" => writing.type = "pingreq"
  /\ writing.type = "pingreq" => writing'.type = "pingreq" \/ pc' = "done"
  /\ pc = "done" => pc' = "done"

LEMMA PingCases ==
  ASSUME TypeInv, Untimed
  PROVE  PingSent \/ NoPing
<1>0. /\ NoPkt.type # "pingreq" /\ Pkt("puback", 0, 0).type # "pingreq"
      /\ Pkt("connect", 0, 0).type # "pingreq"
      /\ \A t, id, n : Pkt(t, id, n).type = t
  BY DEF NoPkt, Pkt
<1>1. pc \in {"connecting", "failed", "handshake", "select", "notifying", "done"}
        => writing.type # "pingreq"
  BY <1>0 DEF TypeInv, LoopTypes
<1>2. CASE Connect \/ ReadPublish1
  BY <1>0, <1>1, <1>2 DEF Connect, ReadPublish1, StartWrite, NoPing
<1>3. CASE ConnectFails \/ Notified \/ ReadPingResp \/ ReadPubAck
  BY <1>3, <1>1 DEF ConnectFails, Notified, ReadPingResp, ReadPubAck, NoPing
<1>4. CASE ReadConnack \/ ReadAck \/ ReadMessage
  BY <1>4, <1>1 DEF ReadConnack, ReadAck, ReadMessage, Notify, NoPing
<1>5. CASE Write
  <2>1. writing.type = "pingreq" => PingSent BY <1>5 DEF Write, Written, PingSent
  <2>2. writing.type # "pingreq" => NoPing BY <1>0, <1>5 DEF Write, Written, NoPing
  <2>3. QED BY <2>1, <2>2
<1>6. CASE WriteDisconnect \/ Ends
  BY <1>0, <1>6 DEF WriteDisconnect, Written, Ends, Finish, NoPing
<1>7. CASE CmdPlain \/ CmdIdentified
  <2>1. Head(cmds) \in Command BY <1>7 DEF CmdPlain, CmdIdentified, Cmds!Receive, TypeInv, CommandTypes
  <2>2. Head(cmds).type # "pingreq"
    BY <2>1, EventLoopAssumption DEF Command, AllCmdTypes
  <2>3. /\ pc = "select" /\ pc' = "writing" /\ writing'.type = Head(cmds).type
        /\ pingresp' = pingresp
    BY <1>0, <1>7 DEF CmdPlain, CmdIdentified, StartWrite
  <2>4. QED BY <2>2, <2>3, <1>1 DEF NoPing
<1>8. CASE UNCHANGED <<pc, writing, pingresp>> BY <1>8 DEF NoPing
<1>9. CASE \/ \E c \in Clients : DropClient(c)
           \/ \E c \in Clients, t \in CmdTypes : TrySend(c, t)
           \/ UserReceives \/ DropUser
           \/ BrokerReceives \/ BrokerGreets \/ BrokerCloses
           \/ \E p \in owed : BrokerAnswers(p)
           \/ \E t \in BrokerTypes \cup {"publish0", "connack"} : BrokerSends(t)
           \/ \E t \in {"disconnect", "disconnecterr"} : BrokerDisconnects(t)
           \/ \E k \in 0 .. Len(toClient) : Reset(k)
           \/ UNCHANGED vars
  <2>1. UNCHANGED loopVars
    BY <1>9 DEF DropClient, TrySend, UserReceives, DropUser, BrokerReceives, BrokerGreets,
                BrokerCloses, BrokerAnswers, BrokerSends, BrokerDisconnects, Reset, vars
  <2>2. UNCHANGED <<pc, writing, pingresp>> BY <2>1 DEF loopVars
  <2>3. QED BY <2>2, <1>8
<1>10. QED BY <1>2, <1>3, <1>4, <1>5, <1>6, <1>7, <1>9, UntimedCases

\* The handshake does not begin again.
LEMMA EarlyEnds ==
  ASSUME TypeInv, TypeInv', [Next]_vars, ~Early
  PROVE  ~Early'
<1>1. pc \notin {"connecting", "failed", "handshake"} /\ writing.type # "connect"
  BY DEF Early, Unconnected
<1>2. NoPkt.type # "connect" BY DEF NoPkt, Pkt
<1>3. ~(Connect \/ ConnectFails \/ ReadConnack) /\ ~(Write /\ writing.type = "connect")
  BY <1>1 DEF Connect, ConnectFails, ReadConnack
<1>4. CASE Ends BY <1>2, <1>4 DEF Ends, Finish, Early, Unconnected
<1>5. CASE LoopRuns BY <1>5, LoopRunsLate
<1>6. CASE \/ BrokerReceives \/ BrokerGreets \/ BrokerCloses
           \/ \E p \in owed : BrokerAnswers(p)
           \/ \E t \in BrokerTypes \cup {"publish0", "connack"} : BrokerSends(t)
           \/ \E t \in {"disconnect", "disconnecterr"} : BrokerDisconnects(t)
           \/ \E k \in 0 .. Len(toClient) : Reset(k)
           \/ Quiet
  <2>1. UNCHANGED <<pc, writing>> BY <1>6, AroundFacts
  <2>2. QED BY <2>1, EarlyCalm
<1>7. CASE UserReceives \/ DropUser
  <2>1. UNCHANGED <<pc, writing>> BY <1>7 DEF UserReceives, DropUser, loopVars
  <2>2. QED BY <2>1, EarlyCalm
<1>8. QED BY <1>3, <1>4, <1>5, <1>6, <1>7, PhaseSteps

\* While a ping is awaited the session and the connection can only come to an
\* end.
LEMMA WaitingSession ==
  ASSUME LoopInv, [Next]_vars, ~Early, pingresp = "waiting"
  PROVE  /\ session' = "accepted" => session = "accepted"
         /\ Whole' => Whole
<1>1. session \notin {"none", "greeted"}
  BY DEF LoopInv, GreetInv, BeforeConnack
<1>2. pc # "connecting" BY DEF Early, Unconnected
<1>3. CASE BrokerReceives BY <1>1, <1>3 DEF BrokerReceives, Whole
<1>4. CASE \/ BrokerGreets \/ BrokerCloses
           \/ \E p \in owed : BrokerAnswers(p)
           \/ \E t \in BrokerTypes \cup {"publish0", "connack"} : BrokerSends(t)
           \/ \E t \in {"disconnect", "disconnecterr"} : BrokerDisconnects(t)
           \/ \E k \in 0 .. Len(toClient) : Reset(k)
  BY <1>1, <1>4
  DEF BrokerGreets, BrokerCloses, BrokerAnswers, BrokerSends, BrokerDisconnects, Reset, CanSend, Whole
<1>5. CASE \/ ConnectFails \/ ReadConnack \/ Write \/ WriteDisconnect \/ Notified
           \/ TickPing \/ ReadPingResp \/ ReadAck \/ ReadPubAck \/ ReadMessage \/ ReadPublish1
  BY <1>5
  DEF ConnectFails, ReadConnack, Write, WriteDisconnect, Finish, Notified, TickPing,
      ReadPingResp, ReadAck, ReadPubAck, ReadMessage, ReadPublish1, brokerVars, wireVars, Whole
<1>6. CASE \/ CmdPlain \/ CmdIdentified \/ Ends
           \/ \E c \in Clients : DropClient(c)
           \/ \E c \in Clients, t \in CmdTypes : TrySend(c, t)
           \/ UserReceives \/ DropUser
           \/ UNCHANGED vars
  BY <1>6
  DEF CmdPlain, CmdIdentified, Ends, Finish, DropClient, TrySend, UserReceives, DropUser,
      brokerVars, wireVars, vars, Whole
<1>7. ~Connect BY <1>2 DEF Connect
<1>8. QED BY <1>3, <1>4, <1>5, <1>6, <1>7, StepCases

\* A Disconnect with an error comes in as the broker closes.
LEMMA IncomingSteps ==
  ASSUME TypeInv, GreetInv, [Next]_vars, Whole'
  PROVE  \/ toClient' = toClient /\ (Whole \/ toClient = <<>>)
         \/ Whole /\ toClient # <<>> /\ toClient' = Tail(toClient)
         \/ Whole /\ \E p \in Incoming : /\ p.type # "disconnecterr"
                                         /\ toClient' = Append(toClient, p)
<1>1. CASE Connect
  <2>1. toClient = <<>> BY <1>1 DEF Connect, GreetInv, NotYetConnected, Unconnected
  <2>2. QED BY <1>1, <2>1 DEF Connect
<1>2. CASE \/ ConnectFails \/ Write \/ Notified \/ TickPing \/ CmdPlain \/ CmdIdentified
           \/ \E c \in Clients : DropClient(c)
           \/ \E c \in Clients, t \in CmdTypes : TrySend(c, t)
           \/ UserReceives \/ DropUser \/ BrokerReceives
           \/ UNCHANGED vars
  <2>1. toClient' = toClient /\ link' = link
    BY <1>2
    DEF ConnectFails, Write, Notified, TickPing, CmdPlain, CmdIdentified, DropClient, TrySend,
        UserReceives, DropUser, BrokerReceives, wireVars, vars
  <2>2. QED BY <2>1 DEF Whole
<1>3. CASE ReadConnack \/ ReadPingResp \/ ReadAck \/ ReadPubAck \/ ReadMessage \/ ReadPublish1
  <2>1. toClient # <<>> /\ toClient' = Tail(toClient) /\ link' = link
    BY <1>3 DEF ReadConnack, ReadPingResp, ReadAck, ReadPubAck, ReadMessage, ReadPublish1, Read
  <2>2. QED BY <2>1 DEF Whole
<1>4. CASE BrokerGreets
  <2>1. Pkt("connack", 0, 0) \in Incoming /\ Pkt("refused", 0, 0) \in Incoming
    BY EventLoopAssumption, IncomingPkt DEF Unasked
  <2>2. QED BY <1>4, <2>1 DEF BrokerGreets, CanSend, Whole, Pkt
<1>5. CASE \E p \in owed : BrokerAnswers(p)
  <2>1. PICK p \in owed : BrokerAnswers(p) BY <1>5
  <2>2. p \in Incoming /\ p.type # "disconnecterr"
    BY IncomingPkt DEF TypeInv, AnswerTypes, Answer, Acks
  <2>3. QED BY <2>1, <2>2 DEF BrokerAnswers, CanSend, Whole
<1>6. CASE \E t \in BrokerTypes \cup {"publish0", "connack"} : BrokerSends(t)
  <2>1. PICK t \in BrokerTypes \cup {"publish0", "connack"} : BrokerSends(t) BY <1>6
  <2>2. t \in Unasked /\ t # "disconnecterr"
    BY EventLoopAssumption DEF Unasked, AllBrokerTypes
  <2>3. sent + 1 \in 0 .. MaxDeliveries
    BY <2>1, EventLoopAssumption DEF BrokerSends, TypeInv, AnswerTypes
  <2>4. Pkt(t, 0, sent + 1) \in Incoming BY <2>2, <2>3, IncomingPkt
  <2>5. Pkt(t, 0, sent + 1).type = t BY DEF Pkt
  <2>6. QED BY <2>1, <2>2, <2>4, <2>5 DEF BrokerSends, CanSend, Whole
<1>7. ~(\/ WriteDisconnect \/ Ends \/ BrokerCloses
        \/ (\E t \in {"disconnect", "disconnecterr"} : BrokerDisconnects(t))
        \/ (\E k \in 0 .. Len(toClient) : Reset(k)))
  BY DEF WriteDisconnect, Ends, Finish, BrokerCloses, BrokerDisconnects, Reset, Whole
<1>8. QED BY <1>1, <1>2, <1>3, <1>4, <1>5, <1>6, <1>7, StepCases

LEMMA ErrInvStep ==
  ASSUME TypeInv, GreetInv, ErrInv, [Next]_vars
  PROVE  ErrInv'
<1> SUFFICES ASSUME Whole' PROVE \A i \in DOMAIN toClient' : toClient'[i].type # "disconnecterr"
  BY DEF ErrInv
<1>1. toClient \in Seq(Incoming) BY DEF TypeInv, WireTypes
<1>2. CASE toClient' = toClient /\ (Whole \/ toClient = <<>>)
  BY <1>2 DEF ErrInv
<1>3. CASE Whole /\ toClient # <<>> /\ toClient' = Tail(toClient)
  BY <1>1, <1>3 DEF ErrInv
<1>4. CASE Whole /\ \E p \in Incoming : /\ p.type # "disconnecterr"
                                        /\ toClient' = Append(toClient, p)
  BY <1>1, <1>4 DEF ErrInv
<1>5. QED BY <1>2, <1>3, <1>4, IncomingSteps

\* While the loop waits in its select! and nothing comes in, the answer to its
\* ping is with the broker.
LEMMA AnswerIsOwed ==
  ASSUME LoopInv, pc = "select", toClient = <<>>, link = "up",
         session = "accepted", pingresp = "waiting"
  PROVE  /\ CanSend
         /\ \/ \E i \in DOMAIN toBroker : toBroker[i].type = "pingreq"
            \/ \E p \in owed : p.type = "pingresp"
<1> USE DEF LoopInv
<1>1. CanSend BY EventLoopAssumption DEF CanSend
<1>2. Travelling(Pings) = 1 BY DEF PingInv, Awaited, Whole
<1>3. writing = NoPkt /\ NoPkt \notin Pings
  BY DEF TypeInv, LoopTypes, Pings, NoPkt, Pkt
<1>4. In(writing, Pings) = 0 BY <1>3 DEF In
<1>5. HowMany(toClient, Pings) = 0 BY HowManyEmpty
<1>6. HowMany(toBroker, Pings) + Cardinality(owed \cap Pings) = 1
  <2> DEFINE a == HowMany(toBroker, Pings)
             b == HowMany(toClient, Pings)
             c == Cardinality(owed \cap Pings)
             d == In(writing, Pings)
  <2>1. Travelling(Pings) = a + b + c + d /\ a \in Nat /\ c \in Nat
    BY TravellingNat
  <2>2. b = 0 /\ d = 0 BY <1>4, <1>5
  <2> HIDE DEF a, b, c, d
  <2>3. a + c = 1 BY <1>2, <2>1, <2>2
  <2>4. QED BY <2>3 DEF a, c
<1>7. CASE {i \in DOMAIN toBroker : toBroker[i] \in Pings} # {}
  <2>1. PICK i \in DOMAIN toBroker : toBroker[i] \in Pings BY <1>7
  <2>2. toBroker[i] \in Outgoing BY DEF TypeInv, WireTypes
  <2>3. toBroker[i].type = "pingreq" BY <2>1, <2>2 DEF Pings, Outgoing, Encodable
  <2>4. QED BY <1>1, <2>3
<1>8. CASE owed \cap Pings # {}
  <2>1. PICK p \in owed : p \in Pings BY <1>8
  <2>2. p \in Answer BY DEF TypeInv, AnswerTypes
  <2>3. p.type = "pingresp" BY <2>1, <2>2 DEF Pings, Answer, Acks
  <2>4. QED BY <1>1, <2>3
<1>9. CASE {i \in DOMAIN toBroker : toBroker[i] \in Pings} = {} /\ owed \cap Pings = {}
  <2>1. HowMany(toBroker, Pings) = 0 BY <1>9, FS_EmptySet DEF HowMany
  <2>2. Cardinality(owed \cap Pings) = 0 BY <1>9, FS_EmptySet
  <2>3. QED BY <1>6, <2>1, <2>2
<1>10. QED BY <1>7, <1>8, <1>9

-----------------------------------------------------------------------------
(* What the steps do to the clock.                                         *)

LEMMA ClockFacts ==
  ASSUME ClockOK
  PROVE  /\ until \in Int /\ 0 - MaxHeld <= until /\ until <= Period
         /\ age \in 0 .. Long /\ idle \in 0 .. Long
         /\ greeting \in Nat /\ held \in Nat /\ behind \in Nat
         /\ greeting <= MaxGreeting /\ held <= MaxHeld /\ behind <= MaxHeld
         /\ Period \in Nat /\ MaxHeld \in Nat /\ MaxGreeting \in Nat /\ AnswerTime \in Nat
         /\ Period > 0 /\ Long \in Nat
<1>1. Long \in Nat BY KeepAliveAssumption DEF Long
<1>2. QED BY <1>1, KeepAliveAssumption DEF ClockOK

LEMMA LongerFacts ==
  ASSUME NEW t \in 0 .. Long
  PROVE  /\ Longer(t) \in 0 .. Long /\ Longer(t) \in Nat
         /\ Longer(t) <= t + 1
         /\ t < Long => Longer(t) = t + 1
BY KeepAliveAssumption DEF Longer, Long

\* Steps that take no time.
LEMMA TimedFacts ==
  ASSUME TypeInv, TypeInv',
         Timed(UntimedStep \/ ClientStep \/ UserStep \/ BrokerStep \/ NetworkStep)
  PROVE  /\ Untimed /\ (PingSent \/ NoPing)
         /\ UNCHANGED <<until, greeting, held, prompt>>
         /\ armed' \in BOOLEAN
         /\ armed' <=> armed \/ pc' = "select"
         /\ idle' = idle \/ idle' = 0
         /\ age' = age \/ age' = 0
         /\ PingSent => idle' = 0 /\ age' = 0
         /\ ~PingSent => age' = age
         /\ behind' = behind \/ behind' = 0
         /\ Pinging' => behind' = behind
<1>1. Untimed BY DEF Timed, Untimed
<1>2. PingSent \/ NoPing BY <1>1, PingCases
<1>3. PingSent <=> Wrote /\ writing.type = "pingreq"
  <2>1. PingSent => Wrote /\ writing.type = "pingreq" BY DEF PingSent, Wrote
  <2>2. NoPing /\ writing.type = "pingreq" => ~Wrote
    <3>1. NoPkt.type # "pingreq" BY DEF NoPkt, Pkt
    <3>2. writing'.type = "pingreq" => pc' = "writing"
      BY <3>1 DEF TypeInv, LoopTypes
    <3>3. QED BY <3>2 DEF NoPing, Wrote
  <2>3. QED BY <1>2, <2>1, <2>2
<1>4. armed' \in BOOLEAN /\ (armed' <=> armed \/ pc' = "select") BY Zenon DEF Timed
<1>5. /\ age' = IF Wrote /\ writing.type = "pingreq" THEN 0 ELSE age
      /\ idle' = IF Wrote THEN 0 ELSE idle
      /\ behind' = IF Pinging' THEN behind ELSE 0
      /\ UNCHANGED <<until, greeting, held, prompt>>
  BY DEF Timed
<1>6. QED BY <1>1, <1>2, <1>3, <1>4, <1>5

\* A tick begins a ping or is the end.
LEMMA TickMoves ==
  ASSUME Tick
  PROVE  /\ armed /\ until <= 0 /\ until' = until + Period /\ behind' = 0 - until
         /\ UNCHANGED <<armed, prompt, age, idle, greeting, held>>
         /\ pc = "select"
         /\ \/ /\ pc' = "writing" /\ writing' = Pkt("pingreq", 0, 0)
               /\ pingresp # "waiting" /\ pingresp' = pingresp
            \/ pingresp = "waiting" /\ pc' = "done" /\ writing' = NoPkt
BY DEF Tick, Due, TickStep, TickPing, TickTimesOut, StartWrite, Finish

\* The loop is held up.
ElapsesHeld ==
  /\ pc \in {"writing", "notifying"}
  /\ held < MaxHeld /\ held' = held + 1
  /\ UNCHANGED <<idle, greeting>>
  /\ armed => until' = until - 1
  /\ ~armed => until' = until
  /\ Pinging => behind' = behind + 1
  /\ ~Pinging => behind' = behind

\* It waits for the Connack.
ElapsesGreeting ==
  /\ pc = "handshake"
  /\ greeting < MaxGreeting /\ greeting' = greeting + 1
  /\ idle' = Longer(idle)
  /\ armed \/ until' = until
  /\ UNCHANGED <<held, behind>>

\* It waits in its select! for something to happen.
ElapsesQuietly ==
  /\ pc = "select" /\ toClient = <<>> /\ link = "up"
  /\ armed => until > 0 /\ until' = until - 1
  /\ idle' = Longer(idle)
  /\ UNCHANGED <<greeting, held, behind>>

LEMMA ElapseCases ==
  ASSUME ClockOK, Elapse
  PROVE  /\ ElapsesHeld \/ ElapsesGreeting \/ ElapsesQuietly
         /\ UNCHANGED <<armed, prompt, vars>>
         /\ pingresp = "waiting" => age' = Longer(age)
         /\ pingresp # "waiting" => age' = age
         /\ ~AnswerDue
<1>0. armed => until' = until - 1 BY Zenon DEF Elapse
<1>1. ~armed => until' = until BY Zenon DEF Elapse
<1>2. CASE HeldUp
  <2>1. ~NothingReady /\ pc \in {"writing", "notifying"} /\ held < MaxHeld
    BY <1>2 DEF HeldUp, NothingReady
  <2>2. ElapsesHeld BY <1>0, <1>1, <1>2, <2>1 DEF Elapse, ElapsesHeld
  <2>3. QED BY <2>2 DEF Elapse
<1>3. CASE NothingReady /\ ~HeldUp
  <2>1. CASE pc = "handshake"
    <3>1. ElapsesGreeting
      BY <1>1, <1>3, <2>1 DEF Elapse, ElapsesGreeting, NothingReady
    <3>2. QED BY <3>1 DEF Elapse
  <2>2. CASE pc # "handshake"
    <3>1. pc = "select" /\ toClient = <<>> /\ link = "up" /\ ~Due
      BY <1>3, <2>2 DEF NothingReady
    <3>2. until \in Int BY ClockFacts
    <3>3. armed => until > 0 BY <3>1, <3>2 DEF Due
    <3>4. ElapsesQuietly
      BY <1>0, <1>3, <3>1, <3>3 DEF Elapse, ElapsesQuietly
    <3>5. QED BY <3>4 DEF Elapse
  <2>3. QED BY <2>1, <2>2
<1>4. QED BY <1>2, <1>3 DEF Elapse

-----------------------------------------------------------------------------
(* The invariant is kept.                                                  *)

LEMMA ClockInvStep ==
  ASSUME LoopInv, TypeInv', TimedInv, [TimedNext]_timedVars
  PROVE  ClockInv'
<1> USE DEF LoopInv, TimedInv
<1>1. /\ ClockOK /\ armed \in BOOLEAN /\ prompt \in BOOLEAN
      /\ 0 - until <= held /\ behind <= held
      /\ armed => ~Early
  BY DEF ClockInv, ClockOK
<1>2. ~armed => until = Period /\ pc # "select" /\ ~Pinging BY DEF ClockInv
<1>3. [Next]_vars BY TimedStepIsStep
<1>4. NoPkt.type = "none" /\ Pkt("pingreq", 0, 0).type = "pingreq" BY DEF NoPkt, Pkt
<1> DEFINE InRange == /\ until' \in Int /\ 0 - MaxHeld <= until' /\ until' <= Period
                      /\ age' \in 0 .. Long /\ idle' \in 0 .. Long
                      /\ greeting' \in 0 .. MaxGreeting
                      /\ held' \in 0 .. MaxHeld /\ behind' \in 0 .. MaxHeld
                      /\ 0 - until' <= held' /\ behind' <= held'
<1>5. ASSUME InRange, armed' \in BOOLEAN, prompt' \in BOOLEAN,
             ~armed' => until' = Period /\ pc' # "select" /\ ~Pinging',
             armed' => ~Early'
      PROVE  ClockInv'
  <2>1. until' \in -MaxHeld .. Period BY <1>5, KeepAliveAssumption
  <2>2. ClockOK' BY <1>5, <2>1, KeepAliveAssumption DEF ClockOK, Long
  <2>3. QED BY <1>5, <2>2 DEF ClockInv
<1>6. CASE Tick
  <2>1. /\ armed /\ until <= 0 /\ until' = until + Period /\ behind' = 0 - until
        /\ UNCHANGED <<armed, prompt, age, idle, greeting, held>>
        /\ pc' \in {"writing", "done"} /\ writing'.type \in {"pingreq", "none"}
    BY <1>4, <1>6, TickMoves
  <2>2. InRange BY <1>1, <2>1, ClockFacts
  <2>3. ~Early' BY <2>1 DEF Early, Unconnected
  <2>4. QED BY <1>1, <1>5, <2>1, <2>2, <2>3
<1>7. CASE Timed(UntimedStep \/ ClientStep \/ UserStep \/ BrokerStep \/ NetworkStep)
  <2>1. /\ Untimed /\ (PingSent \/ NoPing)
        /\ UNCHANGED <<until, greeting, held, prompt>>
        /\ armed' \in BOOLEAN /\ (armed' <=> armed \/ pc' = "select")
        /\ idle' = idle \/ idle' = 0
        /\ age' = age \/ age' = 0
        /\ behind' = behind \/ behind' = 0
    BY <1>7, TimedFacts
  <2>2. InRange BY <1>1, <2>1, ClockFacts
  <2>3. ~Pinging => ~Pinging' BY <2>1 DEF Pinging, PingSent, NoPing
  <2>4. ~armed' => until' = Period /\ pc' # "select" /\ ~Pinging'
    BY <1>2, <2>1, <2>3
  <2>5. ASSUME armed' PROVE ~Early'
    <3>1. CASE armed BY <3>1, <1>1, <1>3, EarlyEnds
    <3>2. CASE pc' = "select"
      <4>1. writing' = NoPkt BY <3>2 DEF TypeInv, LoopTypes
      <4>2. QED BY <1>4, <3>2, <4>1 DEF Early, Unconnected
    <3>3. QED BY <2>1, <2>5, <3>1, <3>2
  <2>6. QED BY <1>1, <1>5, <2>1, <2>2, <2>4, <2>5
<1>8. CASE Elapse
  <2>1. /\ ElapsesHeld \/ ElapsesGreeting \/ ElapsesQuietly
        /\ UNCHANGED <<armed, prompt, vars>>
        /\ age' = age \/ age' = Longer(age)
    BY <1>1, <1>8, ElapseCases
  <2>2. UNCHANGED <<pc, writing, pingresp>> BY <2>1 DEF vars, loopVars
  <2>3. age' \in 0 .. Long /\ Longer(idle) \in 0 .. Long
    BY <1>1, <2>1, ClockFacts, LongerFacts
  <2>4. InRange /\ (~armed => until' = until)
    <3>1. CASE ElapsesHeld
      <4>1. CASE armed
        <5>1. /\ held < MaxHeld /\ held' = held + 1 /\ until' = until - 1
              /\ behind' = behind \/ behind' = behind + 1
              /\ UNCHANGED <<idle, greeting>>
          BY <3>1, <4>1 DEF ElapsesHeld
        <5>2. QED BY <1>1, <2>3, <4>1, <5>1, ClockFacts
      <4>2. CASE ~armed
        <5>1. /\ held < MaxHeld /\ held' = held + 1 /\ until' = until
              /\ behind' = behind \/ behind' = behind + 1
              /\ UNCHANGED <<idle, greeting>>
          BY <3>1, <4>2 DEF ElapsesHeld
        <5>2. QED BY <1>1, <2>3, <5>1, ClockFacts
      <4>3. QED BY <4>1, <4>2
    <3>2. CASE ElapsesGreeting
      <4>1. ~armed BY <1>1, <3>2 DEF ElapsesGreeting, Early
      <4>2. /\ greeting < MaxGreeting /\ greeting' = greeting + 1 /\ until' = until
            /\ idle' = Longer(idle) /\ UNCHANGED <<held, behind>>
        BY <3>2, <4>1 DEF ElapsesGreeting
      <4>3. QED BY <1>1, <2>3, <4>2, ClockFacts
    <3>3. CASE ElapsesQuietly
      <4>1. armed BY <1>2, <3>3 DEF ElapsesQuietly
      <4>2. /\ until > 0 /\ until' = until - 1
            /\ idle' = Longer(idle) /\ UNCHANGED <<greeting, held, behind>>
        BY <3>3, <4>1 DEF ElapsesQuietly
      <4>3. QED BY <1>1, <2>3, <4>1, <4>2, ClockFacts
    <3>4. QED BY <2>1, <3>1, <3>2, <3>3
  <2>5. (Early' <=> Early) /\ (Pinging' <=> Pinging)
    BY <2>2, EarlyCalm, Zenon DEF Pinging
  <2>6. QED BY <1>1, <1>2, <1>5, <2>1, <2>2, <2>4, <2>5
<1>9. CASE UNCHANGED timedVars
  <2>1. UNCHANGED <<pc, writing, pingresp>> /\ UNCHANGED clockVars
    BY <1>9 DEF timedVars, vars, loopVars
  <2>2. (Early' <=> Early) /\ (Pinging' <=> Pinging)
    BY <2>1, EarlyCalm, Zenon DEF Pinging
  <2>3. UNCHANGED <<armed, prompt, until, age, idle, greeting, held, behind>>
    BY <2>1 DEF clockVars, timeVars
  <2>4. InRange BY <1>1, <2>3, ClockFacts
  <2>5. QED BY <1>1, <1>2, <1>5, <2>1, <2>2, <2>3, <2>4
<1>10. Rest /\ UNCHANGED clockVars => UNCHANGED timedVars BY DEF Rest, timedVars
<1>11. QED BY <1>6, <1>7, <1>8, <1>9, <1>10 DEF TimedNext

LEMMA IdleInvStep ==
  ASSUME LoopInv, TypeInv', TimedInv, [TimedNext]_timedVars
  PROVE  IdleInv'
<1> USE DEF LoopInv, TimedInv
<1>1. /\ ClockOK /\ armed \in BOOLEAN
      /\ ~armed => until = Period /\ pc # "select"
      /\ armed => pc # "handshake"
  BY DEF ClockInv, ClockOK, Early
<1>2. /\ idle <= Period + greeting
      /\ ~armed => idle <= greeting
      /\ armed /\ pc # "done" /\ writing.type # "pingreq" => idle + until <= Period + greeting
  BY DEF IdleInv
<1>3. NoPkt.type = "none" /\ Pkt("pingreq", 0, 0).type = "pingreq" BY DEF NoPkt, Pkt
<1>4. CASE Tick
  <2>1. /\ armed /\ UNCHANGED <<armed, idle, greeting>>
        /\ pc' = "done" \/ writing'.type = "pingreq"
    BY <1>3, <1>4, TickMoves
  <2>2. QED BY <1>2, <2>1 DEF IdleInv
<1>5. CASE Timed(UntimedStep \/ ClientStep \/ UserStep \/ BrokerStep \/ NetworkStep)
  <2>1. /\ PingSent \/ NoPing
        /\ UNCHANGED <<until, greeting>>
        /\ armed' \in BOOLEAN /\ (armed' <=> armed \/ pc' = "select")
        /\ idle' = idle \/ idle' = 0
        /\ PingSent => idle' = 0
    BY <1>5, TimedFacts
  <2>2. idle' <= Period + greeting' BY <1>1, <1>2, <2>1, ClockFacts
  <2>3. ~armed' => idle' <= greeting' BY <1>1, <1>2, <2>1, ClockFacts
  <2>4. ASSUME armed', pc' # "done", writing'.type # "pingreq"
        PROVE  idle' + until' <= Period + greeting'
    <3>1. CASE PingSent BY <1>1, <2>1, <3>1, ClockFacts
    <3>2. CASE NoPing /\ ~armed BY <1>1, <1>2, <2>1, <3>2, ClockFacts
    <3>3. CASE NoPing /\ armed
      <4>1. pc # "done" /\ writing.type # "pingreq" BY <2>4, <3>3 DEF NoPing
      <4>2. QED BY <1>1, <1>2, <2>1, <3>3, <4>1, ClockFacts
    <3>4. QED BY <2>1, <3>1, <3>2, <3>3
  <2>5. QED BY <2>2, <2>3, <2>4 DEF IdleInv
<1>6. CASE Elapse
  <2>1. /\ ElapsesHeld \/ ElapsesGreeting \/ ElapsesQuietly
        /\ UNCHANGED <<armed, prompt, vars>>
    BY <1>1, <1>6, ElapseCases
  <2>2. UNCHANGED <<pc, writing, armed>> BY <2>1 DEF vars, loopVars
  <2>3. Longer(idle) \in Nat /\ Longer(idle) <= idle + 1
    BY <1>1, ClockFacts, LongerFacts
  <2>4. CASE ElapsesHeld
    <3>1. UNCHANGED <<idle, greeting>> /\ (armed => until' = until - 1)
      BY <2>4 DEF ElapsesHeld
    <3>2. armed => until \in Int /\ idle \in Int /\ Period \in Int /\ greeting \in Int
      BY <1>1, ClockFacts
    <3>3. ASSUME armed, pc # "done", writing.type # "pingreq"
          PROVE  idle' + until' <= Period + greeting'
      BY <1>2, <3>1, <3>2, <3>3
    <3>4. QED BY <1>2, <2>2, <3>1, <3>3 DEF IdleInv
  <2>5. CASE ElapsesGreeting
    <3>1. ~armed BY <1>1, <2>5 DEF ElapsesGreeting
    <3>2. greeting' = greeting + 1 /\ idle' = Longer(idle) BY <2>5 DEF ElapsesGreeting
    <3>3. idle' <= greeting' /\ idle' <= Period + greeting'
      BY <1>1, <1>2, <2>3, <3>1, <3>2, ClockFacts
    <3>4. QED BY <2>2, <3>1, <3>3 DEF IdleInv
  <2>6. CASE ElapsesQuietly
    <3>1. pc = "select" /\ armed BY <1>1, <2>6 DEF ElapsesQuietly
    <3>2. writing.type # "pingreq" BY <1>3, <3>1 DEF TypeInv, LoopTypes
    <3>3. /\ until > 0 /\ until' = until - 1
          /\ idle' = Longer(idle) /\ greeting' = greeting
      BY <2>6, <3>1 DEF ElapsesQuietly
    <3>4. idle' + until' <= Period + greeting' /\ idle' <= Period + greeting'
      BY <1>1, <1>2, <2>3, <3>1, <3>2, <3>3, ClockFacts
    <3>5. QED BY <2>2, <3>1, <3>4 DEF IdleInv
  <2>7. QED BY <2>1, <2>4, <2>5, <2>6
<1>7. CASE UNCHANGED timedVars
  BY <1>2, <1>7 DEF IdleInv, timedVars, vars, loopVars, clockVars, timeVars
<1>8. Rest /\ UNCHANGED clockVars => UNCHANGED timedVars BY DEF Rest, timedVars
<1>9. QED BY <1>4, <1>5, <1>6, <1>7, <1>8 DEF TimedNext

LEMMA WaitInvStep ==
  ASSUME LoopInv, TypeInv', TimedInv, [TimedNext]_timedVars
  PROVE  WaitInv'
<1> USE DEF LoopInv, TimedInv
<1>1. /\ ClockOK /\ 0 - until <= held
      /\ ~armed => pc # "select" /\ ~Pinging
      /\ armed => ~Early
  BY DEF ClockInv
<1>2. [Next]_vars BY TimedStepIsStep
<1>3. NoPkt.type = "none" /\ Pkt("pingreq", 0, 0).type = "pingreq" BY DEF NoPkt, Pkt
<1>4. writing.type = "pingreq" => until + behind = Period BY DEF WaitInv
<1>5. pingresp = "waiting" /\ pc # "done" =>
        /\ until + behind >= 0
        /\ age + until <= Period
        /\ age + until + behind >= Period
        /\ prompt /\ Whole /\ session = "accepted" => until + behind + AnswerTime >= Period
  BY DEF WaitInv
<1>6. pingresp = "waiting" => ~Early BY <1>1 DEF Pinging
<1>7. CASE Tick
  <2>1. /\ until' = until + Period /\ behind' = 0 - until
        /\ \/ /\ writing' = Pkt("pingreq", 0, 0)
              /\ pingresp # "waiting" /\ pingresp' = pingresp
           \/ pingresp = "waiting" /\ pc' = "done" /\ writing' = NoPkt
    BY <1>7, TickMoves
  <2>2. until' + behind' = Period BY <1>1, <2>1, ClockFacts
  <2>3. pingresp' = "waiting" => pc' = "done" BY <2>1
  <2>4. QED BY <2>2, <2>3 DEF WaitInv
<1>8. CASE Timed(UntimedStep \/ ClientStep \/ UserStep \/ BrokerStep \/ NetworkStep)
  <2>1. /\ PingSent \/ NoPing
        /\ UNCHANGED <<until, prompt>>
        /\ PingSent => age' = 0
        /\ ~PingSent => age' = age
        /\ Pinging' => behind' = behind
    BY <1>8, TimedFacts
  <2>2. ASSUME writing'.type = "pingreq" PROVE until' + behind' = Period
    <3>1. writing.type = "pingreq" BY <1>3, <2>1, <2>2 DEF PingSent, NoPing
    <3>2. behind' = behind BY <2>1, <2>2 DEF Pinging
    <3>3. QED BY <1>4, <2>1, <3>1, <3>2
  <2>3. ASSUME pingresp' = "waiting", pc' # "done"
        PROVE  /\ until' + behind' >= 0
               /\ age' + until' <= Period
               /\ age' + until' + behind' >= Period
               /\ prompt' /\ Whole' /\ session' = "accepted"
                    => until' + behind' + AnswerTime >= Period
    <3>1. behind' = behind BY <2>1, <2>3 DEF Pinging
    <3>2. CASE PingSent
      <4>1. until + behind = Period BY <1>4, <3>2 DEF PingSent
      <4>2. age' = 0 /\ until' = until BY <2>1, <3>2
      <4>3. QED BY <1>1, <3>1, <4>1, <4>2, ClockFacts
    <3>3. CASE ~PingSent
      <4>1. pingresp = "waiting" /\ pc # "done" BY <2>1, <2>3, <3>3 DEF NoPing
      <4>2. age' = age /\ until' = until /\ prompt' = prompt BY <2>1, <3>3
      <4>3. (session' = "accepted" => session = "accepted") /\ (Whole' => Whole)
        BY <1>2, <1>6, <4>1, WaitingSession
      <4>4. prompt' /\ Whole' /\ session' = "accepted"
              => until' + behind' + AnswerTime >= Period
        BY <1>5, <3>1, <4>1, <4>2, <4>3
      <4>5. QED BY <1>5, <3>1, <4>1, <4>2, <4>4
    <3>4. QED BY <3>2, <3>3
  <2>4. QED BY <2>2, <2>3 DEF WaitInv
<1>9. CASE Elapse
  <2>1. /\ ElapsesHeld \/ ElapsesGreeting \/ ElapsesQuietly
        /\ UNCHANGED <<prompt, vars>>
        /\ pingresp = "waiting" => age' = Longer(age)
        /\ ~AnswerDue
    BY <1>1, <1>9, ElapseCases
  <2>2. UNCHANGED <<pc, writing, pingresp, session, link>>
    BY <2>1 DEF vars, loopVars, brokerVars, wireVars
  <2>3. ~ElapsesGreeting \/ ~Pinging BY <1>1 DEF ElapsesGreeting, Early
  <2>4. ASSUME writing.type = "pingreq" PROVE until' + behind' = Period
    <3>1. pc = "writing" BY <1>3, <2>4 DEF TypeInv, LoopTypes
    <3>2. Pinging /\ armed BY <1>1, <2>4 DEF Pinging
    <3>3. until' = until - 1 /\ behind' = behind + 1
      BY <2>1, <3>1, <3>2 DEF ElapsesHeld, ElapsesGreeting, ElapsesQuietly
    <3>4. QED BY <1>1, <1>4, <2>4, <3>3, ClockFacts
  <2>5. ASSUME pingresp = "waiting", pc # "done"
        PROVE  /\ until' + behind' >= 0
               /\ age' + until' <= Period
               /\ age' + until' + behind' >= Period
               /\ prompt /\ Whole /\ session = "accepted"
                    => until' + behind' + AnswerTime >= Period
    <3>1. Pinging /\ armed BY <1>1, <2>5 DEF Pinging
    <3>2. age + until <= Period /\ until + behind >= 0 /\ age + until + behind >= Period
      BY <1>5, <2>5
    <3>3. age < Long
      <4>1. age <= Period + MaxHeld BY <1>1, <3>2, ClockFacts
      <4>2. QED BY <1>1, <4>1, ClockFacts, KeepAliveAssumption DEF Long
    <3>4. age' = age + 1 BY <1>1, <2>1, <2>5, <3>3, ClockFacts, LongerFacts
    <3>5. /\ until \in Int /\ age \in Nat /\ behind \in Nat
          /\ Period \in Nat /\ AnswerTime \in Nat
      BY <1>1, ClockFacts
    <3>6. CASE ElapsesHeld
      <4>1. until' = until - 1 /\ behind' = behind + 1 BY <3>1, <3>6 DEF ElapsesHeld
      <4>2. until' + behind' = until + behind /\ age' + until' = age + until
        BY <3>4, <3>5, <4>1
      <4>3. age' + until' + behind' >= Period BY <3>2, <3>4, <3>5, <4>1
      <4>4. QED BY <1>5, <2>5, <3>2, <4>2, <4>3
    <3>7. CASE ElapsesQuietly
      <4>1. pc = "select" /\ toClient = <<>> /\ link = "up"
            /\ until > 0 /\ until' = until - 1 /\ behind' = behind
        BY <3>1, <3>7 DEF ElapsesQuietly
      <4>2. until' + behind' >= 0 /\ age' + until' <= Period /\ age' + until' + behind' >= Period
        BY <3>2, <3>4, <3>5, <4>1
      <4>3. ASSUME prompt, session = "accepted"
            PROVE  until' + behind' + AnswerTime >= Period
        <5>1. /\ CanSend
              /\ \/ \E i \in DOMAIN toBroker : toBroker[i].type = "pingreq"
                 \/ \E p \in owed : p.type = "pingresp"
          BY <2>5, <4>1, <4>3, AnswerIsOwed
        <5>2. ~(age >= AnswerTime) BY <2>1, <4>3, <5>1 DEF AnswerDue
        <5>3. QED BY <3>2, <3>4, <3>5, <4>1, <5>2
      <4>4. QED BY <4>2, <4>3
    <3>8. QED BY <2>1, <2>3, <3>1, <3>6, <3>7
  <2>6. /\ writing'.type = "pingreq" <=> writing.type = "pingreq"
        /\ (pingresp' = "waiting" <=> pingresp = "waiting") /\ (pc' # "done" <=> pc # "done")
        /\ prompt' = prompt /\ (Whole' <=> Whole) /\ session' = session
    BY <2>1, <2>2 DEF Whole
  <2>7. QED BY <2>4, <2>5, <2>6 DEF WaitInv
<1>10. CASE UNCHANGED timedVars
  <2>1. UNCHANGED <<pc, writing, pingresp, session, link, until, behind, age, prompt>>
    BY <1>10 DEF timedVars, vars, loopVars, brokerVars, wireVars, clockVars, timeVars
  <2>2. QED BY <2>1 DEF WaitInv, Whole
<1>11. Rest /\ UNCHANGED clockVars => UNCHANGED timedVars BY DEF Rest, timedVars
<1>12. QED BY <1>7, <1>8, <1>9, <1>10, <1>11 DEF TimedNext

LEMMA TimedInvHolds == TimedSpec => [](LoopInv /\ TimedInv)
<1>1. TimedSpec => []TypeInv BY ClockOnlyRestricts, PacketsWellFormed, PTL
<1>2. TimedSpec => []GreetInv BY ClockOnlyRestricts, GreetInvHolds, PTL
<1>3. TimedSpec => []PingInv BY ClockOnlyRestricts, PingInvHolds, PTL
<1>4. TypeInv /\ GreetInv /\ PingInv => LoopInv BY DEF LoopInv
<1>5. LoopInv /\ TypeInv' /\ TimedInv /\ [TimedNext]_timedVars => TimedInv'
  <2> SUFFICES ASSUME LoopInv, TypeInv', TimedInv, [TimedNext]_timedVars
               PROVE  TimedInv'
    OBVIOUS
  <2>1. ClockInv' BY ClockInvStep
  <2>2. IdleInv' BY IdleInvStep
  <2>3. WaitInv' BY WaitInvStep
  <2>4. ErrInv' BY TimedStepIsStep, ErrInvStep DEF LoopInv, TimedInv
  <2>5. QED BY <2>1, <2>2, <2>3, <2>4 DEF TimedInv
<1>6. QED BY <1>1, <1>2, <1>3, <1>4, <1>5, TimedInvInit, PTL DEF TimedSpec

-----------------------------------------------------------------------------
(* What the ping timer guarantees.                                         *)

\* The clock keeps its range: no deadline is missed by more than the loop was
\* held up, whatever interval_at has to make up for.
THEOREM ClockTypes == TimedSpec => []ClockOK
<1>1. TimedInv => ClockOK BY DEF TimedInv, ClockInv
<1>2. QED BY <1>1, TimedInvHolds, PTL

\* With a timer that is no slower than the keep alive announced in the Connect
\* (both are 8 s in the code), the loop is never idle for longer than that while
\* it is free to write, but for the wait for the Connack.
THEOREM LoopKeepsAlive ==
  ASSUME Period <= KeepAliveTime
  PROVE  TimedSpec => []KeepsAlive
<1>1. TimedInv => KeepsAlive
  <2> SUFFICES ASSUME TimedInv PROVE KeepsAlive OBVIOUS
  <2>1. ClockOK /\ idle <= Period + greeting BY DEF TimedInv, ClockInv, IdleInv
  <2>2. idle \in Nat /\ greeting \in Nat BY <2>1, ClockFacts
  <2>3. QED BY <2>1, <2>2, KeepAliveAssumption DEF KeepsAlive
<1>2. QED BY <1>1, TimedInvHolds, PTL

\* A PingReq is answered, or the future resolves, within a period and the time
\* for which the loop was held up since it was due.
THEOREM SilenceIsBounded == TimedSpec => []SilenceBounded
<1>1. TimedInv => SilenceBounded
  <2> SUFFICES ASSUME TimedInv, pingresp = "waiting", pc # "done"
               PROVE  age <= Period + behind
    BY DEF SilenceBounded
  <2>1. ClockOK /\ until + behind >= 0 /\ age + until <= Period
    BY DEF TimedInv, ClockInv, WaitInv
  <2>2. until \in Int /\ age \in Nat /\ behind \in Nat /\ Period \in Nat
    BY <2>1, ClockFacts
  <2>3. QED BY <2>1, <2>2
<1>2. QED BY <1>1, TimedInvHolds, PTL

\* While the connection is whole only a tick makes the future resolve with an
\* error in the select!.
LEMMA TimeoutIsTick ==
  ASSUME LoopInv, ErrInv, TimedNext, TickTimesOut, link = "up"
  PROVE  Tick
<1> SUFFICES ASSUME ~Tick PROVE FALSE OBVIOUS
<1>1. pc = "select" /\ pc' = "done" /\ outcome' = "err"
  BY DEF TickTimesOut, Finish
<1>2. ~Elapse /\ ~Rest BY <1>1 DEF Elapse, Rest, vars, loopVars
<1>3. Untimed BY <1>2 DEF TimedNext, Timed, Untimed
<1>4. ~(ClientStep \/ UserStep \/ BrokerStep \/ NetworkStep)
  BY <1>1 DEF ClientStep, DropClient, TrySend, UserStep, UserReceives, DropUser, BrokerStep,
              BrokerReceives, BrokerGreets, BrokerAnswers, BrokerSends, BrokerDisconnects,
              BrokerCloses, NetworkStep, Reset, loopVars
<1>5. ~(Connect \/ ConnectFails \/ DropEventLoop \/ HandshakeStep \/ WriteStep \/ Notified \/ CmdsEnd)
  BY <1>1 DEF Connect, ConnectFails, DropEventLoop, HandshakeStep, ReadConnack, ReadUnexpected,
              HandshakeErr, HandshakeSpins, WriteStep, Write, WriteDisconnect, Written,
              WriteFails, WritePanics, Notified, CmdsEnd, vars, loopVars
<1>6. ~CmdStep
  BY <1>1 DEF CmdStep, CmdPlain, CmdIdentified, CmdPanics, StartWrite, Finish
<1>7. ~(ReadPingResp \/ ReadAck \/ ReadPubAck \/ ReadMessage \/ ReadPublish1)
  BY <1>1 DEF ReadPingResp, ReadAck, ReadPubAck, ReadMessage, ReadPublish1, Notify, StartWrite
<1>8. ~ReadDisconnect
  <2>1. toClient \in Seq(Incoming) BY DEF LoopInv, TypeInv, WireTypes
  <2>2. toClient # <<>> => Head(toClient).type # "disconnecterr"
    BY <2>1 DEF ErrInv, Whole
  <2>3. QED BY <1>1, <2>2 DEF ReadDisconnect, Finish
<1>9. ~(ReadQos2 \/ ReadEnd) BY <1>1 DEF ReadQos2, ReadEnd, Finish
<1>10. QED BY <1>3, <1>4, <1>5, <1>6, <1>7, <1>8, <1>9 DEF Untimed, UntimedStep, ReadStep

\* A broker that answers every PingReq promptly is timed out only if the loop
\* itself was held up for what the answer leaves of a period.
THEOREM PromptBrokerIsSpared == TimedSpec => NoFalseTimeout
<1>1. ASSUME LoopInv, TimedInv, [TimedNext]_timedVars
      PROVE  [TickTimesOut /\ prompt /\ link = "up" /\ session = "accepted"
                => behind >= Period - AnswerTime]_timedVars
  <2> SUFFICES ASSUME TimedNext, TickTimesOut, prompt, link = "up", session = "accepted"
               PROVE  behind >= Period - AnswerTime
    BY <1>1
  <2>1. Tick BY <1>1, TimeoutIsTick DEF TimedInv
  <2>2. until <= 0 BY <2>1, TickMoves
  <2>3. pingresp = "waiting" /\ pc # "done" BY DEF TickTimesOut
  <2>4. ClockOK /\ until + behind + AnswerTime >= Period
    BY <1>1, <2>3 DEF TimedInv, ClockInv, WaitInv, Whole
  <2>5. until \in Int /\ behind \in Nat /\ Period \in Nat /\ AnswerTime \in Nat
    BY <2>4, ClockFacts
  <2>6. QED BY <2>2, <2>4, <2>5
<1>2. QED BY <1>1, TimedInvHolds, PTL DEF TimedSpec, NoFalseTimeout
=============================================================================

------------------------------ MODULE KeepAlive ------------------------------
(***************************************************************************)
(* The event loop with time: the ping timer of src/src/lib.rs, a           *)
(* tokio::time::interval_at (external), beside everything in EventLoop.    *)
(*                                                                         *)
(* The timer's deadlines are Period apart, whatever happens: those that    *)
(* pass while the loop waits for a write or for its user are made up for   *)
(* in a burst.  Time is discrete and is kept as differences: how long      *)
(* until the next deadline, how old a ping is.  It passes only while the   *)
(* loop has nothing to do, as the executor polls a task that is woken.     *)
(***************************************************************************)
EXTENDS EventLoop, Integers

CONSTANTS
  Period,         \* of the timer (code: 8 s)
  KeepAliveTime,  \* what Connect announces to the broker (code: 8 s)
  AnswerTime,     \* in which a prompt broker answers a PingReq
  MaxGreeting,    \* bound on the time for which the loop waits for the Connack
  MaxHeld         \* bound on the time for which the loop is held up in all

ASSUME KeepAliveAssumption ==
  /\ Period \in Nat \ {0} /\ KeepAliveTime \in Nat
  /\ AnswerTime \in Nat /\ MaxGreeting \in Nat /\ MaxHeld \in Nat

VARIABLES
  armed,          \* the timer exists: the handshake is over
  until,          \* time until its next deadline; below 0 when it has passed
  prompt,         \* the broker answers each PingReq within AnswerTime
  age,            \* time since the last PingReq was written
  idle,           \* time since the last write for which the loop had nothing to do
  greeting,       \* the time for which it waited for the Connack
  held,           \* time spent waiting for a write or for the user
  behind          \* the part of it by which the ping under way was delayed,
                  \* before it was written and since

timeVars == <<until, age, idle, greeting, held, behind>>
clockVars == <<armed, prompt, timeVars>>

TimedInit ==
  /\ Init
  /\ armed = FALSE /\ until = Period
  /\ prompt \in BOOLEAN
  /\ age = 0 /\ idle = 0 /\ greeting = 0 /\ held = 0 /\ behind = 0

Pinging == pingresp = "waiting" \/ writing.type = "pingreq"

-----------------------------------------------------------------------------
(* Steps that take no time.                                                *)

\* The packet in writing has entered the connection.
Wrote == pc = "writing" /\ pc' # "writing" /\ pc' # "done"

\* A step of the loop or of its surroundings, other than a tick.  The timer is
\* made when the select! is first reached.
Timed(step) ==
  /\ step
  /\ armed' = (armed \/ pc' = "select")
  /\ age' = IF Wrote /\ writing.type = "pingreq" THEN 0 ELSE age
  /\ idle' = IF Wrote THEN 0 ELSE idle
  /\ behind' = IF Pinging' THEN behind ELSE 0
  /\ UNCHANGED <<until, greeting, held, prompt>>

Due == armed /\ until <= 0

\* A bug: a tick after an answered ping does no more than forget the answer.
TickForgetsAnswer ==
  /\ Due
  /\ \/ TickStep /\ pingresp # "received"
     \/ /\ pc = "select" /\ pingresp = "received" /\ pingresp' = "none"
        /\ UNCHANGED <<pc, outcome, writing, queue, pings, idVars, cmdVars, notifVars, wireVars, brokerVars>>
  /\ until' = until + Period
  /\ behind' = 0 - until
  /\ UNCHANGED <<armed, prompt, age, idle, greeting, held>>

\* A bug: a tick takes the deadline after it along.
TickSkipsDeadline ==
  /\ Due
  /\ TickStep
  /\ until' = until + 2 * Period
  /\ behind' = 0 - until
  /\ UNCHANGED <<armed, prompt, age, idle, greeting, held>>

\* A bug: the timer is left alone while a PingResp is awaited.
TickOnlyPings ==
  /\ Due
  /\ TickPing
  /\ until' = until + Period
  /\ behind' = 0 - until
  /\ UNCHANGED <<armed, prompt, age, idle, greeting, held>>

\* ping.tick(): the next deadline follows from this one, not from now.
Tick ==
  /\ Due
  /\ TickStep
  /\ until' = until + Period
  /\ behind' = 0 - until
  /\ UNCHANGED <<armed, prompt, age, idle, greeting, held>>

-----------------------------------------------------------------------------
(* The passing of time.                                                    *)

\* The loop waits for the broker to take a packet or for the user to take a
\* notification, and does nothing else.
HeldUp ==
  /\ held < MaxHeld
  /\ \/ pc = "writing" /\ link = "up" /\ Len(toBroker) = WireCap
     \/ pc = "notifying" /\ notifsParked # <<>>

\* Nothing is there for any branch of the select!, or for the handshake.
NothingReady ==
  /\ toClient = <<>> /\ link = "up"
  /\ \/ pc = "handshake" /\ greeting < MaxGreeting
     \/ pc = "select" /\ cmds = <<>> /\ ~Due

\* A prompt broker must answer before more time passes.
AnswerDue ==
  /\ prompt
  /\ age >= AnswerTime
  /\ CanSend /\ session = "accepted"
  /\ \/ \E i \in DOMAIN toBroker : toBroker[i].type = "pingreq"
     \/ \E p \in owed : p.type = "pingresp"

\* Times beyond this are told apart by no property.
Long == Period + KeepAliveTime + MaxGreeting + MaxHeld + 1

Longer(t) == IF t < Long THEN t + 1 ELSE Long

Elapse ==
  /\ HeldUp \/ NothingReady
  /\ ~AnswerDue
  /\ until' = IF armed THEN until - 1 ELSE until
  /\ age' = IF pingresp = "waiting" THEN Longer(age) ELSE age
  /\ idle' = IF NothingReady THEN Longer(idle) ELSE idle
  /\ greeting' = IF pc = "handshake" THEN greeting + 1 ELSE greeting
  /\ held' = IF HeldUp THEN held + 1 ELSE held
  /\ behind' = IF HeldUp /\ Pinging THEN behind + 1 ELSE behind
  /\ UNCHANGED <<armed, prompt, vars>>

TimedNext ==
  \/ Tick
  \/ Timed(UntimedStep \/ ClientStep \/ UserStep \/ BrokerStep \/ NetworkStep)
  \/ Elapse
  \/ Rest /\ UNCHANGED clockVars

timedVars == <<vars, clockVars>>

\* Time goes on, the executor polls the loop, the broker reads (a prompt one
\* answers, the other need not do anything else) and the user receives.
TimedFairness ==
  /\ WF_timedVars(Elapse)
  /\ WF_timedVars(Timed(Connect))
  /\ WF_timedVars(Timed(HandshakeStep))
  /\ WF_timedVars(Timed(WriteStep))
  /\ WF_timedVars(Timed(Notified))
  /\ SF_timedVars(Tick)
  /\ SF_timedVars(Timed(ReadStep))
  /\ SF_timedVars(Timed(CmdStep))
  /\ WF_timedVars(Timed(BrokerReceives))
  /\ WF_timedVars(prompt /\ Timed(\E p \in owed : BrokerAnswers(p)))
  /\ WF_timedVars(Timed(UserReceives))

TimedSpec == TimedInit /\ [][TimedNext]_timedVars /\ TimedFairness

-----------------------------------------------------------------------------
ClockOK ==
  /\ armed \in BOOLEAN /\ prompt \in BOOLEAN
  /\ until \in -MaxHeld .. Period
  /\ age \in 0 .. Long /\ idle \in 0 .. Long
  /\ greeting \in 0 .. MaxGreeting /\ held \in 0 .. MaxHeld /\ behind \in 0 .. MaxHeld

\* A broker that answers promptly is timed out only when the loop itself was
\* held up, before it wrote the PingReq or since, for as long as the answer
\* leaves of a period.  Then it does happen: the deadlines that have passed come
\* in a burst, PingReq and timeout together, or the tick is taken before the
\* PingResp that lies in the connection.
NoFalseTimeout ==
  [][TickTimesOut /\ prompt /\ link = "up" /\ session = "accepted"
       => behind >= Period - AnswerTime]_timedVars

\* As long as it is not held up the loop writes a packet within the time that
\* its Connect announced as its keep alive.  Only the first time it may be late:
\* the timer starts with the Connack and not with the Connect.
KeepsAlive ==
  idle <= KeepAliveTime + greeting

\* A PingReq is not left unanswered for longer than a period and the time for
\* which the loop was held up: then the future resolves.
SilenceBounded == pingresp = "waiting" /\ pc # "done" => age <= Period + behind

\* A broker that takes the packets it is sent but stays silent is found out by
\* the ping timer, whatever else the loop has to do.
SilenceIsNoticed == pingresp = "waiting" ~> pingresp # "waiting" \/ pc = "done"
=============================================================================

\* A period of 3 is short enough for the loop to be held up for more than two.
SPECIFICATION TimedSpec
CONSTANTS
  Clients = {c1}
  MaxId = 2
  CmdBuffer = 1
  NotifBuffer = 0
  WireCap = 1
  CmdTypes = {"publish0"}
  BrokerTypes = {"publish0"}
  Env = {"close"}
  MaxCmds = 1
  MaxDeliveries = 1
  MaxPings = 2
  Period = 3
  KeepAliveTime = 3
  AnswerTime = 1
  MaxGreeting = 1
  MaxHeld = 4
INVARIANTS
  ClockOK
  KeepsAlive
  SilenceBounded
PROPERTIES
  NoFalseTimeout
  SilenceIsNoticed

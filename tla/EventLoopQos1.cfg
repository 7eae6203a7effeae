\* A broker that publishes with QoS 1.
SPECIFICATION Spec
CONSTANTS
  Clients = {c1}
  MaxId = 3
  CmdBuffer = 1
  NotifBuffer = 0
  WireCap = 2
  CmdTypes = {}
  BrokerTypes = {"publish1"}
  Env = {}
  MaxCmds = 3
  MaxDeliveries = 1
  MaxPings = 0
INVARIANTS
  NeverSendsPubAck

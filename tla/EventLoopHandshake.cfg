\* A broker that closes the connection before its Connack.
SPECIFICATION FairSpec
CONSTANTS
  Clients = {c1}
  MaxId = 3
  CmdBuffer = 1
  NotifBuffer = 0
  WireCap = 2
  CmdTypes = {"publish0"}
  BrokerTypes = {}
  Env = {"close"}
  MaxCmds = 1
  MaxDeliveries = 0
  MaxPings = 0
PROPERTIES
  ConnectionResult

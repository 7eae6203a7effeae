\* Two Clients with more commands than their channel takes, every kind of end a
\* connection can have, pings, messages of every QoS and a user who may be slow or
\* gone.
SPECIFICATION Spec
CONSTANTS
  Clients = {c1, c2}
  MaxId = 3
  CmdBuffer = 0
  NotifBuffer = 0
  WireCap = 2
  CmdTypes = {"publish0", "disconnect"}
  BrokerTypes = {"publish0", "publish1", "publish2"}
  Env = {"noconnect", "refuse", "unexpected", "disconnect", "close", "reset", "dropclient", "dropuser"}
  MaxCmds = 3
  MaxDeliveries = 3
  MaxPings = 2
SYMMETRY ClientSymmetry
INVARIANTS
  PingAccounting
  Backpressure
  DisconnectIsLast
  ConnackFirst
PROPERTIES
  CommandsInOrder
  MessagesInOrder

\* Requests that need an identifier, more of them than there are identifiers,
\* on a connection that may break.
SPECIFICATION Spec
CONSTANTS
  Clients = {c1}
  MaxId = 4
  CmdBuffer = 1
  NotifBuffer = 0
  WireCap = 2
  CmdTypes = {"publish1", "publish2", "subscribe", "unsubscribe"}
  BrokerTypes = {}
  Env = {"reset"}
  MaxCmds = 4
  MaxDeliveries = 0
  MaxPings = 1
INVARIANTS
  TypeOK
  IdAccounting
  QueueIsUnacked

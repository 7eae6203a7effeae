\* What must eventually happen, with a fair executor, a broker that reads and
\* answers, and a user who receives.
SPECIFICATION FairSpec
CONSTANTS
  Clients = {c1}
  MaxId = 3
  CmdBuffer = 1
  NotifBuffer = 0
  WireCap = 1
  CmdTypes = {"publish0", "publish1", "disconnect"}
  BrokerTypes = {"publish0"}
  Env = {"refuse", "close", "reset", "dropclient", "dropuser"}
  MaxCmds = 2
  MaxDeliveries = 2
  MaxPings = 1
PROPERTIES
  CommandsHandled
  PublishesSettled
  MessagesReachUser
  

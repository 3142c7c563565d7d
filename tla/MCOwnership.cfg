SPECIFICATION FairSpec
CONSTANTS
  h1 = h1
  h2 = h2
  None = None
  Hubs = {h1, h2}
  MaxSpawns = 2
  Assumed = {"sweep", "close", "stop"}
   
PROPERTIES HubLossSettles
CHECK_DEADLOCK FALSE

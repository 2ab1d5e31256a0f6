SPECIFICATION FairSpec
CONSTANTS
  Node = {"a", "h"}
  NoNode = "none"
  Conn = {1}
  Hub = "h"
  Bootnodes <- BootnodesOf
  Networks <- SameOrNot
  Capacity = 1
  Chatter = {"ping"}
  Stopping = {"h"}
  Block = {"c1"}
  MaxDrops = 1
  Genesis = "genesis"
  Parent <- Chain
  Height <- Length
  Rank <- Order
  Maker <- MadeBy
PROPERTIES BroadcastEnds ShutdownEnds BootnodesStayConnected
\* A stopped hub leaves the other node alone.
CHECK_DEADLOCK FALSE

SPECIFICATION Spec
CONSTANTS
  Node = {"a", "h"}
  NoNode = "none"
  Conn = {k1, k2}
  Hub = "h"
  Bootnodes <- BootnodesOf
  Networks <- SameOrNot
  Capacity = 2
  Chatter = {"ping"}
  Stopping = {}
  Block = {"c1"}
  MaxDrops = 1
  Genesis = "genesis"
  Parent <- Chain
  Height <- Length
  Rank <- Order
  Maker <- MadeBy
SYMMETRY Swaps
INVARIANT EveryConnectionListed
PROPERTY ForeignUnheard
\* Two readers may wait for each other.
CHECK_DEADLOCK FALSE

SPECIFICATION Spec
CONSTANTS
  Names = {"g","a1","e2","f1","h0"}
  Block = {"g","a1","e2","f1","h0"}
  NoBlock = "none"
  Parent <- TreeParent
  Height <- TreeHeight
  Stamp <- TreeStamp
  Target <- TreeTarget
  Rank <- TreeRank
  Sound = {"g","a1","e2","f1","h0"}
  TargetSpace = 16
  NoLegacy = NoLegacy
  Legacy = NoLegacy
  Faults = TRUE
  Main = "main"
  Peer = {p, q}
  Sealed = {"g","a1","e2","h0"}
  Bits = 7
  Mining = TRUE
  FutureLimit = 3
  MaxNow = 1
  Crashes = TRUE
SYMMETRY Reconnections
INVARIANTS PointersResolve ChainConnected WorkAccounted NoneFromFuture ServesAChain OwnBlockFitsItsParent
PROPERTY NothingForgotten

SPECIFICATION Spec
CONSTANTS
  Names = {"g","a1","b1","b2","f1","e2","w2","m2","m3","h0"}
  Block = {"g","a1","b1","b2","f1","e2","w2","m2","m3","h0"}
  NoBlock = "none"
  Parent <- TreeParent
  Height <- TreeHeight
  Stamp <- TreeStamp
  Target <- TreeTarget
  Rank <- TreeRank
  Sound = {"g","a1","b1","b2","f1","e2","w2","m2","m3","h0"}
  TargetSpace = 16
  NoLegacy = NoLegacy
  Legacy = NoLegacy
  Faults = FALSE
  Main = "main"
  Peer = {"p"}
  Sealed = {"g"}
  Bits = 7
  Mining = FALSE
  FutureLimit = 3
  MaxNow = 2
  Crashes = FALSE
INVARIANT TipIsHeaviest
PROPERTIES ImplementsHeaviestChain ImplementsMemoryStore
\* The peer may fall silent.
CHECK_DEADLOCK FALSE

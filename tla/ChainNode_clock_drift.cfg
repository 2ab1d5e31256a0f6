SPECIFICATION Spec
CONSTANTS
  Names = {"g","a1","m2"}
  Block = {"g","a1","m2"}
  NoBlock = "none"
  Parent <- TreeParent
  Height <- TreeHeight
  Stamp <- TreeStamp
  Target <- TreeTarget
  Rank <- TreeRank
  Sound = {"g","a1","m2"}
  TargetSpace = 16
  NoLegacy = NoLegacy
  Legacy = NoLegacy
  Faults = FALSE
  Main = "main"
  Peer = {}
  Sealed = {"g","a1","m2"}
  Bits = 7
  Mining = TRUE
  FutureLimit = 1
  MaxNow = 0
  Crashes = FALSE
INVARIANT OwnBlockPasses
CHECK_DEADLOCK FALSE

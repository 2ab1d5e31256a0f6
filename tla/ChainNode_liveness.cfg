SPECIFICATION FairSpec
CONSTANTS
  Names = {"g","a1","b1","b2"}
  Block = {"g","a1","b1","b2"}
  NoBlock = "none"
  Parent <- TreeParent
  Height <- TreeHeight
  Stamp <- TreeStamp
  Target <- TreeTarget
  Rank <- TreeRank
  Sound = {"g","a1","b1","b2"}
  TargetSpace = 16
  NoLegacy = NoLegacy
  Legacy = NoLegacy
  Faults = FALSE
  Main = "main"
  Peer = {"p", "q"}
  Sealed = {"g","a1","b2"}
  Bits = 7
  Mining = TRUE
  FutureLimit = 3
  MaxNow = 0
  Crashes = TRUE
PROPERTIES ValidGetsStored InsertionEnds

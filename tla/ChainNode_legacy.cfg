SPECIFICATION Spec
CONSTANTS
  Names = {"g","a1","b1","b2","f1","e2","m2","m3"}
  Block = {"g","a1","b1","b2","f1","e2","m2","m3"}
  NoBlock = "none"
  Parent <- TreeParent
  Height <- TreeHeight
  Stamp <- TreeStamp
  Target <- TreeTarget
  Rank <- TreeRank
  Sound = {"g","a1","b1","b2","f1","e2","m2","m3"}
  TargetSpace = 16
  NoLegacy = NoLegacy
  Legacy <- OldSnapshot
  Faults = FALSE
  Main = "main"
  Peer = {"p"}
  Sealed = {"g"}
  Bits = 7
  Mining = FALSE
  FutureLimit = 3
  MaxNow = 1
  Crashes = TRUE
INVARIANTS MigrationComplete DiskAgrees
PROPERTY DurableTipNeverLighter
\* The peer may fall silent.
CHECK_DEADLOCK FALSE

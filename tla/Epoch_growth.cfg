SPECIFICATION Spec
CONSTANTS
  MaxUint = 31
  NodeSize = 4
  InitialField = 12
  SizeField = 8
  GrowthField = 8
  DefaultGrowth = 4
  EpochBlocks = 5
  Grace = 3
  GenesisHash = "zero"
  ChainGenesis = "genesis"
  MaxHeight = 23
INVARIANTS TypeOK SwitchoverIsFinal NeverShrinks OneDAG

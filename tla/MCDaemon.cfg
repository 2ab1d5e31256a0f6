SPECIFICATION Spec
CONSTANTS
  Header <- Epochs
  Readers = {r1, r2}
  Miner = miner
INVARIANTS HashesPrepared NoHostReference RootIsOfHeader EveryDAGIsCached ReadsOpenDAG
SYMMETRY Symmetry
CHECK_DEADLOCK FALSE

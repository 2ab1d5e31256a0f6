SPECIFICATION Spec
CONSTANTS
  MaxCells = 7
  MaxWorkers = 3
  Header = {0, 1, 2}
  InGrace = {2}
  NonceSet = {0, 1}
  ReadsPerHash = 2
  ColossusXAuditCellCount = 2
  Pick <- PickBySum
  AuditPick <- AuditBySum
  Solves <- Even
INVARIANTS EveryCellOnce RootsAgree ProofsAgree SealedIsAccepted AcceptedIsSealed
CHECK_DEADLOCK FALSE

SPECIFICATION FairSpec
CONSTANTS
  MaxNonce = 4
  Workers = 3
  CanFail = FALSE
INVARIANTS TypeOK EachNonceOnce HashesNearlyExact
PROPERTIES ImplementsSearch SearchEnds

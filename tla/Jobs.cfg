SPECIFICATION FairSpec
CONSTANTS
  MaxJob = 4
  Settings <- MCSettings
  NProcs = 2
  MaxOffer = 5
INVARIANTS
  AtMostOnce
  RunIsBarrier
PROPERTIES
  RunReturns
  ImplementsPool

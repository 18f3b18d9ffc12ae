SPECIFICATION FairSpec
CONSTANTS
  j1 = j1
  j2 = j2
  root = root
  a = a
  b = b
  ab = ab
  Path = {a, b, ab}
  Root = root
  Dir <- MCDir
  Job = {j1, j2}
  First = j1
  Scenarios <- MCScenarios
  MaxVanish = 1
INVARIANTS
  ExtractedIsWhole
  PackedIsWhole
  FailureEndsProcess
PROPERTY
  PackEnds

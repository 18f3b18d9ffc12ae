SPECIFICATION Spec
CONSTANTS
  NULL = NULL
  Chunk = 4
  a = a
  b = b
  c = c
  g = g
  o = o
  Deep = 99
  Name <- MCName
  Worlds <- MCWorlds
INVARIANTS
  ListIsExact
  DependenciesFirst
  NoNameThrice
  FailureHasReason

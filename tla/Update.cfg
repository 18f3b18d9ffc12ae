SPECIFICATION Spec
CONSTANTS
  p1 = p1
  p2 = p2
  s1 = s1
  s2 = s2
  n1 = n1
  n2 = n2
  None = None
  Proc <- MCProc
  Source = {s1, s2}
  Name = {n1, n2}
  FileOf <- MCFileOf
  Lines <- MCLines
  MaxUpdates = 2
  MaxFaults = 2
INVARIANTS
  NeverMixed
  ZeroMeansCurrent

SPECIFICATION Spec
CONSTANTS
  NULL = NULL
  Chunk = 4
  p = p
  q = q
  x = x
  y = y
  z = z
  h1 = h1
  h2 = h2
  t = t
  Absent = Absent
  Pkg = {p, q}
  Path = {x, y, z}
  Sum = {h1, h2}
  Target = {t}
  Restricted = {z}
  Scenarios <- MCScenarios
  Workers = {1, 2}
INVARIANTS
  ConflictsAreFound

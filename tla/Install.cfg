SPECIFICATION Spec
CONSTANTS
  p = p
  q = q
  v1 = v1
  v2 = v2
  v3 = v3
  x = x
  y = y
  z = z
  c1 = c1
  c2 = c2
  Absent = Absent
  Pkg = {p, q}
  Ver = {v1, v2, v3}
  Path = {x, y, z}
  Content = {c1, c2}
  Files <- MCFiles
  Links <- MCLinks
  Installs <- MCInstalls
  Removals <- MCRemovals
  Restricted = {z}
  Foreign <- MCForeign
  InstallFlags <- MCInstallFlags
  RemoveFlags <- MCRemoveFlags
  MaxOps = 2
  MaxFaults = 2
INVARIANTS
  ListedIsVetted
  NothingLost
  MetadataLast
  OldGoesLast
  ExitZeroMeansInstalled
  NoOrphans
  ForgottenAfterFiles
  FailureHasReason

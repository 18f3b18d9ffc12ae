SPECIFICATION FairSpec
CONSTANTS
  a = a
  b = b
  c = c
  L = L
  Sources <- MCSources
  Starts <- MCStarts
  Typed <- MCTyped
  MaxTyped = 1
  FlagSets <- MCFlagSets
  Codes = {0, 1}
  Signals = {9}
INVARIANTS
  IInv
  FollowsConditions
  JumpsStayInScript
  OperationsNotInterrupted
  ExitStatusIsHonest
PROPERTIES
  ScriptsEnd

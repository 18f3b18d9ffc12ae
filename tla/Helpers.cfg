INIT HelpersInit
NEXT HelpersNext
CONSTANTS
  NULL = NULL
  Chunk = 3
  Value = {1, 2, 3}
  Given <- MCGiven
  MaxAdds = 5
  Alphabet <- MCAlphabet
  MaxText <- MCMaxText
  MaxOps = 4
  MaxDepth = 4
INVARIANTS
  GetIsList
  HasMissesOnlyTheNewest
  ScansInBounds
  ReorderKeepsEveryString
  SafedirStaysBelow
  LinkLeadsBack
  TrimDedents
  EnvironmentKept

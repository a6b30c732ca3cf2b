CONSTANTS
  Keys <- ChainKeys
  Vals <- TwoVals
  CopyOf <- ChainCopyOf
  Conds <- ShortConds
  MaxRows = 4
  ClashAllowed = FALSE
SPECIFICATION Spec
INVARIANTS TypeOK KeyMapConsistent CopiesFit
PROPERTIES ImplementsKeyedTable QueryEnds LoopsShrink

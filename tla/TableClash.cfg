CONSTANTS
  Keys <- ChainKeys
  Vals <- TwoVals
  CopyOf <- ChainCopyOf
  Conds <- ShortConds
  MaxRows = 4
  ClashAllowed = TRUE
SPECIFICATION SafeSpec
INVARIANTS KeyMapConsistent

CONSTANTS
  Disks <- FewDisks
  Main = "main"
  Threads <- Numbers
  ListenTokens <- Listening
  MaxOpen = 6
SPECIFICATION Spec
CHECK_DEADLOCK FALSE
INVARIANTS ReplTypeOK ParsedAsWritten RefusedIsIllFormed ReadInOrder
PROPERTIES MainEnds

CONSTANTS
  KEY = KEY
  Fields <- TwoFields
  Split = 2
  Bits = 3
  NoField = NoField
  Tables <- FewTables
  Garbage = {0, 1}
  NQ = 2
  QuerySet <- WellFormed
SPECIFICATION Spec
CHECK_DEADLOCK FALSE
INVARIANTS DataTypeOK AnswerIsPromised TableIsPromised NoRowShared QueueIsOwn

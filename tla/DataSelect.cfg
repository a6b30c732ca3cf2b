CONSTANTS
  KEY = KEY
  Fields <- TwoFields
  Split = 2
  Bits = 3
  NoField = NoField
  Tables <- FewTables
  Garbage = {0, 1}
  NQ = 2
  QuerySet <- BadSelect
SPECIFICATION Spec
CHECK_DEADLOCK FALSE
INVARIANTS AnswerIsPromised

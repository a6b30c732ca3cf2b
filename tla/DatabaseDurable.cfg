CONSTANTS
  Names <- TwoNames
  Paths <- TwoPaths
  Protected <- ReadOnly
  UserFiles <- Disks
  NewRows <- FewRows
  MaxRows = 2
  Beyond <- Wild
  Items <- Texts
  Numbers <- Ints
  DigitFirst <- Digits
  Wide <- TenCharacters
SPECIFICATION Spec
INVARIANTS DatabaseTypeOK FailedChangesNothing NarrowDumpLoads
PROPERTIES ReloadIsExact

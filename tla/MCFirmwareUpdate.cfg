SPECIFICATION Spec
CONSTANTS
  MaxVersion = 3
  StorageCanFail = TRUE
INVARIANT AlwaysBootable
PROPERTY OnlyNewerOrRollback

CONSTANTS
  Invocations = {1, 2}
  LastMonth = 3
  MaxVersions <- MCMaxVersions

SPECIFICATION FairSpec

INVARIANTS
  TypeOK
  StoredIsVerified
  OnlyDeathTears
  PayloadComesFirst
  DerivedHasNoHoles

PROPERTIES
  ImplementsWriteOnce
  LoadsEnd

CHECK_DEADLOCK FALSE

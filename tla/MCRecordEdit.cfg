CONSTANTS
  r1 = r1
  r2 = r2
  r3 = r3
  Requests = {r1, r2, r3}
  NoRequest = NoRequest
  Fields <- MCFields
  InitRow <- MCInitRow
  ValidRows <- MCValidRows
  Patches <- MCPatches
  Bodies <- MCBodies
  MaxCASAttempts = 2
  MaxDeadlockAttempts = 2
SYMMETRY RequestSymmetry
SPECIFICATION Spec
INVARIANTS
  ChangeLogExplainsRow
  StoredOnceOrNever
  ConflictOnlyAfterLosing
  PublishedAfterCommit
PROPERTIES
  EveryAttemptEnds
  ImplementsAtomicRecord

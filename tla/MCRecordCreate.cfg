CONSTANTS
  r1 = r1
  r2 = r2
  r3 = r3
  r4 = r4
  Requests = {r1, r2, r3, r4}
  FillFailures = {"badrequest", "conflict", "error"}
  MaxNumberAllocAttempts = 3
SYMMETRY RequestSymmetry
SPECIFICATION Spec
INVARIANTS
  NumbersConsecutive
  CreatedOnce
  ConflictOnlyAfterLosing
PROPERTIES
  NumbersStay

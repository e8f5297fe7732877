CONSTANTS
  r1 = r1
  r2 = r2
  r3 = r3
  Requests = {r1, r2, r3}
  Keys <- MCKeys
  Unknown <- MCUnknown
  Bodies <- MCBodies
  InitMember <- MCInitMember
  MaxDeadlockAttempts = 2
SPECIFICATION FairSpec
INVARIANTS
  RowsStoredTogether
  ChangeLogExplainsMembership
  CommutingRequestsAllWin
PROPERTIES
  EveryRequestAnswered

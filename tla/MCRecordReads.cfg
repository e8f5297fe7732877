SPECIFICATION ReadSpec
CONSTANTS
  r1 = r1  r2 = r2  r3 = r3  v1 = v1
  writer = writer  reporter = reporter  both = both
  anna = anna  bo = bo  lead = lead  none = none  nil = nil
  Requests <- MCRequests
  Readers <- MCReaders
  Users <- MCUsers
  Grants <- MCGrants
  FirstAuthor = writer
  Editor = writer
  Rangers = {anna, bo}
  Roles = {lead}
  NoRole = none
  Nil = nil
  Scenarios <- MCScenarios
  MaxDeadlockAttempts = 2
  MaxVersion = 2
INVARIANTS
  RosterHasNoTwins
  RosterExplained
  StrikesExplained
  ToldAfterCommit
  PageExplainsItself
  OutsidersStayOut
  FilesAreServed

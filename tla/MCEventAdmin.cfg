SPECIFICATION ReadsSpec
CONSTANTS
  v1 = v1
  i1 = i1
  i2 = i2
  Requests = {1, 2, 3}
  MaxEvents = 4
  Rules <- MCRules
  People <- MCPeople
  Times = {1, 2}
  InitEvents <- MCInitEvents
  InitAccess <- MCInitAccess
  InitEntries <- MCInitEntries
  Bodies <- MCBodies
  Readers = {v1}
  Importers = {i1, i2}
  Release = 2
  Scenarios <- MCScenarios
INVARIANTS
  GroupsAreRoots
  NothingDangles
  PermissionsAgree
  AccessIsWhole
  ReadsWereAllowed
  PlacesHeal

SPECIFICATION FairSpec
CONSTANTS
  a = a
  b = b
  q1 = q1
  q2 = q2
  Servers <- MCServers
  Main = a
  Requests <- MCRequests
  Code <- MCCode
  MaxVersion <- MCMaxVersion
  Oldest = 2
  Objects <- MCObjects
  Schema <- MCSchema
  Script <- MCScript
  Current <- MCCurrent
  Scenarios <- MCScenarios
  QueueMax = 1
  MaxBoots = 2
INVARIANTS
  SchemaIsWhole
  FailuresAreLogged
  DropsAreReported
PROPERTIES
  ServedWithoutWaiting

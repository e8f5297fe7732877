SPECIFICATION FormSpec
CONSTANTS
  Fields = {f, g}
  Members = members
  Nothing = nothing
  MaxWrites = 3
  MaxLoads = 2
  MaxFaults = 2
SYMMETRY Symmetry
INVARIANTS
  PageCreatesOnce
  NoTypingLost
  SettlesOnOwnWrites

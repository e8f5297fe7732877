CONSTANTS
  r1 = r1
  r2 = r2
  r3 = r3
  Requests = {r1, r2, r3}
  Incidents <- MCIncidents
  NoIncident = "none"
  Missing = "missing"
  InitRow <- MCInitRow
  Patches <- MCPatches
  MaxCASAttempts = 2
SYMMETRY RequestSymmetry
SPECIFICATION Spec
INVARIANTS
  NoEditReverted
  PagesConverge

SPECIFICATION Spec
CONSTANTS
  Readers = {p1, p2}
  Admins = {a1}
  MaxStatements = 2
  Ttl = 2
  AccessTokenDuration = 1
  MaxClock = 3
  Nobody = nobody
SYMMETRY Symmetry
INVARIANTS
  TokensForget
  TokensForgetEventually
PROPERTIES
  FreshAfterFlush

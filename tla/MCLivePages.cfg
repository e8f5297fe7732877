CONSTANTS
  c1 = c1
  c2 = c2
  Changes = {c1, c2}
  Records <- MCRecords
  BrowserPages = {"p1", "p2"}
  Subject <- MCSubject
  Table = {"p2"}
  NoPage = "none"
  MaxRestarts = 1
  MaxDrops = 1
SYMMETRY ChangeSymmetry
SPECIFICATION LiveSpec
INVARIANTS
  OpenPagesConverge
CHECK_DEADLOCK FALSE

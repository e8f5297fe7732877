CONSTANTS
  c1 = c1
  c2 = c2
  Changes = {c1, c2}
  Records <- MCVisitRecords
  BrowserPages = {"p1", "p2"}
  Subject <- MCVisitSubject
  Table = {"p2"}
  NoPage = "none"
  MaxRestarts = 0
  MaxDrops = 1
SYMMETRY ChangeSymmetry
SPECIFICATION LiveSpec
INVARIANTS
  VisitPagesConverge
CHECK_DEADLOCK FALSE

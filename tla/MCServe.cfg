SPECIFICATION FairSpec
CONSTANTS
  f1 = f1
  f2 = f2
  Files = {f1, f2}
  Lang = "go"
  OptInterval = 0
  OptQuiet = 0
  Second = 4
  MaxBusy = 5
  MaxLag = 0
  MaxEdits = 2
INVARIANTS
  ReportedInTime
  NoChangeForgotten
PROPERTIES
  QuietBeforeReport
  ServesChanges

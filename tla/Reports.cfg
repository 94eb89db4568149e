\* The report files: two writers and the reliability report.
SPECIFICATION FairSpec
CONSTANTS
  Scripts = {s1, s2}
  Days = 2
  stub = stub
  planner = planner
  buys = buys
  real = real
  escalates = escalates
  v = v
  w = w
  week3 = week3
  week7 = week7
  Torn = Torn
  OldSchema = OldSchema
  NoReport = NoReport
  Assignments <- MCAssignments
  s1 = s1
  s2 = s2
  Billed = {planner}
  TaskFiles <- MCTaskFiles
  Observed <- MCObserved
  SortedPaths <- MCSortedPaths
  OldFiles <- MCOldFiles
CHECK_DEADLOCK FALSE
INVARIANTS
  TypeOK
  EvidenceOnDisk
  ScoresAreWithinEvidence

PROPERTY ReportIsPrinted

\* run_eval over real payments: what the harness's record is worth.
SPECIFICATION Spec
CONSTANTS
  NTrials = 1
  MaxCalls = 3
  PassKValues = {1, 2, 4}
  CallCap = 2
  NoList = NoList
  NoPrice = NoPrice
  NoVendor = NoVendor
  NoCall = NoCall
  NoReport = NoReport
  NotApplicable = NotApplicable
  a = a
  b = b
  urlA = urlA
  urlB = urlB
  strayUrl = strayUrl
  Tasks <- MCTasks
  Targets <- MCTargets
  Urls <- MCTargets
  ClaimLists <- MCClaimLists
CHECK_DEADLOCK FALSE
INVARIANTS
  TypeOK
  DistinctVendors
  RecordIsBacked
  RecordIsComplete
  BudgetCountIsExactIfResolved

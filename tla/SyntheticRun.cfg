\* run_eval over the synthetic executor, any agent.
SPECIFICATION Spec
CONSTANTS
  NTrials = 3
  MaxCalls = 3
  PassKValues = {1, 2, 4}
  NoList = NoList
  NoPrice = NoPrice
  NoVendor = NoVendor
  NoCall = NoCall
  NoReport = NoReport
  NotApplicable = NotApplicable
  a = a
  b = b
  unknown = unknown
  Tasks <- MCTasks
  Targets <- MCTargets
  CallCaps <- MCCallCaps
  ClaimLists <- MCClaimLists
CHECK_DEADLOCK FALSE
INVARIANTS
  TypeOK
  DistinctVendors
  FaultsPerTrial
  OneDebitPerVendor
  BudgetCountIsExact
  PassMeansOnePurchase
  VendorOutcomesAreExact
  CapturesAreReal
  PassKIsExact

\* run_eval with the LLM planner, any LLM, on either executor.
SPECIFICATION FairSpec
CONSTANTS
  NTrials = 2
  MaxCalls = 1
  PassKValues = {1, 2, 4}
  NoList = NoList
  NoPrice = NoPrice
  NoVendor = NoVendor
  NoCall = NoCall
  NoReport = NoReport
  NotApplicable = NotApplicable
  a = a
  b = b
  unknown = unknown
  urlA = urlA
  urlB = urlB
  Tasks <- MCTasks
  Targets <- MCTargets
  Urls <- MCUrls
  CallCap = 3
  CallCaps <- MCCallCaps
  ClaimLists <- MCClaimLists
CHECK_DEADLOCK FALSE
INVARIANTS
  PlannerStaysInPolicy
  PlannerReportIsExact
PROPERTIES
  PlannerEnds
  PlannerIsAnAgent

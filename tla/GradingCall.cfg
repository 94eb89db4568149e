\* grade() on every small record and report.
SPECIFICATION Spec
CONSTANTS
  NoList = NoList
  NoPrice = NoPrice
  NoVendor = NoVendor
  a = a
  b = b
  Tasks <- MCTasks
  VendorIds <- MCVendorIds
  Records <- MCRecords
  ClaimLists <- MCClaimLists
CHECK_DEADLOCK FALSE
INVARIANTS
  TypeOK
  GreedyIsComplete

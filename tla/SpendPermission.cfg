\* Concurrent calls against one spend permission.
SPECIFICATION FairSpec
CONSTANTS
  Calls = {c1, c2}
  Values <- MCValues
  Fraction = 2
  Allowance = 2
  Funds = 3
  Periods = 1
  Window = {0}
  Retries = 2
  Owner = Owner
  Spender = Spender
  Sepolia = Sepolia
  Mainnet = Mainnet
CHECK_DEADLOCK FALSE
INVARIANTS
  TypeOK
  FailureMovesNothing
  OkMeansDone
  RetryPaysOnce
PROPERTIES
  RegisteredIsUsable
  CallsReturn

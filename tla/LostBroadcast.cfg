\* A broadcast whose answer is lost.
SPECIFICATION Spec
CONSTANTS
  Calls = {c1, c2}
  Values <- MCValues
  Fraction = 2
  Allowance = 2
  Funds = 3
  Periods = 1
  Window = {0}
  Retries = 2
  Owner = Owner
  Spender = Spender
  Sepolia = Sepolia
  Mainnet = Mainnet
CHECK_DEADLOCK FALSE
INVARIANT BareErrorsMoveNothing

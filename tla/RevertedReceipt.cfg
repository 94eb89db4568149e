\* A reverted settlement is reported as a mismatch.
SPECIFICATION Spec
CONSTANTS
  NumEndpoints = 2
  Retries = 2
  MaxAmount = 2
  Sepolia = Sepolia
  Mainnet = Mainnet
  OtherChain = OtherChain
  Shop = Shop
  Elsewhere = Elsewhere
  Payer = Payer
  Stranger = Stranger
  Hashes = {h1, h2}
  NoTerms = NoTerms
  NoHash = NoHash
  NoSettle = NoSettle
  NoReceipt = NoReceipt
  NetworkAllowlist <- MCAllowlist
  SupportedChains <- MCSupported
  Chains <- MCChains
  PayTos <- MCPayTos
  Menus <- MCMenus
  Requotes <- MCRequotes
  Balances <- MCBalances
CHECK_DEADLOCK FALSE
INVARIANT RevertIsNotConfirmed

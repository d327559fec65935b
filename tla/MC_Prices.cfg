CONSTANTS
  SETUSD = SETUSD
  BTC = BTC
  DNAR = DNAR
  DRAM = DRAM
  SETR = SETR
  LP_BTC_SETUSD = LP_BTC_SETUSD
  LP_SETUSD_DRAM = LP_SETUSD_DRAM
  ONE = ONE
  ALICE = ALICE
  None = None
  Tokens <- MCTokens
  LPShares <- MCLPShares
  LPPair <- MCLPPair
  Source <- MCSource
  OracleValues = {5000}
  FixedPrices <- MCFixedPrices
  Adjust <- MCAdjust
  Pool <- MCPool
  Accuracy = 100
  Origins = {ONE, ALICE}
  LockOrigin <- MCLockOrigin
  ShareAmounts = {1, 2}
  MaxShares = 3
SPECIFICATION Spec
INVARIANTS TypeOK
PROPERTY LockFreezesPrice

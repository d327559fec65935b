\* Shutdown sweeping composed with the auction manager (safety).
CONSTANTS
  a1 = a1
  a2 = a2
  SERP = SERP
  ow1 = ow1
  ow2 = ow2
  NoAuction = NoAuction
  NoBid = NoBid
  NoPath = NoPath
  NoCursor = NoCursor
  Accounts <- MCAccounts
  CollateralCurrencies <- MCCurrencies
  Workers <- MCWorkers
  KeyOrder <- MCKeyOrder
  FixedAccuracy = 1000
  MinimumIncrementSize = 50
  AuctionTimeToClose = 2
  AuctionDurationSoftCap = 3
  MaxAuctions = 2
  Amounts = {2}
  Targets = {2}
  BidPrices = {1, 3}
  InitialStable = 3
  MaxBalance = 4
  DexQuotes = {3}
  DexResults = {NoPath, 3}
  SettlePrices = {50}
  MaxIterations = 1
  LockDuration = 1
SPECIFICATION SweepSpec
SYMMETRY MCSymmetry
INVARIANTS
  SweepTypeOK

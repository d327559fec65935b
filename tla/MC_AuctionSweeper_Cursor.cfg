\* The cursor-reset claim of spec.md 8 against the budgeted iterator, in the
\* scenario it states: N open auctions, none bid on or sold, budget B < N.
CONSTANTS
  a1 = a1
  a2 = a2
  SERP = SERP
  ow1 = ow1
  ow2 = ow2
  NoAuction = NoAuction
  NoBid = NoBid
  NoPath = NoPath
  NoCursor = NoCursor
  Accounts <- MCAccounts
  CollateralCurrencies <- MCCurrencies
  Workers <- MCWorkers
  KeyOrder <- MCKeyOrder
  FixedAccuracy = 1000
  MinimumIncrementSize = 50
  AuctionTimeToClose = 2
  AuctionDurationSoftCap = 3
  MaxAuctions = 2
  Amounts = {2}
  Targets = {2}
  BidPrices = {}
  InitialStable = 3
  MaxBalance = 4
  DexQuotes = {3}
  DexResults = {NoPath}
  SettlePrices = {50}
  MaxIterations = 1
  LockDuration = 1
SPECIFICATION SweepSpec
SYMMETRY MCSymmetry
CONSTRAINT
  MCAllAuctionsBeforeShutdown
INVARIANTS
  CursorClearedAfterLastItem

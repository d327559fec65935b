\* The DEX-fallback claim of spec.md 4.3: the surplus pool is credited with the swap proceeds.
CONSTANTS
  a1 = a1
  a2 = a2
  SERP = SERP
  NoAuction = NoAuction
  NoBid = NoBid
  NoPath = NoPath
  Accounts <- MCAccounts
  CollateralCurrencies <- MCCurrencies
  FixedAccuracy = 1000
  MinimumIncrementSize = 50
  AuctionTimeToClose = 2
  AuctionDurationSoftCap = 3
  MaxAuctions = 1
  Amounts = {2}
  Targets = {2}
  BidPrices = {1, 3}
  InitialStable = 3
  MaxBalance = 3
  DexQuotes = {3}
  DexResults = {NoPath, 2}
  SettlePrices = {50}
SPECIFICATION Spec
SYMMETRY MCSymmetry
PROPERTIES
  SurplusMatchesProceeds

\* Core auction manager without the sweeper: ledger, bids, end, cancel; and
\* that it implements the abstract AuctionLifecycle specification.
CONSTANTS
  a1 = a1
  a2 = a2
  SERP = SERP
  NoAuction = NoAuction
  NoBid = NoBid
  NoPath = NoPath
  Accounts <- MCAccounts
  CollateralCurrencies <- MCCurrencies
  FixedAccuracy = 1000
  MinimumIncrementSize = 50
  AuctionTimeToClose = 2
  AuctionDurationSoftCap = 3
  MaxAuctions = 2
  Amounts = {2, 4}
  Targets = {0, 2}
  BidPrices = {1, 2, 3, 5}
  InitialStable = 3
  MaxBalance = 5
  DexQuotes = {0, 3}
  DexResults = {NoPath, 1, 3}
  SettlePrices = {50}
SPECIFICATION Spec
SYMMETRY MCSymmetry
INVARIANTS
  TypeOK
  AggregatesMatchAuctions
  ConsumersTrackReferences
PROPERTIES
  ImplementsLifecycle
  ReverseBidRespectsPrice

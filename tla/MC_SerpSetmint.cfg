\* SERP Setmint: authorization deposits and loan transfers.
CONSTANTS
  ALICE = ALICE
  BOB = BOB
  SERP = SERP
  DNAR = DNAR
  Accounts <- MCAccounts
  CollateralCurrencies <- MCCollateralCurrencies
  DepositPerAuthorization = 1
  Endowment = 3
  Adjustments <- MCAdjustments
  MaxPosition = 1
SPECIFICATION Spec
SYMMETRY MCSymmetry
INVARIANTS
  TypeOK
  ReservedBacksAuthorizations

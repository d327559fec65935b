\* The currencies ledger: transfers, update_balance and sweep_dust on both routes.
CONSTANTS
  alice = alice
  bob = bob
  settpay = settpay
  dust = dust
  DNAR = DNAR
  USDJ = USDJ
  Accounts <- MCAccounts
  ModuleAccounts <- MCModuleAccounts
  CurrencyIds <- MCCurrencyIds
  NativeCurrencyId = DNAR
  ExistentialDeposits <- MCExistentialDeposits
  DustAccount = dust
  Endowed <- MCEndowed
  TransferAmounts = {1, 3, 4}
  UpdateAmounts <- MCUpdateAmounts
  MaxIssuance = 9
SPECIFICATION Spec
INVARIANTS
  TypeOK
  IssuanceTracksBalances

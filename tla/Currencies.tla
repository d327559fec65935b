----------------------------- MODULE Currencies -----------------------------
(***************************************************************************)
(* The Currencies pallet's MultiCurrency ledger as its test runtime wires  *)
(* it (src/lib-serml/tokens/currencies/src/mock.rs) and its benchmarked    *)
(* dispatchables (src/runtime/src/benchmarking/currencies.rs).             *)
(*                                                                         *)
(* The native currency (GetNativeCurrencyId) is routed through             *)
(* BasicCurrencyAdapter to pallet_balances: an account whose balance falls *)
(* below ExistentialDeposit is reaped and the remainder is dropped         *)
(* (DustRemoval = ()), which lowers the total issuance.  Every other       *)
(* currency goes to orml_tokens: an account left with a non-zero total     *)
(* below ExistentialDeposits(currency) has that dust moved by              *)
(* TransferDust to DustAccount; module (PalletId) accounts are exempt.    *)
(*                                                                         *)
(* The pallet, orml_tokens and pallet_balances are not in this snapshot:   *)
(* their handlers follow the behaviour of those crates at the versions     *)
(* the mock configures.  Reserved balances and locks are not used by any   *)
(* modelled call and are left out: total = free.                           *)
(***************************************************************************)
EXTENDS Integers, FiniteSetsExt, Functions

CONSTANTS
  Accounts,            \* AccountId32 values the calls name
  ModuleAccounts,      \* PalletId accounts (DustAccount, pallet accounts)
  CurrencyIds,         \* currencies of the runtime
  NativeCurrencyId,    \* GetNativeCurrencyId
  ExistentialDeposits, \* currency -> ED; the native entry is pallet_balances' ExistentialDeposit
  DustAccount,         \* TransferDust's GetAccountId
  Endowed,             \* ExtBuilder endowed_accounts: set of <<account, currency, balance>>
  TransferAmounts,     \* amounts a transfer may name
  UpdateAmounts,       \* signed Amounts update_balance may name
  MaxIssuance          \* bound on any currency's total issuance explored

ASSUME NativeCurrencyId \in CurrencyIds
ASSUME ExistentialDeposits \in [CurrencyIds -> Nat]
ASSUME DustAccount \in ModuleAccounts /\ ModuleAccounts \subseteq Accounts
ASSUME Endowed \subseteq Accounts \X CurrencyIds \X Nat
\* Both genesis builders assert every endowment reaches the existential deposit.
ASSUME \A e \in Endowed : e[3] >= ExistentialDeposits[e[2]]

VARIABLES
  free,          \* currency -> account -> free balance (0 = no account)
  totalIssuance  \* currency -> TotalIssuance

vars == <<free, totalIssuance>>

IsNative(c) == c = NativeCurrencyId

\* orml_tokens is_module_account_id: PalletId::try_from_account(who).is_some().
IsModuleAccount(a) == a \in ModuleAccounts

\* Balances whose account is reaped or dusted after a mutation: pallet_balances
\* reaps any account below ExistentialDeposit; orml_tokens dusts a non-zero
\* total below ExistentialDeposits(currency) unless the account is a module account.
Dusted(c, nb, touched) ==
  {a \in touched : /\ nb[a] > 0 /\ nb[a] < ExistentialDeposits[c]
                   /\ IsNative(c) \/ ~IsModuleAccount(a)}

\* Mutant: the native dust is dropped without lowering the total issuance.
CommitKeepIssuance(c, nb, touched, iss) ==
  LET dust    == Dusted(c, nb, touched)
      dustSum == MapThenSumSet(LAMBDA a : nb[a], dust)
      cleared == [a \in Accounts |-> IF a \in dust THEN 0 ELSE nb[a]]
  IN
  /\ free' = [free EXCEPT ![c] = IF IsNative(c) THEN cleared
                                 ELSE [cleared EXCEPT ![DustAccount] = @ + dustSum]]
  /\ totalIssuance' = [totalIssuance EXCEPT ![c] = iss]

\* Commit the balances nb of the touched accounts with issuance iss: native
\* dust is dropped (DustRemoval = ()), so issuance falls by it; token dust is
\* transferred by TransferDust to DustAccount (a module account: never refused).
Commit(c, nb, touched, iss) ==
  LET dust    == Dusted(c, nb, touched)
      dustSum == MapThenSumSet(LAMBDA a : nb[a], dust)
      cleared == [a \in Accounts |-> IF a \in dust THEN 0 ELSE nb[a]]
  IN
  /\ free' = [free EXCEPT ![c] = IF IsNative(c) THEN cleared
                                 ELSE [cleared EXCEPT ![DustAccount] = @ + dustSum]]
  /\ totalIssuance' = [totalIssuance EXCEPT ![c] = IF IsNative(c) THEN iss - dustSum ELSE iss]

\* The receiving side of a transfer must reach the existential deposit
\* (pallet_balances always; orml_tokens unless `to` is a module account).
ToMayHold(c, to, newTo) ==
  newTo >= ExistentialDeposits[c] \/ (~IsNative(c) /\ IsModuleAccount(to))

\* MultiCurrency::transfer: zero or self is Ok and changes nothing; the native
\* currency goes to pallet_balances' transfer (AllowDeath), others to
\* orml_tokens' do_transfer.  BalanceTooLow / ExistentialDeposit abort.
DoTransfer(c, from, to, amount) ==
  LET nb == [free[c] EXCEPT ![from] = @ - amount, ![to] = @ + amount]
  IN
  /\ amount # 0 /\ from # to
  /\ free[c][from] >= amount
  /\ ToMayHold(c, to, nb[to])
  /\ Commit(c, nb, {from, to}, totalIssuance[c])

\* transfer(dest, currency_id, amount), signed by `from`.
Transfer(from, to, c, amount) == DoTransfer(c, from, to, amount)

\* transfer_native_currency(dest, amount): NativeCurrency::transfer.
TransferNativeCurrency(from, to, amount) == DoTransfer(NativeCurrencyId, from, to, amount)

\* Deposit: pallet_balances' deposit_creating (through BasicCurrencyAdapter,
\* whose result is ignored) does nothing when a new account would get less
\* than ExistentialDeposit; orml_tokens' deposit always credits and dusts.
Deposit(c, who, v) ==
  /\ totalIssuance[c] + v <= MaxIssuance
  /\ IF IsNative(c) /\ free[c][who] = 0 /\ v < ExistentialDeposits[c]
     THEN UNCHANGED vars
     ELSE Commit(c, [free[c] EXCEPT ![who] = @ + v], {who}, totalIssuance[c] + v)

\* Mutant: the free balance is not checked before it is withdrawn.
WithdrawUnchecked(c, who, v) ==
  Commit(c, [free[c] EXCEPT ![who] = @ - v], {who}, totalIssuance[c] - v)

\* Withdraw: BalanceTooLow / InsufficientBalance when v exceeds the free
\* balance; issuance falls by v, and the remainder may be reaped or dusted.
Withdraw(c, who, v) ==
  /\ free[c][who] >= v
  /\ Commit(c, [free[c] EXCEPT ![who] = @ - v], {who}, totalIssuance[c] - v)

\* update_balance(who, currency_id, amount), Root: zero is Ok, a positive
\* amount deposits, a negative one withdraws its absolute value.
UpdateBalance(who, c, by) ==
  /\ by # 0
  /\ IF by > 0 THEN Deposit(c, who, by) ELSE Withdraw(c, who, -by)

\* sweep_dust(currency_id, accounts), Root: every listed account holding a
\* non-zero free balance below the minimum balance has it handed to OnDust,
\* TransferDust to DustAccount (its transfer result ignored; DustAccount
\* itself is a transfer to self, a no-op).
SweepDust(c, accs) ==
  LET swept == {a \in accs \ {DustAccount} :
                  free[c][a] > 0 /\ free[c][a] < ExistentialDeposits[c]}
      moved == MapThenSumSet(LAMBDA a : free[c][a], swept)
      nb    == [a \in Accounts |-> IF a \in swept THEN 0
                                   ELSE IF a = DustAccount THEN free[c][a] + moved
                                   ELSE free[c][a]]
  IN
  /\ swept # {}
  /\ Commit(c, nb, swept \cup {DustAccount}, totalIssuance[c])

------------------------------------------------------------------------------
\* ExtBuilder::build: native endowments go to pallet_balances' genesis, the
\* others to orml_tokens' genesis; issuance is the sum of each.
Init ==
  /\ free = [c \in CurrencyIds |-> [a \in Accounts |->
               MapThenSumSet(LAMBDA e : e[3], {e \in Endowed : e[1] = a /\ e[2] = c})]]
  /\ totalIssuance = [c \in CurrencyIds |->
               MapThenSumSet(LAMBDA e : e[3], {e \in Endowed : e[2] = c})]

Next ==
  \/ \E from, to \in Accounts, c \in CurrencyIds, amt \in TransferAmounts :
       Transfer(from, to, c, amt)
  \/ \E from, to \in Accounts, amt \in TransferAmounts : TransferNativeCurrency(from, to, amt)
  \/ \E who \in Accounts, c \in CurrencyIds, by \in UpdateAmounts : UpdateBalance(who, c, by)
  \/ \E c \in CurrencyIds, accs \in SUBSET (Accounts \ {DustAccount}) : SweepDust(c, accs)

Spec == Init /\ [][Next]_vars

------------------------------------------------------------------------------
(* Properties.                                                             *)

TypeOK ==
  /\ free \in [CurrencyIds -> [Accounts -> Nat]]
  /\ totalIssuance \in [CurrencyIds -> 0 .. MaxIssuance]

\* TotalIssuance of every currency equals the sum of its balances, across
\* transfers, deposits, withdrawals, native reaping (dust dropped and burnt)
\* and token dust moved to DustAccount by TransferDust or sweep_dust.
IssuanceTracksBalances ==
  \A c \in CurrencyIds : totalIssuance[c] = SumFunction(free[c])

=============================================================================

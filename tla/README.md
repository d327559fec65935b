# TLA+ models of Setheum: collateral auctions, SERP, prices, currencies and signatures

This directory holds TLA+ specifications of the collateral auction manager of
Setheum (`lib-serml/auction-manager`), of the currencies ledger as its test
runtime and benchmarks drive it, of SERP Setmint's loan authorizations, of the
price provider, and of `SetheumMultiSignature`, the TLC
configurations that check them, and
`PROJECT.json`. `PROJECT.json` lists the components, runs, mutants, the mapping
from each definition to source lines, the findings and the hazards.

## What the source contains, and what the models follow

The source snapshot under `src/` does **not** contain the auction manager pallet
itself (`auction-manager/src/lib.rs`). It contains that pallet's unit tests
(`tests.rs`), the collaborator traits (`support/src/lib.rs`), the tests of
`prices`, `serp-setmint` and `serp-treasury`, two test runtimes (`serp-prices`
and `currencies` mocks), a benchmark, the multi-signature type and a weights
index. Each action of the auction modules therefore follows `spec.md`, pinned
down by the effects the unit tests assert:
- the end set at creation (`tests.rs:54-60`);
- the soft-cap halving and doubling (`42-48`, `162-176`);
- the reverse-stage shrink and the refund (`112-160`);
- the DEX override of a forward bid (`341-391`);
- the cancel effects (`420-484`);
- the offchain worker's budget and cursor (`519-596`).

`map` in `PROJECT.json` points each definition at the test lines that fix its
behaviour. A definition that no test pins is marked `spec_modelled`: the engine's
block time, the shutdown switch, `validate_unsigned`, dropped transactions and
genesis.

`support/src/lib.rs` contains a second `fn burn_setter(who, amount: ...)` in
`SerpTreasury` (line 216). That line is a parameter without a type and a
duplicate name, so the crate does not compile as it stands. This is noted here
only; it has no behaviour to model.

## Inventory

| Part | Code | State | Operations | Modelled in |
|---|---|---|---|---|
| Pricing Policy | `CollateralAuctionItem` methods, `get_auction_time_to_close`, `get_minimum_increment_size`, `check_minimum_increment` | none (pure) | 7 pure functions | `AuctionPricing` |
| Auction Ledger | `CollateralAuctions`, `TotalCollateralInAuction`, `TotalTargetInAuction`, `AuctionsIndex` | items, aggregates | `new_collateral_auction` | `AuctionManager` |
| Bid Admission | `collateral_auction_bid_handler`, `on_new_bid`, `swap_bidders` | engine record (bid, end), balances, surplus, consumers | bid | `AuctionManager` |
| Resolution | `collateral_auction_end_handler`, `cancel_collateral_auction`, `cancel` | treasury collateral, debit pool | end with bid / DEX override / DEX sale / stranded, retry, cancel | `AuctionManager` |
| Emergency Unwind Sweeper | `offchain_worker`, `_offchain_worker`, `submit_cancel_auction_tx`, `validate_unsigned` | lock deadline, cursor, tx pool, running workers | start, iterate, finish, include, drop | `AuctionSweeper` |
| Collaborator traits | `SetheumDEXManager`, `SerpTreasury`, `PriceProvider` | (owned by other pallets) | quote, swap, relative price | inputs of `AuctionManager`; `Prices` |
| Prices | `prices` tests, `PriceProvider` | locked prices, oracle values, LP-share issuance | get_price, get_relative_price, lock, unlock | `Prices` |
| SERP Setmint | `serp-setmint` tests | authorizations and deposits, loans, shutdown | authorize, unauthorize(_all), adjust, transfer, close | `SerpSetmint` |
| SERP Treasury | `SerpTreasury` trait, `serp-treasury` tests | balances, issuance | issue/burn standard and setter, deposit_setter, deposit_surplus | not modelled: thin wrappers over the `Currencies` ledger's deposit, withdraw and transfer |
| Auction lifecycle (abstract) | what spec.md 3 and 4 promise of one auction | status, lot, stage, due, shutdown | create, bid, expire, settle, cancel, shutdown | `AuctionLifecycle` |
| Currencies ledger | `currencies/src/mock.rs` (pallet_balances and orml_tokens wiring, ExtBuilder), `benchmarking/currencies.rs` | free balances, total issuance | transfer, transfer_native_currency, update_balance, sweep_dust | `Currencies` |
| Multi-signature | `signature.rs` | none (pure) | From, TryFrom, Default, verify | `MultiSignature` |
| serp-prices mock | `serp-prices/src/mock.rs` | none that changes | oracle and pool tables, no-op `feed_value`, LockOrigin | fixture of `MC_Prices` |
| Weights | `weights/mod.rs` | none | declarations | not modelled |

How the parts interact:
1. A liquidation deposits the seized collateral into the CDP treasury and
   creates an auction. `new_collateral_auction` itself neither takes nor
   checks the collateral: the deposit is the caller's separate call.
2. Bidders pay stablecoin into the treasury's surplus pool, refunding the
   previous bidder. In the reverse stage the collateral shrinks and the
   difference is withdrawn to the refund recipient.
3. At its end the engine calls the end handler. The handler deals the
   collateral to the bidder, sells it on the DEX (when the bid is below the
   quote, or when there is no bid), or leaves it stranded when no path exists.
4. After emergency shutdown, the offchain worker of every block tries the
   lock. The holder walks the auction map from the cursor and submits unsigned
   `cancel` transactions. Blocks include them, and `cancel` refunds the bidder
   by issuing debit.

What makes the code hard to test, in the order `PROJECT.json` "hazards" lists it:
- the soft-close end;
- a cancel validated before a reverse bid and dispatched after it;
- overlapping sweeps when the lock lapses;
- a budget spent exactly on the last entry;
- lost or failed cancel transactions;
- the shutdown drain;
- a run ending when the lock lapsed;
- aggregate overflow;
- successive reverse shrinks;
- reference counting across bid replacements;
- double rounding;
- the DEX override's debit issue;
- quote against actual swap output (the surplus pool is credited the quote);
- hashed-key order;
- stranded items;
- native reaping that must burn its dust;
- token dust moved by TransferDust;
- a native transfer below the deposit into a new account;
- sweep_dust over lists mixing dust and non-dust accounts;
- the hashed ECDSA account;
- unauthorize_all releasing every deposit;
- relative prices at a zero or missing price;
- a locked price against later oracle feeds;
- LP prices at zero issuance;
- the double rounding of `collateral_amount`;
- an auction created without its collateral deposited.

## Modules

- **`AuctionPricing`**: the pure pricing operators. CONSTANTS `FixedAccuracy` (FixedU128
  accuracy, scaled down), `MinimumIncrementSize` (percent), `AuctionTimeToClose`,
  `AuctionDurationSoftCap`. `CollateralAmount` floors twice, as
  `checked_from_rational` followed by `checked_mul_int` does.
- **`AuctionManager`** (EXTENDS `AuctionPricing`): the ledger, the engine record and the
  collaborators' balances.
  - VARIABLES:
    - `nextId`
    - `collateralAuctions` (id to item or `NoAuction`)
    - `auctionInfo` (id to `[bid, remaining]` or `NoAuction`)
    - the two aggregates
    - `totalCollaterals` (treasury)
    - `surplusPool`, `debitPool`
    - `stable` (account balances)
    - `consumers`
    - `shutdown`
    - `dexPaidOut` (stablecoin the DEX paid in)
  - Time is relative: an engine record keeps the blocks left to its end, and an
    item keeps its age, capped at the soft cap (the only age the code compares).
    `Tick` is the end of a block and requires `on_finalize` to have resolved
    every due auction.
  - Actions:
    - `CreateAuction`: a bare `new_collateral_auction` (zero amount and
      aggregate overflow refused; nothing deposited, tests 84-108, 194-195)
    - `DepositCollateralStep`: the treasury's `deposit_collateral` on its own
    - `Liquidate` (sweeper runs only): deposit then create, as the tests do
    - `CollateralAuctionBid`
    - `OnAuctionEnded`, which calls `EndWithBid` or `EndWithoutBid`
    - `RetryDexLiquidation`
    - `CancelAuction`
    - `EmergencyShutdown`
    - `Tick`
  - Shared effects are helpers: `NewCollateralAuction`, `SwapBidders`,
    `Remove` (the common tail of end and cancel), `DexTake`,
    `DepositCollateral`, `AggregatesFit`, `NotInReverseStage`.
  - A DEX sale has two inputs, drawn together from `DexOutcomes`: the quote of
    `get_swap_target_amount` and the amount the swap delivers (or no path).
    `DexTake` credits the surplus pool with the quote and pays the owner the
    swap result minus the target, as tests 192-218 and 356-384 assert (498
    credited, 497 delivered, 297 excess).
- **`AuctionSweeper`** (EXTENDS `AuctionManager`): the sweeper composed with the manager.
  - VARIABLES:
    - `lockRemaining` (blocks until the lock lapses)
    - `cursor`
    - `pool` (ids with a pending `cancel`; the `provides` tag deduplicates)
    - `worker` (per concurrent offchain-worker run: running, last key, count)
  - `KeyOrder` gives the hashed storage-key order of the ids.
  - Actions:
    - `StartSweep` (try_lock)
    - `SweepStep` (submit after `validate_unsigned`, then `extend_lock`; a lapsed
      lock ends the run without saving the cursor)
    - `FinishSweep` (save or clear the cursor; the lock is kept)
    - `IncludeCancel` (dispatch of `cancel`)
    - `CancelTxLost` (dropped, or dispatched and failed)
    - `SweepTick`
  - Direct `cancel` calls are unsigned-only (`ensure_none`), so here a
    `CancelAuction` step happens only through the pool.
- **`AuctionLifecycle`**: the abstract specification of one auction's life, with no
  amounts of stablecoin, bidders, prices or time. VARIABLES `status`
  (unused/open/closed), `lot`, `protected` (last bid in the reverse stage),
  `due` (end reached), `shut`. Actions `Create` (least unused id), `PlaceBid`
  (before the end; the lot only shrinks; the reverse stage is never left),
  `Expire`, `Settle` (only when due), `Cancel` (only after shutdown, outside the
  reverse stage), `Shutdown`. `AuctionManager` instantiates it (`Lifecycle ==
  INSTANCE AuctionLifecycle WITH ...`) under this mapping: an id at or beyond
  `AuctionsIndex` is unused, a used id without an item is closed; the lot is the
  item's amount; protected is `in_reverse_stage` of the engine's last bid; due
  means the engine record has reached its end or is gone while the item stays.
- **`Currencies`**: the MultiCurrency ledger as the currencies mock wires it.
  VARIABLES `free` (currency to account to balance) and `totalIssuance`.
  - The native currency goes through `BasicCurrencyAdapter` to pallet_balances:
    an account left below `ExistentialDeposit` is reaped and its remainder
    dropped (`DustRemoval = ()`), so issuance falls. A native deposit below the
    deposit into an empty account is ignored.
  - Every other currency goes to orml_tokens: a non-zero balance below
    `ExistentialDeposits(currency)` is moved by `TransferDust` to `DustAccount`,
    except on module (PalletId) accounts.
  - Actions, one per benchmarked dispatchable: `Transfer`,
    `TransferNativeCurrency`, `UpdateBalance` (a positive amount is `Deposit`, a
    negative one `Withdraw`), `SweepDust`. `Commit` is the common tail that
    reaps or dusts the touched accounts. `Init` is `ExtBuilder::build`'s split
    of the endowments between the two genesis configs.
  - orml_tokens, pallet_balances and the currencies pallet are not in the
    snapshot: their behaviour follows those crates at the versions the mock
    configures. The ERC20 route through `EVMBridge`, reserves and locks are
    left out.
- **`MultiSignature`**: the enum, the conversions, `Default` and `verify`.
  Cryptography is abstract: a signature is the key that made it and the
  message; `blake2_256` is an injective tag; ECDSA recovery over another message
  yields some other key. The state is one input (signature, message, account);
  `Init` and `Next` choose any input, so the invariants compare `Verify` and the
  conversions with reference definitions over every input.
- **`SerpSetmint`**: VARIABLES `authorization` (owner, currency, grantee),
  native `free` and `reserved`, `positions` (collateral, debit per currency and
  account) and `shutdown`. One action per dispatchable of the tests. Each
  authorization reserves `DepositPerAuthorization`. `transfer_loan_from` needs
  the owner's authorization of the caller. Every loan call fails with
  `AlreadyShutdown` after shutdown. The risk check through the CDP engine is
  not modelled.
- **`Prices`**: `get_price` (fixed price, LP share as
  pool_0 / issuance * price(token_0) * 2, else locked or oracle price, times the
  decimal adjustment), `get_relative_price` (floored `checked_div`),
  `lock_price` (stores the oracle's raw value), `unlock_price`, the mock's no-op
  `feed_value`, the oracle operators' feeds (`OracleFeed`; the runtime's
  DataProvider changes, the mock's does not), and orml_tokens deposits and
  withdrawals of LP shares. Prices are integers scaled by `Accuracy`.
  VARIABLES `lockedPrice`, `oracle` and `shareIssuance`. `MC_Prices` instantiates it with the serp-prices mock's
  tables.
- **`MC_AuctionManager`, `MC_AuctionSweeper`**: model values for accounts, currency and
  workers, the key order, and symmetry over accounts (and workers) for the safety runs.
- **`MC_Currencies`, `MC_MultiSignature`**: model values for accounts, currencies,
  keys and messages, and the deposits and endowments below.

## Runs

| Run | cfg | Expect | What it shows |
|---|---|---|---|
| core | `MC_AuctionManager.cfg` | pass (156k states) | Under bare creation, separate deposits, bids, resolution, DEX sales, retries, shutdown and cancel: the aggregates equal the sums over live auctions; consumer references count exactly owned auctions and current top bids; the manager implements `AuctionLifecycle` (property `ImplementsLifecycle`, which includes: no auction in the reverse stage is cancelled); and a reverse-stage bid never leaves the new bidder more collateral than the displaced price per unit buys at its own price, nor loses the owner more than the roundings allow (`ReverseBidRespectsPrice`). |
| sweeper | `MC_AuctionSweeper.cfg` | pass (884k states) | With liquidations, bids, resolution, two overlapping worker runs, lock lapses and a lossy pool, the sweeper's state stays within its bounds: no run iterates past its budget (`SweepTypeOK`). |
| sweeper_live | `MC_AuctionSweeper_Live.cfg` | pass (245k states) | After shutdown every auction eventually disappears, despite lock lapses, lost or failed cancels, early exits and cursor resumption (`ShutdownDrainsAuctions`). |
| currencies | `MC_Currencies.cfg` | pass (103k states) | Total issuance equals the sum of balances through native reaping (dust dropped) and token dust moved to `DustAccount` (`IssuanceTracksBalances`). |
| multisig | `MC_MultiSignature.cfg` | pass (312 states) | `verify` accepts exactly the signer of the message for every variant, for ECDSA against `blake2_256` of the recovered key (`VerifiesExactlyForSigner`). |
| setmint | `MC_SerpSetmint.cfg` | pass (58k states) | Each reserve is one deposit per authorization granted, with no native balance lost, through any mix of authorize, unauthorize, unauthorize_all and loan calls (`ReservedBacksAuthorizations`). |
| prices | `MC_Prices.cfg` | pass (30k states) | With oracle feeds, locks, re-locks and unlocks in any order, a lock sets `get_price` to the oracle's value of that moment adjusted once for decimals, and a later feed never moves a locked price (`LockFreezesPrice`). |
| soft_close | `MC_AuctionManager_SoftClose.cfg` | violation | A bid on a fresh auction moves its end earlier (finding). |
| bid_dealt | `MC_AuctionManager_BidDealt.cfg` | violation | An auction ending with a bid is sold on the DEX (finding). |
| dex_surplus | `MC_AuctionManager_Surplus.cfg` | violation | A DEX sale credits the surplus pool with the quote, not with what the swap delivered (finding). |
| sweep_overlap | `MC_AuctionSweeper_Overlap.cfg` | violation | Two sweeps run at once after the lock lapses (finding). |
| sweep_cursor | `MC_AuctionSweeper_Cursor.cfg` | violation | With N = 2, B = 1 the cursor is still set after 2 runs (finding). |

Every property of a passing run has a mutant in `PROJECT.json`: a plausible bug
in a mapped definition, defined next to it. Each mutant makes TLC find the
property violated:
- the overflow check dropped (aggregates);
- the target aggregate not released on removal (aggregates);
- `swap_bidders` not releasing the last bidder (references);
- the dispatch-time stage check dropped (refinement);
- the reverse-stage shrink computed from the target alone (price);
- the budget check off by one (sweeper bounds);
- the cursor never cleared after the last item (drain: later runs resume
  past the end and never reach the remaining auctions);
- native dust dropped without lowering the issuance;
- a withdrawal without the balance check;
- the recovered ECDSA key compared without hashing;
- a loan adjustment not checked against going negative;
- `unauthorize_all` releasing a single deposit;
- an LP-share withdrawal above the issuance;
- `lock_price` storing the adjusted price (the lock then double-adjusts).

### Findings

1. **Soft close** (`tests.rs:167`). The bid handler always sets the end to
   `now + time_to_close`. The test expects a bid at block 1 to change an end of
   2000 to 101. spec.md 4.2 says a distant end is left unchanged.
2. **Bid not dealt** (`tests.rs:341-391`). A forward-stage bid below the DEX quote is
   overridden by a DEX sale, and the bidder is refunded by issuing debit.
   spec.md 4.3 says the auction is settled with the bidder.
3. **Sweeps overlap** (`tests.rs:38`). The lock is time-based. A run stalled past
   `LOCK_DURATION` overlaps the next block's run, and its `extend_lock` then
   succeeds on the other run's lock. What keeps the duplicate submissions
   harmless is the pool's `provides` tag and the dispatch-time checks, not the
   lock.
4. **Cursor off by one** (`tests.rs:590`). The iterator is finished only when it
   reads past the end within budget. A run that spends its budget on the last
   entry saves the cursor, and the next run clears it.
5. **Surplus credited with the quote** (`tests.rs:192-218`, `356-384`). A DEX
   sale credits the surplus pool with `get_swap_target_amount`'s quote (498)
   while the swap delivers 497 and the owner's excess is 497 - 200. spec.md 4.3
   says the proceeds are credited, so the surplus pool records stablecoin the
   treasury never received.

## Bounds

- Two accounts (the bidder swap, and a refund recipient who also bids).
- One currency.
- Two auctions: enough to share the aggregate and the treasury, and to make the
  key order differ from id order.
- Amounts `{2,4}` in `core` (`{2}` in the other runs), targets `{0,2}` (both stages; zero target is always-forward; `{2}`
  for the sweeper).
- Prices `{1,2,3,5}` in `core` (`{1,3}` in the other runs): forward, at target, and two successive reverse-stage bids (3
  then 5), so `collateral_amount` shrinks a lot twice, the second time by
  `max(last_bid, target) = last_bid`, and both fixed-point roundings bite.
  With the amounts `{1,2}` every second shrink reaches zero whichever
  numerator is used, and the rule `max(last_bid, target)` goes unchecked.
- `MaxBalance = 5` in `core` (3 or 4 in the other runs), so creating a second auction of
  amount 4 overflows.
- DEX quotes and results that lie above and below the target, plus no path.
- `AuctionTimeToClose = 2` and soft cap 3, so a bid both after and before the
  cap happens and the halving applies.
- Sweeper: budget 1 (so a sweep needs several runs and the cursor is
  persisted), lock duration 1 (so a stall lapses the lock), two concurrent
  workers for safety and one for liveness.
- Currencies: alice and bob endowed as `one_hundred_for_alice_n_bob` (scaled to 4)
  in the native currency and one token; a pallet account and `DustAccount` as
  module accounts; existential deposits 2 for both. The mock's own deposits (1
  native, 0 for tokens) make a balance strictly between 0 and the deposit
  impossible, so they would never exercise reaping or dust. Transfer amounts
  `{1,3,4}` reach a remainder of 1 (dust) and a whole balance; update amounts
  `{-3,-1,1,3}`; issuance capped at 9.
- Multi-signature: one key per scheme, two messages, one Ethereum payload:
  every variant, a right and a wrong message, and every account.
- Setmint: two accounts (symmetric), two collateral currencies, a deposit of 1
  out of an endowment of 3 (so the third authorization fails for want of
  balance), adjustments `{-1,0,1}` with positions capped at 1, so a merge can
  overflow the cap and be refused.
- Prices: the mock's five distinct tokens (the peg tokens without a price are
  the same as SETR) and two LP shares, `Accuracy` 100 (the mock's 0.99 is
  exact), issuance up to 3 shares, one oracle value (5000) that differs from
  every mock price, so a feed after a lock is visible; DNAR gets a decimal adjustment of 10, so raw
  and adjusted prices differ, because `MockCurrencyIdMapping`'s decimals are
  not in the snapshot.
- The cursor run is restricted to the scenario of spec.md 8: all auctions exist
  before shutdown, with no bids and no DEX path.

## Fairness (liveness run only)

- Weak fairness on `SweepTick`: blocks keep being produced.
- Weak fairness on `OnAuctionEnded`: `on_finalize` resolves due auctions.
- Weak fairness on the offchain worker's three steps: every validator runs its
  offchain worker each block.
- Strong fairness on `IncludeCancel`: a cancel that keeps being resubmitted
  while the pool may drop it in between is eventually included. This is an
  assumption on block authors and the oracle, stated as such.
- Bidders and the DEX get no fairness in `sweeper_live`.
- An item stranded for want of a DEX path outside shutdown is not checked to
  be resolved: only liquidity the code cannot ensure would resolve it, and a
  property assuming it would hold by that assumption. The sweeper runs create
  auctions by `Liquidate` (deposit first), as the liquidating caller does; an
  auction created without its collateral could not be cancelled, and the drain
  property says nothing about it.
- No symmetry reduction in the liveness run.

## Not modelled, and the plan for later sittings

1. A bound on the DEX override's proceeds once a source for the swap's slippage
   limit is available.

Not modelled at all:
- The peg, fiat and setter-basket prices (`get_peg_price`,
  `get_setter_basket_peg_price`, `get_coin_to_peg_relative_price`) and the
  serp-prices `OffchainPriceMock`. Their formulas are in the absent pallet, and
  the tests give single values only.
- Two prices tests contradict the modelled arithmetic and each other.
  `get_price_from_oracle` asserts DNAR's price to be 10^10 and then zero, with
  nothing in between (`prices/src/tests.rs:37-42`). `get_relative_price(USDJ,
  DNAR) = None` (`:107`) contradicts `checked_div` of the prices the same test
  implies. The model follows the other assertions.
- Serpup and serpdown, `serp_tes` and `SerpTreasuryExtended`'s swaps and
  auctions. Their tests are commented out and the source is absent.
- Setmint's collateral-ratio risk check, which belongs to the CDP engine (also
  absent).
- The weights index (module declarations only).
- The serp-prices mock's `OffchainPriceMock::get_price_for` returns `None` from
  a `u64` function (line 232), and its `Config` names `GetNativeCurrencyId` and
  `DirhamCurrencyId`, which it never defines, so the mock does not compile as it
  stands. Its tables are still the fixture `MC_Prices` uses.
- The ERC20 route, the EVM and SettPay pallets of the currencies mock.
- The benchmark's `STAKING`, which is used but never imported
  (`benchmarking/currencies.rs:46`). The model takes it to be a non-native token.

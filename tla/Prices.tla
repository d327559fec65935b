------------------------------- MODULE Prices -------------------------------
(***************************************************************************)
(* The prices pallet's PriceProvider operations (support/src/lib.rs       *)
(* 246-259) as the prices unit tests pin them, with the collaborators the *)
(* serp-prices test runtime wires (serp-prices/src/mock.rs): the oracle    *)
(* Source, the DEX pools and the LP-share issuance kept by orml_tokens.    *)
(*   - get_price: a currency with a fixed price takes it; an LP share is   *)
(*     priced as pool_0 / share issuance * price(token_0) * 2; any other   *)
(*     currency takes its locked price, else the oracle's; the result is   *)
(*     multiplied by the currency's decimal adjustment.                     *)
(*   - get_relative_price(base, quote): checked_div of the two prices.     *)
(*   - lock_price / unlock_price (LockOrigin): store the oracle's raw      *)
(*     value, or remove it.                                                 *)
(* Prices are FixedU128 values held as integers scaled by Accuracy; every  *)
(* checked operation floors and yields None on division by zero.  The      *)
(* pallet's lib.rs is not in this snapshot.  The oracle starts at the      *)
(* mock's values and may be fed new ones, as the runtime's oracle is; a    *)
(* lock then pins a price the oracle has since left.                       *)
(***************************************************************************)
EXTENDS Integers

CONSTANTS
  Tokens,        \* ordinary currencies
  LPShares,      \* DexShare currencies
  LPPair,        \* LP share -> <<token_0, token_1>>
  Source,        \* token -> oracle price (scaled) or None at genesis
  OracleValues,  \* prices an oracle feed may later carry
  FixedPrices,   \* token -> fixed price, for the currencies priced by constant
  Adjust,        \* currency -> 10^(18 - decimals), scaled
  Pool,          \* <<a, b>> -> <<pool_a, pool_b>> (DEX get_liquidity_pool)
  Accuracy,      \* FixedU128::accuracy(), scaled down
  Origins,       \* signed origins
  LockOrigin,    \* EnsureSignedBy<One>
  ShareAmounts,  \* LP-share amounts deposited or withdrawn
  MaxShares,     \* bound on an LP share's issuance
  None

CurrencyIds == Tokens \cup LPShares

ASSUME None \notin Nat
ASSUME \A lp \in LPShares : LPPair[lp] \in Tokens \X Tokens

VARIABLES
  lockedPrice,   \* LockedPrice: token -> raw price or None
  shareIssuance, \* orml_tokens TotalIssuance of each LP share
  oracle         \* what T::Source::get returns now: token -> price or None

vars == <<lockedPrice, shareIssuance, oracle>>

\* Price::checked_from_rational(n, d) and checked_mul, flooring.
FromRational(n, d) == IF d = 0 THEN None ELSE (n * Accuracy) \div d
MulPrice(a, b) == IF a = None \/ b = None THEN None ELSE (a * b) \div Accuracy

\* The oracle value a token is read at: locked, else Source::get.
FeedPrice(c) == IF lockedPrice[c] # None THEN lockedPrice[c] ELSE oracle[c]

Adjusted(p, c) == IF p = None THEN None ELSE p * Adjust[c]

TokenPrice(c) ==
  IF c \in DOMAIN FixedPrices THEN Adjusted(FixedPrices[c], c)
  ELSE Adjusted(FeedPrice(c), c)

\* get_price of an LP share: its part of pool_0, valued at token_0, doubled.
LPPrice(lp) ==
  LET t0 == LPPair[lp][1]
      ratio == FromRational(Pool[LPPair[lp]][1], shareIssuance[lp])
      p == MulPrice(ratio, TokenPrice(t0))
  IN IF p = None THEN None ELSE p * 2

GetPrice(c) == IF c \in LPShares THEN LPPrice(c) ELSE TokenPrice(c)

\* get_relative_price: both prices, then base.checked_div(quote).
GetRelativePrice(b, q) ==
  LET pb == GetPrice(b)
      pq == GetPrice(q)
  IN IF pb = None \/ pq = None THEN None ELSE FromRational(pb, pq)

\* Mutant: the lock stores the adjusted price get_price returns.
LockPriceAdjusted(o, c) ==
  /\ o = LockOrigin
  /\ GetPrice(c) # None
  /\ lockedPrice' = [lockedPrice EXCEPT ![c] = GetPrice(c)]
  /\ UNCHANGED <<shareIssuance, oracle>>

\* lock_price(currency_id): BadOrigin unless LockOrigin; when the oracle
\* has a value it is stored (an existing lock is overwritten), otherwise
\* nothing happens.
LockPrice(o, c) ==
  /\ o = LockOrigin
  /\ oracle[c] # None
  /\ lockedPrice' = [lockedPrice EXCEPT ![c] = oracle[c]]
  /\ UNCHANGED <<shareIssuance, oracle>>

\* unlock_price(currency_id): BadOrigin unless LockOrigin; remove the lock.
UnlockPrice(o, c) ==
  /\ o = LockOrigin
  /\ lockedPrice' = [lockedPrice EXCEPT ![c] = None]
  /\ UNCHANGED <<shareIssuance, oracle>>

\* MockDataProvider's DataFeeder::feed_value: Ok(()) and no effect.
FeedValue(o, c) == UNCHANGED vars

\* The oracle's operators feed a new value for a token (the runtime's
\* DataProvider; the test runtime's MockDataProvider never changes).
OracleFeed(c, v) ==
  /\ oracle' = [oracle EXCEPT ![c] = v]
  /\ UNCHANGED <<lockedPrice, shareIssuance>>

\* orml_tokens deposit / withdraw of LP shares (ExistentialDeposits 0, so
\* no dust): the share issuance the LP price divides by.
DepositShares(lp, v) ==
  /\ shareIssuance[lp] + v <= MaxShares
  /\ shareIssuance' = [shareIssuance EXCEPT ![lp] = @ + v]
  /\ UNCHANGED <<lockedPrice, oracle>>

\* Mutant: a withdrawal larger than the issuance is not refused.
WithdrawSharesUnchecked(lp, v) ==
  /\ shareIssuance' = [shareIssuance EXCEPT ![lp] = @ - v]
  /\ UNCHANGED <<lockedPrice, oracle>>

WithdrawShares(lp, v) ==
  /\ shareIssuance[lp] >= v
  /\ shareIssuance' = [shareIssuance EXCEPT ![lp] = @ - v]
  /\ UNCHANGED <<lockedPrice, oracle>>

\* ExtBuilder::build: empty genesis, no lock and no shares.
Init ==
  /\ lockedPrice = [c \in Tokens |-> None]
  /\ shareIssuance = [lp \in LPShares |-> 0]
  /\ oracle = [c \in Tokens |-> Source[c]]

Next ==
  \/ \E o \in Origins, c \in Tokens : LockPrice(o, c) \/ UnlockPrice(o, c) \/ FeedValue(o, c)
  \/ \E lp \in LPShares, v \in ShareAmounts : DepositShares(lp, v) \/ WithdrawShares(lp, v)
  \/ \E c \in Tokens, v \in OracleValues : OracleFeed(c, v)

Spec == Init /\ [][Next]_vars

------------------------------------------------------------------------------
(* Properties.                                                             *)

TypeOK ==
  /\ lockedPrice \in [Tokens -> Nat \cup {None}]
  /\ shareIssuance \in [LPShares -> 0 .. MaxShares]
  /\ oracle \in [Tokens -> Nat \cup {None}]

\* lock_price pins the price the system settles at: a lock (or a re-lock)
\* makes get_price the decimal-adjusted value the oracle gives at that
\* moment, adjusted once (tests 166-175), and while the lock stays no oracle
\* feed moves it (the LockedPrice overlay, tests 148-159).
LockFreezesPrice ==
  [][\A c \in Tokens \ DOMAIN FixedPrices :
       /\ lockedPrice'[c] \notin {None, lockedPrice[c]}
            => GetPrice(c)' = Adjusted(oracle[c], c)
       /\ lockedPrice[c] # None /\ lockedPrice'[c] = lockedPrice[c]
            => GetPrice(c)' = GetPrice(c)]_vars

=============================================================================

------------------------------ MODULE MC_Prices ------------------------------
(* The serp-prices test runtime (serp-prices/src/mock.rs): its currencies,  *)
(* MockDataProvider's prices, MockDEX's pools and LockOrigin = One.  Prices *)
(* are scaled by an Accuracy of 100.                                        *)
EXTENDS Prices

CONSTANTS SETUSD, BTC, DNAR, DRAM, SETR, LP_BTC_SETUSD, LP_SETUSD_DRAM, ONE, ALICE

\* The mock's tokens; SETEUR .. SETSAR have no oracle price, like SETR,
\* and are left out as indistinguishable from it.
MCTokens == {SETUSD, BTC, DNAR, DRAM, SETR}
MCLPShares == {LP_BTC_SETUSD, LP_SETUSD_DRAM}
MCLPPair == [lp \in MCLPShares |-> IF lp = LP_BTC_SETUSD THEN <<BTC, SETUSD>> ELSE <<SETUSD, DRAM>>]

\* MockDataProvider::get: SETUSD 99/100, BTC 50000, DNAR 100, DRAM zero,
\* anything else None.
MCSource ==
  [c \in MCTokens |->
     CASE c = SETUSD -> 99
       [] c = BTC    -> 50000 * 100
       [] c = DNAR   -> 100 * 100
       [] c = DRAM   -> 0
       [] OTHER      -> None]

\* MockDEX::get_liquidity_pool: (SETUSD, DNAR) holds (10000, 200), every
\* other pair is empty.
MCPool == [p \in MCTokens \X MCTokens |-> IF p = <<SETUSD, DNAR>> THEN <<10000, 200>> ELSE <<0, 0>>]

\* The decimals of MockCurrencyIdMapping (support::mocks) are not in this
\* snapshot; DNAR is given an adjustment of 10 so that raw and adjusted
\* prices differ, every other currency 1.
MCAdjust == [c \in MCTokens \cup MCLPShares |-> IF c = DNAR THEN 10 ELSE 1]

\* LockOrigin = EnsureSignedBy<One>: account 1.
MCLockOrigin == ONE

\* The serp-prices Config (Source = MockDataProvider, DEX = MockDEX,
\* LockOrigin, CurrencyIdMapping) names no fixed-price currency.
MCFixedPrices == [c \in {} |-> 0]
====

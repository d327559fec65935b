--------------------------- MODULE AuctionPricing ---------------------------
(***************************************************************************)
(* Pricing Policy of the collateral auction manager (spec.md 4.1): pure    *)
(* operators over an auction item and bid prices.  The pallet's            *)
(* CollateralAuctionItem methods are not in this source snapshot; each     *)
(* operator follows spec.md and the values pinned by the unit tests in     *)
(* src/lib-serml/auction-manager/src/tests.rs.                             *)
(*                                                                         *)
(* Time is relative: an auction carries its age (now - start_time, capped  *)
(* at AuctionDurationSoftCap, the only age the code compares against).    *)
(***************************************************************************)
EXTENDS Naturals

CONSTANTS
  FixedAccuracy,          \* DIV of the FixedU128 Rate used by collateral_amount
  MinimumIncrementSize,   \* minimum bid increment, in percent of max(target, last)
  AuctionTimeToClose,     \* end-time extension granted by an accepted bid
  AuctionDurationSoftCap  \* age after which the increment doubles, the window halves

ASSUME FixedAccuracy \in Nat \ {0}
ASSUME MinimumIncrementSize \in Nat
ASSUME AuctionTimeToClose \in Nat \ {0}
ASSUME AuctionDurationSoftCap \in Nat \ {0}

MinOf(a, b) == IF a <= b THEN a ELSE b
MaxOf(a, b) == IF a >= b THEN a ELSE b

\* always_forward: a zero target never enters the reverse stage.
AlwaysForward(item) == item.target = 0

\* in_reverse_stage: the bid has reached the target of a non-zero-target auction.
InReverseStage(item, bid) == ~AlwaysForward(item) /\ bid >= item.target

\* payment_amount: what the bidder owes; capped at the target unless always-forward.
PaymentAmount(item, bid) ==
  IF AlwaysForward(item) THEN bid ELSE MinOf(item.target, bid)

\* Rate::checked_from_rational(n, d) and Rate::checked_mul_int(x): each step
\* rounds down to the fixed-point accuracy.
FixedFromRational(n, d) == (n * FixedAccuracy) \div d
FixedMulInt(f, x) == (f * x) \div FixedAccuracy

\* Mutant: the shrink is always proportional to target / new_bid, so a
\* second reverse-stage bid ignores the price the first one reached.
CollateralAmountTargetOnly(item, lastBid, newBid) ==
  IF InReverseStage(item, newBid) /\ newBid > 0
  THEN FixedMulInt(FixedFromRational(item.target, newBid), item.amount)
  ELSE item.amount

\* collateral_amount(last_bid, new_bid): in the reverse stage the collateral
\* shrinks in proportion max(last_bid, target) / new_bid.
CollateralAmount(item, lastBid, newBid) ==
  IF InReverseStage(item, newBid) /\ newBid > 0
  THEN FixedMulInt(FixedFromRational(MaxOf(lastBid, item.target), newBid), item.amount)
  ELSE item.amount

\* get_auction_time_to_close(now, start): halves once the soft cap has passed.
GetAuctionTimeToClose(age) ==
  IF age >= AuctionDurationSoftCap THEN AuctionTimeToClose \div 2 ELSE AuctionTimeToClose

\* get_minimum_increment_size(now, start): doubles once the soft cap has passed.
GetMinimumIncrementSize(age) ==
  IF age >= AuctionDurationSoftCap THEN 2 * MinimumIncrementSize ELSE MinimumIncrementSize

\* check_minimum_increment: new - last must be at least increment * max(target, last).
CheckMinimumIncrement(newBid, lastBid, target, increment) ==
  /\ newBid >= lastBid
  /\ newBid - lastBid >= (increment * MaxOf(target, lastBid)) \div 100

=============================================================================

--------------------------- MODULE AuctionManager ---------------------------
(***************************************************************************)
(* Collateral auction manager: the Auction Ledger, Bid Admission and       *)
(* Settlement, and Auction Resolution of spec.md (4.2, 4.3), together with *)
(* the parts of its collaborators the properties need: the generic auction *)
(* engine's record (bid, end), the CDP treasury (collateral held, surplus  *)
(* and debit pools), stablecoin balances, account consumer references and  *)
(* the emergency-shutdown flag.                                            *)
(*                                                                         *)
(* The pallet source is not in this snapshot: every action follows         *)
(* spec.md and the effects its unit tests assert                          *)
(* (src/lib-serml/auction-manager/src/tests.rs).                           *)
(*                                                                         *)
(* Time is relative.  An engine record keeps `remaining`, the blocks left  *)
(* until its end time; an item keeps its `age` (capped).  Tick is the end  *)
(* of a block: on_finalize must first have resolved every due auction.   *)
(***************************************************************************)
EXTENDS AuctionPricing, FiniteSetsExt

CONSTANTS
  Accounts,             \* bidders and refund recipients
  CollateralCurrencies, \* currencies that can be auctioned
  MaxAuctions,          \* bound on AuctionsIndex: ids are 0 .. MaxAuctions-1
  Amounts,              \* collateral amounts a liquidation may seize
  Targets,              \* debt targets a liquidation may ask for
  BidPrices,            \* prices a bidder may offer
  InitialStable,        \* stablecoin balance of every account at genesis
  MaxBalance,           \* Balance::max_value() for the aggregate counters
  DexQuotes,            \* get_swap_target_amount on the direct path (0 = None)
  DexResults,           \* outcome of the treasury's DEX swap, NoPath on failure
  SettlePrices,         \* oracle relative price, in percent, used by cancel
  NoAuction, NoBid, NoPath

ASSUME MaxAuctions \in Nat \ {0}
ASSUME Amounts \subseteq Nat /\ Targets \subseteq Nat /\ BidPrices \subseteq Nat
ASSUME DexQuotes \subseteq Nat /\ DexResults \subseteq (Nat \cup {NoPath})

VARIABLES
  nextId,                   \* AuctionsIndex of the auction engine
  collateralAuctions,       \* CollateralAuctions: id -> item or NoAuction
  auctionInfo,              \* engine's Auctions: id -> [bid, remaining] or NoAuction
  totalCollateralInAuction, \* TotalCollateralInAuction: currency -> Balance
  totalTargetInAuction,     \* TotalTargetInAuction
  totalCollaterals,         \* CDP treasury collateral: currency -> Balance
  surplusPool,              \* CDP treasury surplus (stablecoin it holds)
  debitPool,                \* CDP treasury debit (stablecoin it issued)
  stable,                   \* stablecoin free balance: account -> Balance
  consumers,                \* frame_system consumer references: account -> Nat
  shutdown,                 \* EmergencyShutdown::is_shutdown()
  dexPaidOut                \* stablecoin the DEX has paid the treasury

vars == <<nextId, collateralAuctions, auctionInfo, totalCollateralInAuction,
          totalTargetInAuction, totalCollaterals, surplusPool, debitPool,
          stable, consumers, shutdown, dexPaidOut>>

AuctionIds == 0 .. (MaxAuctions - 1)

Item == [refundRecipient : Accounts, currency : CollateralCurrencies,
         amount : Nat, target : Targets, age : 0 .. AuctionDurationSoftCap]

Bid == Accounts \X BidPrices

Info == [bid : Bid \cup {NoBid}, remaining : 0 .. AuctionDurationSoftCap]

Live == {i \in AuctionIds : collateralAuctions[i] # NoAuction}

LastBidPrice(bid) == IF bid = NoBid THEN 0 ELSE bid[2]

DecSat(n) == IF n > 0 THEN n - 1 ELSE 0

------------------------------------------------------------------------------
(* Collaborator effects shared by several handlers.                        *)

\* Mutant: the last bidder's reference is never released.
SwapBiddersNoRelease(c, newBidder, lastBid) == [c EXCEPT ![newBidder] = @ + 1]

\* swap_bidders: the new bidder gains a consumer reference, the last loses one.
SwapBidders(c, newBidder, lastBid) ==
  LET inc == [c EXCEPT ![newBidder] = @ + 1]
  IN IF lastBid = NoBid THEN inc ELSE [inc EXCEPT ![lastBid[1]] = DecSat(@)]

\* Mutant: the target aggregate is not decreased on removal.
RemoveKeepTarget(id, item, bid, cons) ==
  LET decOwner == [cons EXCEPT ![item.refundRecipient] = DecSat(@)]
  IN
  /\ consumers' = IF bid = NoBid THEN decOwner ELSE [decOwner EXCEPT ![bid[1]] = DecSat(@)]
  /\ totalCollateralInAuction' =
       [totalCollateralInAuction EXCEPT ![item.currency] = MaxOf(@ - item.amount, 0)]
  /\ UNCHANGED totalTargetInAuction
  /\ collateralAuctions' = [collateralAuctions EXCEPT ![id] = NoAuction]

\* The common tail of the end and cancel handlers: release the references of
\* the refund recipient and the bidder, decrease the aggregates, remove the item.
Remove(id, item, bid, cons) ==
  LET decOwner == [cons EXCEPT ![item.refundRecipient] = DecSat(@)]
  IN
  /\ consumers' = IF bid = NoBid THEN decOwner ELSE [decOwner EXCEPT ![bid[1]] = DecSat(@)]
  /\ totalCollateralInAuction' =
       [totalCollateralInAuction EXCEPT ![item.currency] = MaxOf(@ - item.amount, 0)]
  /\ totalTargetInAuction' = MaxOf(totalTargetInAuction - item.target, 0)
  /\ collateralAuctions' = [collateralAuctions EXCEPT ![id] = NoAuction]

\* A DEX outcome: get_swap_target_amount on the path (0 = None) and the
\* result of the swap that follows it.  No swap is made without a quote, and
\* none yields more than quoted (tests 192, 206: quote 498, 497 delivered).
DexOutcomes ==
  {o \in DexQuotes \X DexResults :
     IF o[1] = 0 THEN o[2] = NoPath ELSE o[2] = NoPath \/ o[2] <= o[1]}

\* swap_exact_collateral_in_auction_to_stable followed by the excess refund:
\* the treasury sells the item's collateral and the surplus pool is credited
\* with the quoted amount (tests 218, 384: +498), while the excess over the
\* target issued to the refund recipient as debit is what the swap delivered
\* (tests 215-217, 381-383: 497 - 200 = 297).
DexTake(item, quote, result, stableBefore, debitBefore) ==
  LET excess == IF InReverseStage(item, result) THEN result - item.target ELSE 0
  IN
  /\ totalCollaterals[item.currency] >= item.amount
  /\ totalCollaterals' = [totalCollaterals EXCEPT ![item.currency] = @ - item.amount]
  /\ surplusPool' = surplusPool + quote
  /\ dexPaidOut' = dexPaidOut + result
  /\ stable' = [stableBefore EXCEPT ![item.refundRecipient] = @ + excess]
  /\ debitPool' = debitBefore + excess

------------------------------------------------------------------------------
(* Operations.                                                             *)

\* Mutant: the aggregates are added to without checked_add.
AggregatesFitUnchecked(c, amount, target) == TRUE

\* checked_add on TotalCollateralInAuction and TotalTargetInAuction.
AggregatesFit(c, amount, target) ==
  /\ totalCollateralInAuction[c] + amount <= MaxBalance
  /\ totalTargetInAuction + target <= MaxBalance

\* CDPTreasury::deposit_collateral(who, currency, amount), as the tests call
\* it before creating an auction (tests 119, 182): the treasury's collateral
\* grows; the depositor's own collateral balance is not modelled.
DepositCollateral(c, amount) ==
  /\ totalCollaterals[c] + amount <= MaxBalance
  /\ totalCollaterals' = [totalCollaterals EXCEPT ![c] = @ + amount]

\* new_collateral_auction: zero amount or an aggregate overflow is
\* InvalidAmount; nothing is deposited (tests 84-108: no deposit is made and
\* the treasury's collateral is untouched, 194-195).
NewCollateralAuction(owner, c, amount, target) ==
  /\ nextId < MaxAuctions
  /\ amount # 0
  /\ AggregatesFit(c, amount, target)
  /\ collateralAuctions' = [collateralAuctions EXCEPT ![nextId] =
        [refundRecipient |-> owner, currency |-> c, amount |-> amount,
         target |-> target, age |-> 0]]
  /\ auctionInfo' = [auctionInfo EXCEPT ![nextId] =
        [bid |-> NoBid, remaining |-> AuctionDurationSoftCap]]
  /\ totalCollateralInAuction' = [totalCollateralInAuction EXCEPT ![c] = @ + amount]
  /\ totalTargetInAuction' = totalTargetInAuction + target
  /\ consumers' = [consumers EXCEPT ![owner] = @ + 1]
  /\ nextId' = nextId + 1
  /\ UNCHANGED <<surplusPool, debitPool, stable, shutdown, dexPaidOut>>

\* A deposit on its own, by any caller.
DepositCollateralStep(c, amount) ==
  /\ DepositCollateral(c, amount)
  /\ UNCHANGED <<nextId, collateralAuctions, auctionInfo, totalCollateralInAuction,
                 totalTargetInAuction, surplusPool, debitPool, stable, consumers,
                 shutdown, dexPaidOut>>

\* A bare new_collateral_auction call (tests 84-108).
CreateAuction(owner, c, amount, target) ==
  NewCollateralAuction(owner, c, amount, target) /\ UNCHANGED totalCollaterals

\* A liquidation as the tests perform it (119-120, 182-194): the seized
\* collateral is deposited into the treasury and the auction created.
Liquidate(owner, c, amount, target) ==
  NewCollateralAuction(owner, c, amount, target) /\ DepositCollateral(c, amount)

\* The engine's bid together with on_new_bid and collateral_auction_bid_handler.
\* The new bidder refunds the last bidder's payment, pays the rest into the
\* surplus pool; in the reverse stage the collateral shrinks and the excess is
\* withdrawn to the refund recipient; the end becomes now + time_to_close.
CollateralAuctionBid(w, id, price) ==
  LET info      == auctionInfo[id]
      item      == collateralAuctions[id]
      lastPrice == LastBidPrice(info.bid)
      pay       == PaymentAmount(item, price)
      refund    == IF info.bid = NoBid THEN 0 ELSE PaymentAmount(item, lastPrice)
      refunded  == IF info.bid = NoBid THEN stable
                   ELSE [[stable EXCEPT ![w] = @ - refund] EXCEPT ![info.bid[1]] = @ + refund]
      newAmount == CollateralAmount(item, lastPrice, price)
      refundCollateral == MaxOf(item.amount - newAmount, 0)
      shrink    == InReverseStage(item, price) /\ refundCollateral # 0
  IN
  /\ info # NoAuction /\ info.remaining > 0
  /\ IF info.bid = NoBid THEN price # 0 ELSE price > lastPrice
  /\ item # NoAuction
  /\ CheckMinimumIncrement(price, lastPrice, item.target, GetMinimumIncrementSize(item.age))
  /\ stable[w] >= refund
  /\ refunded[w] >= pay - refund
  /\ shrink => totalCollaterals[item.currency] >= refundCollateral
  /\ stable' = [refunded EXCEPT ![w] = @ - (pay - refund)]
  /\ surplusPool' = surplusPool + (pay - refund)
  /\ IF shrink
     THEN /\ totalCollaterals' = [totalCollaterals EXCEPT ![item.currency] = @ - refundCollateral]
          /\ totalCollateralInAuction' =
               [totalCollateralInAuction EXCEPT ![item.currency] = MaxOf(@ - refundCollateral, 0)]
          /\ collateralAuctions' = [collateralAuctions EXCEPT ![id].amount = newAmount]
     ELSE UNCHANGED <<totalCollaterals, totalCollateralInAuction, collateralAuctions>>
  /\ consumers' = SwapBidders(consumers, w, info.bid)
  /\ auctionInfo' = [auctionInfo EXCEPT ![id] =
        [bid |-> <<w, price>>, remaining |-> GetAuctionTimeToClose(item.age)]]
  /\ UNCHANGED <<nextId, totalTargetInAuction, debitPool, shutdown, dexPaidOut>>

\* collateral_auction_end_handler with a winner.  A forward-stage bid below the
\* DEX quote is overridden by a DEX sale when the swap succeeds; the bidder is
\* refunded by issuing debit.  Otherwise the collateral goes to the bidder (a
\* failed withdrawal is ignored by the code).
EndWithBid(id, item, bid, quote, result) ==
  IF /\ ~InReverseStage(item, bid[2])
     /\ bid[2] < quote
     /\ result # NoPath
     /\ totalCollaterals[item.currency] >= item.amount
  THEN /\ DexTake(item, quote, result, [stable EXCEPT ![bid[1]] = @ + bid[2]], debitPool + bid[2])
       /\ Remove(id, item, bid, consumers)
  ELSE /\ totalCollaterals' =
            IF totalCollaterals[item.currency] >= item.amount
            THEN [totalCollaterals EXCEPT ![item.currency] = @ - item.amount]
            ELSE totalCollaterals
       /\ Remove(id, item, bid, consumers)
       /\ UNCHANGED <<surplusPool, debitPool, stable, dexPaidOut>>

\* collateral_auction_end_handler without a bid, outside shutdown: sell on the
\* DEX.  With no path (or during shutdown) the item stays, stranded, for a later
\* retry or for cancellation.
EndWithoutBid(id, item, quote, result) ==
  IF ~shutdown /\ result # NoPath /\ totalCollaterals[item.currency] >= item.amount
  THEN /\ DexTake(item, quote, result, stable, debitPool)
       /\ Remove(id, item, NoBid, consumers)
  ELSE UNCHANGED <<collateralAuctions, totalCollateralInAuction, totalTargetInAuction,
                   totalCollaterals, surplusPool, debitPool, stable, consumers, dexPaidOut>>

\* The engine's on_finalize for an auction whose end time is now: it takes the
\* engine record and calls on_auction_ended with the last bid.
OnAuctionEnded(id) ==
  /\ auctionInfo[id] # NoAuction
  /\ auctionInfo[id].remaining = 0
  /\ auctionInfo' = [auctionInfo EXCEPT ![id] = NoAuction]
  /\ \E o \in DexOutcomes :
       IF auctionInfo[id].bid # NoBid
       THEN EndWithBid(id, collateralAuctions[id], auctionInfo[id].bid, o[1], o[2])
       ELSE EndWithoutBid(id, collateralAuctions[id], o[1], o[2])
  /\ UNCHANGED <<nextId, shutdown>>

\* The next scheduling step re-attempts the DEX sale of a stranded item.
RetryDexLiquidation(id) ==
  /\ collateralAuctions[id] # NoAuction
  /\ auctionInfo[id] = NoAuction
  /\ ~shutdown
  /\ \E o \in DexOutcomes :
       /\ o[2] # NoPath
       /\ DexTake(collateralAuctions[id], o[1], o[2], stable, debitPool)
       /\ Remove(id, collateralAuctions[id], NoBid, consumers)
  /\ UNCHANGED <<nextId, auctionInfo, shutdown>>

\* Mutant: dispatch trusts the pool's validation and skips the stage check.
NotInReverseStageUnchecked(item, bid) == TRUE

\* cancel_collateral_auction's InReverseStage check on the current last bid.
NotInReverseStage(item, bid) == bid # NoBid => ~InReverseStage(item, bid[2])

\* cancel (shutdown only) and cancel_collateral_auction: refused in the reverse
\* stage; confiscates min(price * target, amount), withdraws the rest to the
\* refund recipient, refunds the bidder's payment by issuing debit, removes the
\* item and the engine record.  A missing oracle price is InvalidFeedPrice.
CancelAuction(id, settlePrice) ==
  LET item == collateralAuctions[id]
      bid  == IF auctionInfo[id] = NoAuction THEN NoBid ELSE auctionInfo[id].bid
      confiscate == IF AlwaysForward(item) THEN item.amount
                    ELSE MinOf((settlePrice * item.target) \div 100, item.amount)
      refundCollateral == item.amount - confiscate
      payment == IF bid = NoBid THEN 0 ELSE PaymentAmount(item, bid[2])
  IN
  /\ shutdown
  /\ item # NoAuction
  /\ NotInReverseStage(item, bid)
  /\ totalCollaterals[item.currency] >= refundCollateral
  /\ totalCollaterals' = [totalCollaterals EXCEPT ![item.currency] = @ - refundCollateral]
  /\ stable' = IF bid = NoBid THEN stable ELSE [stable EXCEPT ![bid[1]] = @ + payment]
  /\ debitPool' = debitPool + payment
  /\ Remove(id, item, bid, consumers)
  /\ auctionInfo' = [auctionInfo EXCEPT ![id] = NoAuction]
  /\ UNCHANGED <<nextId, surplusPool, shutdown, dexPaidOut>>

\* Governance signals emergency shutdown; it is never reset.
EmergencyShutdown ==
  /\ ~shutdown
  /\ shutdown' = TRUE
  /\ UNCHANGED <<nextId, collateralAuctions, auctionInfo, totalCollateralInAuction,
                 totalTargetInAuction, totalCollaterals, surplusPool, debitPool,
                 stable, consumers, dexPaidOut>>

\* End of a block: every due auction has been resolved by on_finalize; one
\* block passes for every engine record and item.
Tick ==
  /\ \A i \in AuctionIds : auctionInfo[i] # NoAuction => auctionInfo[i].remaining > 0
  /\ auctionInfo' = [i \in AuctionIds |->
        IF auctionInfo[i] = NoAuction THEN NoAuction
        ELSE [auctionInfo[i] EXCEPT !.remaining = @ - 1]]
  /\ collateralAuctions' = [i \in AuctionIds |->
        IF collateralAuctions[i] = NoAuction THEN NoAuction
        ELSE [collateralAuctions[i] EXCEPT !.age = MinOf(@ + 1, AuctionDurationSoftCap)]]
  /\ UNCHANGED <<nextId, totalCollateralInAuction, totalTargetInAuction, totalCollaterals,
                 surplusPool, debitPool, stable, consumers, shutdown, dexPaidOut>>

------------------------------------------------------------------------------
Init ==
  /\ nextId = 0
  /\ collateralAuctions = [i \in AuctionIds |-> NoAuction]
  /\ auctionInfo = [i \in AuctionIds |-> NoAuction]
  /\ totalCollateralInAuction = [c \in CollateralCurrencies |-> 0]
  /\ totalTargetInAuction = 0
  /\ totalCollaterals = [c \in CollateralCurrencies |-> 0]
  /\ surplusPool = 0
  /\ debitPool = 0
  /\ stable = [a \in Accounts |-> InitialStable]
  /\ consumers = [a \in Accounts |-> 0]
  /\ shutdown = FALSE
  /\ dexPaidOut = 0

Next ==
  \/ \E o \in Accounts, c \in CollateralCurrencies, amt \in Amounts, t \in Targets :
       CreateAuction(o, c, amt, t)
  \/ \E c \in CollateralCurrencies, amt \in Amounts : DepositCollateralStep(c, amt)
  \/ \E w \in Accounts, id \in AuctionIds, p \in BidPrices : CollateralAuctionBid(w, id, p)
  \/ \E id \in AuctionIds : OnAuctionEnded(id)
  \/ \E id \in AuctionIds : RetryDexLiquidation(id)
  \/ \E id \in AuctionIds, sp \in SettlePrices : CancelAuction(id, sp)
  \/ EmergencyShutdown
  \/ Tick

Spec == Init /\ [][Next]_vars

------------------------------------------------------------------------------
(* Properties.                                                             *)

TypeOK ==
  /\ nextId \in 0 .. MaxAuctions
  /\ collateralAuctions \in [AuctionIds -> Item \cup {NoAuction}]
  /\ auctionInfo \in [AuctionIds -> Info \cup {NoAuction}]
  /\ totalCollateralInAuction \in [CollateralCurrencies -> 0 .. MaxBalance]
  /\ totalTargetInAuction \in 0 .. MaxBalance
  /\ totalCollaterals \in [CollateralCurrencies -> 0 .. MaxBalance]
  /\ surplusPool \in Nat /\ debitPool \in Nat /\ dexPaidOut \in Nat
  /\ stable \in [Accounts -> Nat]
  /\ consumers \in [Accounts -> Nat]
  /\ shutdown \in BOOLEAN

AmountIn(c) == MapThenSumSet(LAMBDA i : collateralAuctions[i].amount,
                             {i \in Live : collateralAuctions[i].currency = c})
TargetIn == MapThenSumSet(LAMBDA i : collateralAuctions[i].target, Live)

\* The aggregates TotalCollateralInAuction and TotalTargetInAuction, kept
\* incrementally by creation, reverse-stage refunds, resolution and cancel,
\* always equal the sums over the live auctions (spec.md 3).
AggregatesMatchAuctions ==
  /\ \A c \in CollateralCurrencies : totalCollateralInAuction[c] = AmountIn(c)
  /\ totalTargetInAuction = TargetIn

\* Consumer references (swap_bidders, creation, end and cancel handlers) count
\* exactly the live auctions an account is refund recipient of plus the live
\* auctions it is the current highest bidder of.
ConsumersTrackReferences ==
  \A a \in Accounts :
    consumers[a] =
      Cardinality({i \in Live : collateralAuctions[i].refundRecipient = a})
      + Cardinality({i \in AuctionIds : auctionInfo[i] # NoAuction
                                        /\ auctionInfo[i].bid # NoBid
                                        /\ auctionInfo[i].bid[1] = a})

\* Reverse-stage partial fill (collateral_amount, spec.md 4.1): a bid that
\* takes an auction into or further through the reverse stage leaves the
\* new bidder no more collateral than the displaced price per unit buys at
\* its own price (amount' * new <= amount * max(last, target)), and the
\* owner loses to the two fixed-point roundings less than one unit plus
\* amount / accuracy.
ReverseBidRespectsPrice ==
  [][\A i \in AuctionIds :
       ( /\ auctionInfo[i] # NoAuction /\ auctionInfo'[i] # NoAuction
         /\ auctionInfo'[i].bid # auctionInfo[i].bid
         /\ InReverseStage(collateralAuctions[i], auctionInfo'[i].bid[2]) )
       => LET before == collateralAuctions[i].amount
              after  == collateralAuctions'[i].amount
              m      == MaxOf(LastBidPrice(auctionInfo[i].bid), collateralAuctions[i].target)
              p      == auctionInfo'[i].bid[2]
          IN /\ after * p <= before * m
             /\ (after + 1) * p * FixedAccuracy + before * p > before * m * FixedAccuracy]_vars

\* Soft close (spec.md 4.2, 8): a bid placed while the end is further away
\* than the bid's time-to-close leaves the end unchanged; only a bid inside
\* that window moves it, and only later.
BidKeepsDistantEnd ==
  [][\A i \in AuctionIds :
       ( /\ auctionInfo[i] # NoAuction /\ auctionInfo'[i] # NoAuction
         /\ auctionInfo'[i].bid # auctionInfo[i].bid )
       => auctionInfo'[i].remaining >= auctionInfo[i].remaining]_vars

\* DEX fallback (spec.md 4.3: "credit settlement proceeds"): every sale on
\* the DEX, at resolution with or without a bid or at a retry, credits the
\* surplus pool with exactly the stablecoin the swap delivered.
SurplusMatchesProceeds ==
  [][dexPaidOut' # dexPaidOut => surplusPool' - surplusPool = dexPaidOut' - dexPaidOut]_vars

\* Resolution with a bid (spec.md 4.3): an auction that ends holding a bid is
\* settled with its highest bidder, never sold on the DEX instead.
EndedBidIsDealt ==
  [][\A i \in AuctionIds :
       ( /\ auctionInfo[i] # NoAuction /\ auctionInfo[i].bid # NoBid
         /\ auctionInfo'[i] = NoAuction )
       => dexPaidOut' = dexPaidOut]_vars


------------------------------------------------------------------------------
(* Refinement: the auction manager implements AuctionLifecycle.  An id at  *)
(* or beyond AuctionsIndex is unused; a used id without an item is closed. *)
(* An item is due once its engine record has reached its end or has been  *)
(* taken by on_finalize while the item stayed (no DEX path).              *)

LifeStatus == [i \in AuctionIds |->
                 IF i >= nextId THEN "unused"
                 ELSE IF collateralAuctions[i] = NoAuction THEN "closed" ELSE "open"]

LifeLot == [i \in AuctionIds |->
              IF collateralAuctions[i] = NoAuction THEN 0 ELSE collateralAuctions[i].amount]

LifeProtected == [i \in AuctionIds |->
                    /\ collateralAuctions[i] # NoAuction
                    /\ auctionInfo[i] # NoAuction /\ auctionInfo[i].bid # NoBid
                    /\ InReverseStage(collateralAuctions[i], auctionInfo[i].bid[2])]

LifeDue == [i \in AuctionIds |->
              /\ collateralAuctions[i] # NoAuction
              /\ auctionInfo[i] = NoAuction \/ auctionInfo[i].remaining = 0]

Lifecycle == INSTANCE AuctionLifecycle WITH
               Ids <- AuctionIds, Lots <- 0 .. MaxBalance,
               status <- LifeStatus, lot <- LifeLot, protected <- LifeProtected,
               due <- LifeDue, shut <- shutdown

\* Every behaviour of the handlers is a behaviour of the lifecycle: ids in
\* order, lots only shrink while open (collateral_amount), reverse stage is
\* never left, bids only before the end, settlement only when due (engine
\* on_finalize), cancel only after shutdown and outside the reverse stage.
ImplementsLifecycle == Lifecycle!LifeSpec

=============================================================================

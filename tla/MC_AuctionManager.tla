------------------------- MODULE MC_AuctionManager -------------------------
(***************************************************************************)
(* Model-checking instance of AuctionManager: two accounts, one collateral *)
(* currency, two auctions.  Amounts, targets and prices are chosen so that *)
(* forward and reverse stages, zero-target auctions, a partial collateral  *)
(* refund, an aggregate overflow at creation, a DEX sale above and below   *)
(* target, and a failed DEX path all occur.                                *)
(***************************************************************************)
EXTENDS AuctionManager, TLC

CONSTANTS a1, a2, SERP

MCAccounts == {a1, a2}
MCCurrencies == {SERP}

\* Accounts are interchangeable: nothing in the model names one of them.
MCSymmetry == Permutations(MCAccounts)

=============================================================================

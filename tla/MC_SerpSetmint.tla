--------------------------- MODULE MC_SerpSetmint ---------------------------
(***************************************************************************)
(* Model-checking instance of SerpSetmint: ALICE and BOB, the SERP and     *)
(* DNAR collateral currencies of the tests, a deposit of 1 per             *)
(* authorization against a free balance of 3, so the fourth authorization *)
(* of an account fails on its balance.                                     *)
(***************************************************************************)
EXTENDS SerpSetmint, TLC

CONSTANTS ALICE, BOB, SERP, DNAR

MCAccounts == {ALICE, BOB}
MCCollateralCurrencies == {SERP, DNAR}
MCAdjustments == {-1, 0, 1}

MCSymmetry == Permutations(MCAccounts)

=============================================================================

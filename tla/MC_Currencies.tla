---------------------------- MODULE MC_Currencies ----------------------------
(***************************************************************************)
(* Model-checking instance of Currencies: alice and bob endowed in the    *)
(* native currency and one token as one_hundred_for_alice_n_bob does, a   *)
(* pallet account and DustAccount as module accounts.                      *)
(***************************************************************************)
EXTENDS Currencies, TLC

CONSTANTS alice, bob, settpay, dust, DNAR, USDJ

MCAccounts == {alice, bob, settpay, dust}
MCModuleAccounts == {settpay, dust}
MCCurrencyIds == {DNAR, USDJ}

\* Existential deposits of 2 for both ledgers: with the mock's 1 (native) and
\* 0 (tokens) no balance can lie strictly between 0 and the deposit.
MCExistentialDeposits == (DNAR :> 2) @@ (USDJ :> 2)

MCUpdateAmounts == {-3, -1, 1, 3}

\* one_hundred_for_alice_n_bob, scaled to 4.
MCEndowed == {<<alice, DNAR, 4>>, <<bob, DNAR, 4>>, <<alice, USDJ, 4>>, <<bob, USDJ, 4>>}

=============================================================================

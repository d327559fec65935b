------------------------- MODULE MC_AuctionSweeper -------------------------
(***************************************************************************)
(* Model-checking instance of AuctionSweeper: two accounts, two auctions,  *)
(* two overlapping offchain-worker runs, an iteration budget of one so a   *)
(* sweep needs several runs and the cursor is persisted, and a storage key *)
(* order that differs from id order.                                       *)
(***************************************************************************)
EXTENDS AuctionSweeper, TLC

CONSTANTS a1, a2, SERP, ow1, ow2

MCAccounts == {a1, a2}
MCCurrencies == {SERP}
MCWorkers == {ow1, ow2}
MCOneWorker == {ow1}

\* Hashed storage keys: auction 1 precedes auction 0 in map order.
MCKeyOrder == (0 :> 1) @@ (1 :> 0)

\* Accounts are interchangeable, and so are offchain-worker runs.
MCSymmetry == Permutations(MCAccounts) \cup Permutations(MCWorkers)

\* Every auction exists before shutdown, so a sweep starts with N = MaxAuctions
\* open auctions and a budget MaxIterations < N (the premise of spec.md 8).
MCAllAuctionsBeforeShutdown == shutdown => nextId = MaxAuctions

=============================================================================

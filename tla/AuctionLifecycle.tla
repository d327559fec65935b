-------------------------- MODULE AuctionLifecycle --------------------------
(***************************************************************************)
(* What the collateral auction manager promises about one auction's life  *)
(* (spec.md 3, 4.2, 4.3), without amounts of stablecoin, bidders, prices   *)
(* or time:                                                                *)
(*   - ids are taken in order and an id is used once;                      *)
(*   - while open, the collateral offered (the lot) only shrinks;          *)
(*   - a bid is taken only before the auction is due, and once a bid has   *)
(*     reached the reverse stage every later bid is in the reverse stage;  *)
(*   - an auction is closed by settlement only once it is due, or by       *)
(*     cancellation only after shutdown and only if its last bid is not in *)
(*     the reverse stage;                                                  *)
(*   - a closed auction stays closed.                                      *)
(* AuctionManager implements this specification under the refinement      *)
(* mapping given there.                                                    *)
(***************************************************************************)
EXTENDS Naturals

CONSTANTS
  Ids,   \* auction ids
  Lots   \* the collateral amounts a lot can hold

VARIABLES
  status,     \* id -> "unused" | "open" | "closed"
  lot,        \* collateral an open auction offers; 0 otherwise
  protected,  \* the last bid is in the reverse stage
  due,        \* the end time has been reached (the engine may settle it)
  shut        \* emergency shutdown has been signalled

lifeVars == <<status, lot, protected, due, shut>>

Open(id) == status[id] = "open"

\* An auction is created with the least unused id and a non-zero lot.
Create(id, amount) ==
  /\ status[id] = "unused"
  /\ \A j \in Ids : j < id => status[j] # "unused"
  /\ amount \in Lots \ {0}
  /\ status' = [status EXCEPT ![id] = "open"]
  /\ lot' = [lot EXCEPT ![id] = amount]
  /\ UNCHANGED <<protected, due, shut>>

\* A bid before the end: the lot may shrink, never grow; reaching the reverse
\* stage is irreversible.
PlaceBid(id, amount, reverse) ==
  /\ Open(id) /\ ~due[id]
  /\ amount \in Lots /\ amount <= lot[id]
  /\ protected[id] => reverse
  /\ lot' = [lot EXCEPT ![id] = amount]
  /\ protected' = [protected EXCEPT ![id] = reverse]
  /\ UNCHANGED <<status, due, shut>>

\* Time passes: some open auctions reach their end.
Expire(S) ==
  /\ S # {}
  /\ \A id \in S : Open(id) /\ ~due[id]
  /\ due' = [id \in Ids |-> due[id] \/ id \in S]
  /\ UNCHANGED <<status, lot, protected, shut>>

Close(id) ==
  /\ status' = [status EXCEPT ![id] = "closed"]
  /\ lot' = [lot EXCEPT ![id] = 0]
  /\ protected' = [protected EXCEPT ![id] = FALSE]
  /\ due' = [due EXCEPT ![id] = FALSE]

\* A due auction is settled: with its bidder, or sold on the DEX.
Settle(id) ==
  /\ Open(id) /\ due[id]
  /\ Close(id)
  /\ UNCHANGED shut

\* After shutdown an auction whose last bid is not in the reverse stage may
\* be cancelled at any time.
Cancel(id) ==
  /\ shut /\ Open(id) /\ ~protected[id]
  /\ Close(id)
  /\ UNCHANGED shut

Shutdown ==
  /\ ~shut
  /\ shut' = TRUE
  /\ UNCHANGED <<status, lot, protected, due>>

LifeInit ==
  /\ status = [id \in Ids |-> "unused"]
  /\ lot = [id \in Ids |-> 0]
  /\ protected = [id \in Ids |-> FALSE]
  /\ due = [id \in Ids |-> FALSE]
  /\ shut = FALSE

LifeNext ==
  \/ \E id \in Ids, amount \in Lots : Create(id, amount)
  \/ \E id \in Ids, amount \in Lots, reverse \in BOOLEAN : PlaceBid(id, amount, reverse)
  \/ \E S \in SUBSET Ids : Expire(S)
  \/ \E id \in Ids : Settle(id) \/ Cancel(id)
  \/ Shutdown

LifeSpec == LifeInit /\ [][LifeNext]_lifeVars

=============================================================================

--------------------------- MODULE AuctionSweeper ---------------------------
(***************************************************************************)
(* Emergency Unwind Sweeper (spec.md 4.4, 5) composed with the auction     *)
(* manager.  After shutdown the offchain worker of each block tries a      *)
(* time-based storage lock; the holder walks CollateralAuctions in storage *)
(* key order from the persisted cursor, submits an unsigned `cancel`       *)
(* transaction per item (checked by validate_unsigned on submission),      *)
(* extends the lock after each one, and persists the cursor when the      *)
(* budget is spent or clears it when the map is exhausted.  The lock is    *)
(* not released; it lapses.                                                *)
(*                                                                         *)
(* The transaction pool deduplicates by the `provides` tag (the auction    *)
(* id); a pooled transaction can be dropped, or dispatched and fail        *)
(* (InvalidFeedPrice, or the auction changed), or dispatched and cancel.   *)
(* Offchain workers of different blocks may overlap: Workers are those    *)
(* concurrent runs.                                                        *)
(***************************************************************************)
EXTENDS AuctionManager

CONSTANTS
  Workers,        \* concurrent offchain-worker runs
  MaxIterations,  \* OFFCHAIN_WORKER_MAX_ITERATIONS (DEFAULT_MAX_ITERATIONS = 1000)
  LockDuration,   \* LOCK_DURATION, in blocks
  KeyOrder,       \* position of each id's hashed storage key in map order
  NoCursor

ASSUME MaxIterations \in Nat \ {0}
ASSUME LockDuration \in Nat \ {0}
ASSUME KeyOrder \in [AuctionIds -> Nat]
ASSUME \A i, j \in AuctionIds : i # j => KeyOrder[i] # KeyOrder[j]

VARIABLES
  lockRemaining,  \* blocks until OFFCHAIN_WORKER_LOCK lapses; 0 = free
  cursor,         \* OFFCHAIN_WORKER_DATA: key of the last item submitted, or NoCursor
  pool,           \* ids with a pending `cancel` transaction
  worker          \* per run: [running, pos (last key), count]

sweepVars == <<lockRemaining, cursor, pool, worker>>
allVars == <<vars, sweepVars>>

Keys == {KeyOrder[i] : i \in AuctionIds}

\* The next entry of the storage iterator after position pos.
After(pos) == {i \in Live : pos = NoCursor \/ KeyOrder[i] > pos}
NextItem(pos) == CHOOSE i \in After(pos) : \A j \in After(pos) : KeyOrder[i] <= KeyOrder[j]

\* validate_unsigned for `cancel`: shutdown, the item exists, and its last
\* bid (if any) is not in the reverse stage.
ValidCancel(id) ==
  /\ shutdown
  /\ collateralAuctions[id] # NoAuction
  /\ auctionInfo[id] # NoAuction /\ auctionInfo[id].bid # NoBid
       => ~InReverseStage(collateralAuctions[id], auctionInfo[id].bid[2])

------------------------------------------------------------------------------
(* The offchain worker.                                                    *)

\* offchain_worker with shutdown set: StorageLock::try_lock succeeds only when
\* the lock is absent or lapsed; the run resumes from the persisted cursor.
StartSweep(w) ==
  /\ shutdown
  /\ ~worker[w].running
  /\ lockRemaining = 0
  /\ lockRemaining' = LockDuration
  /\ worker' = [worker EXCEPT ![w] = [running |-> TRUE, pos |-> cursor, count |-> 0]]
  /\ UNCHANGED <<vars, cursor, pool>>

\* Mutant: the budget check lets one more iteration through.
WithinBudgetOffByOne(w) == worker[w].count <= MaxIterations

\* The iterator's max_iterations check before yielding the next entry.
WithinBudget(w) == worker[w].count < MaxIterations

\* One iteration: submit_cancel_auction_tx for the next item, then
\* guard.extend_lock(), which fails once the lock has lapsed; the `?` then
\* ends the run, dropping the guard (clearing the lock) without saving the cursor.
SweepStep(w) ==
  LET id == NextItem(worker[w].pos)
  IN
  /\ worker[w].running
  /\ WithinBudget(w)
  /\ After(worker[w].pos) # {}
  /\ pool' = IF ValidCancel(id) THEN pool \cup {id} ELSE pool
  /\ IF lockRemaining > 0
     THEN /\ lockRemaining' = LockDuration
          /\ worker' = [worker EXCEPT ![w] = [running |-> TRUE, pos |-> KeyOrder[id],
                                              count |-> @.count + 1]]
     ELSE /\ worker' = [worker EXCEPT ![w].running = FALSE]
          /\ UNCHANGED lockRemaining
  /\ UNCHANGED <<vars, cursor>>

\* Mutant: the cursor is saved even when the map was exhausted.
SavedCursorNeverCleared(w) == worker[w].pos

\* The value written back to OFFCHAIN_WORKER_DATA: cleared when the iterator
\* finished (ran off the end of the map within budget), else the last key.
SavedCursor(w) ==
  IF WithinBudget(w) /\ After(worker[w].pos) = {} THEN NoCursor ELSE worker[w].pos

\* The iterator stops: at the budget (not finished) or at the end of the map
\* (finished).  The cursor is saved or cleared; guard.forget() keeps the lock.
FinishSweep(w) ==
  /\ worker[w].running
  /\ ~WithinBudget(w) \/ After(worker[w].pos) = {}
  /\ cursor' = SavedCursor(w)
  /\ worker' = [worker EXCEPT ![w].running = FALSE]
  /\ UNCHANGED <<vars, lockRemaining, pool>>

------------------------------------------------------------------------------
(* The transaction pool and block inclusion of `cancel`.                   *)

\* A pooled `cancel` is dispatched and succeeds.
IncludeCancel(id) ==
  /\ id \in pool
  /\ pool' = pool \ {id}
  /\ \E sp \in SettlePrices : CancelAuction(id, sp)
  /\ UNCHANGED <<lockRemaining, cursor, worker>>

\* A pooled `cancel` is dropped by the pool, or dispatched and fails with no
\* effect (no oracle price, item gone, reverse stage reached meanwhile).
CancelTxLost(id) ==
  /\ id \in pool
  /\ pool' = pool \ {id}
  /\ UNCHANGED <<vars, lockRemaining, cursor, worker>>

\* A block passes for the auctions and for the lock.
SweepTick ==
  /\ Tick
  /\ lockRemaining' = DecSat(lockRemaining)
  /\ UNCHANGED <<cursor, pool, worker>>

------------------------------------------------------------------------------
SweepInit ==
  /\ Init
  /\ lockRemaining = 0
  /\ cursor = NoCursor
  /\ pool = {}
  /\ worker = [w \in Workers |-> [running |-> FALSE, pos |-> NoCursor, count |-> 0]]

SweepNext ==
  \/ /\ \/ \E o \in Accounts, c \in CollateralCurrencies, amt \in Amounts, t \in Targets :
             Liquidate(o, c, amt, t)
        \/ \E w \in Accounts, id \in AuctionIds, p \in BidPrices : CollateralAuctionBid(w, id, p)
        \/ \E id \in AuctionIds : OnAuctionEnded(id)
        \/ \E id \in AuctionIds : RetryDexLiquidation(id)
        \/ EmergencyShutdown
     /\ UNCHANGED sweepVars
  \/ SweepTick
  \/ \E w \in Workers : StartSweep(w) \/ SweepStep(w) \/ FinishSweep(w)
  \/ \E id \in AuctionIds : IncludeCancel(id) \/ CancelTxLost(id)

\* Blocks keep coming and on_finalize runs; every validator runs its offchain
\* worker; a cancel resubmitted forever is eventually included (strong
\* fairness: the pool may drop it in between).  Bidders and liquidations get
\* no fairness.
SweepFairness ==
  /\ WF_allVars(SweepTick)
  /\ \A id \in AuctionIds : WF_allVars(OnAuctionEnded(id) /\ UNCHANGED sweepVars)
  /\ \A w \in Workers : WF_allVars(StartSweep(w)) /\ WF_allVars(SweepStep(w))
                        /\ WF_allVars(FinishSweep(w))
  /\ \A id \in AuctionIds : SF_allVars(IncludeCancel(id))

SweepSpec == SweepInit /\ [][SweepNext]_allVars

FairSweepSpec == SweepSpec /\ SweepFairness

------------------------------------------------------------------------------
(* Properties.                                                             *)

SweepTypeOK ==
  /\ TypeOK
  /\ lockRemaining \in 0 .. LockDuration
  /\ cursor \in Keys \cup {NoCursor}
  /\ pool \subseteq AuctionIds
  /\ worker \in [Workers -> [running : BOOLEAN, pos : Keys \cup {NoCursor},
                             count : 0 .. MaxIterations]]

\* The storage lock makes sweeps mutually exclusive (spec.md 4.4 step 1, 5):
\* no two offchain-worker runs iterate the auctions at the same time.
AtMostOneSweep ==
  \A v, w \in Workers : worker[v].running /\ worker[w].running => v = w

\* Sweep exactly-once (spec.md 8): when no run is active, a persisted cursor
\* always has live auctions after it; a run that has reached the last key
\* leaves the cursor empty.
CursorClearedAfterLastItem ==
  (\A w \in Workers : ~worker[w].running)
    => (cursor # NoCursor => After(cursor) # {})

\* Once shutdown is signalled every collateral auction is eventually gone:
\* cancelled through the sweeper's submissions or settled at its end.
ShutdownDrainsAuctions == shutdown ~> (Live = {})

=============================================================================

----------------------------- MODULE SerpSetmint -----------------------------
(***************************************************************************)
(* The SERP Setmint pallet's dispatchables as its unit tests pin them      *)
(* (src/lib-serml/serp-setmint/src/tests.rs): authorize / unauthorize /    *)
(* unauthorize_all, which reserve and release DepositPerAuthorization of   *)
(* the native currency per authorization; adjust_loan, transfer_loan_from  *)
(* (allowed only with the owner's authorization for that currency) and     *)
(* close_loan_has_debit_by_dex, all refused with AlreadyShutdown after    *)
(* emergency shutdown.                                                     *)
(*                                                                         *)
(* The pallet's lib.rs is not in this snapshot.  The loans' risk check     *)
(* (required collateral ratio through the CDP engine) is not modelled: a   *)
(* call it would refuse changes nothing, so it is the same as a call that  *)
(* is not made.  A loan is a pair of collateral and debit amounts.          *)
(***************************************************************************)
EXTENDS Integers, FiniteSets

CONSTANTS
  Accounts,                 \* signed origins
  CollateralCurrencies,     \* currencies a loan may be opened in
  DepositPerAuthorization,  \* native amount reserved per authorization
  Endowment,                \* initial free native balance of every account
  Adjustments,              \* signed collateral / debit adjustments a call may name
  MaxPosition               \* bound on a position's collateral and debit

ASSUME DepositPerAuthorization \in Nat \ {0}
ASSUME Endowment \in Nat /\ MaxPosition \in Nat

VARIABLES
  authorization,  \* set of <<owner, currency, authorized account>>
  free,           \* native free balance
  reserved,       \* native reserved balance
  positions,      \* currency -> account -> [collateral, debit]
  shutdown        \* EmergencyShutdown::is_shutdown

vars == <<authorization, free, reserved, positions, shutdown>>

Amounts == 0 .. MaxPosition
Position == [collateral : Amounts, debit : Amounts]
NoPosition == [collateral |-> 0, debit |-> 0]

\* check_authorization(from, to, currency_id): NoPermission unless `from`
\* has authorized `to` for that currency.
CheckAuthorization(from, to, c) == <<from, c, to>> \in authorization

\* authorize(currency_id, to): AlreadyAuthorized if present; reserve the
\* deposit (fails on an insufficient free balance); record it.
Authorize(from, c, to) ==
  /\ ~CheckAuthorization(from, to, c)
  /\ free[from] >= DepositPerAuthorization
  /\ free' = [free EXCEPT ![from] = @ - DepositPerAuthorization]
  /\ reserved' = [reserved EXCEPT ![from] = @ + DepositPerAuthorization]
  /\ authorization' = authorization \cup {<<from, c, to>>}
  /\ UNCHANGED <<positions, shutdown>>

\* unauthorize(currency_id, to): AuthorizationNotExists if absent; release
\* its deposit and remove it.
Unauthorize(from, c, to) ==
  /\ CheckAuthorization(from, to, c)
  /\ free' = [free EXCEPT ![from] = @ + DepositPerAuthorization]
  /\ reserved' = [reserved EXCEPT ![from] = @ - DepositPerAuthorization]
  /\ authorization' = authorization \ {<<from, c, to>>}
  /\ UNCHANGED <<positions, shutdown>>

\* Mutant: unauthorize_all releases one deposit, not one per authorization.
UnauthorizeAllOneDeposit(from) ==
  LET mine == {x \in authorization : x[1] = from}
      back == IF mine = {} THEN 0 ELSE DepositPerAuthorization
  IN
  /\ free' = [free EXCEPT ![from] = @ + back]
  /\ reserved' = [reserved EXCEPT ![from] = @ - back]
  /\ authorization' = authorization \ mine
  /\ UNCHANGED <<positions, shutdown>>

\* unauthorize_all(): remove every authorization `from` granted and release
\* the deposit of each.
UnauthorizeAll(from) ==
  LET mine == {x \in authorization : x[1] = from}
      back == Cardinality(mine) * DepositPerAuthorization
  IN
  /\ free' = [free EXCEPT ![from] = @ + back]
  /\ reserved' = [reserved EXCEPT ![from] = @ - back]
  /\ authorization' = authorization \ mine
  /\ UNCHANGED <<positions, shutdown>>

\* Mutant: the adjusted position is not checked against going negative.
AdjustLoanUnchecked(who, c, dc, dd) ==
  LET p == positions[c][who]
  IN
  /\ ~shutdown
  /\ dc # 0 \/ dd # 0
  /\ p.collateral + dc <= MaxPosition /\ p.debit + dd <= MaxPosition
  /\ positions' = [positions EXCEPT ![c][who] =
                     [collateral |-> p.collateral + dc, debit |-> p.debit + dd]]
  /\ UNCHANGED <<authorization, free, reserved, shutdown>>

\* adjust_loan(currency_id, collateral_adjustment, debit_adjustment):
\* AlreadyShutdown after shutdown; the position may not go negative.
AdjustLoan(who, c, dc, dd) ==
  LET p == positions[c][who]
  IN
  /\ ~shutdown
  /\ dc # 0 \/ dd # 0
  /\ p.collateral + dc \in Amounts /\ p.debit + dd \in Amounts
  /\ positions' = [positions EXCEPT ![c][who] =
                     [collateral |-> p.collateral + dc, debit |-> p.debit + dd]]
  /\ UNCHANGED <<authorization, free, reserved, shutdown>>

\* transfer_loan_from(currency_id, from), signed by `to`: AlreadyShutdown,
\* then NoPermission unless `from` authorized `to`; the whole position of
\* `from` is merged into that of `to`.
TransferLoanFrom(to, c, from) ==
  LET p == positions[c][from]
      q == positions[c][to]
  IN
  /\ ~shutdown
  /\ CheckAuthorization(from, to, c)
  /\ q.collateral + p.collateral \in Amounts /\ q.debit + p.debit \in Amounts
  /\ positions' = [positions EXCEPT
                     ![c][to] = [collateral |-> q.collateral + p.collateral,
                                 debit |-> q.debit + p.debit],
                     ![c][from] = NoPosition]
  /\ UNCHANGED <<authorization, free, reserved, shutdown>>

\* close_loan_has_debit_by_dex(currency_id, max_collateral_amount, ..):
\* AlreadyShutdown after shutdown; the collateral is sold on the DEX to
\* repay the debit and the position is emptied.
CloseLoanHasDebitByDex(who, c) ==
  /\ ~shutdown
  /\ positions[c][who] # NoPosition
  /\ positions' = [positions EXCEPT ![c][who] = NoPosition]
  /\ UNCHANGED <<authorization, free, reserved, shutdown>>

\* mock_shutdown: the emergency shutdown flag is raised.
EmergencyShutdown ==
  /\ ~shutdown
  /\ shutdown' = TRUE
  /\ UNCHANGED <<authorization, free, reserved, positions>>

Init ==
  /\ authorization = {}
  /\ free = [a \in Accounts |-> Endowment]
  /\ reserved = [a \in Accounts |-> 0]
  /\ positions = [c \in CollateralCurrencies |-> [a \in Accounts |-> NoPosition]]
  /\ shutdown = FALSE

Next ==
  \/ \E from, to \in Accounts, c \in CollateralCurrencies :
       \/ Authorize(from, c, to)
       \/ Unauthorize(from, c, to)
       \/ from # to /\ TransferLoanFrom(to, c, from)
  \/ \E from \in Accounts : UnauthorizeAll(from)
  \/ \E who \in Accounts, c \in CollateralCurrencies, dc, dd \in Adjustments :
       AdjustLoan(who, c, dc, dd)
  \/ \E who \in Accounts, c \in CollateralCurrencies : CloseLoanHasDebitByDex(who, c)
  \/ EmergencyShutdown

Spec == Init /\ [][Next]_vars

------------------------------------------------------------------------------
(* Properties.                                                             *)

TypeOK ==
  /\ authorization \subseteq Accounts \X CollateralCurrencies \X Accounts
  /\ free \in [Accounts -> Nat] /\ reserved \in [Accounts -> Nat]
  /\ positions \in [CollateralCurrencies -> [Accounts -> Position]]
  /\ shutdown \in BOOLEAN

\* Every account's reserve is exactly one DepositPerAuthorization per
\* authorization it has granted, and no native balance is created or lost,
\* across any sequence of authorize, unauthorize and unauthorize_all.
ReservedBacksAuthorizations ==
  \A a \in Accounts :
    /\ reserved[a] = DepositPerAuthorization * Cardinality({x \in authorization : x[1] = a})
    /\ free[a] + reserved[a] = Endowment

=============================================================================

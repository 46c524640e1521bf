--------------------------- MODULE BandwidthLedger ---------------------------
(***************************************************************************)
(* BandwidthPool with a ledger: history variables that record what the     *)
(* handlers take out of the pool and which of it a store of the master or  *)
(* of another handler puts back.  They observe the steps of BandwidthPool  *)
(* and constrain them only by the bound on what is withdrawn: one handler  *)
(* can undo the withdrawals of another, which then starts over.            *)
(***************************************************************************)
EXTENDS BandwidthPool

CONSTANT MaxWithdrawn \* bound: bandwidth taken out of the pool

ASSUME LedgerAssumption == MaxWithdrawn \in Nat

VARIABLES
  withdrawn, \* bandwidth taken out of the pool so far
  lost       \* of that, what stores of outdated values have put back

ledger     == <<withdrawn, lost>>
ledgerVars == <<vars, ledger>>

LedgerInit == Init /\ withdrawn = 0 /\ lost = 0

(* What a store brings back that makes its value from one loaded before,   *)
(* when the pool has been drawn on in between.                             *)
Regained(loaded) == IF loaded > pool THEN loaded - pool ELSE 0

Withdraws(c) ==
  /\ HandlerTakes(c)
  /\ withdrawn + Reclaim(c) <= MaxWithdrawn
  /\ withdrawn' = withdrawn + Reclaim(c)
  /\ lost' = lost + Regained(hreg[c])

Deposits ==
  /\ DepositStore
  /\ lost' = lost + Regained(mreg)
  /\ UNCHANGED withdrawn

LedgerMaster ==
  /\ Sample \/ EstimateNegative \/ Estimate \/ DepositLoad \/ Replenish
  /\ UNCHANGED ledger

LedgerHandler(c) ==
  /\ Overflow(c) \/ HandlerTests(c) \/ HandlerThrottles(c) \/ HandlerGrants(c)
  /\ UNCHANGED ledger

LedgerNext == \/ Deposits \/ LedgerMaster
              \/ \E c \in Cores : Withdraws(c) \/ LedgerHandler(c)

LedgerSpec == LedgerInit /\ [][LedgerNext]_ledgerVars

(* Bandwidth that the cores left unused is handed out once: what the       *)
(* handlers withdraw (ar.c:199) was deposited by the master (master.c:182).*)
NotOverdrawn == withdrawn <= deposited

(* The lost updates are the only way to overdraw the pool, and by no more  *)
(* than the withdrawals they undo: what was taken and what is left came    *)
(* from the master or were put back by a store made from an outdated load  *)
(* (master.c:182, ar.c:196-199).                                           *)
OverdrawnByLostOnly == withdrawn + pool <= deposited + lost
=============================================================================

------------------------ MODULE BandwidthLedgerProofs ------------------------
(***************************************************************************)
(* Theorems about the ledger of the bandwidth pool: it only observes the   *)
(* pool, and the updates that get lost are the whole reason that bandwidth *)
(* is handed out twice.                                                    *)
(***************************************************************************)
EXTENDS BandwidthLedger, BandwidthPoolProofs

LEMMA LedgerSteps ==
  ASSUME [LedgerNext]_ledgerVars PROVE [Next]_vars
<1>1. CASE Deposits
  BY <1>1 DEF Deposits, Next, Master
<1>2. CASE LedgerMaster
  BY <1>2 DEF LedgerMaster, Next, Master
<1>3. ASSUME NEW c \in Cores, Withdraws(c) \/ LedgerHandler(c) PROVE [Next]_vars
  BY <1>3 DEF Withdraws, LedgerHandler, Next, Handler
<1>4. CASE UNCHANGED ledgerVars
  BY <1>4 DEF ledgerVars
<1>5. QED
  BY <1>1, <1>2, <1>3, <1>4 DEF LedgerNext

(* The ledger leaves the behaviours of the pool alone: what is proved of   *)
(* the pool holds of the pool with its ledger.                             *)
THEOREM LedgerObserves == LedgerSpec => Spec
<1>1. LedgerInit => Init
  BY DEF LedgerInit
<1>2. [LedgerNext]_ledgerVars => [Next]_vars
  BY LedgerSteps
<1>3. QED
  BY <1>1, <1>2, PTL DEF LedgerSpec, Spec

LEMMA RegainedFacts ==
  ASSUME pool \in Nat, NEW loaded \in Nat
  PROVE  Regained(loaded) \in Nat /\ loaded <= pool + Regained(loaded)
BY DEF Regained

LedgerInv ==
  /\ withdrawn \in Nat /\ lost \in Nat
  /\ OverdrawnByLostOnly

(* A withdrawal takes from a value that is the pool's, or that the pool    *)
(* held before and gets back.                                              *)
LEMMA WithdrawsBalanced ==
  ASSUME TypeOK, PoolInv, LedgerInv, NEW c \in Cores, Withdraws(c)
  PROVE  LedgerInv'
<1>1. pool \in Nat /\ deposited \in Nat /\ withdrawn \in Nat /\ lost \in Nat
  BY PoolAssumption DEF TypeOK, LedgerInv
<1>2. hused[c] \in Nat /\ hreg[c] \in Nat /\ hused[c] < hreg[c]
  BY DEF TypeOK, PoolInv, LoadedBounded, Withdraws, HandlerTakes
<1>3. Reclaim(c) \in Nat /\ hreg[c] - Reclaim(c) \in Nat
  BY <1>2 DEF Reclaim
<1>4. Regained(hreg[c]) \in Nat /\ hreg[c] <= pool + Regained(hreg[c])
  BY <1>1, <1>2, RegainedFacts
<1>5. pool' \in Nat /\ pool' <= hreg[c] - Reclaim(c)
  <2>1. pool' = (hreg[c] - Reclaim(c)) % Modulus
    BY DEF Withdraws, HandlerTakes
  <2>2. (hreg[c] - Reclaim(c)) % Modulus \in 0 .. Modulus - 1
        /\ (hreg[c] - Reclaim(c)) % Modulus <= hreg[c] - Reclaim(c)
    BY <1>3, Reduction, PoolAssumption, Zenon
  <2>3. QED
    BY <2>1, <2>2, PoolAssumption
<1>6. /\ withdrawn' = withdrawn + Reclaim(c)
      /\ lost' = lost + Regained(hreg[c])
      /\ deposited' = deposited
  BY DEF Withdraws, HandlerTakes
<1>7. withdrawn + pool <= deposited + lost
  BY DEF LedgerInv, OverdrawnByLostOnly
<1>8. QED
  BY <1>1, <1>2, <1>3, <1>4, <1>5, <1>6, <1>7 DEF LedgerInv, OverdrawnByLostOnly

(* So does the deposit of the master, which adds what it records.          *)
LEMMA DepositsBalanced ==
  ASSUME TypeOK, LedgerInv, Deposits PROVE LedgerInv'
<1>1. pool \in Nat /\ deposited \in Nat /\ withdrawn \in Nat /\ lost \in Nat
      /\ mreg \in Nat
  BY PoolAssumption DEF TypeOK, LedgerInv
<1>2. Unused \in Nat
  BY UnusedBounds DEF TypeOK
<1>3. Regained(mreg) \in Nat /\ mreg <= pool + Regained(mreg)
  BY <1>1, RegainedFacts
<1>4. pool' \in Nat /\ pool' <= mreg + Unused
  <2>1. mreg + Unused \in Nat /\ pool' = (mreg + Unused) % Modulus
    BY <1>1, <1>2 DEF Deposits, DepositStore
  <2>2. (mreg + Unused) % Modulus \in 0 .. Modulus - 1
        /\ (mreg + Unused) % Modulus <= mreg + Unused
    BY <2>1, Reduction, PoolAssumption, Zenon
  <2>3. QED
    BY <2>1, <2>2, PoolAssumption
<1>5. withdrawn' = withdrawn /\ lost' = lost + Regained(mreg)
      /\ deposited' = deposited + Unused
  BY DEF Deposits, DepositStore
<1>6. withdrawn + pool <= deposited + lost
  BY DEF LedgerInv, OverdrawnByLostOnly
<1>7. QED
  BY <1>1, <1>2, <1>3, <1>4, <1>5, <1>6 DEF LedgerInv, OverdrawnByLostOnly

LEMMA LedgerInvariant == LedgerSpec => []LedgerInv
<1>1. LedgerInit => LedgerInv
  BY PoolAssumption DEF LedgerInit, Init, LedgerInv, OverdrawnByLostOnly
<1>2. TypeOK /\ PoolInv /\ LedgerInv /\ [LedgerNext]_ledgerVars => LedgerInv'
  <2> SUFFICES ASSUME TypeOK, PoolInv, LedgerInv, [LedgerNext]_ledgerVars
               PROVE  LedgerInv'
    OBVIOUS
  <2> USE DEF core, master, irq, ledger
  <2>1. CASE Deposits
    BY <2>1, DepositsBalanced
  <2>2. ASSUME NEW c \in Cores, Withdraws(c) PROVE LedgerInv'
    BY <2>2, WithdrawsBalanced
  <2>3. ASSUME pool' = pool, deposited' = deposited, withdrawn' = withdrawn, lost' = lost
        PROVE  LedgerInv'
    BY <2>3 DEF LedgerInv, OverdrawnByLostOnly
  <2>4. CASE LedgerMaster
    BY <2>3, <2>4 DEF LedgerMaster, Sample, EstimateNegative, Estimate, DepositLoad,
       Replenish
  <2>5. ASSUME NEW c \in Cores, LedgerHandler(c) PROVE LedgerInv'
    BY <2>3, <2>5 DEF LedgerHandler, Overflow, HandlerTests, HandlerThrottles,
       HandlerGrants
  <2>6. CASE UNCHANGED ledgerVars
    BY <2>3, <2>6 DEF ledgerVars, vars
  <2>7. QED
    BY <2>1, <2>2, <2>4, <2>5, <2>6 DEF LedgerNext
<1>3. QED
  BY <1>1, <1>2, LedgerObserves, Typing, PoolInvariant, PTL DEF LedgerSpec

(* However the stores of master and handlers race, the pool is overdrawn   *)
(* by no more than the withdrawals that lost updates undo.                 *)
THEOREM OverdraftIsLost == LedgerSpec => []OverdrawnByLostOnly
<1>1. LedgerInv => OverdrawnByLostOnly
  BY DEF LedgerInv
<1>2. QED
  BY <1>1, LedgerInvariant, PTL

(* Nobody stores a value made from a load the pool has left since.         *)
UpdatesInOrder ==
  /\ mpc = "store" => mreg = pool
  /\ \A c \in Cores : hpc[c] = "take" => hreg[c] = pool

NothingLost == lost = 0

LEMMA NoneLost ==
  ASSUME TypeOK, UpdatesInOrder, NothingLost, [LedgerNext]_ledgerVars
  PROVE  NothingLost'
<1> USE DEF NothingLost
<1>1. Regained(pool) = 0
  BY PoolAssumption DEF TypeOK, Regained
<1>2. CASE Deposits
  BY <1>1, <1>2 DEF Deposits, DepositStore, Serve, UpdatesInOrder
<1>3. ASSUME NEW c \in Cores, Withdraws(c) PROVE NothingLost'
  BY <1>1, <1>3 DEF Withdraws, HandlerTakes, UpdatesInOrder
<1>4. ASSUME NEW c \in Cores, LedgerHandler(c) PROVE NothingLost'
  BY <1>4 DEF LedgerHandler, ledger
<1>5. CASE LedgerMaster
  BY <1>5 DEF LedgerMaster, ledger
<1>6. CASE UNCHANGED ledgerVars
  BY <1>6 DEF ledgerVars, ledger
<1>7. QED
  BY <1>2, <1>3, <1>4, <1>5, <1>6 DEF LedgerNext

(* If the updates of the pool did not overlap, bandwidth would be handed   *)
(* out once: serialising them is all that the pool needs.                  *)
THEOREM SerialNotOverdrawn == LedgerSpec /\ []UpdatesInOrder => []NotOverdrawn
<1>1. LedgerInit => NothingLost
  BY DEF LedgerInit, NothingLost
<1>2. TypeOK /\ UpdatesInOrder /\ NothingLost /\ [LedgerNext]_ledgerVars => NothingLost'
  BY NoneLost
<1>3. TypeOK /\ LedgerInv /\ NothingLost => NotOverdrawn
  <2> SUFFICES ASSUME TypeOK, LedgerInv, NothingLost PROVE NotOverdrawn
    OBVIOUS
  <2>1. pool \in Nat /\ deposited \in Nat /\ withdrawn \in Nat
    BY PoolAssumption DEF TypeOK, LedgerInv
  <2>2. withdrawn + pool <= deposited + 0
    BY DEF LedgerInv, OverdrawnByLostOnly, NothingLost
  <2>3. QED
    BY <2>1, <2>2 DEF NotOverdrawn
<1>4. QED
  BY <1>1, <1>2, <1>3, LedgerObserves, Typing, LedgerInvariant, PTL DEF LedgerSpec
=============================================================================

------------------------- MODULE BandwidthPoolProofs -------------------------
(***************************************************************************)
(* Theorems about the bandwidth pool, for any number of cores, any limits, *)
(* predictions and consumptions, and any width of the pool.                *)
(***************************************************************************)
EXTENDS BandwidthPool, TLAPS

(* The truncated quotient, by its defining inequalities.                   *)
LEMMA QuotientBounds ==
  ASSUME NEW a \in Nat, NEW t \in Nat, t > 0
  PROVE  /\ a \div t \in Nat
         /\ (a \div t) * t <= a
         /\ a < (a \div t) * t + t
BY Z3

(* A product with a positive number is cancelled from an inequality.       *)
LEMMA Cancel ==
  ASSUME NEW p \in Int, NEW q \in Int, NEW t \in Nat, p * t < q * t
  PROVE  p < q
<1>1. SUFFICES ASSUME q <= p PROVE q * t <= p * t
  BY <1>1
<1>2. (p - q) * t >= 0
  BY <1>1, Z3
<1>3. QED
  BY <1>2, Z3

(* The reduction modulo the width of the pool never increases a number.    *)
LEMMA Reduction ==
  ASSUME NEW a \in Nat, NEW m \in Nat \ {0}
  PROVE  a % m \in 0 .. m - 1 /\ a % m <= a
BY Z3

(* Two truncated shares of a whole miss it by at most one.                 *)
LEMMA TwoShares ==
  ASSUME NEW r \in Nat, NEW w \in Nat, r + w > MaxBw
  PROVE  /\ Share(r, r + w) \in Nat /\ Share(w, r + w) \in Nat
         /\ Share(r, r + w) + Share(w, r + w) <= MaxBw
         /\ MaxBw - (Share(r, r + w) + Share(w, r + w)) <= 1
<1> DEFINE t == r + w
           p == Share(r, t)
           q == Share(w, t)
<1>1. t \in Nat /\ t > 0 /\ MaxBw * r \in Nat /\ MaxBw * w \in Nat
  BY PoolAssumption
<1>2. p \in Nat /\ p * t <= MaxBw * r /\ MaxBw * r < p * t + t
  BY <1>1, QuotientBounds DEF Share
<1>3. q \in Nat /\ q * t <= MaxBw * w /\ MaxBw * w < q * t + t
  BY <1>1, QuotientBounds DEF Share
<1>4. MaxBw * r + MaxBw * w = MaxBw * t
  BY PoolAssumption, Z3
<1> HIDE DEF t, p, q
<1>5. (p + q) * t < (MaxBw + 1) * t
  <2>1. (p + q) * t = p * t + q * t /\ (MaxBw + 1) * t = MaxBw * t + t
    BY <1>1, <1>2, <1>3, PoolAssumption, Z3
  <2>2. p * t \in Nat /\ q * t \in Nat /\ MaxBw * t \in Nat
    BY <1>1, <1>2, <1>3, PoolAssumption
  <2>3. QED
    BY <1>1, <1>2, <1>3, <1>4, <2>1, <2>2
<1>6. MaxBw * t < (p + q + 2) * t
  <2>1. (p + q + 2) * t = (p * t + t) + (q * t + t)
    BY <1>1, <1>2, <1>3, Z3
  <2>2. p * t \in Nat /\ q * t \in Nat /\ MaxBw * t \in Nat
    BY <1>1, <1>2, <1>3, PoolAssumption
  <2>3. QED
    BY <1>1, <1>2, <1>3, <1>4, <2>1, <2>2
<1>7. p + q < MaxBw + 1
  BY <1>1, <1>2, <1>3, <1>5, Cancel, PoolAssumption
<1>8. MaxBw < p + q + 2
  BY <1>1, <1>2, <1>3, <1>6, Cancel, PoolAssumption
<1>9. QED
  BY <1>2, <1>3, <1>7, <1>8, PoolAssumption DEF t, p, q

(* What the two estimates are turned into is within the core's limit.      *)
LEMMA AllocationBounds ==
  ASSUME rest \in Nat, west \in Nat
  PROVE  /\ ReadAllocation \in Nat /\ WriteAllocation \in Nat
         /\ TotalAllocation \in Nat
         /\ TotalAllocation <= MaxBw
         /\ rest + west > MaxBw => MaxBw - TotalAllocation <= 1
<1>1. CASE rest + west <= MaxBw
  BY <1>1, PoolAssumption
     DEF ReadAllocation, WriteAllocation, TotalAllocation, Allocation
<1>2. CASE rest + west > MaxBw
  <2>1. ~(rest + west <= MaxBw)
    BY <1>2, PoolAssumption
  <2>2. /\ ReadAllocation = Share(rest, rest + west)
        /\ WriteAllocation = Share(west, rest + west)
    BY <2>1 DEF ReadAllocation, WriteAllocation, Allocation
  <2>3. QED
    BY <1>2, <2>2, TwoShares DEF TotalAllocation
<1>3. QED
  BY <1>1, <1>2, PoolAssumption

LEMMA UnusedBounds ==
  ASSUME rest \in Nat, west \in Nat
  PROVE  Unused \in Nat
<1>1. MaxBw - TotalAllocation \in Nat
  BY AllocationBounds, PoolAssumption
<1>2. QED
  BY <1>1, Reduction, PoolAssumption DEF Unused

LEMMA PeriodIsNat ==
  ASSUME NEW mb \in Nat
  PROVE  ConvertMbToEvents(mb, RegulationTime) \in Nat
<1> DEFINE k == 1000 \div RegulationTime
<1>1. k \in Nat /\ k > 0
  BY PoolAssumption, Z3
<1>2. mb * Mega \in Nat
  BY DEF Mega
<1>3. CacheLineSize * k \in Nat /\ CacheLineSize * k > 0
  BY <1>1 DEF CacheLineSize
<1>4. (mb * Mega) \div (CacheLineSize * k) \in Nat
  BY <1>2, <1>3, QuotientBounds
<1>5. QED
  BY <1>4 DEF ConvertMbToEvents

(* A number between two successive multiples has the lower one as quotient.*)
LEMMA QuotientUnique ==
  ASSUME NEW a \in Nat, NEW t \in Nat, t > 0, NEW q \in Nat,
         q * t <= a, a < q * t + t
  PROVE  a \div t = q
<1> DEFINE d == a \div t
<1>1. d \in Nat /\ d * t <= a /\ a < d * t + t
  BY QuotientBounds
<1> HIDE DEF d
<1>2. d * t \in Nat /\ q * t \in Nat
  BY <1>1
<1>3. (q + 1) * t = q * t + t /\ (d + 1) * t = d * t + t
  BY <1>1, Z3
<1>4. d * t < (q + 1) * t /\ q * t < (d + 1) * t
  BY <1>1, <1>2, <1>3
<1>5. d < q + 1 /\ q < d + 1
  BY <1>1, <1>4, Cancel
<1>6. QED
  BY <1>1, <1>5 DEF d

(* Bandwidth converted to events and back is the same bandwidth.           *)
LEMMA RoundTrip ==
  ASSUME NEW mb \in Nat, NEW t \in 1..1000, 1000 % t = 0
  PROVE  ConvertEventsToMb(ConvertMbToEvents(mb, t), t) = mb
<1> DEFINE q == 1000 \div t
           e == (mb * 1048576) \div (64 * q)
           w == t * 1048576
<1>1. q \in Nat /\ q > 0 /\ q * t = 1000
  BY Z3
<1>2. mb * 1048576 \in Nat /\ 64 * q \in Nat /\ 64 * q > 0
  BY <1>1
<1>3. e \in Nat /\ e * (64 * q) <= mb * 1048576
      /\ mb * 1048576 < e * (64 * q) + 64 * q
  BY <1>2, QuotientBounds
<1> HIDE DEF q, e
<1>4. (e * (64 * q)) * t = e * 64000 /\ (64 * q) * t = 64000
  <2>1. (e * (64 * q)) * t = e * (64 * (q * t)) /\ (64 * q) * t = 64 * (q * t)
    BY <1>1, <1>3, Z3
  <2>2. QED
    BY <1>1, <2>1
<1>5. w \in Nat /\ w >= 1048576 /\ (mb * 1048576) * t = mb * w /\ mb * w \in Nat
  BY Z3
<1> HIDE DEF w
<1>6. e * 64000 <= mb * w
  <2>1. (e * (64 * q)) * t <= (mb * 1048576) * t
    BY <1>1, <1>2, <1>3, Z3
  <2>2. QED
    BY <1>4, <1>5, <2>1
<1>7. mb * w < e * 64000 + 64000
  <2>1. (mb * 1048576) * t < (e * (64 * q) + 64 * q) * t
    BY <1>1, <1>2, <1>3, Z3
  <2>2. (e * (64 * q) + 64 * q) * t = (e * (64 * q)) * t + (64 * q) * t
    BY <1>1, <1>3, Z3
  <2>3. QED
    BY <1>4, <1>5, <2>1, <2>2
<1>8. /\ e * 64000 + (w - 1) \in Nat
      /\ mb * w <= e * 64000 + (w - 1)
      /\ e * 64000 + (w - 1) < mb * w + w
  BY <1>3, <1>5, <1>6, <1>7
<1>9. (e * 64000 + (w - 1)) \div w = mb
  BY <1>5, <1>8, QuotientUnique
<1>10. QED
  <2>1. Mega = 1048576 /\ CacheLineSize = 64
    BY DEF Mega, CacheLineSize
  <2>2. ConvertMbToEvents(mb, t) = e
    BY <2>1 DEF ConvertMbToEvents, e, q
  <2>3. e * 64 * 1000 = e * 64000
    BY <1>3
  <2>4. QED
    BY <1>9, <2>1, <2>2, <2>3 DEF ConvertEventsToMb, w
-----------------------------------------------------------------------------
(* Every variable keeps its type, and a core is served with its counters   *)
(* off.                                                                    *)
THEOREM Typing == Spec => []TypeOK
<1>1. Init => TypeOK
  BY PoolAssumption, PeriodIsNat, 1 \in Cores DEF Init, TypeOK, Cores
<1>2. TypeOK /\ [Next]_vars => TypeOK'
  <2> SUFFICES ASSUME TypeOK, [Next]_vars PROVE TypeOK'
    OBVIOUS
  <2> USE DEF TypeOK, core, master, irq
  <2>0. mcpu \in Cores /\ (IF mcpu = N THEN 1 ELSE mcpu + 1) \in Cores
    BY PoolAssumption DEF Cores
  <2>1. CASE Sample
    BY <2>1, PoolAssumption DEF Sample, Serve
  <2>2. CASE EstimateNegative
    BY <2>2, <2>0 DEF EstimateNegative, NextCore
  <2>3. CASE Estimate
    BY <2>3, PoolAssumption DEF Estimate, Serve
  <2>4. CASE DepositLoad
    BY <2>4 DEF DepositLoad, Serve
  <2>5. CASE DepositStore
    <3>1. Unused \in Nat /\ mreg + Unused \in Nat
      BY UnusedBounds
    <3>2. (mreg + Unused) % Modulus \in 0 .. Modulus - 1
      BY <3>1, Reduction, PoolAssumption
    <3>3. QED
      BY <2>5, <3>1, <3>2 DEF DepositStore, Serve
  <2>6. CASE Replenish
    <3>1. ConvertMbToEvents(ReadAllocation, RegulationTime) \in Nat
      BY AllocationBounds, PeriodIsNat
    <3>2. QED
      BY <2>6, <2>0, <3>1 DEF Replenish, NextCore
  <2>7. ASSUME NEW c \in Cores, Overflow(c) \/ HandlerTests(c) \/ HandlerThrottles(c)
        PROVE  TypeOK'
    <3>1. CASE Overflow(c)
      BY <3>1 DEF Overflow
    <3>2. CASE HandlerTests(c)
      <4>1. pool \in Nat /\ used[c] \in Nat
        BY PoolAssumption
      <4>2. QED
        BY <3>2, <4>1 DEF HandlerTests
    <3>3. CASE HandlerThrottles(c)
      BY <3>3 DEF HandlerThrottles
    <3>4. QED
      BY <2>7, <3>1, <3>2, <3>3
  <2>8. ASSUME NEW c \in Cores, HandlerTakes(c) PROVE TypeOK'
    <3>1. hreg[c] - Reclaim(c) \in Int
      BY DEF Reclaim
    <3>2. (hreg[c] - Reclaim(c)) % Modulus \in 0 .. Modulus - 1
      BY <3>1, PoolAssumption, Z3
    <3>3. QED
      BY <2>8, <3>2 DEF HandlerTakes
  <2>9. ASSUME NEW c \in Cores, HandlerGrants(c) PROVE TypeOK'
    <3>1. Reclaim(c) \in Nat
      BY DEF Reclaim
    <3>2. QED
      BY <2>9, <3>1 DEF HandlerGrants
  <2>10. CASE UNCHANGED vars
    BY <2>10 DEF vars
  <2>11. QED
    BY <2>1, <2>2, <2>3, <2>4, <2>5, <2>6, <2>7, <2>8, <2>9, <2>10
       DEF Next, Master, Handler
<1>3. QED
  BY <1>1, <1>2, PTL DEF Spec

(* No core is allocated more than its limit, whatever its predictions.     *)
THEOREM CeilingHolds == Spec => []WithinCeiling
<1>1. TypeOK => WithinCeiling
  BY AllocationBounds DEF TypeOK, WithinCeiling
<1>2. QED
  BY <1>1, Typing, PTL

(* A core over its limit gets all of it but at most 1 MB/s.                *)
THEOREM CapIsTight == Spec => []CappedCoreKeepsLimit
<1>1. TypeOK => CappedCoreKeepsLimit
  BY AllocationBounds DEF TypeOK, CappedCoreKeepsLimit
<1>2. QED
  BY <1>1, Typing, PTL

(* A replenished core gets the events its allocation in MB/s stands for.   *)
THEOREM BudgetIsExact == Spec => BudgetWorthAllocation
<1>1. TypeOK /\ [Next]_vars =>
        [mpc = "replenish" /\ mpc' = "sample" /\ 1000 % RegulationTime = 0
           => ConvertEventsToMb(left'[mcpu], RegulationTime) = ReadAllocation]_vars
  <2> SUFFICES ASSUME TypeOK, Next, mpc = "replenish", mpc' = "sample",
                      1000 % RegulationTime = 0
               PROVE  ConvertEventsToMb(left'[mcpu], RegulationTime) = ReadAllocation
    OBVIOUS
  <2>1. Replenish
    <3>1. ASSUME NEW c \in Cores, Handler(c) PROVE FALSE
      BY <3>1 DEF Handler, Overflow, HandlerTests, HandlerThrottles, HandlerTakes,
         HandlerGrants, master
    <3>2. QED
      BY <3>1 DEF Next, Master, Sample, EstimateNegative, Estimate, DepositLoad,
         DepositStore, Serve
  <2>2. left'[mcpu] = ConvertMbToEvents(ReadAllocation, RegulationTime)
    BY <2>1 DEF Replenish, TypeOK
  <2>3. ReadAllocation \in Nat
    BY AllocationBounds DEF TypeOK
  <2>4. QED
    BY <2>2, <2>3, RoundTrip, PoolAssumption
<1>2. QED
  BY <1>1, Typing, PTL DEF Spec, BudgetWorthAllocation

(* A cache line in an interval of a second or less counts as 1 MB/s at     *)
(* most, so a number of events is worth no more MB/s than its value.       *)
LEMMA EventsWorthAtMost ==
  ASSUME NEW e \in Nat, NEW t \in 1..1000
  PROVE  ConvertEventsToMb(e, t) <= e
<1> DEFINE w == t * 1048576
           a == e * 64000 + (w - 1)
<1>1. w \in Nat /\ w >= 64000
  BY Z3
<1> HIDE DEF w
<1>2. e * 64000 <= e * w /\ e * w \in Nat
  <2>1. e * w - e * 64000 = e * (w - 64000)
    BY <1>1, Z3
  <2>2. e * (w - 64000) >= 0
    BY <1>1, Z3
  <2>3. QED
    BY <1>1, <2>1, <2>2
<1>3. a \in Nat /\ a < (e + 1) * w
  <2>1. (e + 1) * w = e * w + w
    BY <1>1, Z3
  <2>2. QED
    BY <1>1, <1>2, <2>1
<1>4. a \div w \in Nat /\ (a \div w) * w <= a
  BY <1>1, <1>3, QuotientBounds
<1> HIDE DEF a
<1>5. (a \div w) * w < (e + 1) * w
  <2>1. (a \div w) * w \in Nat /\ (e + 1) * w \in Nat
    BY <1>1, <1>4
  <2>2. QED
    BY <1>3, <1>4, <2>1
<1>6. a \div w < e + 1
  BY <1>1, <1>4, <1>5, Cancel
<1>7. ConvertEventsToMb(e, t) = a \div w
  <2>1. Mega = 1048576 /\ CacheLineSize = 64
    BY DEF Mega, CacheLineSize
  <2>2. e * 64 * 1000 = e * 64000
    BY Z3
  <2>3. QED
    BY <2>1, <2>2 DEF ConvertEventsToMb, a, w
<1>8. QED
  BY <1>4, <1>6, <1>7

(* What a handler grants its core is the number it took from the pool.     *)
LEMMA GrantSteps ==
  ASSUME TypeOK, Next, NEW c \in Cores, hpc[c] = "grant", hpc'[c] = "idle"
  PROVE  left'[c] = Reclaim(c) /\ Reclaim(c) \in Nat
<1>1. ~Master
  BY DEF Master, Sample, EstimateNegative, Estimate, DepositLoad, DepositStore,
     Replenish, irq
<1>2. PICK d \in Cores : Handler(d)
  BY <1>1 DEF Next
<1>3. HandlerGrants(c)
  <2>1. hpc \in [Cores -> {"idle", "queued", "take", "grant"}]
    BY DEF TypeOK
  <2>2. hpc[d] = "grant" /\ d = c
    BY <1>2, <2>1 DEF Handler, Overflow, HandlerTests, HandlerThrottles, HandlerTakes,
       HandlerGrants
  <2>3. QED
    BY <1>2, <2>2 DEF Handler, Overflow, HandlerTests, HandlerThrottles, HandlerTakes
<1>4. QED
  BY <1>3 DEF HandlerGrants, Reclaim, TypeOK

(* What a handler grants its core is worth no more than it took.           *)
THEOREM GrantIsCovered == Spec => GrantWithinReclaim
<1>1. TypeOK /\ [Next]_vars =>
        [\A c \in Cores : hpc[c] = "grant" /\ hpc'[c] = "idle"
           => ConvertEventsToMb(left'[c], RegulationTime) <= Reclaim(c)]_vars
  <2> SUFFICES ASSUME TypeOK, Next, NEW c \in Cores, hpc[c] = "grant", hpc'[c] = "idle"
               PROVE  ConvertEventsToMb(left'[c], RegulationTime) <= Reclaim(c)
    OBVIOUS
  <2>1. left'[c] = Reclaim(c) /\ Reclaim(c) \in Nat
    BY GrantSteps
  <2>2. RegulationTime \in 1..1000
    BY PoolAssumption
  <2>3. QED
    BY <2>1, <2>2, EventsWorthAtMost, ZenonT(30)
<1>2. QED
  BY <1>1, Typing, PTL DEF Spec, GrantWithinReclaim

(* A cache line in an interval is worth less than a sixteenth of a MB/s.   *)
LEMMA EventsWorthLittle ==
  ASSUME NEW e \in Nat, NEW t \in 1..1000
  PROVE  ConvertEventsToMb(e, t) <= e \div 16 + 1
<1> DEFINE w == t * 1048576
           q == e \div 16
           a == e * 64000 + (w - 1)
<1>1. w \in Nat /\ w >= 1048576
  BY Z3
<1>2. q \in Nat /\ e <= 16 * q + 15
  BY Z3
<1> HIDE DEF w, q
<1>3. e * 64000 <= q * 1024000 + 960000
  BY <1>2
<1>4. q * 1024000 <= q * w /\ q * w \in Nat
  <2>1. q * w - q * 1024000 = q * (w - 1024000)
    BY <1>1, <1>2, Z3
  <2>2. q * (w - 1024000) >= 0
    BY <1>1, <1>2, Z3
  <2>3. QED
    BY <1>1, <1>2, <2>1, <2>2
<1>5. a \in Nat /\ a < (q + 2) * w
  <2>1. (q + 2) * w = q * w + 2 * w
    BY <1>1, <1>2, Z3
  <2>2. QED
    BY <1>1, <1>2, <1>3, <1>4, <2>1
<1>6. a \div w \in Nat /\ (a \div w) * w <= a
  BY <1>1, <1>5, QuotientBounds
<1> HIDE DEF a
<1>7. (a \div w) * w < (q + 2) * w
  <2>1. (a \div w) * w \in Nat /\ (q + 2) * w \in Nat
    BY <1>1, <1>2, <1>6
  <2>2. QED
    BY <1>5, <1>6, <2>1
<1>8. a \div w < q + 2
  BY <1>1, <1>2, <1>6, <1>7, Cancel
<1>9. ConvertEventsToMb(e, t) = a \div w
  <2>1. Mega = 1048576 /\ CacheLineSize = 64
    BY DEF Mega, CacheLineSize
  <2>2. e * 64 * 1000 = e * 64000
    BY Z3
  <2>3. QED
    BY <2>1, <2>2 DEF ConvertEventsToMb, a, w
<1>10. QED
  BY <1>2, <1>6, <1>8, <1>9 DEF q

(* The mistaken unit makes a grant worth next to nothing: of the bandwidth *)
(* taken out of the pool no more than a sixteenth, rounded up, reaches the *)
(* core, for any interval.                                                 *)
THEOREM GrantIsSixteenth ==
  Spec => [][\A c \in Cores : hpc[c] = "grant" /\ hpc'[c] = "idle"
               => ConvertEventsToMb(left'[c], RegulationTime) <= Reclaim(c) \div 16 + 1]_vars
<1>1. TypeOK /\ [Next]_vars =>
        [\A c \in Cores : hpc[c] = "grant" /\ hpc'[c] = "idle"
           => ConvertEventsToMb(left'[c], RegulationTime) <= Reclaim(c) \div 16 + 1]_vars
  <2> SUFFICES ASSUME TypeOK, Next, NEW c \in Cores, hpc[c] = "grant", hpc'[c] = "idle"
               PROVE  ConvertEventsToMb(left'[c], RegulationTime) <= Reclaim(c) \div 16 + 1
    OBVIOUS
  <2>1. left'[c] = Reclaim(c) /\ Reclaim(c) \in Nat
    BY GrantSteps
  <2>2. RegulationTime \in 1..1000
    BY PoolAssumption
  <2>3. QED
    BY <2>1, <2>2, EventsWorthLittle, ZenonT(30)
<1>2. QED
  BY <1>1, Typing, PTL DEF Spec
-----------------------------------------------------------------------------
(* What makes the pool invariant inductive: the values of the pool that    *)
(* the master and the handlers hold in registers are old values of it, and *)
(* a handler takes out of its own loaded value, which it has compared.     *)
LoadedBounded ==
  /\ mpc = "store" => mreg <= deposited
  /\ \A c \in Cores : hpc[c] = "take" => hused[c] < hreg[c] /\ hreg[c] <= deposited

PoolInv == PoolFilledByUnused /\ LoadedBounded

LEMMA PoolInvariant == Spec => []PoolInv
<1>1. Init => PoolInv
  BY PoolAssumption DEF Init, PoolInv, PoolFilledByUnused, LoadedBounded
<1>2. TypeOK /\ TypeOK' /\ PoolInv /\ [Next]_vars => PoolInv'
  <2> SUFFICES ASSUME TypeOK, TypeOK', PoolInv, [Next]_vars PROVE PoolInv'
    OBVIOUS
  <2> USE DEF TypeOK, PoolInv, PoolFilledByUnused, LoadedBounded, core, master, irq
  <2>1. CASE Sample \/ EstimateNegative \/ Estimate \/ Replenish
    BY <2>1 DEF Sample, EstimateNegative, Estimate, Replenish, Serve, NextCore
  <2>2. CASE DepositLoad
    BY <2>2 DEF DepositLoad, Serve
  <2>3. CASE DepositStore
    <3>1. Unused \in Nat /\ mreg + Unused \in Nat
      BY UnusedBounds
    <3>2. (mreg + Unused) % Modulus <= mreg + Unused
      BY <3>1, Reduction, PoolAssumption, Zenon
    <3>3. mreg <= deposited /\ deposited <= deposited' /\ pool' <= deposited'
      BY <2>3, <3>1, <3>2 DEF DepositStore, Serve
    <3>4. UNCHANGED <<hpc, hused, hreg>> /\ mpc' # "store"
      BY <2>3 DEF DepositStore, Serve
    <3>5. QED
      BY <3>3, <3>4
  <2>4. ASSUME NEW c \in Cores, Overflow(c) \/ HandlerTests(c) \/ HandlerThrottles(c)
        PROVE  PoolInv'
    BY <2>4 DEF Overflow, HandlerTests, HandlerThrottles
  <2>5. ASSUME NEW c \in Cores, HandlerTakes(c) PROVE PoolInv'
    <3>1. hused[c] < hreg[c] /\ hreg[c] <= deposited
      BY <2>5 DEF HandlerTakes
    <3>2. hreg[c] - Reclaim(c) \in Nat /\ hreg[c] - Reclaim(c) <= deposited
      BY <3>1 DEF Reclaim
    <3>3. (hreg[c] - Reclaim(c)) % Modulus <= hreg[c] - Reclaim(c)
      BY <3>2, Reduction, PoolAssumption
    <3>4. pool' = (hreg[c] - Reclaim(c)) % Modulus
      BY <2>5 DEF HandlerTakes
    <3>5. pool' <= deposited
      BY <3>2, <3>3, <3>4
    <3>6. QED
      BY <2>5, <3>5 DEF HandlerTakes
  <2>6. ASSUME NEW c \in Cores, HandlerGrants(c) PROVE PoolInv'
    BY <2>6 DEF HandlerGrants
  <2>7. CASE UNCHANGED vars
    BY <2>7 DEF vars
  <2>8. QED
    BY <2>1, <2>2, <2>3, <2>4, <2>5, <2>6, <2>7 DEF Next, Master, Handler
<1>3. QED
  BY <1>1, <1>2, Typing, PTL DEF Spec

(* The racing updates never make the pool exceed what was deposited.       *)
THEOREM PoolFilled == Spec => []PoolFilledByUnused
<1>1. PoolInv => PoolFilledByUnused
  BY DEF PoolInv
<1>2. QED
  BY <1>1, PoolInvariant, PTL
=============================================================================

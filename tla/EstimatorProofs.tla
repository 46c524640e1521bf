--------------------------- MODULE EstimatorProofs ---------------------------
(***************************************************************************)
(* Theorems about the estimator, for any bandwidths, widths of the         *)
(* integers, intervals and counts: its types, that an estimate is made     *)
(* from the latest samples in their order, that the error compares with    *)
(* the estimate the budget was made from and learning follows it, that     *)
(* budgets come from estimates in range, that a wrapped difference is      *)
(* learned from under a small weight only, and that a skipped pass costs   *)
(* weight.                                                                 *)
(***************************************************************************)
EXTENDS Estimator, TLAPS

LEMMA Quotient ==
  ASSUME NEW a \in Nat, NEW d \in Nat \ {0}
  PROVE  a \div d \in Nat
BY Z3

LEMMA Remainder ==
  ASSUME NEW a \in Int, NEW m \in Nat \ {0}
  PROVE  a % m \in 0 .. m - 1
BY Z3

LEMMA U64Type == ASSUME NEW x \in Int PROVE ToU64(x) \in 0 .. LongMod - 1
BY Remainder, EstimatorAssumption DEF ToU64

LEMMA S64Type == ASSUME NEW x \in Int PROVE ToS64(x) \in Int
<1>1. LongMod \div 2 \in Int
  BY EstimatorAssumption
<1>2. (x + LongMod \div 2) % LongMod \in Int
  BY <1>1, Remainder, EstimatorAssumption
<1>3. QED
  BY <1>1, <1>2 DEF ToS64

LEMMA IntType == ASSUME NEW x \in Int PROVE ToInt(x) \in Int
<1>1. IntMod \div 2 \in Int
  BY EstimatorAssumption
<1>2. (x + IntMod \div 2) % IntMod \in Int
  BY <1>1, Remainder, EstimatorAssumption
<1>3. QED
  BY <1>1, <1>2 DEF ToInt

LEMMA EventsType ==
  ASSUME NEW n \in Nat, NEW t \in 1..1000
  PROVE  ConvertEventsToMb(n, t) \in Nat
<1>1. Mega = 1048576 /\ CacheLineSize = 64
  BY DEF Mega, CacheLineSize
<1> DEFINE w == t * Mega
           a == n * CacheLineSize * 1000 + (w - 1)
<1>2. w \in Nat \ {0} /\ a \in Nat
  BY <1>1
<1>3. ConvertEventsToMb(n, t) = a \div w
  BY DEF ConvertEventsToMb
<1> HIDE DEF w, a
<1>4. QED
  BY <1>2, <1>3, Quotient

LEMMA WordType ==
  ASSUME NEW n \in Nat, NEW t \in 1..1000
  PROVE  ToU64(ToInt(ConvertEventsToMb(n, t))) \in 0 .. LongMod - 1
<1>1. ConvertEventsToMb(n, t) \in Nat
  BY EventsType, ZenonT(30)
<1>2. ToInt(ConvertEventsToMb(n, t)) \in Int
  BY <1>1, IntType
<1>3. QED
  BY <1>2, U64Type

LEMMA EstimateType ==
  ASSUME NEW x, NEW one PROVE DoubleToInt(x, one) \in Int
BY EstimatorAssumption DEF DoubleToInt

LEMMA OneType == ASSUME TypeOK, NEW k \in Kinds PROVE One(k) \in Nat \ {0}
<1>1. Scale \in Nat \ {0} /\ rate[k] \in Nat \ {0}
  BY EstimatorAssumption DEF TypeOK
<1>2. QED
  BY <1>1, Z3 DEF One

LEMMA SumType ==
  ASSUME NEW f \in [Slots -> Nat] PROVE SumOf(f) \in Nat
BY DEF SumOf, Slots

LEMMA NormType ==
  ASSUME NEW feat \in [Slots -> 0 .. LongMod - 1] PROVE L2Norm(feat) \in Nat
<1> DEFINE sq == [i \in Slots |-> ToU64((feat[i] * feat[i]) \div NormUnit)]
<1>1. ASSUME NEW i \in Slots PROVE sq[i] \in Nat
  <2>1. feat[i] \in Nat
    BY EstimatorAssumption
  <2>2. feat[i] * feat[i] \in Nat
    BY <2>1
  <2>3. (feat[i] * feat[i]) \div NormUnit \in Nat
    BY <2>2, Quotient, EstimatorAssumption
  <2>4. QED
    BY <2>3, U64Type, EstimatorAssumption
<1>2. sq \in [Slots -> Nat]
  BY <1>1
<1> HIDE DEF sq
<1>3. ToU64(SumOf(sq)) \in 0 .. LongMod - 1
  BY <1>2, SumType, U64Type
<1>4. QED
  BY <1>3, EstimatorAssumption DEF L2Norm, sq

(* The update of a weight vector is a weight vector.                       *)
LEMMA UpdatedType ==
  ASSUME NEW error \in Int, NEW feat \in [Slots -> 0 .. LongMod - 1],
         NEW wm \in [Slots -> Int], NEW lrate \in Nat
  PROVE  Updated(error, feat, wm, lrate) \in [Slots -> Int]
<1> DEFINE size == IF error < 0 THEN -error ELSE error
           t2(i) == ToU64(size * feat[i]) \div L2Norm(feat)
<1>1. CASE L2Norm(feat) = 0
  BY <1>1 DEF Updated
<1>2. CASE L2Norm(feat) # 0
  <2>1. ASSUME NEW i \in Slots PROVE t2(i) * lrate \in Int
    <3>1. size \in Nat /\ feat[i] \in Nat
      BY EstimatorAssumption
    <3>2. size * feat[i] \in Int
      BY <3>1
    <3>3. ToU64(size * feat[i]) \in Nat
      BY <3>2, U64Type, EstimatorAssumption
    <3>4. t2(i) \in Nat
      BY <1>2, <3>3, NormType, Quotient
    <3> HIDE DEF t2
    <3>5. QED
      BY <3>4
  <2> HIDE DEF t2
  <2>2. [i \in Slots |-> IF error < 0 THEN wm[i] - t2(i) * lrate ELSE wm[i] + t2(i) * lrate]
          \in [Slots -> Int]
    BY <2>1
  <2>3. QED
    BY <1>2, <2>2 DEF Updated, t2
<1>3. QED
  BY <1>1, <1>2

(* What an estimating step does, whichever of the two kinds it is for.     *)
LEMMA EstimatesType ==
  ASSUME TypeOK, NEW k \in Kinds, NEW from, NEW to,
         to \in {"write", "allocate"}, Estimates(k, from, to)
  PROVE  TypeOK'
<1> USE DEF TypeOK
<1>1. hist' \in [Kinds -> [Slots -> 0 .. LongMod - 1]]
  BY DEF Estimates
<1>2. next' \in [Kinds -> Int]
  <2>1. Estimate(hist'[k], weight[k], ri, One(k)) \in Int
    BY EstimateType, EstimatorAssumption DEF Estimate
  <2>2. QED
    BY <2>1 DEF Estimates
<1>3. rate' \in [Kinds -> Nat \ {0}]
  <2>1. Halved(rate[k]) \in Nat \ {0}
    BY DEF Halved
  <2>2. CASE next'[k] < 0
    <3>1. rate' = [rate EXCEPT ![k] = Halved(rate[k])]
      BY <2>2 DEF Estimates
    <3>2. QED
      BY <2>1, <3>1
  <2>3. CASE ~(next'[k] < 0)
    BY <2>3, Zenon DEF Estimates
  <2>4. QED
    BY <2>2, <2>3
<1>4. pc' \in {"run", "write", "allocate"}
  BY DEF Estimates
<1>5. QED
  BY <1>1, <1>2, <1>3, <1>4 DEF Estimates, counters, setting, samples
-----------------------------------------------------------------------------
(* Every variable keeps its type.                                          *)
THEOREM Typing == Spec => []TypeOK
<1>1. Init => TypeOK
  BY EstimatorAssumption DEF Init, TypeOK, Kinds, Slots
<1>2. TypeOK /\ [Next]_vars => TypeOK'
  <2> SUFFICES ASSUME TypeOK, [Next]_vars PROVE TypeOK'
    OBVIOUS
  <2> USE DEF TypeOK, counters, setting, samples, rings, weights, ests
  <2>1. CASE Sample
    <3>0. time \in 1..1000 /\ events \in [Kinds -> Nat]
      OBVIOUS
    <3> HIDE DEF TypeOK
    <3>1. ASSUME NEW k \in Kinds
          PROVE  ToU64(ToInt(ConvertEventsToMb(events[k], time))) \in 0 .. LongMod - 1
      BY <3>0, WordType, ZenonT(40)
    <3>2. new' \in [Kinds -> 0 .. LongMod - 1]
      BY <2>1, <3>1 DEF Sample
    <3>3. ASSUME NEW k \in Kinds PROVE ToU64(new'[k] - new[k]) \in 0 .. LongMod - 1
      <4>1. new'[k] - new[k] \in Int
        BY <3>2, EstimatorAssumption DEF TypeOK
      <4>2. QED
        BY <4>1, U64Type
    <3>4. used' \in [Kinds -> 0 .. LongMod - 1]
      BY <2>1, <3>3 DEF Sample
    <3>5. pc' = "read" /\ counting' = FALSE
          /\ UNCHANGED <<events, bursts, setting, rings, weights, ests>>
      BY <2>1 DEF Sample, Goes
    <3>6. QED
      BY <3>2, <3>4, <3>5 DEF TypeOK
  <2>2. CASE EstimateRead
    BY <2>2, EstimatesType DEF EstimateRead, Kinds
  <2>3. CASE EstimateWrite
    BY <2>3, EstimatesType DEF EstimateWrite, Kinds
  <2>4. CASE Replenish
    BY <2>4 DEF Replenish, Goes
  <2>5. CASE Learn
    <3>1. ASSUME NEW k \in Kinds
          PROVE  Updated(ToS64(used[k] - prev[k]), hist[k], weight[k], rate[k])
                   \in [Slots -> Int]
      <4>1. used[k] - prev[k] \in Int
        BY EstimatorAssumption
      <4>2. ToS64(used[k] - prev[k]) \in Int /\ rate[k] \in Nat
        BY <4>1, S64Type
      <4>3. hist[k] \in [Slots -> 0 .. LongMod - 1] /\ weight[k] \in [Slots -> Int]
        OBVIOUS
      <4>4. QED
        BY <4>2, <4>3, UpdatedType, Zenon
    <3>2. weight' \in [Kinds -> [Slots -> Int]]
      BY <2>5, <3>1 DEF Learn
    <3>3. recent' \in [Kinds -> [Slots -> 0 .. LongMod - 1]]
      BY <2>5 DEF Learn, Slots
    <3>4. ri' \in Slots
      BY <2>5 DEF Learn, Advanced, Slots
    <3>5. QED
      BY <2>5, <3>2, <3>3, <3>4 DEF Learn, Goes
  <2>6. CASE Save
    BY <2>6 DEF Save, Goes
  <2>7. CASE Count
    <3>1. events' \in [Kinds -> Nat]
      BY <2>7, EstimatorAssumption DEF Count, Kinds
    <3>2. bursts' \in 0..MaxBursts
      BY <2>7, EstimatorAssumption DEF Count
    <3>3. QED
      BY <2>7, <3>1, <3>2 DEF Count
  <2>8. CASE SetInterval
    BY <2>8, EstimatorAssumption DEF SetInterval
  <2>9. CASE Start
    BY <2>9, EstimatorAssumption DEF Start
  <2>10. CASE UNCHANGED vars
    BY <2>10 DEF vars
  <2> HIDE DEF TypeOK
  <2>11. QED
    BY <2>1, <2>2, <2>3, <2>4, <2>5, <2>6, <2>7, <2>8, <2>9, <2>10 DEF Next, Master
<1>3. QED
  BY <1>1, <1>2, PTL DEF Spec
-----------------------------------------------------------------------------
(* The ring as a shift register: counting back from ri it holds the        *)
(* samples of the last learned passes; slot ri itself holds whatever the   *)
(* last cut-short pass left, until the sample of this pass is stored.      *)
RingShifts == \A k \in Kinds : \A i \in Slots \ {0} :
                hist[k][Slot(ri, i)] = recent[k][i - 1]

Stored ==
  /\ pc \in {"write", "allocate", "learn"} => hist["read"][ri] = used["read"]
  /\ pc \in {"allocate", "learn"} => hist["write"][ri] = used["write"]

RingInv == RingShifts /\ Stored

LEMMA SlotFacts ==
  ASSUME NEW r \in Slots, NEW i \in Slots \ {0}
  PROVE  /\ Slot(r, 0) = r /\ Slot(r, i) \in Slots /\ Slot(r, i) # r
         /\ Slot(Advanced(r), i) = Slot(r, i - 1)
BY DEF Slot, Slots, Advanced

LEMMA EstimatesKeepRing ==
  ASSUME TypeOK, RingShifts, NEW k \in Kinds, NEW from, NEW to, Estimates(k, from, to)
  PROVE  RingShifts'
<1> SUFFICES ASSUME NEW l \in Kinds, NEW i \in Slots \ {0}
             PROVE  hist'[l][Slot(ri, i)] = recent[l][i - 1]
  BY DEF RingShifts, Estimates
<1>1. hist'[l][Slot(ri, i)] = hist[l][Slot(ri, i)]
  BY SlotFacts DEF Estimates, TypeOK
<1>2. QED
  BY <1>1 DEF RingShifts

LEMMA RingInvariant == Spec => []RingInv
<1>1. Init => RingInv
  BY SlotFacts DEF Init, RingInv, RingShifts, Stored, Slots, Slot
<1>2. TypeOK /\ RingInv /\ [Next]_vars => RingInv'
  <2> SUFFICES ASSUME TypeOK, RingInv, [Next]_vars PROVE RingInv'
    OBVIOUS
  <2>1. CASE Sample
    BY <2>1 DEF Sample, Goes, RingInv, RingShifts, Stored, rings
  <2>2. CASE EstimateRead
    <3>1. RingShifts'
      BY <2>2, EstimatesKeepRing DEF EstimateRead, RingInv, Kinds
    <3>2. hist'["read"][ri] = used["read"] /\ pc' \in {"run", "write"}
      BY <2>2 DEF EstimateRead, Estimates, TypeOK, Kinds
    <3>3. QED
      BY <2>2, <3>1, <3>2 DEF EstimateRead, Estimates, RingInv, Stored, samples
  <2>3. CASE EstimateWrite
    <3>1. RingShifts'
      BY <2>3, EstimatesKeepRing DEF EstimateWrite, RingInv, Kinds
    <3>2. hist'["write"][ri] = used["write"] /\ hist'["read"] = hist["read"]
      BY <2>3 DEF EstimateWrite, Estimates, TypeOK, Kinds
    <3>3. hist["read"][ri] = used["read"]
      BY <2>3 DEF EstimateWrite, Estimates, RingInv, Stored
    <3>4. QED
      BY <2>3, <3>1, <3>2, <3>3
         DEF EstimateWrite, Estimates, RingInv, Stored, samples
  <2>4. CASE Replenish
    BY <2>4 DEF Replenish, Goes, RingInv, RingShifts, Stored, rings, samples
  <2>5. CASE Learn
    <3>1. ASSUME NEW k \in Kinds, NEW i \in Slots \ {0}
          PROVE  hist'[k][Slot(ri', i)] = recent'[k][i - 1]
      <4>1. hist'[k][Slot(ri', i)] = hist[k][Slot(ri, i - 1)]
        BY <2>5, SlotFacts DEF Learn, TypeOK
      <4>2. recent'[k][i - 1] = IF i = 1 THEN used[k] ELSE recent[k][i - 2]
        BY <2>5 DEF Learn, Slots
      <4>3. CASE i = 1
        <5>1. hist[k][ri] = used[k]
          BY <2>5 DEF Learn, Goes, RingInv, Stored, Kinds
        <5>2. i - 1 = 0 /\ Slot(ri, 0) = ri
          BY <4>3, SlotFacts DEF TypeOK
        <5>3. QED
          BY <4>1, <4>2, <4>3, <5>1, <5>2
      <4>4. CASE i # 1
        <5>1. i - 1 \in Slots \ {0} /\ (i - 1) - 1 = i - 2
          BY <4>4 DEF Slots
        <5>2. hist[k][Slot(ri, i - 1)] = recent[k][i - 2]
          BY <5>1 DEF RingInv, RingShifts
        <5>3. QED
          BY <4>1, <4>2, <4>4, <5>2
      <4>5. QED
        BY <4>3, <4>4
    <3>2. Stored'
      BY <2>5 DEF Learn, Goes, Stored
    <3>3. QED
      BY <3>1, <3>2 DEF RingInv, RingShifts
  <2>6. CASE Save
    BY <2>6 DEF Save, Goes, RingInv, RingShifts, Stored, rings
  <2>7. CASE Count \/ SetInterval \/ Start
    BY <2>7 DEF Count, SetInterval, Start, RingInv, RingShifts, Stored, rings, samples
  <2>8. CASE UNCHANGED vars
    BY <2>8 DEF vars, RingInv, RingShifts, Stored, rings, samples
  <2>9. QED
    BY <2>1, <2>2, <2>3, <2>4, <2>5, <2>6, <2>7, <2>8 DEF Next, Master
<1>3. QED
  BY <1>1, <1>2, Typing, PTL DEF Spec

(* An estimating step weighs the latest samples in their order.            *)
LEMMA EstimatesLatest ==
  ASSUME TypeOK, RingInv, NEW k \in Kinds, NEW to, Estimates(k, k, to)
  PROVE  Predicts(k, k)
<1>1. ASSUME NEW i \in Slots PROVE hist'[k][Slot(ri, i)] = Latest(k)[i]
  <2>1. CASE i = 0
    BY <2>1, SlotFacts DEF Estimates, TypeOK, Latest, Slot, Slots
  <2>2. CASE i # 0
    <3>1. hist'[k][Slot(ri, i)] = hist[k][Slot(ri, i)]
      BY <2>2, SlotFacts DEF Estimates, TypeOK
    <3>2. QED
      BY <2>2, <3>1 DEF RingInv, RingShifts, Latest
  <2>3. QED
    BY <2>1, <2>2
<1>2. [i \in Slots |-> weight[k][i] * hist'[k][Slot(ri, i)]]
        = [i \in Slots |-> weight[k][i] * Latest(k)[i]]
  BY <1>1
<1>3. next'[k] = Estimate(hist'[k], weight[k], ri, One(k))
  BY DEF Estimates, TypeOK
<1>4. QED
  BY <1>2, <1>3 DEF Predicts, Estimate, LmsPredict

(* Whatever passes were cut short, every estimate is made from the latest  *)
(* samples, each under the weight of its age.                              *)
THEOREM PredictionUsesLatest == Spec => PredictsFromLatest
<1>1. TypeOK /\ RingInv /\ [Next]_vars =>
        [Predicts("read", "read") /\ Predicts("write", "write")]_vars
  <2> SUFFICES ASSUME TypeOK, RingInv, Next
               PROVE  Predicts("read", "read") /\ Predicts("write", "write")
    OBVIOUS
  <2>1. CASE EstimateRead
    <3>1. Predicts("read", "read")
      BY <2>1, EstimatesLatest DEF EstimateRead, Kinds
    <3>2. pc = "read"
      BY <2>1 DEF EstimateRead, Estimates
    <3>3. QED
      BY <3>1, <3>2 DEF Predicts
  <2>2. CASE EstimateWrite
    <3>1. Predicts("write", "write")
      BY <2>2, EstimatesLatest DEF EstimateWrite, Kinds
    <3>2. pc = "write"
      BY <2>2 DEF EstimateWrite, Estimates
    <3>3. QED
      BY <3>1, <3>2 DEF Predicts
  <2>3. CASE Sample \/ Replenish \/ Learn \/ Save \/ Count \/ SetInterval \/ Start
    BY <2>3 DEF Sample, Replenish, Learn, Save, Goes, Count, SetInterval, Start, Predicts
  <2>4. QED
    BY <2>1, <2>2, <2>3 DEF Next, Master
<1>2. QED
  BY <1>1, Typing, RingInvariant, PTL DEF Spec, PredictsFromLatest
-----------------------------------------------------------------------------
(* Between the replenishment and the end of the pass it is next_estimate   *)
(* that the budget was made from; a start zeroes both.                     *)
GrantFollowed ==
  /\ ErrorOfGranted
  /\ pc \in {"learn", "save"} => \A k \in Kinds : next[k] = granted[k]

(* The error compares the consumption with the estimate it was granted.    *)
THEOREM ErrorUsesGranted == Spec => []ErrorOfGranted
<1>1. Init => GrantFollowed
  BY DEF Init, GrantFollowed, ErrorOfGranted
<1>2. GrantFollowed /\ [Next]_vars => GrantFollowed'
  <2> SUFFICES ASSUME GrantFollowed, [Next]_vars PROVE GrantFollowed'
    OBVIOUS
  <2> USE DEF GrantFollowed, ErrorOfGranted, Goes, ests
  <2>1. CASE Sample
    BY <2>1 DEF Sample
  <2>2. CASE EstimateRead
    BY <2>2 DEF EstimateRead, Estimates
  <2>3. CASE EstimateWrite
    BY <2>3 DEF EstimateWrite, Estimates
  <2>4. CASE Replenish \/ Learn \/ Save
    BY <2>4 DEF Replenish, Learn, Save
  <2>5. CASE Count \/ SetInterval
    BY <2>5 DEF Count, SetInterval
  <2>6. CASE Start
    BY <2>6 DEF Start
  <2>7. CASE UNCHANGED vars
    BY <2>7 DEF vars
  <2>8. QED
    BY <2>1, <2>2, <2>3, <2>4, <2>5, <2>6, <2>7 DEF Next, Master
<1>3. GrantFollowed => ErrorOfGranted
  BY DEF GrantFollowed
<1>4. QED
  BY <1>1, <1>2, <1>3, PTL DEF Spec
-----------------------------------------------------------------------------
(* An update moves every weight the way of the error, or not at all.       *)
LEMMA UpdatedWay ==
  ASSUME NEW error \in Int, NEW feat \in [Slots -> 0 .. LongMod - 1],
         NEW wm \in [Slots -> Int], NEW lrate \in Nat, NEW i \in Slots
  PROVE  /\ error < 0 => Updated(error, feat, wm, lrate)[i] <= wm[i]
         /\ ~(error < 0) => Updated(error, feat, wm, lrate)[i] >= wm[i]
<1> DEFINE size == IF error < 0 THEN -error ELSE error
           t2(j) == ToU64(size * feat[j]) \div L2Norm(feat)
<1>1. CASE L2Norm(feat) = 0
  BY <1>1 DEF Updated
<1>2. CASE L2Norm(feat) # 0
  <2>1. t2(i) * lrate \in Nat
    <3>1. size \in Nat /\ feat[i] \in Nat
      BY EstimatorAssumption
    <3>2. size * feat[i] \in Int
      BY <3>1
    <3>3. ToU64(size * feat[i]) \in Nat
      BY <3>2, U64Type, EstimatorAssumption
    <3>4. t2(i) \in Nat
      BY <1>2, <3>3, NormType, Quotient
    <3> HIDE DEF t2
    <3>5. QED
      BY <3>4, Z3
  <2>2. Updated(error, feat, wm, lrate)[i]
          = IF error < 0 THEN wm[i] - t2(i) * lrate ELSE wm[i] + t2(i) * lrate
    BY <1>2 DEF Updated
  <2> DEFINE step == t2(i) * lrate
  <2>3. step \in Nat /\ Updated(error, feat, wm, lrate)[i]
                        = IF error < 0 THEN wm[i] - step ELSE wm[i] + step
    BY <2>1, <2>2
  <2> HIDE DEF step
  <2>4. QED
    BY <2>3
<1>3. QED
  BY <1>1, <1>2

LEMMA TimesMonotone ==
  ASSUME NEW a \in Int, NEW b \in Int, NEW f \in Nat, a <= b
  PROVE  a * f \in Int /\ b * f \in Int /\ a * f <= b * f
<1>1. (b - a) * f >= 0
  BY Z3
<1>2. QED
  BY <1>1, Z3

(* With samples, which are never negative, a prediction grows with the     *)
(* weights, however weights and samples are paired.                        *)
LEMMA PredictMonotone ==
  ASSUME NEW feat \in [Slots -> 0 .. LongMod - 1], NEW r \in Slots,
         NEW low \in [Slots -> Int], NEW high \in [Slots -> Int],
         \A i \in Slots : low[i] <= high[i]
  PROVE  /\ LmsPredict(feat, low, r) \in Int /\ LmsPredict(feat, high, r) \in Int
         /\ LmsPredict(feat, low, r) <= LmsPredict(feat, high, r)
<1> DEFINE p == [i \in Slots |-> low[i] * feat[Slot(r, i)]]
           q == [i \in Slots |-> high[i] * feat[Slot(r, i)]]
<1>1. ASSUME NEW i \in Slots PROVE p[i] \in Int /\ q[i] \in Int /\ p[i] <= q[i]
  <2>1. Slot(r, i) \in Slots
    BY DEF Slot, Slots
  <2>2. feat[Slot(r, i)] \in Nat
    BY <2>1, EstimatorAssumption
  <2>3. QED
    BY <2>2, TimesMonotone
<1> HIDE DEF p, q
<1>2. SumOf(p) \in Int /\ SumOf(q) \in Int /\ SumOf(p) <= SumOf(q)
  BY <1>1 DEF SumOf, Slots
<1>3. QED
  BY <1>2 DEF LmsPredict, p, q

LEMMA OnlyLearnLearns ==
  ASSUME Next, pc = "learn", pc' = "save" PROVE Learn
BY DEF Next, Master, Sample, EstimateRead, EstimateWrite, Estimates,
   Replenish, Save, Goes, Count, SetInterval, Start

LEMMA ErrorType ==
  ASSUME TypeOK, NEW k \in Kinds PROVE ToS64(used[k] - prev[k]) \in Int
<1>1. used[k] - prev[k] \in Int
  BY EstimatorAssumption DEF TypeOK
<1>2. QED
  BY <1>1, S64Type

(* The learning step moves a prediction the way of the error.              *)
LEMMA LearnFollows ==
  ASSUME TypeOK, Learn, NEW k \in Kinds
  PROVE  LET gain == LmsPredict(hist[k], weight'[k], ri) - LmsPredict(hist[k], weight[k], ri)
         IN  /\ gain \in Int
             /\ IF ToS64(used[k] - prev[k]) < 0 THEN gain <= 0 ELSE gain >= 0
<1> DEFINE error == ToS64(used[k] - prev[k])
<1>1. weight'[k] = Updated(error, hist[k], weight[k], rate[k])
  BY DEF Learn
<1>2. error \in Int
  BY ErrorType
<1>3. hist[k] \in [Slots -> 0 .. LongMod - 1] /\ weight[k] \in [Slots -> Int] /\ ri \in Slots
      /\ rate[k] \in Nat
  BY DEF TypeOK
<1> HIDE DEF error
<1>4. weight'[k] \in [Slots -> Int]
  <2>1. Updated(error, hist[k], weight[k], rate[k]) \in [Slots -> Int]
    BY <1>2, <1>3, UpdatedType, Zenon
  <2>2. QED
    BY <1>1, <2>1
<1>5. CASE error < 0
  <2>1. \A i \in Slots : weight'[k][i] <= weight[k][i]
    BY <1>1, <1>2, <1>3, <1>5, UpdatedWay
  <2>2. QED
    BY <1>3, <1>4, <1>5, <2>1, PredictMonotone DEF error
<1>6. CASE ~(error < 0)
  <2>1. \A i \in Slots : weight[k][i] <= weight'[k][i]
    BY <1>1, <1>2, <1>3, <1>4, <1>6, UpdatedWay
  <2>2. QED
    BY <1>3, <1>4, <1>6, <2>1, PredictMonotone DEF error
<1>7. QED
  BY <1>5, <1>6

(* Learning never moves a prediction for the same samples away from what   *)
(* the core consumed, although weights and samples are paired differently. *)
THEOREM LearningFollowsError == Spec => UpdateFollowsError
<1>1. TypeOK /\ [Next]_vars =>
        [pc = "learn" /\ pc' = "save" => \A k \in Kinds :
           LET gain == LmsPredict(hist[k], weight'[k], ri) - LmsPredict(hist[k], weight[k], ri)
           IN  IF ToS64(used[k] - prev[k]) < 0 THEN gain <= 0 ELSE gain >= 0]_vars
  BY OnlyLearnLearns, LearnFollows
<1>2. QED
  BY <1>1, Typing, PTL DEF Spec, UpdateFollowsError
-----------------------------------------------------------------------------
LEMMA HalfRange ==
  /\ IntMod \div 2 \in Nat \ {0} /\ IntMod = 2 * (IntMod \div 2)
  /\ InitBw \in Nat /\ InitBw < IntMod \div 2
<1>1. IntMod \in Nat \ {0} /\ IntMod % 2 = 0
  BY EstimatorAssumption
<1>2. IntMod \div 2 \in Nat \ {0} /\ IntMod = 2 * (IntMod \div 2)
  BY <1>1, Z3
<1>3. QED
  BY <1>2, EstimatorAssumption

(* The conversion of any double is in the range of int.                    *)
LEMMA DoubleToIntRange ==
  ASSUME NEW x, NEW one
  PROVE  DoubleToInt(x, one) \in -(IntMod \div 2) .. IntMod \div 2 - 1
BY HalfRange DEF DoubleToInt

(* Every estimate is an int and the initial bandwidth; the master gets     *)
(* past an estimate only when it is not negative.                          *)
EstimatesInRange ==
  \A k \in Kinds : next[k] \in -(IntMod \div 2) .. IntMod \div 2 - 1 + InitBw

Accepted ==
  /\ pc \in {"write", "allocate"} => next["read"] >= 0
  /\ pc = "allocate" => next["write"] >= 0

RangeInv == EstimatesInRange /\ Accepted /\ GrantedInRange

LEMMA EstimatesKeepRange ==
  ASSUME TypeOK, EstimatesInRange, NEW k \in Kinds, NEW from, NEW to,
         Estimates(k, from, to)
  PROVE  EstimatesInRange'
<1> DEFINE e == Estimate(hist'[k], weight[k], ri, One(k))
<1>1. next' = [next EXCEPT ![k] = e]
  BY DEF Estimates
<1>2. e \in -(IntMod \div 2) .. IntMod \div 2 - 1 + InitBw
  <2>1. DoubleToInt(LmsPredict(hist'[k], weight[k], ri), One(k))
          \in -(IntMod \div 2) .. IntMod \div 2 - 1
    BY DoubleToIntRange
  <2>2. QED
    BY <2>1, HalfRange DEF Estimate
<1> HIDE DEF e
<1>3. ASSUME NEW l \in Kinds PROVE next'[l] = IF l = k THEN e ELSE next[l]
  BY <1>1 DEF TypeOK
<1>4. QED
  BY <1>2, <1>3 DEF EstimatesInRange

(* No budget is made from an estimate that is negative or too long.        *)
THEOREM BudgetsInRange == Spec => []GrantedInRange
<1>1. Init => RangeInv
  BY HalfRange DEF Init, RangeInv, EstimatesInRange, Accepted, GrantedInRange
<1>2. TypeOK /\ RangeInv /\ [Next]_vars => RangeInv'
  <2> SUFFICES ASSUME TypeOK, RangeInv, [Next]_vars PROVE RangeInv'
    OBVIOUS
  <2>1. CASE EstimateRead
    <3>1. EstimatesInRange'
      BY <2>1, EstimatesKeepRange DEF EstimateRead, RangeInv, Kinds
    <3>2. Accepted'
      <4>1. CASE next'["read"] < 0
        BY <2>1, <4>1 DEF EstimateRead, Estimates, Accepted
      <4>2. CASE next'["read"] >= 0 /\ pc' = "write"
        BY <4>2 DEF Accepted
      <4>3. ~(next'["read"] < 0) => pc' = "write"
        BY <2>1, Zenon DEF EstimateRead, Estimates
      <4>4. QED
        BY <3>1, <4>1, <4>2, <4>3, HalfRange DEF EstimatesInRange, Kinds
    <3>3. QED
      BY <2>1, <3>1, <3>2 DEF EstimateRead, Estimates, RangeInv, GrantedInRange
  <2>2. CASE EstimateWrite
    <3>1. EstimatesInRange'
      BY <2>2, EstimatesKeepRange DEF EstimateWrite, RangeInv, Kinds
    <3>2. next'["read"] = next["read"] /\ next["read"] >= 0
      BY <2>2 DEF EstimateWrite, Estimates, RangeInv, Accepted, TypeOK, Kinds
    <3>3. Accepted'
      <4>1. CASE next'["write"] < 0
        BY <2>2, <4>1 DEF EstimateWrite, Estimates, Accepted
      <4>2. CASE next'["write"] >= 0
        BY <3>2, <4>2 DEF Accepted
      <4>3. QED
        BY <3>1, <4>1, <4>2, HalfRange DEF EstimatesInRange, Kinds
    <3>4. QED
      BY <2>2, <3>1, <3>3 DEF EstimateWrite, Estimates, RangeInv, GrantedInRange
  <2>3. CASE Replenish
    <3>1. \A k \in Kinds : next[k] >= 0
      BY <2>3 DEF Replenish, Goes, RangeInv, Accepted, Kinds
    <3>2. GrantedInRange'
      <4>1. granted' = next
        BY <2>3 DEF Replenish
      <4>2. ASSUME NEW k \in Kinds PROVE next[k] \in 0 .. IntMod \div 2 - 1 + InitBw
        BY <3>1, HalfRange DEF RangeInv, EstimatesInRange
      <4>3. QED
        BY <4>1, <4>2 DEF GrantedInRange
    <3>3. QED
      BY <2>3, <3>2
         DEF Replenish, Goes, RangeInv, EstimatesInRange, Accepted
  <2>4. CASE Sample \/ Learn \/ Save
    BY <2>4 DEF Sample, Learn, Save, Goes, ests, RangeInv, EstimatesInRange, Accepted,
       GrantedInRange
  <2>5. CASE Count \/ SetInterval
    BY <2>5 DEF Count, SetInterval, ests, RangeInv, EstimatesInRange, Accepted,
       GrantedInRange
  <2>6. CASE Start
    BY <2>6, HalfRange DEF Start, RangeInv, EstimatesInRange, Accepted, GrantedInRange, Kinds
  <2>7. CASE UNCHANGED vars
    BY <2>7 DEF vars, ests, RangeInv, EstimatesInRange, Accepted, GrantedInRange
  <2>8. QED
    BY <2>1, <2>2, <2>3, <2>4, <2>5, <2>6, <2>7 DEF Next, Master
<1>3. RangeInv => GrantedInRange
  BY DEF RangeInv
<1>4. QED
  BY <1>1, <1>2, <1>3, Typing, PTL DEF Spec
-----------------------------------------------------------------------------
LEMMA Division ==
  ASSUME NEW a \in Nat, NEW d \in Nat \ {0}
  PROVE  a \div d \in Nat /\ (a \div d) * d <= a /\ a < (a \div d) * d + d
BY Quotient, Z3

(* A double of b or more, or of -b or less, is not converted to less.      *)
LEMMA TruncateBeyond ==
  ASSUME NEW x \in Int, NEW b \in Nat, NEW one \in Nat \ {0}
  PROVE  /\ x >= b * one => Truncate(x, one) >= b
         /\ x <= -(b * one) => Truncate(x, one) <= -b
<1>1. ASSUME NEW a \in Nat, a >= b * one PROVE a \div one >= b
  <2>1. SUFFICES ASSUME a \div one + 1 <= b PROVE FALSE
    BY <1>1, Quotient
  <2>2. (a \div one + 1) * one <= b * one
    BY <2>1, <1>1, Quotient, TimesMonotone
  <2>3. (a \div one + 1) * one = (a \div one) * one + one
    BY <1>1, Quotient
  <2>4. a < (a \div one) * one + one
    BY <1>1, Division
  <2>5. b * one \in Nat /\ (a \div one) * one + one \in Nat
    BY <1>1, Quotient
  <2>6. QED
    BY <1>1, <2>2, <2>3, <2>4, <2>5
<1>2. b * one \in Nat
  OBVIOUS
<1>3. CASE x >= 0
  BY <1>1, <1>2, <1>3, Quotient DEF Truncate
<1>4. CASE x < 0
  BY <1>1, <1>2, <1>4, Quotient DEF Truncate
<1>5. QED
  BY <1>3, <1>4

LEMMA LatestType ==
  ASSUME TypeOK, NEW k \in Kinds
  PROVE  Latest(k) \in [Slots -> 0 .. LongMod - 1] /\ Latest(k)[0] = used[k]
BY DEF TypeOK, Latest, Slots

(* The weighted sum of the latest samples.                                 *)
LEMMA LatestSum ==
  ASSUME TypeOK, NEW k \in Kinds
  PROVE  /\ OlderSum(k) \in Int
         /\ SumOf([i \in Slots |-> weight[k][i] * Latest(k)[i]])
              = weight[k][0] * used[k] + OlderSum(k)
<1> DEFINE p == [i \in Slots |-> weight[k][i] * Latest(k)[i]]
           o == [i \in Slots |-> IF i = 0 THEN 0 ELSE weight[k][i] * Latest(k)[i]]
<1>1. ASSUME NEW i \in Slots PROVE p[i] \in Int
  <2>1. weight[k][i] \in Int /\ Latest(k)[i] \in Int
    BY LatestType, EstimatorAssumption DEF TypeOK
  <2>2. QED
    BY <2>1
<1>2. o[0] = 0 /\ p[0] = weight[k][0] * used[k]
  BY LatestType DEF Slots
<1>3. \A i \in Slots \ {0} : o[i] = p[i]
  OBVIOUS
<1> HIDE DEF p, o
<1>4. SumOf(o) \in Int /\ SumOf(p) = p[0] + SumOf(o)
  BY <1>1, <1>2, <1>3 DEF SumOf, Slots
<1>5. QED
  BY <1>2, <1>4 DEF OlderSum, p, o

(* The double x / one is in the range of int and leaves an estimate that   *)
(* is not negative.                                                        *)
Fits(x, one) == -((InitBw + 1) * one) < x /\ x < (IntMod \div 2) * one

(* A sum out of that range makes a negative estimate.                      *)
LEMMA OutOfRangeNegative ==
  ASSUME NEW x \in Int, NEW one \in Nat \ {0}, ~Fits(x, one)
  PROVE  DoubleToInt(x, one) + InitBw < 0
<1> DEFINE h == IntMod \div 2
<1>1. h \in Nat \ {0} /\ InitBw \in Nat /\ InitBw < h /\ DoubleToInt(x, one) \in Int
  BY HalfRange, EstimateType
<1>2. DoubleToInt(x, one) = IF Truncate(x, one) \in -h .. h - 1 THEN Truncate(x, one) ELSE -h
  BY DEF DoubleToInt
<1>3. h * one \in Int /\ (InitBw + 1) * one \in Int
  BY <1>1
<1>4. x <= -((InitBw + 1) * one) \/ x >= h * one
  BY <1>3 DEF Fits
<1> HIDE DEF h
<1>5. Truncate(x, one) <= -(InitBw + 1) \/ Truncate(x, one) >= h
  BY <1>1, <1>4, TruncateBeyond
<1>6. QED
  BY <1>1, <1>2, <1>5

(* While a pass is past an estimate, the sum of the latest samples fits:   *)
(* neither they nor the weights change before it learns, whatever starts   *)
(* do to the estimate itself meanwhile.                                    *)
Weighed(k) == SumOf([i \in Slots |-> weight[k][i] * Latest(k)[i]])

SumFits ==
  /\ pc \in {"write", "allocate", "learn"} => Fits(Weighed("read"), One("read"))
  /\ pc \in {"allocate", "learn"} => Fits(Weighed("write"), One("write"))

LEMMA WeighedType ==
  ASSUME TypeOK, NEW k \in Kinds
  PROVE  Weighed(k) \in Int /\ Weighed(k) = weight[k][0] * used[k] + OlderSum(k)
<1>1. weight[k][0] \in Int /\ used[k] \in Int
  BY EstimatorAssumption DEF TypeOK, Slots
<1>2. QED
  BY <1>1, LatestSum DEF Weighed

LEMMA WeighedKept ==
  ASSUME NEW k \in Kinds, Fits(Weighed(k), One(k)),
         UNCHANGED <<used, recent, weight, rate>>
  PROVE  Fits(Weighed(k), One(k))'
BY DEF Fits, Weighed, Latest, One

(* An estimate that takes the pass on was made from a sum that fits.       *)
LEMMA PassedFits ==
  ASSUME TypeOK, RingInv, NEW k \in Kinds, NEW to, to # k, to # "run",
         Estimates(k, k, to), pc' = to
  PROVE  /\ Fits(Weighed(k), One(k))
         /\ UNCHANGED <<used, recent, weight, rate>>
<1>1. ~(next'[k] < 0)
  BY DEF Estimates
<1>2. next'[k] = DoubleToInt(Weighed(k), One(k)) + InitBw
  <2>1. pc = k /\ pc' # k
    BY DEF Estimates
  <2>2. QED
    BY <2>1, EstimatesLatest DEF Predicts, Weighed
<1>3. Fits(Weighed(k), One(k))
  BY <1>1, <1>2, WeighedType, OneType, OutOfRangeNegative
<1>4. UNCHANGED <<used, recent, weight, rate>>
  BY <1>1, Zenon DEF Estimates, samples
<1>5. QED
  BY <1>3, <1>4

LEMMA SumFitsStep ==
  ASSUME TypeOK, RingInv, SumFits, [Next]_vars PROVE SumFits'
<1>1. CASE EstimateRead
  <2>1. pc' \in {"run", "write"}
    BY <1>1 DEF EstimateRead, Estimates
  <2>2. ASSUME pc' = "write" PROVE Fits(Weighed("read"), One("read"))'
    BY <1>1, <2>2, PassedFits, WeighedKept DEF EstimateRead, Kinds
  <2>3. QED
    BY <2>1, <2>2 DEF SumFits
<1>2. CASE EstimateWrite
  <2>1. pc' \in {"run", "allocate"} /\ pc = "write"
    BY <1>2 DEF EstimateWrite, Estimates
  <2>2. ASSUME pc' = "allocate"
        PROVE  Fits(Weighed("read"), One("read"))' /\ Fits(Weighed("write"), One("write"))'
    <3>1. Fits(Weighed("write"), One("write")) /\ UNCHANGED <<used, recent, weight, rate>>
      BY <1>2, <2>2, PassedFits DEF EstimateWrite, Kinds
    <3>2. Fits(Weighed("read"), One("read"))
      BY <2>1 DEF SumFits
    <3>3. QED
      BY <3>1, <3>2, WeighedKept DEF Kinds
  <2>3. QED
    BY <2>1, <2>2 DEF SumFits
<1>3. CASE Replenish \/ Count \/ SetInterval \/ Start \/ UNCHANGED vars
  <2>1. UNCHANGED <<used, recent, weight, rate>>
        /\ (pc' = pc \/ (pc = "allocate" /\ pc' = "learn"))
    BY <1>3 DEF Replenish, Goes, Count, SetInterval, Start, vars, samples, rings, weights
  <2>2. ASSUME NEW k \in Kinds, Fits(Weighed(k), One(k)) PROVE Fits(Weighed(k), One(k))'
    BY <2>1, <2>2, WeighedKept
  <2>3. QED
    BY <2>1, <2>2 DEF SumFits, Kinds
<1>4. CASE Sample \/ Learn \/ Save
  BY <1>4 DEF Sample, Learn, Save, Goes, SumFits
<1>5. QED
  BY <1>1, <1>2, <1>3, <1>4 DEF Next, Master

LEMMA AbsFacts ==
  ASSUME NEW x \in Int
  PROVE  Abs(x) \in Nat /\ x <= Abs(x) /\ -x <= Abs(x) /\ (Abs(x) = x \/ Abs(x) = -x)
BY DEF Abs

(* A factor u of at least l under the weight w, in a sum that fits.        *)
LEMMA FaintWeight ==
  ASSUME NEW w \in Int, NEW u \in Nat, NEW l \in Nat, l <= u, NEW older \in Int,
         NEW one \in Nat \ {0}, Fits(w * u + older, one)
  PROVE  Abs(w) * l < Abs(older) + (IntMod \div 2) * one
<1> DEFINE h == IntMod \div 2
<1>1. h \in Nat \ {0} /\ InitBw + 1 \in Nat /\ InitBw + 1 <= h
  BY HalfRange
<1>2. h * one \in Nat /\ (InitBw + 1) * one \in Nat /\ (InitBw + 1) * one <= h * one
  BY <1>1, TimesMonotone
<1>3. -((InitBw + 1) * one) < w * u + older /\ w * u + older < h * one
  BY DEF Fits
<1>4. Abs(w) \in Nat /\ Abs(older) \in Nat /\ older <= Abs(older) /\ -older <= Abs(older)
  BY AbsFacts
<1> HIDE DEF h
<1>5. l * Abs(w) <= u * Abs(w) /\ Abs(w) * l = l * Abs(w) /\ Abs(w) * u = u * Abs(w)
      /\ Abs(w) * l \in Int /\ Abs(w) * u \in Int
  BY <1>4, TimesMonotone, Z3
<1>6. w * u \in Int /\ (Abs(w) * u = w * u \/ Abs(w) * u = -(w * u))
  <2>1. Abs(w) = w \/ Abs(w) = -w
    BY AbsFacts
  <2>2. (-w) * u = -(w * u)
    BY Z3
  <2>3. QED
    BY <2>1, <2>2
<1>7. QED
  BY <1>2, <1>3, <1>4, <1>5, <1>6 DEF h

(* A pass that learns from a wrapped difference has next to no weight for  *)
(* it, or as much from the older samples to offset it.                     *)
THEOREM WrapsCountLittle == Spec => WrapsLearnedFaintly
<1>1. Init => SumFits
  BY DEF Init, SumFits
<1>2. TypeOK /\ RingInv /\ SumFits /\ [Next]_vars => SumFits'
  BY SumFitsStep
<1>3. TypeOK /\ SumFits /\ [Next]_vars =>
        [ri' # ri => \A k \in Kinds : used[k] >= LongMod \div 2 =>
           Abs(weight[k][0]) * (LongMod \div 2)
             < Abs(OlderSum(k)) + (IntMod \div 2) * One(k)]_vars
  <2> SUFFICES ASSUME TypeOK, SumFits, Next, ri' # ri, NEW k \in Kinds,
                      used[k] >= LongMod \div 2
               PROVE  Abs(weight[k][0]) * (LongMod \div 2)
                        < Abs(OlderSum(k)) + (IntMod \div 2) * One(k)
    OBVIOUS
  <2>1. pc = "learn"
    BY DEF Next, Master, Sample, EstimateRead, EstimateWrite, Estimates, Replenish,
       Learn, Save, Goes, Count, SetInterval, Start, rings
  <2>2. Fits(weight[k][0] * used[k] + OlderSum(k), One(k))
    BY <2>1, WeighedType DEF SumFits, Kinds
  <2>3. weight[k][0] \in Int /\ used[k] \in Nat /\ LongMod \div 2 \in Nat
    BY EstimatorAssumption DEF TypeOK, Slots
  <2>4. OlderSum(k) \in Int /\ One(k) \in Nat \ {0}
    BY LatestSum, OneType
  <2>5. QED
    BY <2>2, <2>3, <2>4, FaintWeight
<1>4. QED
  BY <1>1, <1>2, <1>3, Typing, RingInvariant, PTL DEF Spec, WrapsLearnedFaintly
-----------------------------------------------------------------------------
LEMMA SizeType ==
  ASSUME NEW wm \in [Slots -> Int] PROVE Size(wm) \in Nat
<1> DEFINE a == [i \in Slots |-> Abs(wm[i])]
<1>1. a \in [Slots -> Nat]
  BY AbsFacts
<1> HIDE DEF a
<1>2. QED
  BY <1>1, SumType DEF Size, a

LEMMA TermBound ==
  ASSUME NEW w \in Int, NEW f \in Nat, NEW m \in Nat, f <= m
  PROVE  w * f \in Int /\ Abs(w) * m \in Nat /\ w * f <= Abs(w) * m /\ -(Abs(w) * m) <= w * f
<1>1. Abs(w) \in Nat /\ w <= Abs(w) /\ -Abs(w) <= w
  BY AbsFacts
<1>2. w * f \in Int /\ w * f <= Abs(w) * f /\ (-Abs(w)) * f <= w * f
  BY <1>1, TimesMonotone
<1>3. f * Abs(w) <= m * Abs(w) /\ m * Abs(w) \in Int
  BY <1>1, TimesMonotone
<1>4. Abs(w) * f = f * Abs(w) /\ (-Abs(w)) * f = -(f * Abs(w)) /\ Abs(w) * m = m * Abs(w)
      /\ f * Abs(w) \in Int /\ Abs(w) * m \in Nat
  BY <1>1, Z3
<1>5. QED
  BY <1>2, <1>3, <1>4

(* A weighted sum of samples is no larger than the weights allow.          *)
LEMMA WeighedBound ==
  ASSUME TypeOK, NEW k \in Kinds
  PROVE  Weighed(k) <= Size(weight[k]) * LongMod /\ -(Size(weight[k]) * LongMod) <= Weighed(k)
<1> DEFINE p == [i \in Slots |-> weight[k][i] * Latest(k)[i]]
           a == [i \in Slots |-> Abs(weight[k][i])]
<1>1. LongMod \in Nat
  BY EstimatorAssumption
<1>2. ASSUME NEW i \in Slots
      PROVE  /\ a[i] \in Nat /\ p[i] \in Int /\ a[i] * LongMod \in Nat
             /\ p[i] <= a[i] * LongMod /\ -(a[i] * LongMod) <= p[i]
  <2>1. weight[k][i] \in Int /\ Latest(k)[i] \in Nat /\ Latest(k)[i] <= LongMod
    BY <1>1, LatestType DEF TypeOK
  <2>2. QED
    BY <1>1, <2>1, TermBound, AbsFacts
<1> HIDE DEF p, a
<1>3. SumOf(a) * LongMod = a[0] * LongMod + a[1] * LongMod + a[2] * LongMod
                             + a[3] * LongMod + a[4] * LongMod
  <2>1. a[0] \in Nat /\ a[1] \in Nat /\ a[2] \in Nat /\ a[3] \in Nat /\ a[4] \in Nat
    BY <1>2 DEF Slots
  <2>2. QED
    BY <1>1, <2>1, Z3 DEF SumOf
<1>4. SumOf(p) <= SumOf(a) * LongMod /\ -(SumOf(a) * LongMod) <= SumOf(p)
  BY <1>2, <1>3 DEF SumOf, Slots
<1>5. QED
  BY <1>4 DEF Weighed, Size, p, a

(* A weighted sum beyond the weights' own worth does not fit.              *)
LEMMA NegativeHeavy ==
  ASSUME NEW x \in Int, NEW one \in Nat \ {0}, DoubleToInt(x, one) + InitBw < 0
  PROVE  x <= -((InitBw + 1) * one) \/ x >= (InitBw + 1) * one
<1> DEFINE c == InitBw + 1
           h == IntMod \div 2
           t == Truncate(x, one)
<1>1. h \in Nat \ {0} /\ InitBw \in Nat /\ c \in Nat /\ c <= h
  BY HalfRange
<1>2. c * one \in Nat
  BY <1>1
<1> SUFFICES ASSUME -(c * one) < x, x < c * one PROVE FALSE
  BY <1>2
<1>3. ASSUME NEW a \in Nat, a < c * one PROVE a \div one \in Nat /\ a \div one < c
  <2>1. a \div one \in Nat /\ (a \div one) * one <= a
    BY Division
  <2>2. c <= a \div one => c * one <= (a \div one) * one
    BY <1>1, <2>1, TimesMonotone
  <2>3. (a \div one) * one \in Int
    BY <2>1
  <2>4. QED
    BY <1>1, <1>2, <1>3, <2>1, <2>2, <2>3
<1>4. t \in Int /\ -c < t /\ t < c
  <2>1. CASE x >= 0
    BY <1>1, <1>3, <2>1 DEF Truncate
  <2>2. CASE x < 0
    BY <1>1, <1>2, <1>3, <2>2 DEF Truncate
  <2>3. QED
    BY <2>1, <2>2
<1>5. DoubleToInt(x, one) = IF t \in -h .. h - 1 THEN t ELSE -h
  BY DEF DoubleToInt
<1> HIDE DEF t, h
<1>6. QED
  BY <1>1, <1>4, <1>5

(* A negative estimate halves what the weights of its kind are worth, and  *)
(* they were worth something.                                              *)
LEMMA NegativeShrinks ==
  ASSUME TypeOK, RingInv, NEW k \in Kinds, NEW to, to # k, to # "run",
         Estimates(k, k, to), next'[k] < 0
  PROVE  /\ rate'[k] = 2 * rate[k]
         /\ (InitBw + 1) * One(k) <= Size(weight[k]) * LongMod
<1>1. rate'[k] = 2 * rate[k]
  BY DEF Estimates, TypeOK, Halved
<1>2. next'[k] = DoubleToInt(Weighed(k), One(k)) + InitBw
  <2>1. pc = k /\ pc' = "run" /\ k # "run"
    BY DEF Estimates, Kinds
  <2>2. QED
    BY <2>1, EstimatesLatest DEF Predicts, Weighed
<1>3. Weighed(k) <= -((InitBw + 1) * One(k)) \/ Weighed(k) >= (InitBw + 1) * One(k)
  BY <1>2, WeighedType, OneType, NegativeHeavy
<1>4. Size(weight[k]) * LongMod \in Int /\ (InitBw + 1) * One(k) \in Int
  <2>1. Size(weight[k]) \in Int /\ LongMod \in Int /\ InitBw + 1 \in Int /\ One(k) \in Int
    BY SizeType, OneType, EstimatorAssumption DEF TypeOK
  <2>2. QED
    BY <2>1
<1>5. QED
  BY <1>1, <1>3, <1>4, WeighedType, WeighedBound

(* Estimating makes no weights larger; ending the pass halves them.        *)
LEMMA EstimatesShrink ==
  ASSUME TypeOK, RingInv, NEW k \in Kinds, NEW to, to # k, to # "run",
         Estimates(k, k, to), NEW l \in Kinds
  PROVE  /\ Size(weight'[l]) * rate[l] <= Size(weight[l]) * rate'[l]
         /\ pc = l /\ pc' = "run" =>
              /\ 2 * Size(weight'[l]) * rate[l] <= Size(weight[l]) * rate'[l]
              /\ (InitBw + 1) * One(l) <= Size(weight[l]) * LongMod
<1> DEFINE z == Size(weight[l])
           r == rate[l]
<1>1. z \in Nat /\ r \in Nat
  BY SizeType DEF TypeOK
<1>2. weight' = weight
  BY DEF Estimates
<1>3. z * r \in Nat /\ z * (2 * r) = 2 * (z * r) /\ 2 * z * r = 2 * (z * r)
  BY <1>1, Z3
<1>4. CASE next'[k] < 0
  <2>1. pc = k /\ (l # k => rate'[l] = r)
    BY <1>4 DEF Estimates, TypeOK
  <2>2. CASE l = k
    <3>1. rate'[l] = 2 * r /\ (InitBw + 1) * One(l) <= z * LongMod
      BY <1>4, <2>2, NegativeShrinks
    <3>2. Size(weight'[l]) = z
      BY <1>2
    <3> HIDE DEF z, r
    <3>3. z * r <= z * rate'[l] /\ 2 * z * r <= z * rate'[l]
      BY <1>3, <3>1
    <3>4. QED
      BY <3>1, <3>2, <3>3 DEF z, r
  <2>3. CASE l # k
    BY <1>2, <1>3, <2>1, <2>3
  <2>4. QED
    BY <2>2, <2>3
<1>5. CASE ~(next'[k] < 0)
  <2>1. rate' = rate /\ pc' = to
    BY <1>5, Zenon DEF Estimates
  <2>2. QED
    BY <1>2, <1>3, <2>1
<1>6. QED
  BY <1>4, <1>5

(* No pass is cut short but at the price of half the weights, and nothing  *)
(* but learning makes them larger: between two passes that learn, each     *)
(* kind has as many negative estimates as its weights can be halved before *)
(* they are worth too little for one.                                      *)
THEOREM SkipsCostWeight == Spec => SkipShrinks
<1>1. TypeOK /\ RingInv /\ [Next]_vars =>
        [\A k \in Kinds :
           /\ pc # "learn" => Size(weight'[k]) * rate[k] <= Size(weight[k]) * rate'[k]
           /\ pc = k /\ pc' = "run" =>
                /\ 2 * Size(weight'[k]) * rate[k] <= Size(weight[k]) * rate'[k]
                /\ (InitBw + 1) * One(k) <= Size(weight[k]) * LongMod]_vars
  <2> SUFFICES ASSUME TypeOK, RingInv, Next, NEW l \in Kinds
               PROVE  /\ pc # "learn" =>
                           Size(weight'[l]) * rate[l] <= Size(weight[l]) * rate'[l]
                      /\ pc = l /\ pc' = "run" =>
                           /\ 2 * Size(weight'[l]) * rate[l] <= Size(weight[l]) * rate'[l]
                           /\ (InitBw + 1) * One(l) <= Size(weight[l]) * LongMod
    OBVIOUS
  <2>1. CASE EstimateRead
    BY <2>1, EstimatesShrink DEF EstimateRead, Kinds
  <2>2. CASE EstimateWrite
    BY <2>2, EstimatesShrink DEF EstimateWrite, Kinds
  <2>3. CASE Learn
    BY <2>3 DEF Learn, Goes, Kinds
  <2>4. CASE Sample \/ Replenish \/ Save \/ Count \/ SetInterval \/ Start
    <3>1. weight' = weight /\ rate' = rate /\ (pc = l => pc' # "run")
      BY <2>4 DEF Sample, Replenish, Save, Goes, Count, SetInterval, Start, rings, weights, Kinds
    <3>2. Size(weight[l]) * rate[l] \in Int
      <4>1. Size(weight[l]) \in Int /\ rate[l] \in Int
        BY SizeType DEF TypeOK
      <4>2. QED
        BY <4>1
    <3>3. QED
      BY <3>1, <3>2
  <2>5. QED
    BY <2>1, <2>2, <2>3, <2>4 DEF Next, Master
<1>2. QED
  BY <1>1, Typing, RingInvariant, PTL DEF Spec, SkipShrinks
=============================================================================

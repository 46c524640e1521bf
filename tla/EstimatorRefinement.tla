------------------------- MODULE EstimatorRefinement -------------------------
(***************************************************************************)
(* The estimator implements the adaptive filter of FilterSpec, for any     *)
(* bandwidths, widths of the integers, intervals and counts: each of its   *)
(* steps is a step of the filter, or changes nothing the filter has.       *)
(***************************************************************************)
EXTENDS EstimatorProofs

(* What the filter makes of a weight vector is the sum over the latest     *)
(* samples.                                                                *)
LEMMA FilteredLatest ==
  ASSUME NEW k \in Kinds, NEW c \in [Slots -> Int]
  PROVE  SumOf([i \in Slots |-> c[i] * Latest(k)[i]]) = Filter!Filtered(k, c)
<1>1. Latest(k)[0] = used[k] /\ \A i \in Slots \ {0} : Latest(k)[i] = Line[k][i]
  BY DEF Latest, Line, Slots
<1>2. QED
  BY <1>1 DEF SumOf, Slots, Filter!Filtered

(* Once the sample is in the ring, lms_predict is the filter.              *)
LEMMA FilteredPredict ==
  ASSUME TypeOK, RingInv, NEW k \in Kinds, NEW c \in [Slots -> Int],
         hist[k][ri] = used[k]
  PROVE  LmsPredict(hist[k], c, ri) = Filter!Filtered(k, c)
<1>1. ASSUME NEW i \in Slots PROVE hist[k][Slot(ri, i)] = Latest(k)[i]
  <2>1. CASE i = 0
    BY <2>1, SlotFacts DEF TypeOK, Latest, Slot, Slots
  <2>2. CASE i # 0
    BY <2>2 DEF RingInv, RingShifts, Latest
  <2>3. QED
    BY <2>1, <2>2
<1>2. [i \in Slots |-> c[i] * hist[k][Slot(ri, i)]] = [i \in Slots |-> c[i] * Latest(k)[i]]
  BY <1>1
<1>3. QED
  BY <1>2, FilteredLatest DEF LmsPredict

LEMMA TruncateType ==
  ASSUME NEW x \in Int, NEW one \in Nat \ {0} PROVE Truncate(x, one) \in Int
BY Quotient DEF Truncate

(* Truncation drops the fraction.                                          *)
LEMMA TruncateWhole ==
  ASSUME NEW x \in Int, NEW one \in Nat \ {0}
  PROVE  Filter!IsWhole(Truncate(x, one), x, one)
<1>1. CASE x >= 0
  BY <1>1, Division DEF Truncate, Filter!IsWhole
<1>2. CASE x < 0
  <2> DEFINE q == (-x) \div one
  <2>1. q \in Nat /\ q * one <= -x /\ -x < q * one + one
    BY <1>2, Division
  <2>2. Truncate(x, one) = -q
    BY <1>2 DEF Truncate
  <2> HIDE DEF q
  <2>3. (-q) * one = -(q * one) /\ q * one \in Int
    BY <2>1
  <2>4. QED
    BY <1>2, <2>1, <2>2, <2>3 DEF Filter!IsWhole
<1>3. QED
  BY <1>1, <1>2

(* A double within the range of int is converted to an int within it.      *)
LEMMA TruncateWithin ==
  ASSUME NEW x \in Int, NEW b \in Nat, NEW one \in Nat \ {0}
  PROVE  /\ x < b * one => Truncate(x, one) < b \/ b = 0
         /\ x > -(b * one) => Truncate(x, one) > -b \/ b = 0
<1>1. ASSUME NEW a \in Nat, a < b * one PROVE a \div one < b
  <2>1. SUFFICES ASSUME b <= a \div one PROVE FALSE
    BY <1>1, Quotient
  <2>2. b * one <= (a \div one) * one /\ b * one \in Int
        /\ (a \div one) * one \in Int
    BY <1>1, <2>1, Quotient, TimesMonotone
  <2>3. (a \div one) * one <= a
    BY <1>1, Division
  <2>4. QED
    BY <1>1, <2>2, <2>3
<1>2. b * one \in Nat
  OBVIOUS
<1>3. CASE x >= 0
  BY <1>1, <1>2, <1>3, Quotient DEF Truncate
<1>4. CASE x < 0
  BY <1>1, <1>2, <1>4, Quotient DEF Truncate
<1>5. QED
  BY <1>3, <1>4

(* The conversion and the initial bandwidth make an estimate of any sum.   *)
LEMMA ConvertedIsEstimate ==
  ASSUME NEW x \in Int, NEW one \in Nat \ {0}
  PROVE  Filter!IsEstimate(DoubleToInt(x, one) + InitBw, x, one)
<1> DEFINE h == IntMod \div 2
           e == DoubleToInt(x, one) + InitBw
<1>1. h \in Nat \ {0} /\ InitBw \in Int /\ Truncate(x, one) \in Int /\ DoubleToInt(x, one) \in Int
  BY HalfRange, TruncateType, EstimateType
<1>2. e - InitBw = DoubleToInt(x, one)
  BY <1>1
<1>3. DoubleToInt(x, one) = IF Truncate(x, one) \in -h .. h - 1 THEN Truncate(x, one) ELSE -h
  BY DEF DoubleToInt
<1>4. h + 1 \in Nat /\ h * one \in Int /\ (h + 1) * one \in Int
  BY <1>1
<1>5. Filter!IsEstimate(e, x, one) <=>
        IF -((h + 1) * one) < x /\ x < h * one
          THEN Filter!IsWhole(e - InitBw, x, one) ELSE e - InitBw = -h
  BY Zenon DEF Filter!IsEstimate
<1> HIDE DEF h, e
<1>6. CASE -((h + 1) * one) < x /\ x < h * one
  <2>1. Truncate(x, one) < h /\ Truncate(x, one) > -(h + 1)
    BY <1>1, <1>4, <1>6, TruncateWithin
  <2>2. DoubleToInt(x, one) = Truncate(x, one)
    BY <1>1, <1>3, <2>1
  <2>3. e - InitBw = Truncate(x, one)
    BY <1>2, <2>2
  <2>4. Filter!IsWhole(e - InitBw, x, one)
    BY <2>3, TruncateWhole, Zenon
  <2>5. QED
    BY <1>5, <1>6, <2>4, Zenon DEF e
<1>7. CASE ~(-((h + 1) * one) < x /\ x < h * one)
  <2>1. x <= -((h + 1) * one) \/ x >= h * one
    BY <1>4, <1>7
  <2>2. Truncate(x, one) <= -(h + 1) \/ Truncate(x, one) >= h
    BY <1>1, <1>4, <2>1, TruncateBeyond
  <2>3. DoubleToInt(x, one) = -h
    BY <1>1, <1>3, <2>2
  <2>4. e - InitBw = -h
    BY <1>2, <2>3
  <2>5. QED
    BY <1>5, <1>7, <2>4, Zenon DEF e
<1>8. QED
  BY <1>6, <1>7
-----------------------------------------------------------------------------
LEMMA FilterInit == Init => Filter!Init
<1> SUFFICES ASSUME Init PROVE Filter!Init
  OBVIOUS
<1> USE DEF Kinds, Slots, Filter!Channels, Filter!Taps, Filter!Zero
<1>1. Phase = "idle" /\ Base = [k \in Kinds |-> 0]
  BY DEF Init, Phase, Base
<1>2. Line = [k \in Kinds |-> [i \in Slots \ {0} |-> 0]]
  BY DEF Init, Line
<1>3. [k \in Kinds |-> One(k)] = [k \in Kinds |-> Scale]
  BY EstimatorAssumption DEF Init, One
<1>4. QED
  BY <1>1, <1>2, <1>3 DEF Init, Filter!Init

LEMMA FilterObserve ==
  ASSUME TypeOK', Sample PROVE Filter!Observe
<1>1. Phase = "idle" /\ Phase' = "read" /\ Base' = Base
  BY DEF Sample, Goes, Phase, Base
<1>2. used' \in [Filter!Channels -> 0 .. LongMod - 1]
  BY DEF TypeOK, Kinds, Filter!Channels
<1>3. UNCHANGED <<Line, weight, rate, next, granted>>
  BY DEF Sample, rings, weights, ests, Line
<1>4. QED
  BY <1>1, <1>2, <1>3 DEF Filter!Observe, Filter!coefs, One

LEMMA FilterEstimates ==
  ASSUME TypeOK, RingInv, NEW k \in Kinds, NEW to \in {"write", "allocate"},
         to # k, Estimates(k, k, to)
  PROVE  Filter!Estimates(k)
<1>1. Phase = k /\ Base' = Base
  BY DEF Estimates, Phase, Base, Kinds
<1>2. next' = [next EXCEPT ![k] = next'[k]]
  BY DEF Estimates, TypeOK
<1>3. Filter!IsEstimate(next'[k], Filter!Filtered(k, weight[k]), One(k))
  <2> DEFINE x == SumOf([i \in Slots |-> weight[k][i] * Latest(k)[i]])
  <2>1. x \in Int
    BY LatestSum, EstimatorAssumption DEF TypeOK, Slots
  <2>2. x = Filter!Filtered(k, weight[k])
    BY FilteredLatest DEF TypeOK
  <2>3. next'[k] = DoubleToInt(x, One(k)) + InitBw
    <3>1. pc = k /\ pc' \in {"run", to}
      BY DEF Estimates
    <3>2. Predicts(k, k)
      BY EstimatesLatest
    <3>3. QED
      BY <3>1, <3>2 DEF Predicts, Kinds
  <2> HIDE DEF x
  <2>4. Filter!IsEstimate(DoubleToInt(x, One(k)) + InitBw, x, One(k))
    BY <2>1, OneType, ConvertedIsEstimate
  <2>5. QED
    BY <2>2, <2>3, <2>4, Zenon
<1>4. UNCHANGED <<used, Line, weight, granted>>
  BY DEF Estimates, samples, Line
<1>5. [l \in Kinds |-> One(l)][k] = One(k)
  OBVIOUS
<1>6. QED
  BY <1>1, <1>2, <1>3, <1>4, <1>5 DEF Filter!Estimates

(* An estimate that is not negative takes the pass on.                     *)
LEMMA FilterPredict ==
  ASSUME NEW k \in Kinds, NEW to, Estimates(k, k, to), Filter!Estimates(k),
         to = IF k = "read" THEN "write" ELSE "allocate", ~(next'[k] < 0), next'[k] \in Int
  PROVE  Filter!Predict(k)
<1>1. pc' = to /\ rate' = rate
  BY Zenon DEF Estimates
<1>2. Phase' = IF k = "read" THEN "write" ELSE "grant"
  BY <1>1 DEF Phase
<1>3. QED
  BY <1>1, <1>2 DEF Filter!Predict, One

LEMMA FilterSkip ==
  ASSUME TypeOK, NEW k \in Kinds, NEW to, Estimates(k, k, to), Filter!Estimates(k),
         next'[k] < 0
  PROVE  Filter!Skip(k)
<1>1. pc' = "run" /\ rate' = [rate EXCEPT ![k] = 2 * rate[k]]
  BY DEF Estimates, Halved
<1>2. ASSUME NEW l \in Kinds
      PROVE  One(l)' = IF l = k THEN 2 * One(l) ELSE One(l)
  <2>1. rate'[l] = IF l = k THEN 2 * rate[l] ELSE rate[l]
    BY <1>1 DEF TypeOK
  <2>2. Scale \in Nat /\ rate[l] \in Nat
    BY EstimatorAssumption DEF TypeOK
  <2>3. Scale * (2 * rate[l]) = 2 * (Scale * rate[l])
    BY <2>2, Z3
  <2>4. QED
    BY <2>1, <2>3 DEF One
<1>3. [l \in Kinds |-> One(l)]' = [[l \in Kinds |-> One(l)] EXCEPT ![k] = 2 * One(k)]
  BY <1>2
<1>4. Phase' = "idle"
  BY <1>1 DEF Phase
<1>5. QED
  BY <1>3, <1>4 DEF Filter!Skip

LEMMA FilterServes ==
  ASSUME TypeOK, TypeOK', RingInv, NEW k \in Kinds, NEW to, Estimates(k, k, to),
         to = IF k = "read" THEN "write" ELSE "allocate"
  PROVE  Filter!Next
<1>1. to \in {"write", "allocate"} /\ to # k
  BY DEF Kinds
<1>2. Filter!Estimates(k)
  BY <1>1, FilterEstimates
<1>3. next'[k] \in Int /\ k \in Filter!Channels
  BY DEF TypeOK, Kinds, Filter!Channels
<1>4. CASE next'[k] < 0
  BY <1>2, <1>3, <1>4, FilterSkip DEF Filter!Next
<1>5. CASE ~(next'[k] < 0)
  BY <1>2, <1>3, <1>5, FilterPredict DEF Filter!Next
<1>6. QED
  BY <1>4, <1>5

LEMMA FilterGrant ==
  ASSUME TypeOK, ErrorOfGranted, Replenish PROVE Filter!Grant
<1>1. Phase = "grant" /\ Phase' = "learn"
  BY DEF Replenish, Goes, Phase
<1>2. prev = granted
  BY DEF Replenish, Goes, ErrorOfGranted, TypeOK
<1>3. Base' = granted
  BY <1>2 DEF Replenish, Goes, Base
<1>4. granted' = next /\ UNCHANGED <<used, Line, weight, rate, next>>
  BY DEF Replenish, samples, rings, weights, Line
<1>5. QED
  BY <1>1, <1>3, <1>4 DEF Filter!Grant, Filter!coefs, One

(* Without an error an update changes nothing.                             *)
LEMMA UpdatedByNothing ==
  ASSUME NEW feat \in [Slots -> 0 .. LongMod - 1], NEW wm \in [Slots -> Int],
         NEW lrate \in Nat
  PROVE  Updated(0, feat, wm, lrate) = wm
<1>1. CASE L2Norm(feat) = 0
  BY <1>1 DEF Updated
<1>2. CASE L2Norm(feat) # 0
  <2>1. ASSUME NEW i \in Slots PROVE ToU64(0 * feat[i]) = 0
    <3>1. 0 * feat[i] = 0
      BY EstimatorAssumption
    <3>2. 0 % LongMod = 0
      BY EstimatorAssumption, Z3
    <3>3. QED
      BY <3>1, <3>2 DEF ToU64
  <2>2. L2Norm(feat) \in Nat \ {0}
    BY <1>2, NormType
  <2>3. 0 \div L2Norm(feat) = 0
    BY <2>2, Z3
  <2>4. Updated(0, feat, wm, lrate) = [i \in Slots |-> wm[i] + 0 * lrate]
    BY <1>2, <2>1, <2>3 DEF Updated
  <2>5. QED
    BY <2>4
<1>3. QED
  BY <1>1, <1>2

(* The new weights are ones the filter may learn.                          *)
LEMMA FilterFollows ==
  ASSUME TypeOK, TypeOK', RingInv, Learn, NEW k \in Kinds
  PROVE  Filter!Follows(k)
<1> DEFINE error == ToS64(used[k] - prev[k])
           before == LmsPredict(hist[k], weight[k], ri)
           after == LmsPredict(hist[k], weight'[k], ri)
<1>1. hist[k][ri] = used[k]
  BY DEF Learn, Goes, RingInv, Stored, Kinds
<1>2. weight[k] \in [Slots -> Int] /\ weight'[k] \in [Slots -> Int]
      /\ hist[k] \in [Slots -> 0 .. LongMod - 1]
  BY DEF TypeOK
<1>3. before = Filter!Filtered(k, weight[k]) /\ after = Filter!Filtered(k, weight'[k])
  BY <1>1, <1>2, FilteredPredict
<1>4. Filter!Error(k) = error
  BY DEF Learn, Goes, Base, Filter!Error, ToS64
<1>5. error \in Int
  BY ErrorType
<1>6. error = 0 => weight'[k] = weight[k]
  <2>1. weight'[k] = Updated(error, hist[k], weight[k], rate[k])
    BY DEF Learn
  <2>2. rate[k] \in Nat
    BY DEF TypeOK
  <2>3. Updated(0, hist[k], weight[k], rate[k]) = weight[k]
    BY <1>2, <2>2, UpdatedByNothing
  <2> HIDE DEF error
  <2>4. QED
    BY <2>1, <2>3
<1>7. before \in Int /\ after \in Int
  <2>1. ASSUME NEW wm \in [Slots -> Int] PROVE LmsPredict(hist[k], wm, ri) \in Int
    <3>1. \A i \in Slots : wm[i] <= wm[i]
      OBVIOUS
    <3>2. ri \in Slots
      BY DEF TypeOK
    <3>3. QED
      BY <1>2, <3>1, <3>2, PredictMonotone, ZenonT(30)
  <2>2. QED
    BY <1>2, <2>1
<1>8. IF error < 0 THEN after - before <= 0 ELSE after - before >= 0
  BY LearnFollows
<1> HIDE DEF error, before, after
<1>9. /\ error < 0 => after <= before
      /\ error > 0 => after >= before
  BY <1>5, <1>7, <1>8
<1>10. QED
  BY <1>3, <1>4, <1>6, <1>9, Zenon DEF Filter!Follows

LEMMA FilterLearn ==
  ASSUME TypeOK, TypeOK', RingInv, Learn PROVE Filter!Learn
<1>1. Phase = "learn" /\ Phase' = "idle" /\ Base' = [k \in Kinds |-> 0]
  BY DEF Learn, Goes, Phase, Base
<1>2. \A k \in Filter!Channels : Filter!Follows(k)
  BY FilterFollows DEF Filter!Channels, Kinds
<1>3. Line' = [k \in Filter!Channels |->
                 [i \in Filter!Taps \ {0} |-> IF i = 1 THEN used[k] ELSE Line[k][i - 1]]]
  <2> USE DEF Filter!Channels, Filter!Taps, Kinds, Slots
  <2>1. ASSUME NEW k \in Kinds, NEW i \in Slots \ {0}
        PROVE  recent'[k][i - 1] = IF i = 1 THEN used[k] ELSE Line[k][i - 1]
    BY DEF Learn, Line
  <2>2. Line' = [k \in Kinds |-> [i \in Slots \ {0} |-> recent'[k][i - 1]]]
    BY DEF Line
  <2>3. QED
    BY <2>1, <2>2
<1>4. UNCHANGED <<used, rate, next, granted>>
  BY DEF Learn, samples, ests
<1>5. QED
  BY <1>1, <1>2, <1>3, <1>4 DEF One, Filter!Learn, Filter!Zero, Filter!Channels, Kinds

LEMMA FilterReset ==
  ASSUME Start PROVE Filter!Reset
BY DEF Start, Phase, Line, Base, One, samples, rings, weights, Filter!Reset,
   Filter!Zero, Filter!coefs, Filter!Channels, Kinds

LEMMA FilterStutters ==
  ASSUME Save \/ Count \/ SetInterval \/ UNCHANGED vars
  PROVE  UNCHANGED Filter!vars
<1>1. CASE Save
  BY <1>1 DEF Save, Goes, Phase, Line, Base, One, samples, rings, weights, Filter!vars, Filter!coefs
<1>2. CASE Count
  BY <1>2 DEF Count, Phase, Line, Base, One, samples, rings, weights, ests, Filter!vars, Filter!coefs
<1>3. CASE SetInterval
  BY <1>3 DEF SetInterval, Phase, Line, Base, One, samples, rings, weights, ests, Filter!vars, Filter!coefs
<1>4. CASE UNCHANGED vars
  BY <1>4 DEF vars, Phase, Line, Base, One, samples, rings, weights, ests, Filter!vars, Filter!coefs
<1>5. QED
  BY <1>1, <1>2, <1>3, <1>4

(* Each step of the estimator is a step of the filter or leaves what the   *)
(* filter has as it was.                                                   *)
THEOREM EstimatorIsFilter == Spec => ImplementsFilter
<1>1. Init => Filter!Init
  BY FilterInit
<1>2. TypeOK /\ TypeOK' /\ RingInv /\ ErrorOfGranted /\ [Next]_vars
        => [Filter!Next]_(Filter!vars)
  <2> SUFFICES ASSUME TypeOK, TypeOK', RingInv, ErrorOfGranted, [Next]_vars
               PROVE  Filter!Next \/ UNCHANGED Filter!vars
    OBVIOUS
  <2>1. CASE Sample
    BY <2>1, FilterObserve DEF Filter!Next
  <2>2. CASE EstimateRead
    BY <2>2, FilterServes DEF EstimateRead, Kinds
  <2>3. CASE EstimateWrite
    BY <2>3, FilterServes DEF EstimateWrite, Kinds
  <2>4. CASE Replenish
    BY <2>4, FilterGrant DEF Filter!Next
  <2>5. CASE Learn
    BY <2>5, FilterLearn DEF Filter!Next
  <2>6. CASE Start
    BY <2>6, FilterReset DEF Filter!Next
  <2>7. CASE Save \/ Count \/ SetInterval \/ UNCHANGED vars
    BY <2>7, FilterStutters
  <2>8. QED
    BY <2>1, <2>2, <2>3, <2>4, <2>5, <2>6, <2>7 DEF Next, Master
<1>3. QED
  BY <1>1, <1>2, Typing, RingInvariant, ErrorUsesGranted, PTL
     DEF Spec, ImplementsFilter, Filter!Spec
=============================================================================

------------------------------ MODULE Estimator ------------------------------
(***************************************************************************)
(* The LMS estimator (model.c) and the master's use of it for one core     *)
(* (master.c:104-238): consumption sampled from cumulative event counts,   *)
(* two history rings under one index, two weight vectors, the estimates,   *)
(* the error fed back, and what happens when an estimate is negative.      *)
(* Concurrently the counters count, a write to regu_interval changes the   *)
(* interval of the conversions, and start_regulation resets the estimates. *)
(*                                                                         *)
(* Weights are exact: weight[k][i] is in units of LRATE / rate[k], and a   *)
(* halving makes the unit half as large.  What doubles round is left out.  *)
(***************************************************************************)
EXTENDS Units

CONSTANTS
  InitBw,     \* initial_bw_mb
  Scale,      \* 1 / LRATE: the weight 1.0
  InitWeight, \* INITIAL_WEIGHT, in learning rates
  NormUnit,   \* 2^16, by which l2_norm divides each square
  IntMod,     \* 2^32, the width of int
  LongMod,    \* 2^64, the width of u64
  Intervals,  \* the values written to regu_interval
  Bursts,     \* the events of each kind that may be counted at a time
  MaxBursts,  \* bound: bursts counted
  MaxChanges, \* bound: writes to regu_interval
  MaxStarts   \* bound: starts of regulation after the first

ASSUME EstimatorAssumption ==
  /\ InitBw \in 0 .. IntMod \div 2 - 1 /\ Scale \in Nat \ {0} /\ InitWeight \in Nat
  /\ NormUnit \in Nat \ {0}
  /\ IntMod \in Nat \ {0} /\ IntMod % 2 = 0
  /\ LongMod \in Nat \ {0} /\ LongMod % 2 = 0 /\ 2 * IntMod <= LongMod
  /\ Intervals \subseteq 1..1000
  /\ Bursts \subseteq [{"read", "write"} -> Nat]
  /\ MaxBursts \in Nat /\ MaxChanges \in Nat /\ MaxStarts \in Nat

Kinds == {"read", "write"}
Slots == 0..4               \* HIST_SIZE is 5

VARIABLES
  time,     \* ar_regulation_time_ms
  events,   \* events[k]: perf_event_count of the read or write event
  counting, \* the counters of the core are running
  pc,       \* where the master is in serving the core
  new,      \* new[k]: g_read_count_new, g_write_count_new
  used,     \* used[k]: g_read_count_used, g_write_count_used
  hist,     \* hist[k]: read_event_hist, write_event_hist
  ri,       \* the ring index of both
  weight,   \* weight[k]: weight_matrix, write_weight_matrix
  rate,     \* rate[k]: the learning rate in the unit of weight[k]
  next,     \* next[k]: next_estimate, write_next_estimate
  prev,     \* prev[k]: prev_estimate, write_prev_estimate
  granted,  \* history: the estimates the core's budget was last made from
  recent,   \* history: recent[k][i], the sample of i + 1 learned passes ago
  bursts, changes, starts

counters == <<events, counting, bursts>>
setting  == <<time, changes>>
samples  == <<new, used>>
rings    == <<hist, ri, recent>>
weights  == <<weight, rate>>
ests     == <<next, prev, granted, starts>>
vars     == <<counters, setting, samples, rings, weights, ests, pc>>

TypeOK ==
  /\ time \in 1..1000
  /\ events \in [Kinds -> Nat]
  /\ counting \in BOOLEAN
  /\ pc \in {"run", "read", "write", "allocate", "learn", "save"}
  /\ new \in [Kinds -> 0 .. LongMod - 1]
  /\ used \in [Kinds -> 0 .. LongMod - 1]
  /\ hist \in [Kinds -> [Slots -> 0 .. LongMod - 1]]
  /\ ri \in Slots
  /\ weight \in [Kinds -> [Slots -> Int]]
  /\ rate \in [Kinds -> Nat \ {0}]
  /\ next \in [Kinds -> Int]
  /\ prev \in [Kinds -> Int]
  /\ granted \in [Kinds -> Int]
  /\ recent \in [Kinds -> [Slots -> 0 .. LongMod - 1]]
  /\ bursts \in 0..MaxBursts /\ changes \in 0..MaxChanges /\ starts \in 0..MaxStarts

(* setup_cpu_info, then the first start of regulation: all_cinfo zeroed,   *)
(* weights initialised, counters on.                                       *)
Init ==
  /\ time = 1
  /\ events = [k \in Kinds |-> 0] /\ counting = TRUE
  /\ pc = "run"
  /\ new = [k \in Kinds |-> 0] /\ used = [k \in Kinds |-> 0]
  /\ hist = [k \in Kinds |-> [i \in Slots |-> 0]] /\ ri = 0
  /\ weight = [k \in Kinds |-> [i \in Slots |-> InitWeight]]
  /\ rate = [k \in Kinds |-> 1]
  /\ next = [k \in Kinds |-> 0] /\ prev = [k \in Kinds |-> 0]
  /\ granted = [k \in Kinds |-> 0]
  /\ recent = [k \in Kinds |-> [i \in Slots |-> 0]]
  /\ bursts = 0 /\ changes = 0 /\ starts = 0
-----------------------------------------------------------------------------
(* Widths.                                                                 *)

ToInt(x) == ((x + IntMod \div 2) % IntMod) - IntMod \div 2
ToU64(x) == x % LongMod
ToS64(x) == ((x + LongMod \div 2) % LongMod) - LongMod \div 2

(* The weight 1.0 in the unit of weight[k].                                *)
One(k) == Scale * rate[k]

(* The double x / one, its fraction dropped.                               *)
Truncate(x, one) == IF x >= 0 THEN x \div one ELSE -((-x) \div one)

(* Slip: the conversion saturates.                                         *)
DoubleToIntSaturating(x, one) ==
  IF Truncate(x, one) < IntMod \div 2 THEN Truncate(x, one) ELSE IntMod \div 2 - 1

(* (int) of a double: what does not fit becomes the least int (cvttsd2si). *)
DoubleToInt(x, one) ==
  IF Truncate(x, one) \in -(IntMod \div 2) .. IntMod \div 2 - 1
    THEN Truncate(x, one) ELSE -(IntMod \div 2)
-----------------------------------------------------------------------------
(* model.c.                                                                *)

SumOf(f) == f[0] + f[1] + f[2] + f[3] + f[4]

(* Slip: weight i is paired with slot i, as in the update.                 *)
SlotFixed(r, i) == i

(* The loops of lms_predict: weight i goes with the i-th latest sample.    *)
Slot(r, i) == IF i <= r THEN r - i ELSE r - i + 5

LmsPredict(feat, wm, r) == SumOf([i \in Slots |-> wm[i] * feat[Slot(r, i)]])

Estimate(feat, wm, r, one) == DoubleToInt(LmsPredict(feat, wm, r), one) + InitBw

L2Norm(feat) == ToU64(SumOf([i \in Slots |-> ToU64((feat[i] * feat[i]) \div NormUnit)]))

(* Slip: the sign of the error is lost.                                    *)
UpdatedWithoutSign(error, feat, wm, lrate) ==
  LET size == IF error < 0 THEN -error ELSE error
      t2(i) == ToU64(size * feat[i]) \div L2Norm(feat)
  IN  IF L2Norm(feat) = 0 THEN wm ELSE [i \in Slots |-> wm[i] + t2(i) * lrate]

(* update_weight_matrix and update_write_weight_matrix.                    *)
Updated(error, feat, wm, lrate) ==
  LET size == IF error < 0 THEN -error ELSE error
      t2(i) == ToU64(size * feat[i]) \div L2Norm(feat)
  IN  IF L2Norm(feat) = 0 THEN wm
      ELSE [i \in Slots |-> IF error < 0 THEN wm[i] - t2(i) * lrate
                                        ELSE wm[i] + t2(i) * lrate]

(* Slip: the weights are left alone.                                       *)
NotHalved(lrate) == lrate

(* initialize_weight_matrix(cinfo, false): the learning rate, which stays, *)
(* in the unit that makes the same numbers worth half as much.             *)
Halved(lrate) == 2 * lrate
-----------------------------------------------------------------------------
(* The master.                                                             *)

Goes(from, to) == pc = from /\ pc' = to

(* master.c:104-117: counters stopped and read, consumption since the last *)
(* sample; convert_events_to_mb returns an int, extended to u64.           *)
Sample ==
  /\ Goes("run", "read")
  /\ counting' = FALSE
  /\ new' = [k \in Kinds |-> ToU64(ToInt(ConvertEventsToMb(events[k], time)))]
  /\ used' = [k \in Kinds |-> ToU64(new'[k] - new[k])]
  /\ UNCHANGED <<events, bursts, setting, rings, weights, ests>>

(* Slip: the estimate is saved for the error before it is found negative.  *)
EstimatesSaving(k, from, to) ==
  /\ pc = from
  /\ hist' = [hist EXCEPT ![k][ri] = used[k]]
  /\ next' = [next EXCEPT ![k] = Estimate(hist'[k], weight[k], ri, One(k))]
  /\ prev' = [prev EXCEPT ![k] = next'[k]]
  /\ IF next'[k] < 0
       THEN pc' = "run" /\ rate' = [rate EXCEPT ![k] = Halved(rate[k])]
       ELSE pc' = to /\ UNCHANGED rate
  /\ UNCHANGED <<counters, setting, samples, ri, recent, weight, granted, starts>>

(* Slip: a negative estimate does not end the service of the core.         *)
EstimatesGoingOn(k, from, to) ==
  /\ pc = from
  /\ pc' = to
  /\ hist' = [hist EXCEPT ![k][ri] = used[k]]
  /\ next' = [next EXCEPT ![k] = Estimate(hist'[k], weight[k], ri, One(k))]
  /\ rate' = [rate EXCEPT ![k] = IF next'[k] < 0 THEN Halved(rate[k]) ELSE rate[k]]
  /\ UNCHANGED <<counters, setting, samples, ri, recent, weight, prev, granted, starts>>

(* The sample enters the ring and the estimate is made; a negative one     *)
(* halves the weights and ends the service of the core.                    *)
Estimates(k, from, to) ==
  /\ pc = from
  /\ hist' = [hist EXCEPT ![k][ri] = used[k]]
  /\ next' = [next EXCEPT ![k] = Estimate(hist'[k], weight[k], ri, One(k))]
  /\ IF next'[k] < 0
       THEN pc' = "run" /\ rate' = [rate EXCEPT ![k] = Halved(rate[k])]
       ELSE pc' = to /\ UNCHANGED rate
  /\ UNCHANGED <<counters, setting, samples, ri, recent, weight, prev, granted, starts>>

EstimateRead  == Estimates("read", "read", "write")
EstimateWrite == Estimates("write", "write", "allocate")

(* master.c:162-193: budget (module BandwidthPool) and counters restarted. *)
Replenish ==
  /\ Goes("allocate", "learn")
  /\ counting' = TRUE
  /\ granted' = next
  /\ UNCHANGED <<events, bursts, setting, samples, rings, weights, next, prev, starts>>

(* Slip: the index runs off the ring.                                      *)
AdvancedTooFar(r) == IF r = 5 THEN 0 ELSE r + 1

Advanced(r) == IF r + 1 = 5 THEN 0 ELSE r + 1

(* master.c:196-214: both weight vectors learn from the error of the       *)
(* previous estimate, and the ring advances.                               *)
Learn ==
  /\ Goes("learn", "save")
  /\ weight' = [k \in Kinds |->
                  Updated(ToS64(used[k] - prev[k]), hist[k], weight[k], rate[k])]
  /\ ri' = Advanced(ri)
  /\ recent' = [k \in Kinds |->
                  [i \in Slots |-> IF i = 0 THEN used[k] ELSE recent[k][i - 1]]]
  /\ UNCHANGED <<counters, setting, samples, hist, rate, ests>>

(* master.c:237-238.                                                       *)
Save ==
  /\ Goes("save", "run")
  /\ prev' = next
  /\ UNCHANGED <<counters, setting, samples, rings, weights, next, granted, starts>>

Master == Sample \/ EstimateRead \/ EstimateWrite \/ Replenish \/ Learn \/ Save
-----------------------------------------------------------------------------
(* Everybody else.  The counts and the interval are read by Sample only, so*)
(* they need change only before one.                                       *)

(* The core reads and writes back cache lines.                             *)
Count ==
  /\ pc = "run" /\ counting /\ bursts < MaxBursts
  /\ \E b \in Bursts : events' = [k \in Kinds |-> events[k] + b[k]]
  /\ bursts' = bursts + 1
  /\ UNCHANGED <<counting, setting, samples, rings, weights, ests, pc>>

(* ar_reg_interval_write.                                                  *)
SetInterval ==
  /\ pc = "run" /\ changes < MaxChanges
  /\ time' \in Intervals
  /\ changes' = changes + 1
  /\ UNCHANGED <<counters, samples, rings, weights, ests, pc>>

(* A stop and start_regulation: the four estimates of the core are zeroed, *)
(* its events enabled, which starts the counters of a core passed over.    *)
Start ==
  /\ starts < MaxStarts
  /\ starts' = starts + 1
  /\ counting' = TRUE
  /\ next' = [k \in Kinds |-> 0]
  /\ prev' = [k \in Kinds |-> 0]
  /\ granted' = [k \in Kinds |-> 0]
  /\ UNCHANGED <<events, bursts, setting, samples, rings, weights, pc>>

Next == Master \/ Count \/ SetInterval \/ Start

Spec == Init /\ [][Next]_vars /\ WF_vars(Master)
-----------------------------------------------------------------------------
(* The samples an estimate is to be made from: the one just taken and      *)
(* those of the last passes that ended in a replenishment.                 *)
Latest(k) == [i \in Slots |-> IF i = 0 THEN used[k] ELSE recent[k][i - 1]]

(* However passes were cut short by negative estimates of either kind, an  *)
(* estimate weighs the latest sample with weight 0, the one before with    *)
(* weight 1, and so on, in both rings (model.c:24-31, master.c:126-160).   *)
Predicts(k, from) ==
  pc = from /\ pc' # from =>
    next'[k] = DoubleToInt(SumOf([i \in Slots |-> weight[k][i] * Latest(k)[i]]), One(k))
               + InitBw

PredictsFromLatest ==
  [][Predicts("read", "read") /\ Predicts("write", "write")]_vars

(* The error (master.c:197-198) compares the consumption with the estimate *)
(* the consumed budget was made from, or with zero after a start, whatever *)
(* negative estimates and starts came in between.                          *)
ErrorOfGranted ==
  pc \notin {"learn", "save"} => \A k \in Kinds : prev[k] = granted[k]

(* A budget is never made from a negative estimate, nor from one beyond    *)
(* the range of int, whatever the weights have grown to and whenever the   *)
(* estimates are reset in between: their sum and their products with the   *)
(* limit (master.c:163-178) fit 64 bits.                                   *)
GrantedInRange ==
  \A k \in Kinds : granted[k] \in 0 .. IntMod \div 2 - 1 + InitBw

(* Learning moves the prediction for the same samples the way of the error *)
(* although weights and samples are paired differently (model.c:91-97).    *)
UpdateFollowsError ==
  [][pc = "learn" /\ pc' = "save" => \A k \in Kinds :
       LET gain == LmsPredict(hist[k], weight'[k], ri) - LmsPredict(hist[k], weight[k], ri)
       IN  IF ToS64(used[k] - prev[k]) < 0 THEN gain <= 0 ELSE gain >= 0]_vars

(* A difference that wrapped, since the MB count left the range of int     *)
(* (utils.c:56) or the interval grew (ar_debugfs.c:66), is 2^63 or more.   *)
(* It mostly makes the estimate negative, and its slot is overwritten; but *)
(* every time halves the weights, and in the end one is learned from.  The *)
(* weight of the latest sample is then so small that 2^63 times it fits an *)
(* int, but for what the older samples offset (master.c:126-160).          *)
Abs(x) == IF x < 0 THEN -x ELSE x

OlderSum(k) == SumOf([i \in Slots |-> IF i = 0 THEN 0 ELSE weight[k][i] * Latest(k)[i]])

WrapsLearnedFaintly ==
  [][ri' # ri => \A k \in Kinds : used[k] >= LongMod \div 2 =>
       Abs(weight[k][0]) * (LongMod \div 2)
         < Abs(OlderSum(k)) + (IntMod \div 2) * One(k)]_vars

(* A pass cut short by a negative estimate leaves the weights it was made  *)
(* from worth at most half, and no step but a completed pass makes weights *)
(* larger.  Such a pass has weights to halve, worth (InitBw + 1) / 2^64 or *)
(* more: a core is passed over only so often in a row, whatever it does    *)
(* meanwhile and however starts fall in between (model.c:124-136).         *)
Size(wm) == SumOf([i \in Slots |-> Abs(wm[i])])

SkipShrinks ==
  [][\A k \in Kinds :
       /\ pc # "learn" => Size(weight'[k]) * rate[k] <= Size(weight[k]) * rate'[k]
       /\ pc = k /\ pc' = "run" =>
            /\ 2 * Size(weight'[k]) * rate[k] <= Size(weight[k]) * rate'[k]
            /\ (InitBw + 1) * One(k) <= Size(weight[k]) * LongMod]_vars

(* A core passed over for a negative estimate, its counters stopped, is    *)
(* replenished eventually: halving ends the negative estimates.            *)
SkipsEnd == pc = "run" /\ ~counting ~> counting
-----------------------------------------------------------------------------
(* The rings are a delay line, and what the error is taken from is what    *)
(* the core was granted before.                                            *)
Phase == IF pc \in {"run", "save"} THEN "idle"
         ELSE IF pc = "allocate" THEN "grant" ELSE pc

Line == [k \in Kinds |-> [i \in Slots \ {0} |-> recent[k][i - 1]]]

Base == IF pc = "learn" THEN prev ELSE [k \in Kinds |-> 0]

Filter == INSTANCE FilterSpec WITH
  Bias <- InitBw, Unit <- Scale, First <- InitWeight,
  Half <- IntMod \div 2, Width <- LongMod,
  phase <- Phase, now <- used, line <- Line, coef <- weight,
  unit <- [k \in Kinds |-> One(k)],
  est <- next, budget <- granted, base <- Base

(* The estimator is the adaptive filter FilterSpec describes, whatever     *)
(* passes are cut short and however starts fall into a pass (master.c:126- *)
(* 238, model.c).                                                          *)
ImplementsFilter == Filter!Spec
=============================================================================

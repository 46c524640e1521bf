---------------------------- MODULE BandwidthPool ----------------------------
(***************************************************************************)
(* The bandwidth budget of the regulated cores and the global pool.  The   *)
(* master (master.c:104-193) samples a core, turns the two predictions     *)
(* into a read and a write allocation under the core's limit, adds what    *)
(* the core leaves unused to g_pool_bw_mb and replenishes the core.  The   *)
(* overflow handler of each core (ar.c:183-209) takes half of the core's   *)
(* last consumption out of the pool, or throttles the core.                *)
(*                                                                         *)
(* g_pool_bw_mb is a plain ulong: nothing orders the master's `+=' on      *)
(* CPU 0 and the handlers' test and `-=' on the other CPUs.  The master's  *)
(* update is a load and a store.  The handler's test and update are one    *)
(* load and one store: no call or barrier separates them, and the          *)
(* optimised build keeps the loaded value in a register.                   *)
(***************************************************************************)
EXTENDS Units

CONSTANTS
  N,              \* MAX_NO_CPUS: the regulated cores are 1..N
  MaxBw,          \* g_percore_bw_limit_mb: max_bw_limit_mb of every core
  InitBw,         \* g_initial_bw_mb: initial_bw_mb of every core
  Prefill,        \* g_pool_bw_mb as set when the module is loaded (0 by default)
  RegulationTime, \* ar_regulation_time_ms
  Predictions,    \* the values (int)lms_predict(...) may take
  Samples,        \* the values g_read_count_used may take
  Modulus,        \* 2^64, the width of g_pool_bw_mb
  MaxPasses       \* bound: passes of the master over all cores

ASSUME PoolAssumption ==
  /\ N \in Nat \ {0}
  /\ MaxBw \in Nat /\ InitBw \in Nat
  /\ RegulationTime \in 1..1000
  /\ Predictions \subseteq Int
  /\ Samples \subseteq Nat
  /\ Modulus \in Nat \ {0}
  /\ Prefill \in 0 .. Modulus - 1
  /\ MaxPasses \in Nat

Cores == 1..N

VARIABLES
  pool,       \* g_pool_bw_mb
  used,       \* used[c]: g_read_count_used
  left,       \* left[c]: read_event->hw.period_left, in events
  flag,       \* flag[c]: throttler_task
  counting,   \* counting[c]: the read counter is running
  mpc, mcpu,  \* where the master is, and the core it serves
  rest, west, \* next_estimate and write_next_estimate of that core
  mreg,       \* the pool value the master has loaded
  hpc,        \* hpc[c]: where the overflow handler of c is
  hused,      \* hused[c]: its read_bw_used
  hreg,       \* hreg[c]: the pool value it has loaded
  passes,     \* passes completed by the master
  deposited   \* history: bandwidth put into the pool so far

core   == <<used, left, flag, counting>>
master == <<mpc, mcpu, rest, west, mreg, passes>>
irq    == <<hpc, hused, hreg>>
vars   == <<pool, core, master, irq, deposited>>

(* The types; and the master works on a core while its counters are off.   *)
TypeOK ==
  /\ pool \in 0 .. Modulus - 1
  /\ used \in [Cores -> Nat]
  /\ left \in [Cores -> Nat]
  /\ flag \in [Cores -> BOOLEAN]
  /\ counting \in [Cores -> BOOLEAN]
  /\ mpc \in {"sample", "estimate", "load", "store", "replenish"}
  /\ mcpu \in Cores
  /\ rest \in Nat /\ west \in Nat
  /\ mreg \in Nat
  /\ hpc \in [Cores -> {"idle", "queued", "take", "grant"}]
  /\ hused \in [Cores -> Nat]
  /\ hreg \in [Cores -> Nat]
  /\ passes \in Nat
  /\ deposited \in Nat
  /\ mpc # "sample" => ~counting[mcpu]

(* Regulation just enabled: counters on with the period of setup_cpu_info, *)
(* pool as loaded (ar.c:52-55), all_cinfo zeroed, all cores let go.        *)
Init ==
  /\ pool = Prefill
  /\ used = [c \in Cores |-> 0]
  /\ left = [c \in Cores |-> ConvertMbToEvents(InitBw, RegulationTime)]
  /\ flag = [c \in Cores |-> FALSE]
  /\ counting = [c \in Cores |-> TRUE]
  /\ mpc = "sample" /\ mcpu = 1
  /\ rest = 0 /\ west = 0
  /\ mreg = 0
  /\ hpc = [c \in Cores |-> "idle"]
  /\ hused = [c \in Cores |-> 0]
  /\ hreg = [c \in Cores |-> 0]
  /\ passes = 0
  /\ deposited = Prefill
-----------------------------------------------------------------------------
(* The allocation of master.c:163-181.                                     *)

(* Slip: the share is rounded up.                                          *)
ShareRoundedUp(est, total) == (MaxBw * est + total - 1) \div total

(* Slip: the quotient is taken before the product.                         *)
ShareTruncatedEarly(est, total) == (MaxBw \div total) * est

(* A core over its limit gets its limit in proportion to the estimates.    *)
Share(est, total) == (MaxBw * est) \div total

Allocation(est, total) == IF total <= MaxBw THEN est ELSE Share(est, total)

ReadAllocation  == Allocation(rest, rest + west)
WriteAllocation == Allocation(west, rest + west)
TotalAllocation == ReadAllocation + WriteAllocation

(* max(0, max_bw_limit_mb - total_allocation), in u64 arithmetic.          *)
Unused == (MaxBw - TotalAllocation) % Modulus
-----------------------------------------------------------------------------
(* The master.                                                             *)

Serve(from, to) == mpc = from /\ mpc' = to

(* The for_each_online_cpu loop goes on, or the pass ends; what the master *)
(* keeps of the core it served does not outlive the turn of the loop.      *)
NextCore == /\ mpc' = "sample"
            /\ rest' = 0 /\ west' = 0 /\ mreg' = 0
            /\ mcpu' = IF mcpu = N THEN 1 ELSE mcpu + 1
            /\ passes' = IF mcpu = N THEN passes + 1 ELSE passes

(* Slip: the counters run on while the core is served.                     *)
SampleRunning ==
  /\ passes < MaxPasses
  /\ Serve("sample", "estimate")
  /\ \E s \in Samples : used' = [used EXCEPT ![mcpu] = s]
  /\ UNCHANGED <<pool, left, flag, counting, mcpu, rest, west, mreg, passes, irq, deposited>>

(* master.c:104-124: stop the counters and read the consumption.           *)
Sample ==
  /\ passes < MaxPasses
  /\ Serve("sample", "estimate")
  /\ counting' = [counting EXCEPT ![mcpu] = FALSE]
  /\ \E s \in Samples : used' = [used EXCEPT ![mcpu] = s]
  /\ UNCHANGED <<pool, left, flag, mcpu, rest, west, mreg, passes, irq, deposited>>

(* master.c:126-160: a negative estimate, of reads or else of writes, ends *)
(* the service of this core with its counters stopped.                     *)
EstimateNegative ==
  /\ mpc = "estimate"
  /\ \E p \in Predictions : p + InitBw < 0
  /\ NextCore
  /\ UNCHANGED <<pool, core, irq, deposited>>

Estimate ==
  /\ Serve("estimate", "load")
  /\ \E r, w \in Predictions :
       /\ r + InitBw >= 0 /\ w + InitBw >= 0
       /\ rest' = r + InitBw
       /\ west' = w + InitBw
  /\ UNCHANGED <<pool, core, mcpu, mreg, passes, irq, deposited>>

(* master.c:182, g_pool_bw_mb += ...: the load, then the store.            *)
DepositLoad ==
  /\ Serve("load", "store")
  /\ mreg' = pool
  /\ UNCHANGED <<pool, core, mcpu, rest, west, passes, irq, deposited>>

DepositStore ==
  /\ Serve("store", "replenish")
  /\ pool' = (mreg + Unused) % Modulus
  /\ deposited' = deposited + Unused
  /\ UNCHANGED <<core, mcpu, rest, west, mreg, passes, irq>>

(* master.c:184-193: the budget, the throttle flag, the counters.          *)
Replenish ==
  /\ mpc = "replenish"
  /\ NextCore
  /\ left' = [left EXCEPT ![mcpu] = ConvertMbToEvents(ReadAllocation, RegulationTime)]
  /\ flag' = [flag EXCEPT ![mcpu] = FALSE]
  /\ counting' = [counting EXCEPT ![mcpu] = TRUE]
  /\ UNCHANGED <<pool, used, irq, deposited>>

Master == \/ Sample \/ EstimateNegative \/ Estimate
          \/ DepositLoad \/ DepositStore \/ Replenish
-----------------------------------------------------------------------------
(* The overflow of core c's read counter and its handler.                  *)

(* The counter of a running core counts user mode only.                    *)
Overflow(c) ==
  /\ counting[c] /\ ~flag[c]
  /\ hpc[c] = "idle"
  /\ hpc' = [hpc EXCEPT ![c] = "queued"]
  /\ UNCHANGED <<pool, core, master, hused, hreg, deposited>>

(* ar.c:194-196: one load each of the consumption and of the pool.         *)
HandlerTests(c) ==
  /\ hpc[c] = "queued"
  /\ used[c] < pool
  /\ hpc' = [hpc EXCEPT ![c] = "take"]
  /\ hused' = [hused EXCEPT ![c] = used[c]]
  /\ hreg' = [hreg EXCEPT ![c] = pool]
  /\ UNCHANGED <<pool, core, master, deposited>>

(* ar.c:205-207: the pool is too small, throttle the core.                 *)
HandlerThrottles(c) ==
  /\ hpc[c] = "queued"
  /\ used[c] >= pool
  /\ hpc' = [hpc EXCEPT ![c] = "idle"]
  /\ flag' = [flag EXCEPT ![c] = TRUE]
  /\ UNCHANGED <<pool, used, left, counting, master, hused, hreg, deposited>>

Reclaim(c) == hused[c] \div 2

(* Slip: the pool is loaded again for the subtraction.                     *)
HandlerTakesReloaded(c) ==
  /\ hpc[c] = "take"
  /\ hpc' = [hpc EXCEPT ![c] = "grant"]
  /\ pool' = (pool - Reclaim(c)) % Modulus
  /\ UNCHANGED <<core, master, hused, hreg, deposited>>

(* Slip: the remainder is not stored.                                      *)
HandlerTakesUnstored(c) ==
  /\ hpc[c] = "take"
  /\ hpc' = [hpc EXCEPT ![c] = "grant"]
  /\ UNCHANGED <<pool, core, master, hused, hreg, deposited>>

(* ar.c:198-199, g_pool_bw_mb -= reclaim_budget.                           *)
HandlerTakes(c) ==
  /\ hpc[c] = "take"
  /\ hpc' = [hpc EXCEPT ![c] = "grant"]
  /\ pool' = (hreg[c] - Reclaim(c)) % Modulus
  /\ UNCHANGED <<core, master, hused, hreg, deposited>>

(* Slip: the grant is converted, but it is the whole consumption.          *)
HandlerGrantsWhole(c) ==
  /\ hpc[c] = "grant"
  /\ hpc' = [hpc EXCEPT ![c] = "idle"]
  /\ left' = [left EXCEPT ![c] = ConvertMbToEvents(hused[c], RegulationTime)]
  /\ hused' = [hused EXCEPT ![c] = 0]
  /\ hreg' = [hreg EXCEPT ![c] = 0]
  /\ UNCHANGED <<pool, used, flag, counting, master, deposited>>

(* ar.c:200: the bandwidth taken, in MB/s, becomes the period in events.   *)
HandlerGrants(c) ==
  /\ hpc[c] = "grant"
  /\ hpc' = [hpc EXCEPT ![c] = "idle"]
  /\ left' = [left EXCEPT ![c] = Reclaim(c)]
  /\ hused' = [hused EXCEPT ![c] = 0]
  /\ hreg' = [hreg EXCEPT ![c] = 0]
  /\ UNCHANGED <<pool, used, flag, counting, master, deposited>>

Handler(c) == \/ Overflow(c) \/ HandlerTests(c) \/ HandlerThrottles(c)
              \/ HandlerTakes(c) \/ HandlerGrants(c)

Next == Master \/ \E c \in Cores : Handler(c)

Spec == Init /\ [][Next]_vars
-----------------------------------------------------------------------------
(* The pool holds nothing but unused bandwidth (ar.c:52): whatever updates *)
(* of the master and the handlers are lost to each other, it never exceeds *)
(* what was deposited, and in particular never wraps below zero.           *)
PoolFilledByUnused == pool <= deposited

(* No core is allocated more than its limit (master.c:168-179), so the     *)
(* unsigned difference deposited for it (master.c:182) does not wrap.      *)
Allocated == mpc \in {"load", "store", "replenish"}

WithinCeiling == Allocated => TotalAllocation <= MaxBw

(* A core that asks for more than its limit is allocated all of it but for *)
(* the truncation of the two shares: it feeds at most 1 MB/s to the pool.  *)
CappedCoreKeepsLimit ==
  Allocated /\ rest + west > MaxBw => MaxBw - TotalAllocation <= 1

(* The period a core is replenished with (master.c:185) is worth exactly   *)
(* its allocation when it is counted back (master.c:111): the one rounding *)
(* down and the other up cancel, for every interval that divides a second. *)
BudgetWorthAllocation ==
  [][mpc = "replenish" /\ mpc' = "sample" /\ 1000 % RegulationTime = 0
       => ConvertEventsToMb(left'[mcpu], RegulationTime) = ReadAllocation]_vars

(* The bandwidth taken out of the pool reaches the core: the period it is  *)
(* granted (ar.c:200) is worth the MB/s taken (ar.c:199), as the period of *)
(* the replenishment (master.c:185) is worth the allocation.               *)
GrantWorthReclaim ==
  [][\A c \in Cores : hpc[c] = "grant" /\ hpc'[c] = "idle"
       => ConvertEventsToMb(left'[c], RegulationTime) = Reclaim(c)]_vars

(* The mistaken unit errs on the safe side: the period granted is never    *)
(* worth more than the bandwidth taken out of the pool for it (ar.c:200).  *)
GrantWithinReclaim ==
  [][\A c \in Cores : hpc[c] = "grant" /\ hpc'[c] = "idle"
       => ConvertEventsToMb(left'[c], RegulationTime) <= Reclaim(c)]_vars
=============================================================================

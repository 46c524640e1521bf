# LMS-AdaptiveRegulator: specifications, model checking and proofs

LMS-AdaptiveRegulator is a Linux kernel module that regulates the memory bandwidth of
cores 1 to 4 from a master thread on CPU 0. Each millisecond the master reads what a core
consumed, predicts what it needs next with an LMS filter, allocates a read and a write budget
under the core's limit, puts what is left over in a global pool, and re-arms the core's
performance counters. A core that exhausts its budget takes an overflow interrupt, which
either helps itself from the pool or wakes a real-time *throttler thread* that occupies the
core (in MONITOR/MWAIT) until the master replenishes it.

This directory holds TLA+ specifications of that code, the configurations that check them
with TLC, and proofs checked with TLAPS. Source references are `file:line` of the repository.

## 1. Inventory

| Part | State | Operations | Interacts through |
|---|---|---|---|
| Throttle mechanism (`ar.c:88-165`, `183-209`, `303-324`) | `throttler_task` flag, wait queue, run state of the thread, armed monitor, stop bit | `__throttle`, `__unthrottle`, overflow handler, `throttler_task_func1`, `deinitialize_cpu_info` | an atomic flag, `wake_up_interruptible`, the store that ends MWAIT, `kthread_stop` |
| Allocation and pool (`master.c:88-193`, `ar.c:194-203`) | `g_pool_bw_mb`, consumption, estimates, `hw.period_left` of each counter | sample, estimate, allocate, deposit, replenish, reclaim | plain shared variables between CPU 0 and the cores |
| Regulation control (`master.c:29-298`, `ar_debugfs.c:113-149`, `ar.c:347-410`, `480-496`) | `enable_reg`, `master_state`, master wait queue, enabled events | start/stop through debugfs, master loop, unload | atomics, wait queue, perf enable/disable |
| LMS estimator (`model.c`) | history ring with index `ri`, two weight vectors, previous estimates | `estimate`, weight update, halving | called by the master only |
| Unit conversions (`utils.c:48-65`) | none | events to MB/s (rounds up), MB/s to events (rounds down) | called by the master and the set-up |
| Module set-up (`ar.c:216-301`, `416-477`) | everything zeroed, events and threads created | `ar_init` with roll-back, `setup_cpu_info`, `deinitialize_cpu_info`, `ar_exit` | the threads and files it creates |
| Perf wrapper (`ar_perfs.c`) | the perf events | create, enable, disable and release, read | |
| Interval files (`ar_debugfs.c:34-108`) | two integers | read, write | `get_regulation_time` |

`print_double`, the debug trace, `test.c`, the scripts and the build files carry no behaviour
of the regulator.

**What is hard.** Nothing is protected by a lock. The flag of a core is written by the overflow
interrupt on that core, by the master on CPU 0 and by the unload, and read by a thread that
sleeps in two ways (a wait queue and MWAIT). The pool is read, compared and updated by up
to five CPUs with plain `+=` and `-=`. Start and stop run in the context of whoever writes the
debugfs file, concurrently with a pass of the master and with each other. The budget arithmetic
is unsigned. The unload waits for five threads in whatever state it finds them.

**What makes each part correct.**

- *Throttle mechanism*: an ordered throttle is carried out and a cancelled one is let go, no
  wake-up is lost between a test and a sleep or between MONITOR and MWAIT, a stopped thread ends.
- *Pool and allocation*: no core gets more than its limit; a capped core loses no more than
  rounding; the pool holds only unused bandwidth and never wraps; what is taken is worth what
  it is granted as, and is taken once.
- *Control*: cores are throttled until the first start; setting, master and events agree
  when no write is in progress; a throttle ends while regulation runs; start, stop and unload
  take effect; nothing is left behind.
- *Estimator*: a prediction weighs the latest samples in their order, the error is that of the
  estimate the consumed budget was made from, learning goes the way of the error, a difference
  that wrapped counts for little where it is learned from, negative estimates end and cost weight.
- *Conversions*: a budget converted to events and back is the bandwidth allocated.
- *Set-up*: a load sets up everything or leaves nothing, whichever step fails; nothing is used
  before it is set up or after it is released; loading and unloading return.

## 2. Modules

| Module | Models | Correspondence |
|---|---|---|
| `ThrottleSpec` | what a core's throttling promises: `order`, `held`, `retired` | abstract; `order` is `throttler_task` |
| `Throttler` | the mechanism, one action per access to shared state | see below |
| `ThrottlerProofs` | theorems on `Throttler` | |
| `Units` | `utils.c` conversions | `ConvertEventsToMb`, `ConvertMbToEvents` |
| `FilterSpec` | what the estimator promises: an adaptive filter with a delay line, `line`, coefficients and an error | abstract; `coef` and `unit` are the weights, `line` the ring read backwards |
| `Estimator` | `model.c` and the master's use of it for one core | see below |
| `EstimatorProofs` | theorems on `Estimator` | |
| `EstimatorRefinement` | the theorem that `Estimator` implements `FilterSpec` | |
| `BandwidthPool` | allocation, pool, replenishment, reclaim | see below |
| `BandwidthLedger` | `BandwidthPool` with a ledger: `withdrawn`, and of it `lost` | history variables; see below |
| `BandwidthPoolProofs` | theorems on `BandwidthPool` | |
| `BandwidthLedgerProofs` | theorems on `BandwidthLedger` | |
| `Regulator` | master thread, debugfs writers, interrupts, unload, over `ThrottleSpec` | see below |
| `RegulatorProofs` | theorems on `Regulator` | |
| `Lifecycle` | `ar_init`, its roll-backs, `ar_exit`, against the threads and writers | see below |
| `LifecycleProofs` | theorems on `Lifecycle` | |
| `MC*` | small instances for TLC | |

Operators described as a *slip* in their comments are not part of a specification. Each is a
plausible mistake in the action that follows it, and putting it in that action's place makes
a property fail; it shows that the property depends on the code.

### Throttler

For each core: the thread follows `throttler_task_func1` from label to label. `wait_event` is
modelled as the macro expands (test, queue, test again, schedule), MWAIT as a state that is left
when the watched line is stored to (`armed` drops) or an interrupt comes. The overflow handler
is split at the flag store and the wake-up; `__throttle` at its read, store and wake-up;
`deinitialize_cpu_info` at each call, with `kthread_stop` split into bit, wake-up and join.
`hasMwait` is either value at boot and then fixed; without it the thread takes the `cpu_relax` fallback. The overflow handler may also reclaim, which leaves
the flag alone. Where an interrupt may preempt the thread is explicit: a *held* core is one
whose thread is between lines 142 and 158.

`Throttler` implements `ThrottleSpec` (`KeepsPromise`): `order <- flag`, `held` is the thread being in
the inner loop, `retired` the stop bit. The abstract specification lets a core be held only under
an order, and requires an order that stays to be carried out and a cancelled one to be let go.

### BandwidthPool

The master is at one of `sample`, `estimate`, `load`, `store`, `replenish` for core `mcpu`. `Sample`
is `master.c:100-124`, `Estimate` and `EstimateNegative` `126-160` (the prediction is any value of
`Predictions`), `DepositLoad` and `DepositStore` the two halves of `g_pool_bw_mb +=` at 182, and
`Replenish` 184-193. A handler is `idle`, `queued`, about to `take`, or about to `grant`. The pool wraps at
`Modulus`, as an `ulong` does.

How many times the handler loads the pool matters. In an `-O2` build of `ar.c:194-203` one load
serves both the comparison and the subtraction, since nothing between them prevents it; the
model follows that build. The slip `HandlerTakesReloaded` loads it twice and makes the pool wrap below
zero: the absence of a wrap-around rests on the optimiser, which whoever builds the module should know.

Since the same `initial_bw_mb` (500) is added to the read and to the write prediction and the limit
is 1000, a core with two predictions of zero or more is at or above its limit, and by `CapIsTight` it
feeds at most 1 MB/s per pass to the pool: what fills the pool is predictions below zero.

`BandwidthLedger` adds two history variables: `withdrawn` counts what the handlers take, and `lost` counts, at each store to the
pool, by how much the value stored was loaded from a fuller pool than it replaces (`Regained`), which is what the store puts back of
the withdrawals of others. The steps are those of `BandwidthPool`; only `MaxWithdrawn` bounds what is taken.

### Regulator

`master_thread_func` from label to label, one core per step of each loop; each
`ar_enable_reg_write` as test, set, `master_start_regulation` (state, then wake-up) and
`start_regulation` of each core (its reset of the estimates is in `Estimator`), or `master_stop_regulation` and
`stop_regulation` of each core; the overflow work, which is `stale` once the master has replenished
the core it was queued for; `ar_exit` call by call. The throttler threads are the actions `Hold`,
`LetGo` and `Retire` of `ThrottleSpec`, which is what `Throttler` was shown to implement. Bandwidth is
abstracted to two choices that `BandwidthPool` details: whether an estimate is negative, and whether
the handler reclaims or throttles.

### Estimator

One core, for which the master goes through `Sample` (`master.c:100-124`), `EstimateRead` and
`EstimateWrite` (`126-160`; a negative estimate halves the weights and ends the service with the
counters off), `Replenish` (`162-193`, detailed in `BandwidthPool`), `Learn` (`195-214`) and `Save`
(`236-238`). `LmsPredict`, `L2Norm`, `Updated` and `Halved` are `model.c`; the arithmetic of the ring is `Slot` and
`Advanced`. Read and write sides are the two members of `Kinds`, under the one index `ri`, as in `ar.h`.
Concurrently the core's counters count, `regu_interval` is written, and regulation is stopped and started
again, which zeroes the estimates at any point of the master's pass and starts the counters. `granted` and
`recent` are history variables: the estimates of the last replenishment, and the samples in the order
they were learned.

Numbers keep what matters: the MB count is an `int` before it is extended to `u64`, sums and differences
wrap at `LongMod`, the prediction is cut to an `int` and what does not fit becomes the least `int`, as on
x86. Weights are exact: `weight[k][i]` counts units of LRATE / `rate[k]`, an update adds whole learning rates, which are `rate[k]`
such units each, and a halving makes the unit half as large (`Halved` doubles `rate`, `One` is the weight 1.0). So a weight that is not zero is never
halved to zero; only the rounding and the underflow of doubles are left out. The four stores of `start_regulation` are one step.

`Estimator` implements `FilterSpec` (`ImplementsFilter`). The filter has no ring, no index and no saved estimates: `now` is the
sample of the pass, `line` the samples learned before it, `budget` what the core was last granted and, while learning,
`base` what it had been granted before that. The mapping takes `line` from the history `recent` and `base` from
`prev`, but only at `Learn`: that the ring holds `recent`, and that `prev` is the budget before, is what has to be shown. The filter
is told the arithmetic from outside: an estimate is the whole part of the weighted sum in units of `unit[k]` (`IsWhole`), with the bias;
a skipped pass doubles that unit, which makes every coefficient worth half; and new coefficients are any that move the prediction
no further the way it erred. `Save`, a burst and a change of the interval are stutters; a start is `Reset`, in whatever phase it falls.

### Lifecycle

`pc` follows `ar_init` and `ar_exit` from call to call and `cpu` their walk over the cores: the two events, the
queue with work and flag, the thread; then the master and the files. `CreateFails` is either `init_counter`
returning NULL and starts the roll-back from the failed core down; `ThreadFails` is the two `BUG_ON`s, after which
the caller is dead; `CreateFiles` may leave no files, because `debugfs_create_dir` reports by an error pointer.
`ar_exit` bars the files, drains the writes, stops and joins the master, and takes the cores down from 1 to N:
the comment of `ar.c:482` says reverse order, which is kept between files, master and cores, and the cores do not
depend on each other. After a failed load or an unload the module can be loaded again. What the threads
do in between is reduced to what they touch: the wait queues of the cores while the master boots and a thread lives, the
events of one core after another in a pass or in a start or stop.

## 3. Model checking

| Run | Instance | Shows |
|---|---|---|
| `throttler` | 1 core, with and without MWAIT | `TypeOK`, `NoMissedThrottle`, `NoMissedRelease`; implements `ThrottleSpec`, liveness included, with no help from timer ticks (`KeepsPromise`); `UnloadEnds` for a core that ticks |
| `pool` | 2 cores, one pass | `TypeOK`, `PoolFilledByUnused` under all interleavings of loads and stores; `OverdrawnByLostOnly`: what is handed out beyond the deposits is what outdated stores have put back; `WithinCeiling`, `CappedCoreKeepsLimit`; `BudgetWorthAllocation` for an interval of 4 ms; `GrantWithinReclaim`: the mistaken unit of a grant (section 4) never gives more than was taken |
| `regulator` | 2 cores, 1 writer | `TypeOK`, `ThrottledUntilStart`, `Coherent`, `CountersReenabled`, `UnloadedClean` |
| `regulator_live` | 1 core, 2 writers | `MasterNotForgotten` (no wake-up is lost), `ThrottleIsTemporary`, `StartTakesEffect`, `StopTakesEffect`, `UnloadEnds` |
| `estimator` | 1 core, 2 bursts, 1 change of interval, 1 restart | `TypeOK`, `PredictsFromLatest`, `ErrorOfGranted`, `GrantedInRange`, `UpdateFollowsError`, `WrapsLearnedFaintly`, `SkipShrinks`, `SkipsEnd`; implements `FilterSpec` (`ImplementsFilter`) |
| `lifecycle` | 4 cores, 2 writers | `TypeOK`, `EventsHeldInUse`, `QueuesReadyInUse`, `AllOrNothing`, `NoWaitInVain`, `CallAdvances`, `CallsReturn` |
| `grant_units`, `ledger`, `regulator_skip`, `regulator_two_writers`, `regulator_disable`, `regulator_stale` | smallest instance that shows it | one violated property each, section 4 |

**Bounds.** The cores share nothing in `Throttler`, so one suffices for its liveness. Two cores give the
pool three concurrent updaters (two handlers and the master), and every race on a load and a store
needs two. In one pass the first core is served, runs, overflows and reclaims while the second is served, so
every pair of updates meets; `ledger` takes up to four passes. Bandwidths are
divided by 100 (limit 10, initial 5); the estimates are -1 (negative), 1 (feeds the pool, and gives an uneven share
next to a large one) and 10; a core uses 2 or 6, so that one core can empty the pool in small steps under the
feet of another that is about to take a lot (`ledger` uses 1 and 9, with estimates of -1, 0 and 7, to overdraw it soon). `Modulus` 64 is larger than any sum of deposits, so the pool wraps only by
going below zero. `MaxWithdrawn` is there because of the race itself: a handler
that takes nothing can undo the withdrawal of another, which then takes the same bandwidth again, so without a bound
the withdrawals of a single pass have no end; 9 is more than the 8 that one core deposits, and the
run reaches states in which that much has been withdrawn from a deposit of 8. `MaxPasses` stops the master, and `MaxSkips` bounds
consecutive negative estimates of a core: each halves the weights, and the prediction is truncated
to an integer, so after finitely many halvings it is zero and the estimate is `initial_bw_mb`. The
estimator is scaled so that its edges are near: bandwidths divided by 100 (initially 5), a learning rate of 1/100, an `int` of 6
bits and a `u64` of 9, so that a burst of 900 events leaves the range of `int` and one burst's samples already change the sign
of an estimate; a change of the interval from 1 to 2 or 4 ms makes the next difference wrap without any overflow. Negative read and
write estimates occur with and without a wrap. The ratio of the two widths is small on purpose: a wrapped difference is 8 to
16 times what leaves the range of `int`, rather than 2^32 times, so that a few halvings let one be learned from, where the code takes
about thirty. The run reaches that case, which is what `WrapsLearnedFaintly` is about: a difference wraps, the pass is skipped, the weights are halved, and
another wrapped difference is learned from. The counts and the interval are read by `Sample` only, so they change only before it;
`MaxBursts`, `MaxChanges` and `MaxStarts` bound the disturbances, never the passes: once the bursts are over
the samples become zero, which leaves the weights alone, so the graph is finite. `Lifecycle` is checked at the size of the code, four
cores, with no bound. The liveness of
`Regulator` is checked with two writers on one core (the loops over cores are bounded and visit each core in turn),
its safety with one writer on two cores. `CHECK_DEADLOCK FALSE`
is set because a module that is unloaded, a master that reached `MaxPasses`, a core that is retired and a load that died of a `BUG_ON` really stop.

**Fairness.** A throttler thread runs as SCHED_FIFO on its own core and the master on CPU 0, with
real-time throttling switched off by `scripts/setup_4_core_env.sh:64`; interrupt work that is queued runs;
a debugfs write, a load and an unload that have begun go on. So each thread, handler and call in
progress is weakly fair. Nobody is made to write, unload, or overflow a counter, and the
kind of estimate is never forced.

One thing more is needed to unload: that a halted core takes its timer tick. An overflow between `ar.c:317` and the stop bit
halts the core with the flag set, and the stop bit is not on the line MWAIT watches. On
a core set up with `nohz_full` that assumption needs care, so it is no part of a specification's fairness where it can be told apart: in
`Throttler` and in `Regulator` it is a premise of `UnloadEnds` (ticks; that a thread lets go although its order stands), and neither `UnloadEnds` holds
without it. `Regulator`'s fairness has a thread let go only of an order that is cancelled, as `KeepsPromise` shows of `Throttler` without ticks. `Lifecycle`
does not know of orders: its fairness of `ThreadExits`, and so `CallsReturn`, assumes the tick.

**Assumptions on the platform.** Cores 1 to N stay online; an MWAIT ends on a store to the monitored line
or an interrupt (spurious ends are harmless); the counters count user mode only (`ar_perfs.c:61`), so a
held core does not overflow; `pmu->stop` and `pmu->start`, which the master calls on CPU 0 for
counters of other cores, do what the code intends by them; starting the counter of a disabled event
does nothing; `debugfs_remove_recursive` waits for writes in progress and admits no new ones;
`kthread_stop` of a thread that never ran keeps it from running.

## 4. Where the code departs from what it says

1. **A withdrawal can be lost** (`ledger`, `ar.c:199`). Two handlers, or a handler and the master, update the
   pool from the same loaded value, and the same bandwidth is handed out twice. What remains true: the pool itself never
   exceeds the deposits (`PoolFilled`), and it is overdrawn by no more than the withdrawals undone
   (`OverdraftIsLost`). The race is the only cause: if no store is made from an outdated value, the pool is never
   overdrawn (`SerialNotOverdrawn`), so an atomic update repairs it.
2. **A grant has the wrong unit** (`grant_units`, `ar.c:200`). MB/s are written where events are expected;
   `master.c:185` converts. A core that takes 4 MB/s gets a period of 4 cache lines. In any
   interval at most a sixteenth of what is taken, rounded up, reaches the core (`GrantIsSixteenth`).
3. **A negative estimate leaves the counters stopped** (`regulator_skip`, `master.c:141` and `159`). `continue`
   skips the replenishment, the flag and the restart: the core runs a whole interval unregulated, or
   stays throttled. It is the only cause: as long as no estimate is negative, every pass serves every enabled core, whatever writers and
   handlers do (`UnservedBySkipOnly`).
4. **Two writers** (`regulator_two_writers`, `ar_debugfs.c:131-136`) leave the setting, the master and the events
   in disagreement.
5. **Disabling does not free a throttled core** (`regulator_disable`, `ar.c:398`): nothing clears its flag until
   regulation is enabled again or the module unloaded.
6. **A stale overflow throttles a replenished core** (`regulator_stale`, `ar.c:206`).

Seen while modelling, and not the subject of a run:

- `start_regulation` zeroes estimates of a core that the master, already woken, may be allocating from (`ar.c:352`): the core gets
  nothing for that interval. `ErrorOfGranted` shows that the error stays consistent with it.
- A skipped pass has moved `g_read_count_old` on, so what the core consumed in that interval enters the history only as a
  slot that the next pass overwrites.
- The `int` of `utils.c:56` holds 2^31 MB-counts: at a steady 500 MB/s, counted per millisecond and scaled by 1000, the cumulative count crosses it
  after about 71 minutes. The difference over the crossing, as that over a longer interval (`ar_debugfs.c:66`), wraps to 2^63 or more and mostly makes the
  estimate negative, so that the pass is skipped and the difference overwritten. But each time halves the weights. On a core that has become
  idle nothing restores them, and after about thirty such differences, from that many ascending writes to `regu_interval`, the weight of the latest
  sample is about 0.1 * 2^-30: the next one gives an estimate of 1.7 * 10^9 MB/s, which fits an `int`, is granted, and the difference is learned from.
  Nothing in `model.c` keeps it out. `WrapsLearnedFaintly` says what remains true: what is learned from had next to no weight, unless older samples offset it.
- `ar_debugfs.c:26` says the default interval is 1000 ms, and it is 1; `msleep(1)` at `master.c:244` does not follow `regu_interval`,
  so an interval other than 1 scales the conversions but not the pace.
- `ar.c:474` logs that all cores are throttled when the master may not have run.

## 5. Proofs

`ThrottlerProofs`, for any set of cores and either value of `hasMwait`:

- `Typing`: `Spec => []TypeOK`.
- `NoLostThrottle`, `NoLostRelease`: `NoMissedThrottle` and `NoMissedRelease` always hold. Each is inductive
  relative to `TypeOK`: a thread goes to sleep only through the second test, which sees the flag, and whoever
  sets the flag afterwards is recorded as about to wake it; a monitor is armed before the flag is
  tested again, and every store to the flag disarms it.
- `ImplementsThrottleSpec`: `Spec => Promise!Safety`, the safety half of the refinement. `HeldAfterGoto`
  says how `held` follows the label of the thread; each action then maps to `Order`, `Cancel`, `Hold`,
  `LetGo`, `Retire` or to a stutter.

`BandwidthPoolProofs`, for any number of cores, any limits, predictions, samples and word width
satisfying `PoolAssumption`:

- `Typing`: `Spec => []TypeOK`, with the counters of the served core off.
- `CeilingHolds` and `CapIsTight`: `WithinCeiling` and `CappedCoreKeepsLimit`. They follow from the types and two lemmas on
  truncated quotients: `TwoShares` (two shares of `m` over a common total add up to `m` or `m - 1`) and
  `AllocationBounds`.
- `PoolFilled`: `PoolFilledByUnused` by the inductive invariant `PoolInv` (`PoolInvariant`). The invariant has to say what a stale
  load may still do (`LoadedBounded`): the value the master or a handler holds in a register is at most what has been
  deposited, and a handler's is more than what it is about to take. `UnusedBounds` says the deposit is a
  plain difference, without which the deposit could wrap.
- `GrantIsCovered`: `GrantWithinReclaim`. Events converted to MB/s round up, and yet a number of events is worth at most as many
  MB/s (`EventsWorthAtMost`), since a cache line per interval is less than a MB/s in every interval.
- `GrantIsSixteenth`: the same grant is worth at most a sixteenth of what was taken, rounded up: 16 cache lines per
  millisecond are less than a MB/s (`EventsWorthLittle`), and a longer interval makes them worth less.
- `BudgetIsExact`: `BudgetWorthAllocation`. `QuotientUnique` and `RoundTrip` show that for an interval that divides a second the
  floor of one conversion and the ceiling of the other cancel: a MB/s is at least one event.

`BandwidthLedgerProofs`, for the same constants and any `MaxWithdrawn`:

- `LedgerObserves`: `LedgerSpec => Spec`, since each step of the ledger is a step of the pool (`LedgerSteps`). What is proved of the pool
  holds here, and `Typing` and `PoolInvariant` are used.
- `OverdraftIsLost`: `OverdrawnByLostOnly`. By `PoolInv` the stores are plain sums and differences; a store made from a load of `r`
  onto a pool that has since become `p` adds `r - p` to the left side of the inequality, and exactly that to `lost` when it is positive.
- `SerialNotOverdrawn`: `LedgerSpec /\ []UpdatesInOrder => []NotOverdrawn`. `UpdatesInOrder` says that whoever is about to store still
  has the value of the pool in its register; then `lost` stays zero (`NothingLost`). The hypothesis is what a lock or an atomic update
  would establish; the model has behaviours with and without it, and the `ledger` run shows one without.

`EstimatorProofs`, for any initial bandwidth, learning rate, widths, intervals and consumption:

- `Typing`: `Spec => []TypeOK`, which needs the widths of the operators (`WordType`, `U64Type`) and those of the updates.
- `PredictionUsesLatest`: `PredictsFromLatest`, by `RingInvariant`: read backwards from `ri`, each ring is the shift register `recent`,
  except for the slot at `ri`, which a skipped pass may have written and the next pass writes again.
- `ErrorUsesGranted`: `ErrorOfGranted`, which is inductive once it is said what `next`, `granted` and `prev` are between `Replenish` and `Save`.
- `LearningFollowsError`: `UpdateFollowsError`. Every step of an update has the sign of the error and every sample is at least zero, so the change of
  the prediction is a sum of products of one sign, whatever the pairing; that is why the different pairing is harmless for one step.
- `BudgetsInRange`: `GrantedInRange`, by `RangeInv`: every estimate is an `int` and the initial bandwidth (`DoubleToIntRange`), and the
  phase of the pass says which of the two has been found not negative (`Accepted`); a start in between puts zeroes there, which is
  not negative either. `EstimatorAssumption` asks the initial bandwidth (500, `ar.c:61`) to be an `int`.
- `WrapsCountLittle`: `WrapsLearnedFaintly`, for any weights. The invariant `SumFits` says that from each estimate up to `Learn` the weighted sum of the
  latest samples is within the range of `int`: a sum that is not gives the least `int`, which the initial bandwidth does not make up for
  (`OutOfRangeNegative`), and the pass ends (`PassedFits`); sample and weights then stay as they were tested (`WeighedKept`). `FaintWeight` takes
  the older samples out of that sum and is left with 2^63 times the weight of the latest.
- `SkipsCostWeight`: `SkipShrinks`. A sample is less than 2^64, so the weighted sum is at most 2^64 times the sum of the sizes of the weights (`WeighedBound`), and a
  negative estimate takes a sum of the initial bandwidth and more below zero (`NegativeHeavy`): a pass is skipped only by weights that are worth
  something, and leaves them worth half. This is the measure behind `SkipsEnd`, and all of it that is safety.

`EstimatorRefinement`, for the same constants:

- `EstimatorIsFilter`: `Spec => ImplementsFilter`, one lemma for each action. `FilteredLatest` and `FilteredPredict` take the sums over the
  ring to the sums over the delay line by `RingInv`; `ConvertedIsEstimate` shows that truncation and the conversion to `int` make what the
  filter calls an estimate, on both sides of zero and outside the range; `FilterGrant` needs `ErrorOfGranted`; `FilterFollows` rests
  on `LearnFollows`, the step of `LearningFollowsError`, and on `UpdatedByNothing` for an error of zero.

`LifecycleProofs`, for any number of cores and writers:

- `Typing`: `Spec => []TypeOK`; the loops stay within the cores upwards and downwards.
- `StagesHold`: the inductive invariant `Stages`, which reads off `pc` and `cpu` how much of each core is set up (`AtCore`, `OtherCores`) and that
  the master and the writes stand only on complete cores (`Layers`).
- `NoEventMissing`, `NoQueueMissing`, `LoadsAllOrNothing`: `EventsHeldInUse`, `QueuesReadyInUse`, `AllOrNothing`, from `Stages`.
- `WaitsAreAnswered`: `NoWaitInVain`, from `Stages`, which says of a wait for the master that it runs and has been told to stop.
- `CallsAdvance`: `CallAdvances`: `StepsLeft`, a bound on the steps a call has before it, is smaller after each of them. With
  `WaitsAreAnswered` this is the argument for `CallsReturn`, up to fairness.

`RegulatorProofs`, for any number of cores and of writers and any `MaxSkips`:

- `Typing`: `Spec => []TypeOK`, with the counters of a core running only while its events are enabled.
- `StartsThrottled`: `ThrottledUntilStart`, by `Booting` (the cores the first loop of the master has passed
  have their flag set) and `MasterGone` (the unload gets to the cores only after the master thread has
  ended, so it cannot be the one to let go of a core the master waits with).
- `RestartNotLost`: `CountersReenabled` is inductive relative to `TypeOK`: only the master stops the counters of
  an enabled core, and it stays at that core until it restarts them or finds a negative estimate.
- `UnloadsClean`: `UnloadedClean`, by `Dismantled`: the cores the unload has passed are retired, let go and off, a retired
  thread does not take its core again, and no writer is left to enable events (`WritersOut`).
- `CoherentForOneWriter`: `Coherent`, assuming exactly one writer, by `InProgress`: at each point of the write, which of
  setting, master state and events have already changed, and that the events of exactly the cores
  before `wcpu` have. With a second writer it is false (section 4).
- `UnservedBySkipOnly`: as long as no core has had a negative estimate since its last allocation, `EveryCoreServed`; from `RestartNotLost`.
- `NoLostWakeUp`: `MasterNotForgotten`, inductive relative to `TypeOK`: the master lies down only after it has tested the state and the
  stop bit, and who changes either afterwards has the wake-up still before it.
- `ImplementsThrottleSpec`: `Spec => Throttle!Safety`. `Boot` and `HandlerThrottles` are orders; `Release`,
  `Replenish` and `CoreClears` cancellations; all other steps leave the throttling alone. Together with the
  theorem of the same name in `ThrottlerProofs` this says the two modules see the same interface.

**Only model-checked**:

- All liveness: `UnloadEnds` of both modules, `ThrottleIsTemporary`, `StartTakesEffect`, `StopTakesEffect`, `SkipsEnd`, `CallsReturn`, and the liveness
  half of `KeepsPromise`. They rest on fairness and ENABLED, which the provers used here do not reason about; `NoLostWakeUp`, `NoLostThrottle`,
  `WaitsAreAnswered`, `CallsAdvance` and `SkipsCostWeight` are their safety cores.
- The violated properties of section 4.

## 6. Not modelled, and why

- The rounding and the underflow of doubles, and the `int` conversion on other machines than x86.
- An overflow work that is still queued when its event is released (`ar.c:329`), and the read of an event after its release in a
  log line (`ar_perfs.c:128`): both depend on windows inside the kernel that this code does not show.
- The state after a `BUG_ON`.
- A `regu_interval` of 0 or above 1000 ms, which divides by zero.
- `obs_interval`, which is stored and never used; the text parsing of the three files (a write is a value or changes nothing);
  the unused LLC event of `ar_perfs.c`.
- Logging, `print_double`, `test.c`, the scripts and the build, which change no state of the regulator.

## 7. Plan

Written, most important behaviour first: `ThrottleSpec`, `Throttler`, `BandwidthPool`, `BandwidthLedger`, `Regulator`, `Estimator`, `FilterSpec`,
`Lifecycle`, and the proofs of each. What could follow:

1. `Regulator` composed with `Lifecycle`, so that one behaviour goes from load to unload through regulation; today `Regulator` starts in
   the state `Lifecycle` calls loaded and repeats its exit in more detail.
2. The overflow work against the release of its event, with the kernel's order of the two interrupts stated as an assumption.
3. `BandwidthPool` driven by `Estimator` instead of by any prediction, to bound what a core can add to the pool over several passes;
   `GrantedInRange` is the interface of the two.
4. More proofs: bounds on the weights over a given number of updates, and from them on the older samples' part in `WrapsLearnedFaintly`, for a given
   time of operation.

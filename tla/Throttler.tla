------------------------------ MODULE Throttler ------------------------------
(***************************************************************************)
(* The throttle mechanism of ar.c on the regulated cores, at the level of  *)
(* its memory accesses.  Every core has a throttler thread                 *)
(* (throttler_task_func1) that sleeps in wait_event_interruptible until    *)
(* the core's throttle flag is set and then occupies the core in a         *)
(* MONITOR/MWAIT loop until the flag is cleared.  The flag is set by the   *)
(* core's own read-overflow handler (hard interrupt context) and by the    *)
(* master's start-up __throttle; it is cleared by the master on CPU 0      *)
(* (__unthrottle and the replenishment of master.c:189) and by             *)
(* deinitialize_cpu_info, which also stops the thread.                     *)
(*                                                                         *)
(* Two reads of one condition (`flag && !kthread_should_stop()`) are one   *)
(* step: the stop bit is only ever set, so every outcome of two separate   *)
(* reads is an outcome of reading both at the time of one of them.         *)
(***************************************************************************)
EXTENDS Naturals

CONSTANT Cores      \* the regulated cores (CPUs 1..MAX_NO_CPUS)

VARIABLES
  hasMwait, \* boot_cpu_has(X86_FEATURE_MWAIT), either at boot, then fixed
  flag,     \* flag[c]: atomic_t cinfo->throttler_task
  tpc,      \* tpc[c]: where the throttler thread of c is
  parked,   \* parked[c]: the thread is queued on throttle_evt, not runnable
  armed,    \* armed[c]: the MONITOR of core c watches the flag, untriggered
  stop,     \* stop[c]: the stop bit kthread_should_stop reads
  hpc,      \* hpc[c]: the overflow interrupt work of core c
  cpc,      \* cpc[c]: the master's calls on core c
  dpc       \* dpc[c]: deinitialize_cpu_info(c)

vars == <<hasMwait, flag, tpc, parked, armed, stop, hpc, cpc, dpc>>

ThreadLabels == {"loop", "test", "prepare", "recheck", "sleep", "enter",
                 "monitor", "verify", "mwait", "halted", "again", "exited"}

(* The labels of the loop body of ar.c:142-158: the thread has the core.   *)
Holding == {"monitor", "verify", "mwait", "halted", "again"}

(* The types; and the thread is on the wait queue only inside wait_event.   *)
TypeOK ==
  /\ hasMwait \in BOOLEAN
  /\ flag   \in [Cores -> BOOLEAN]
  /\ tpc    \in [Cores -> ThreadLabels]
  /\ parked \in [Cores -> BOOLEAN]
  /\ armed  \in [Cores -> BOOLEAN]
  /\ stop   \in [Cores -> BOOLEAN]
  /\ hpc    \in [Cores -> {"idle", "queued", "wake"}]
  /\ cpc    \in [Cores -> {"boot", "set", "wake", "run"}]
  /\ dpc    \in [Cores -> {"none", "wake", "stop", "kick", "join", "clear",
                           "release", "done"}]
  /\ \A c \in Cores : parked[c] => tpc[c] \in {"recheck", "sleep"}

(* The state setup_cpu_info leaves: flag false, thread created and woken.  *)
Init ==
  /\ hasMwait \in BOOLEAN
  /\ flag   = [c \in Cores |-> FALSE]
  /\ tpc    = [c \in Cores |-> "loop"]
  /\ parked = [c \in Cores |-> FALSE]
  /\ armed  = [c \in Cores |-> FALSE]
  /\ stop   = [c \in Cores |-> FALSE]
  /\ hpc    = [c \in Cores |-> "idle"]
  /\ cpc    = [c \in Cores |-> "boot"]
  /\ dpc    = [c \in Cores |-> "none"]
-----------------------------------------------------------------------------
(* Shared helpers.                                                         *)

(* A store to the flag's cache line triggers the MONITOR watching it.      *)
StoreFlag(c, v) == /\ flag'  = [flag  EXCEPT ![c] = v]
                   /\ armed' = [armed EXCEPT ![c] = FALSE]

(* Slip: the store does not reach the watched line.                        *)
StoreFlagUnseen(c, v) == flag' = [flag EXCEPT ![c] = v] /\ UNCHANGED armed

(* wake_up_interruptible(&cinfo->throttle_evt), and the wake_up_process of *)
(* kthread_stop: a queued thread becomes runnable; otherwise nothing.      *)
WakeThread(c) == parked' = [parked EXCEPT ![c] = FALSE]

(* The condition of wait_event (ar.c:132-133) and of the loop (ar.c:142).  *)
Wanted(c) == flag[c] \/ stop[c]
Keep(c)   == flag[c] /\ ~stop[c]

Goto(c, label) == tpc' = [tpc EXCEPT ![c] = label]

(* The thread runs only while its core is not inside the hard interrupt.   *)
At(c, label) == tpc[c] = label /\ hpc[c] # "wake"

(* The loop body begins with MONITOR, or is just a relax without MWAIT.    *)
Body == IF hasMwait THEN "monitor" ELSE "again"
-----------------------------------------------------------------------------
(* The throttler thread, throttler_task_func1.                             *)

others == <<hasMwait, hpc, cpc, dpc>>

LoopTop(c) ==
  /\ At(c, "loop")
  /\ Goto(c, IF stop[c] THEN "exited" ELSE "test")
  /\ UNCHANGED <<flag, parked, armed, stop, others>>

(* wait_event: the condition first, without queueing.                      *)
WaitTest(c) ==
  /\ At(c, "test")
  /\ Goto(c, IF Wanted(c) THEN "enter" ELSE "prepare")
  /\ UNCHANGED <<flag, parked, armed, stop, others>>

WaitPrepare(c) ==
  /\ At(c, "prepare")
  /\ parked' = [parked EXCEPT ![c] = TRUE]
  /\ Goto(c, "recheck")
  /\ UNCHANGED <<flag, armed, stop, others>>

(* Slip: schedule() without testing the condition again after queueing.    *)
WaitNoRecheck(c) ==
  /\ At(c, "recheck")
  /\ Goto(c, "sleep")
  /\ UNCHANGED <<flag, parked, armed, stop, others>>

(* Slip: leaving wait_event without finish_wait.                           *)
WaitNoFinish(c) ==
  /\ At(c, "recheck")
  /\ Goto(c, IF Wanted(c) THEN "enter" ELSE "sleep")
  /\ UNCHANGED <<flag, parked, armed, stop, others>>

WaitRecheck(c) ==
  /\ At(c, "recheck")
  /\ IF Wanted(c) THEN Goto(c, "enter") /\ WakeThread(c)
                  ELSE Goto(c, "sleep") /\ UNCHANGED parked
  /\ UNCHANGED <<flag, armed, stop, others>>

(* schedule() returns once somebody woke the thread; it queues again.      *)
WaitResume(c) ==
  /\ At(c, "sleep")
  /\ ~parked[c]
  /\ Goto(c, "prepare")
  /\ UNCHANGED <<flag, parked, armed, stop, others>>

(* ar.c:136 and the first evaluation of ar.c:142.                          *)
Enter(c) ==
  /\ At(c, "enter")
  /\ Goto(c, IF stop[c] THEN "exited" ELSE IF flag[c] THEN Body ELSE "loop")
  /\ UNCHANGED <<flag, parked, armed, stop, others>>

Monitor(c) ==
  /\ At(c, "monitor")
  /\ armed' = [armed EXCEPT ![c] = TRUE]
  /\ Goto(c, "verify")
  /\ UNCHANGED <<flag, parked, stop, others>>

(* Slip: MWAIT right after MONITOR, without the recheck of ar.c:148-149.   *)
NoVerify(c) ==
  /\ At(c, "verify")
  /\ Goto(c, "mwait")
  /\ UNCHANGED <<flag, parked, armed, stop, others>>

Verify(c) ==
  /\ At(c, "verify")
  /\ Goto(c, IF Keep(c) THEN "mwait" ELSE "again")
  /\ UNCHANGED <<flag, parked, armed, stop, others>>

(* MWAIT halts only while the monitor is armed and untriggered.            *)
Mwait(c) ==
  /\ At(c, "mwait")
  /\ Goto(c, IF armed[c] THEN "halted" ELSE "again")
  /\ UNCHANGED <<flag, parked, armed, stop, others>>

(* The store to the flag ended the halt.                                   *)
MwaitReturn(c) ==
  /\ At(c, "halted")
  /\ ~armed[c]
  /\ Goto(c, "again")
  /\ UNCHANGED <<flag, parked, armed, stop, others>>

(* ar.c:142 evaluated after a turn of the body.                            *)
Again(c) ==
  /\ At(c, "again")
  /\ Goto(c, IF Keep(c) THEN Body ELSE "loop")
  /\ UNCHANGED <<flag, parked, armed, stop, others>>

Thread(c) ==
  \/ LoopTop(c) \/ WaitTest(c) \/ WaitPrepare(c) \/ WaitRecheck(c)
  \/ WaitResume(c) \/ Enter(c) \/ Monitor(c) \/ Verify(c)
  \/ Mwait(c) \/ MwaitReturn(c) \/ Again(c)
-----------------------------------------------------------------------------
(* Interrupts of core c.                                                   *)

(* Any interrupt (the timer tick, an IPI) ends the halt.                   *)
Interrupted(c) == tpc' = IF tpc[c] = "halted" THEN [tpc EXCEPT ![c] = "again"]
                                              ELSE tpc

Tick(c) ==
  /\ At(c, "halted")
  /\ Interrupted(c)
  /\ UNCHANGED <<flag, parked, armed, stop, others>>

(* read_event_overflow_callback: the counter counts user mode only         *)
(* (exclude_kernel), so the thread is off the core; irq_work_queue does    *)
(* nothing while the work is still pending.                                *)
Overflow(c) ==
  /\ tpc[c] \in {"sleep", "exited"}
  /\ hpc[c] = "idle"
  /\ dpc[c] # "done"
  /\ hpc' = [hpc EXCEPT ![c] = "queued"]
  /\ UNCHANGED <<flag, tpc, parked, armed, stop, cpc, dpc, hasMwait>>

(* ar_handle_read_overflow grants pool bandwidth (module BandwidthPool)... *)
HandlerReclaims(c) ==
  /\ hpc[c] = "queued"
  /\ hpc' = [hpc EXCEPT ![c] = "idle"]
  /\ Interrupted(c)
  /\ UNCHANGED <<flag, parked, armed, stop, cpc, dpc, hasMwait>>

(* ... or throttles the core: ar.c:206, then ar.c:207.                     *)
HandlerThrottles(c) ==
  /\ hpc[c] = "queued"
  /\ StoreFlag(c, TRUE)
  /\ hpc' = [hpc EXCEPT ![c] = "wake"]
  /\ Interrupted(c)
  /\ UNCHANGED <<parked, stop, cpc, dpc, hasMwait>>

(* Slip: the handler does not wake the throttler thread.                   *)
HandlerNoWake(c) ==
  /\ hpc[c] = "wake"
  /\ hpc' = [hpc EXCEPT ![c] = "idle"]
  /\ UNCHANGED <<flag, tpc, parked, armed, stop, cpc, dpc, hasMwait>>

HandlerWakes(c) ==
  /\ hpc[c] = "wake"
  /\ WakeThread(c)
  /\ hpc' = [hpc EXCEPT ![c] = "idle"]
  /\ UNCHANGED <<flag, tpc, armed, stop, cpc, dpc, hasMwait>>
-----------------------------------------------------------------------------
(* The master thread on CPU 0.                                             *)

Call(c, from, to) == /\ cpc[c] = from
                     /\ cpc' = [cpc EXCEPT ![c] = to]
                     /\ UNCHANGED <<tpc, stop, hpc, dpc, hasMwait>>

(* __throttle at start-up: nothing to do when the flag is already set.     *)
ThrottleReads(c) ==
  /\ dpc[c] = "none"
  /\ Call(c, "boot", IF flag[c] THEN "run" ELSE "set")
  /\ UNCHANGED <<flag, parked, armed>>

ThrottleSets(c) ==
  /\ Call(c, "set", "wake")
  /\ StoreFlag(c, TRUE)
  /\ UNCHANGED parked

ThrottleWakes(c) ==
  /\ Call(c, "wake", "run")
  /\ WakeThread(c)
  /\ UNCHANGED <<flag, armed>>

(* __unthrottle, and the replenishment's atomic_set of master.c:189.       *)
Unthrottle(c) ==
  /\ dpc[c] = "none"
  /\ Call(c, "run", "run")
  /\ StoreFlag(c, FALSE)
  /\ UNCHANGED parked
-----------------------------------------------------------------------------
(* deinitialize_cpu_info(c), run by ar_exit after the master has stopped   *)
(* and by the failure paths of ar_init before it exists.                   *)

Deinit(c, from, to) == /\ dpc[c] = from
                       /\ dpc' = [dpc EXCEPT ![c] = to]
                       /\ UNCHANGED <<tpc, hpc, cpc, hasMwait>>

DeinitClears(c) ==
  /\ cpc[c] \in {"boot", "run"}
  /\ Deinit(c, "none", "wake")
  /\ StoreFlag(c, FALSE)
  /\ UNCHANGED <<parked, stop>>

DeinitWakes(c) ==
  /\ Deinit(c, "wake", "stop")
  /\ WakeThread(c)
  /\ UNCHANGED <<flag, armed, stop>>

(* kthread_stop: the stop bit, then a wake-up, then wait for the exit.     *)
KthreadStop(c) ==
  /\ Deinit(c, "stop", "kick")
  /\ stop' = [stop EXCEPT ![c] = TRUE]
  /\ UNCHANGED <<flag, parked, armed>>

(* Slip: kthread_stop's wake-up is missing.                                *)
KthreadNoKick(c) ==
  /\ Deinit(c, "kick", "join")
  /\ UNCHANGED <<flag, parked, armed, stop>>

KthreadKick(c) ==
  /\ Deinit(c, "kick", "join")
  /\ WakeThread(c)
  /\ UNCHANGED <<flag, armed, stop>>

KthreadJoin(c) ==
  /\ tpc[c] = "exited"
  /\ Deinit(c, "join", "clear")
  /\ UNCHANGED <<flag, parked, armed, stop>>

DeinitClearsAgain(c) ==
  /\ Deinit(c, "clear", "release")
  /\ StoreFlag(c, FALSE)
  /\ UNCHANGED <<parked, stop>>

(* disable_event(read_event): no overflow after this.                      *)
DeinitReleases(c) ==
  /\ Deinit(c, "release", "done")
  /\ UNCHANGED <<flag, parked, armed, stop>>

DeinitGoesOn(c) == \/ DeinitWakes(c) \/ KthreadStop(c) \/ KthreadKick(c)
                   \/ KthreadJoin(c) \/ DeinitClearsAgain(c) \/ DeinitReleases(c)
-----------------------------------------------------------------------------
Irq(c) == HandlerReclaims(c) \/ HandlerThrottles(c) \/ HandlerWakes(c)

Master(c) == \/ ThrottleReads(c) \/ ThrottleSets(c) \/ ThrottleWakes(c)
             \/ Unthrottle(c)

Next == \E c \in Cores : \/ Thread(c) \/ Tick(c) \/ Overflow(c) \/ Irq(c)
                         \/ Master(c) \/ DeinitClears(c) \/ DeinitGoesOn(c)

(* The thread is a SCHED_FIFO kernel thread: when runnable it is scheduled *)
(* however many interrupts its core takes.  Interrupt work and calls in    *)
(* progress finish.  No overflow, tick, call or unload need ever happen.   *)
Fairness == \A c \in Cores : /\ WF_vars(Thread(c))
                             /\ SF_vars(WaitResume(c))
                             /\ WF_vars(Irq(c))
                             /\ WF_vars(ThrottleSets(c) \/ ThrottleWakes(c))
                             /\ WF_vars(DeinitGoesOn(c))

Spec == Init /\ [][Next]_vars /\ Fairness
-----------------------------------------------------------------------------
(* No lost throttle order (ar.c:131-133 with 99-100 and 206-207): a thread *)
(* that is asleep while its core is ordered throttled, or while it is      *)
(* asked to stop, is about to be woken by somebody.                        *)
WakerComing(c) == \/ hpc[c] = "wake"
                  \/ cpc[c] = "wake"
                  \/ dpc[c] = "kick"

NoMissedThrottle ==
  \A c \in Cores : tpc[c] = "sleep" /\ parked[c] /\ Wanted(c) => WakerComing(c)

(* No lost release (ar.c:142-151): a core whose monitor is armed and which *)
(* is about to halt or has halted is still ordered throttled, so the store *)
(* that cancels the order is yet to come and will trigger the monitor.     *)
NoMissedRelease ==
  \A c \in Cores : tpc[c] \in {"mwait", "halted"} /\ armed[c] => flag[c]

(* Unloading a core that takes its timer tick ends (ar.c:316-335), even    *)
(* when an overflow throttles it again between the first clear and         *)
(* kthread_stop.  Without the tick such a core may halt for ever.          *)
UnloadEnds ==
  \A c \in Cores : WF_vars(Tick(c)) => (dpc[c] # "none" ~> dpc[c] = "done")

(* The mechanism carries out exactly the orders it is given.               *)
held == [c \in Cores |-> tpc[c] \in Holding]

Promise == INSTANCE ThrottleSpec WITH order <- flag, retired <- stop

KeepsPromise == Promise!Spec
=============================================================================

------------------------------ MODULE Regulator ------------------------------
(***************************************************************************)
(* The control of the regulator: the debugfs writers that enable and       *)
(* disable regulation (ar_debugfs.c, ar.c:384-410), the master thread      *)
(* (master.c), the overflow interrupts of the regulated cores, and the     *)
(* unload of the module (ar_exit).  The throttler threads are those of     *)
(* ThrottleSpec, which Throttler implements.  Bandwidths are abstracted to *)
(* what decides the control: whether an estimate is negative, and whether  *)
(* the handler finds the pool sufficient (module BandwidthPool has both).  *)
(***************************************************************************)
EXTENDS Naturals

CONSTANTS N,        \* MAX_NO_CPUS: the regulated cores are 1..N
          Writers,  \* processes that write enable_regulation
          MaxSkips  \* bound: consecutive negative estimates of one core

ASSUME RegulatorAssumption == N \in Nat \ {0} /\ MaxSkips \in Nat

Cores == 1..N

VARIABLES
  enable,    \* enable_reg
  state,     \* master_state
  asleep,    \* the master is queued on master_wait_queue and not woken
  mstop,     \* the stop bit of the master thread
  mpc, mcpu, \* where the master is, and the core it is at
  wpc,       \* wpc[w]: where writer w is in ar_enable_reg_write
  wval,      \* wval[w]: its user_value
  wcpu,      \* wcpu[w]: the core its loop is at
  xpc, xcpu, \* where ar_exit is, and the core its loop is at
  flag,      \* flag[c]: throttler_task
  held,      \* held[c]: the throttler thread occupies core c
  retired,   \* retired[c]: the stop bit of the throttler thread of c
  on,        \* on[c]: the perf events of c are enabled
  counting,  \* counting[c]: the counters of c are running
  irq,       \* irq[c]: its overflow work; "stale": queued before the last replenishment
  skips      \* skips[c]: negative estimates of c since its last allocation

master  == <<asleep, mpc, mcpu>>
writers == <<wpc, wval, wcpu>>
exit    == <<xpc, xcpu, mstop>>
threads == <<flag, held, retired>>
events  == <<on, counting>>
vars    == <<enable, state, master, writers, exit, threads, events, irq, skips>>

Throttle == INSTANCE ThrottleSpec WITH order <- flag

MasterLabels == {"boot", "wait1", "woken1", "release", "loop", "wait2", "woken2",
                 "serve", "estimate", "replenish", "restart", "nap", "exited"}
WriterLabels == {"idle", "set", "start", "wake", "enable", "stop", "disable"}
ExitLabels   == {"loaded", "state", "wake", "stop", "kick", "join",
                 "clear", "retire", "joincore", "reclear", "free", "done"}

(* The types; and counters run only while their events are enabled.        *)
TypeOK ==
  /\ enable \in BOOLEAN /\ asleep \in BOOLEAN /\ mstop \in BOOLEAN
  /\ state \in {"INITIAL", "RUNNING", "STOPPED"}
  /\ mpc \in MasterLabels /\ mcpu \in Cores
  /\ wpc \in [Writers -> WriterLabels]
  /\ wval \in [Writers -> BOOLEAN]
  /\ wcpu \in [Writers -> Cores]
  /\ xpc \in ExitLabels /\ xcpu \in Cores
  /\ Throttle!TypeOK
  /\ on \in [Cores -> BOOLEAN]
  /\ counting \in [Cores -> BOOLEAN]
  /\ irq \in [Cores -> {"idle", "queued", "stale"}]
  /\ skips \in [Cores -> 0..MaxSkips]
  /\ \A c \in Cores : counting[c] => on[c]

(* ar_init has returned: events created disabled, throttler threads and    *)
(* master thread started, debugfs files in place.                          *)
Init ==
  /\ enable = FALSE /\ asleep = FALSE /\ mstop = FALSE
  /\ state = "INITIAL"
  /\ mpc = "boot" /\ mcpu = 1
  /\ wpc = [w \in Writers |-> "idle"]
  /\ wval = [w \in Writers |-> FALSE]
  /\ wcpu = [w \in Writers |-> 1]
  /\ xpc = "loaded" /\ xcpu = 1
  /\ Throttle!Init
  /\ on = [c \in Cores |-> FALSE]
  /\ counting = [c \in Cores |-> FALSE]
  /\ irq = [c \in Cores |-> "idle"]
  /\ skips = [c \in Cores |-> 0]

Put(f, c, v) == [f EXCEPT ![c] = v]
-----------------------------------------------------------------------------
(* The master thread, master_thread_func.                                  *)

(* A loop over the cores: the next core, or on to `after'.                 *)
ForEachCore(body, after) ==
  /\ mpc = body
  /\ mpc' = IF mcpu = N THEN after ELSE body
  /\ mcpu' = IF mcpu = N THEN 1 ELSE mcpu + 1

MasterGoes(from, to) == mpc = from /\ mpc' = to /\ UNCHANGED mcpu

outside == <<enable, state, writers, exit>>

(* Slip: the loop stops short of the last core.                            *)
BootOneShort ==
  /\ mpc = "boot"
  /\ mpc' = IF mcpu = N THEN "wait1" ELSE "boot"
  /\ mcpu' = IF mcpu = N THEN 1 ELSE mcpu + 1
  /\ flag' = IF mcpu = N THEN flag ELSE Put(flag, mcpu, TRUE)
  /\ UNCHANGED <<outside, asleep, held, retired, events, irq, skips>>

(* Step 1, master.c:34-40: __throttle every core.                          *)
Boot ==
  /\ ForEachCore("boot", "wait1")
  /\ flag' = Put(flag, mcpu, TRUE)
  /\ UNCHANGED <<outside, asleep, held, retired, events, irq, skips>>

(* Slip: the stop bit does not end the wait.                               *)
MasterWaitsForStart(label, woken) ==
  /\ mpc = label
  /\ ~asleep
  /\ IF state = "RUNNING"
       THEN mpc' = woken /\ UNCHANGED asleep
       ELSE asleep' = TRUE /\ UNCHANGED mpc
  /\ UNCHANGED <<outside, mcpu, threads, events, irq, skips>>

(* wait_event_interruptible on master_wait_queue (master.c:44 and 74).  It *)
(* queues before it tests, so no wake-up falls in between (Throttler has   *)
(* the single steps of the same macro) and it can be one step here.        *)
MasterWaits(label, woken) ==
  /\ mpc = label
  /\ ~asleep
  /\ IF state = "RUNNING" \/ mstop
       THEN mpc' = woken /\ UNCHANGED asleep
       ELSE asleep' = TRUE /\ UNCHANGED mpc
  /\ UNCHANGED <<outside, mcpu, threads, events, irq, skips>>

WaitStart  == MasterWaits("wait1", "woken1")
WaitResume == MasterWaits("wait2", "woken2")

(* master.c:48-51.                                                         *)
Started ==
  /\ MasterGoes("woken1", IF mstop THEN "exited" ELSE "release")
  /\ UNCHANGED <<outside, asleep, threads, events, irq, skips>>

(* Step 3, master.c:55-62: __unthrottle every core.                        *)
Release ==
  /\ ForEachCore("release", "loop")
  /\ flag' = Put(flag, mcpu, FALSE)
  /\ UNCHANGED <<outside, asleep, held, retired, events, irq, skips>>

(* Slip: the master does not look whether it is to pause.                  *)
LoopNeverPauses ==
  /\ MasterGoes("loop", IF mstop THEN "exited" ELSE "serve")
  /\ UNCHANGED <<outside, asleep, threads, events, irq, skips>>

(* master.c:68-86, the tests at the top of the loop.                       *)
Loop ==
  /\ MasterGoes("loop", CASE mstop               -> "exited"
                          [] state # "RUNNING"   -> "wait2"
                          [] OTHER               -> "serve")
  /\ UNCHANGED <<outside, asleep, threads, events, irq, skips>>

Resumed ==
  /\ MasterGoes("woken2", IF mstop THEN "exited" ELSE "serve")
  /\ UNCHANGED <<outside, asleep, threads, events, irq, skips>>

(* master.c:104-127: the counters of the core are stopped and read.        *)
Serve ==
  /\ MasterGoes("serve", "estimate")
  /\ counting' = Put(counting, mcpu, FALSE)
  /\ UNCHANGED <<outside, asleep, threads, on, irq, skips>>

ServeNext == /\ mpc' = IF mcpu = N THEN "nap" ELSE "serve"
             /\ mcpu' = IF mcpu = N THEN 1 ELSE mcpu + 1

(* master.c:136-142 and 154-160: a negative read or write estimate halves  *)
(* that weight vector and leaves the core as it is.  Weights halved often  *)
(* enough make no negative estimate, so MaxSkips bounds such estimates.    *)
EstimateNegative ==
  /\ mpc = "estimate"
  /\ skips[mcpu] < MaxSkips
  /\ skips' = Put(skips, mcpu, skips[mcpu] + 1)
  /\ ServeNext
  /\ UNCHANGED <<outside, asleep, threads, events, irq>>

(* master.c:128-134 and 145-152.                                           *)
Estimate ==
  /\ MasterGoes("estimate", "replenish")
  /\ skips' = Put(skips, mcpu, 0)
  /\ UNCHANGED <<outside, asleep, threads, events, irq>>

(* Slip: the throttle flag is left set.                                    *)
ReplenishStaysThrottled ==
  /\ MasterGoes("replenish", "restart")
  /\ irq' = IF irq[mcpu] = "queued" THEN Put(irq, mcpu, "stale") ELSE irq
  /\ UNCHANGED <<outside, asleep, threads, events, skips>>

(* master.c:163-189: budget allocated from the estimates, flag cleared.    *)
Replenish ==
  /\ MasterGoes("replenish", "restart")
  /\ flag' = Put(flag, mcpu, FALSE)
  /\ irq' = IF irq[mcpu] = "queued" THEN Put(irq, mcpu, "stale") ELSE irq
  /\ UNCHANGED <<outside, asleep, held, retired, events, skips>>

(* Slip: the counters start whether or not the events are enabled.         *)
RestartAlways ==
  /\ mpc = "restart"
  /\ counting' = Put(counting, mcpu, TRUE)
  /\ ServeNext
  /\ UNCHANGED <<outside, asleep, threads, on, irq, skips>>

(* Slip: the counters of a throttled core are left stopped.                *)
RestartOnlyFree ==
  /\ mpc = "restart"
  /\ counting' = Put(counting, mcpu, on[mcpu] /\ ~flag[mcpu])
  /\ ServeNext
  /\ UNCHANGED <<outside, asleep, threads, on, irq, skips>>

(* master.c:191-238: starting the counter of a disabled event does nothing.*)
Restart ==
  /\ mpc = "restart"
  /\ counting' = Put(counting, mcpu, on[mcpu])
  /\ ServeNext
  /\ UNCHANGED <<outside, asleep, threads, on, irq, skips>>

(* msleep(1), master.c:244.                                                *)
Nap ==
  /\ MasterGoes("nap", "loop")
  /\ UNCHANGED <<outside, asleep, threads, events, irq, skips>>

Master == \/ Boot \/ WaitStart \/ Started \/ Release \/ Loop \/ WaitResume \/ Resumed
          \/ Serve \/ EstimateNegative \/ Estimate \/ Replenish \/ Restart \/ Nap
-----------------------------------------------------------------------------
(* A write to enable_regulation: ar_enable_reg_write.                      *)

WriterGoes(w, from, to) == /\ wpc[w] = from
                           /\ wpc' = Put(wpc, w, to)

WriterNextCore(w, from, again) ==
  /\ WriterGoes(w, from, IF wcpu[w] = N THEN "idle" ELSE again)
  /\ wcpu' = Put(wcpu, w, IF wcpu[w] = N THEN 1 ELSE wcpu[w] + 1)

(* ar_debugfs.c:131-134: a write of the current value changes nothing.     *)
WriteBegins(w) ==
  /\ xpc = "loaded"
  /\ WriterGoes(w, "idle", "set")
  /\ \E v \in BOOLEAN : enable # v /\ wval' = Put(wval, w, v)
  /\ UNCHANGED <<enable, state, master, wcpu, exit, threads, events, irq, skips>>

(* ar_debugfs.c:136-145.                                                   *)
WriteSets(w) ==
  /\ WriterGoes(w, "set", IF wval[w] THEN "start" ELSE "stop")
  /\ enable' = wval[w]
  /\ UNCHANGED <<state, master, wval, wcpu, exit, threads, events, irq, skips>>

(* start_all_regulation: master_start_regulation ...                       *)
StartState(w) ==
  /\ WriterGoes(w, "start", "wake")
  /\ state' = "RUNNING"
  /\ UNCHANGED <<enable, master, wval, wcpu, exit, threads, events, irq, skips>>

(* Slip: the master is not woken.                                          *)
StartNoWake(w) ==
  /\ WriterGoes(w, "wake", "enable")
  /\ UNCHANGED <<enable, state, master, wval, wcpu, exit, threads, events, irq, skips>>

StartWake(w) ==
  /\ WriterGoes(w, "wake", "enable")
  /\ asleep' = FALSE
  /\ UNCHANGED <<enable, state, mpc, mcpu, wval, wcpu, exit, threads, events, irq, skips>>

(* ... then start_regulation of each core: the events are enabled, which   *)
(* starts their counters (its reset of the estimates is in Estimator).     *)
StartEnable(w) ==
  /\ WriterNextCore(w, "enable", "enable")
  /\ on' = Put(on, wcpu[w], TRUE)
  /\ counting' = Put(counting, wcpu[w], counting[wcpu[w]] \/ ~on[wcpu[w]])
  /\ UNCHANGED <<enable, state, master, wval, exit, threads, irq, skips>>

(* Slip: only the events are stopped, the master keeps running.            *)
StopNoState(w) ==
  /\ WriterGoes(w, "stop", "disable")
  /\ UNCHANGED <<enable, state, master, wval, wcpu, exit, threads, events, irq, skips>>

(* stop_all_regulation: master_stop_regulation, then each core's events.   *)
StopState(w) ==
  /\ WriterGoes(w, "stop", "disable")
  /\ state' = "INITIAL"
  /\ UNCHANGED <<enable, master, wval, wcpu, exit, threads, events, irq, skips>>

StopDisable(w) ==
  /\ WriterNextCore(w, "disable", "disable")
  /\ on' = Put(on, wcpu[w], FALSE)
  /\ counting' = Put(counting, wcpu[w], FALSE)
  /\ UNCHANGED <<enable, state, master, wval, exit, threads, irq, skips>>

WriteGoesOn(w) == \/ WriteSets(w) \/ StartState(w) \/ StartWake(w)
                  \/ StartEnable(w) \/ StopState(w) \/ StopDisable(w)
-----------------------------------------------------------------------------
(* The regulated cores.                                                    *)

(* The counters count user mode, so only on a core that is not held.       *)
Overflow(c) ==
  /\ counting[c] /\ ~held[c]
  /\ irq[c] = "idle"
  /\ irq' = Put(irq, c, "queued")
  /\ UNCHANGED <<enable, state, master, writers, exit, threads, events, skips>>

HandlerReclaims(c) ==
  /\ irq[c] # "idle"
  /\ irq' = Put(irq, c, "idle")
  /\ UNCHANGED <<enable, state, master, writers, exit, threads, events, skips>>

HandlerThrottles(c) ==
  /\ irq[c] # "idle"
  /\ irq' = Put(irq, c, "idle")
  /\ flag' = Put(flag, c, TRUE)
  /\ UNCHANGED <<enable, state, master, writers, exit, held, retired, events, skips>>

Handler(c) == HandlerReclaims(c) \/ HandlerThrottles(c)

(* The throttler thread of c takes the core and gives it back.             *)
ThreadHolds(c) ==
  /\ Throttle!Hold(c)
  /\ UNCHANGED <<enable, state, master, writers, exit, events, irq, skips>>

ThreadLetsGo(c) ==
  /\ Throttle!LetGo(c)
  /\ UNCHANGED <<enable, state, master, writers, exit, events, irq, skips>>
-----------------------------------------------------------------------------
(* ar_exit.                                                                *)

ExitGoes(from, to) == xpc = from /\ xpc' = to /\ UNCHANGED xcpu

inside == <<enable, mpc, mcpu, writers, on, counting, irq, skips>>

(* ar_remove_debugfs waits for the writes in progress and bars new ones.   *)
ExitBegins ==
  /\ \A w \in Writers : wpc[w] = "idle"
  /\ ExitGoes("loaded", "state")
  /\ UNCHANGED <<inside, state, asleep, mstop, threads>>

(* deinitialize_master.                                                    *)
MasterStopped ==
  /\ ExitGoes("state", "wake")
  /\ state' = "STOPPED"
  /\ UNCHANGED <<inside, asleep, mstop, threads>>

MasterWoken ==
  /\ \/ ExitGoes("wake", "stop")
     \/ ExitGoes("kick", "join")
  /\ asleep' = FALSE
  /\ UNCHANGED <<inside, state, mstop, threads>>

MasterStopBit ==
  /\ ExitGoes("stop", "kick")
  /\ mstop' = TRUE
  /\ UNCHANGED <<inside, state, asleep, threads>>

MasterJoined ==
  /\ mpc = "exited"
  /\ ExitGoes("join", "clear")
  /\ UNCHANGED <<inside, state, asleep, mstop, threads>>

(* deinitialize_cpu_info of each core; Throttler has its single steps.     *)
CoreClears ==
  /\ \/ ExitGoes("clear", "retire")
     \/ ExitGoes("reclear", "free")
  /\ flag' = Put(flag, xcpu, FALSE)
  /\ UNCHANGED <<inside, state, asleep, mstop, held, retired>>

CoreRetires ==
  /\ ExitGoes("retire", "joincore")
  /\ Throttle!Retire(xcpu)
  /\ UNCHANGED <<inside, state, asleep, mstop>>

(* Slip: the thread is not waited for.                                     *)
CoreNotJoined ==
  /\ ExitGoes("joincore", "reclear")
  /\ UNCHANGED <<inside, state, asleep, mstop, threads>>

CoreJoined ==
  /\ ~held[xcpu]
  /\ ExitGoes("joincore", "reclear")
  /\ UNCHANGED <<inside, state, asleep, mstop, threads>>

CoreFreed ==
  /\ xpc = "free"
  /\ xpc' = IF xcpu = N THEN "done" ELSE "clear"
  /\ xcpu' = IF xcpu = N THEN 1 ELSE xcpu + 1
  /\ on' = Put(on, xcpu, FALSE)
  /\ counting' = Put(counting, xcpu, FALSE)
  /\ UNCHANGED <<enable, state, master, writers, mstop, threads, irq, skips>>

ExitGoesOn == \/ MasterStopped \/ MasterWoken \/ MasterStopBit \/ MasterJoined
              \/ CoreClears \/ CoreRetires \/ CoreJoined \/ CoreFreed
-----------------------------------------------------------------------------
Next == \/ Master
        \/ \E w \in Writers : WriteBegins(w) \/ WriteGoesOn(w)
        \/ \E c \in Cores : \/ Overflow(c) \/ Handler(c)
                            \/ ThreadHolds(c) \/ ThreadLetsGo(c)
        \/ ExitBegins \/ ExitGoesOn

(* Threads and calls in progress go on; nobody need write, overflow or     *)
(* unload.  The choice between the two kinds of estimate is free, and so is*)
(* whether a retired thread leaves under an order that stands: the order   *)
(* does not end its halt, only the next interrupt does (ar.c:147-149).     *)
Fairness ==
  /\ WF_vars(Master)
  /\ WF_vars(ExitGoesOn)
  /\ \A w \in Writers : WF_vars(WriteGoesOn(w))
  /\ \A c \in Cores : /\ WF_vars(Handler(c))
                      /\ WF_vars(ThreadHolds(c))
                      /\ WF_vars(~flag[c] /\ ThreadLetsGo(c))

Spec == Init /\ [][Next]_vars /\ Fairness
-----------------------------------------------------------------------------
Quiet == \A w \in Writers : wpc[w] = "idle"

(* Until regulation is first enabled every core stays throttled, whatever  *)
(* the writers and the handlers do meanwhile (master.c:32-46, ar.c:468).   *)
ThrottledUntilStart == mpc \in {"wait1", "woken1"} => \A c \in Cores : flag[c]

(* When no write is in progress, the setting shown to the user, the state  *)
(* of the master and the events of all cores agree (ar_debugfs.c:28).      *)
Coherent ==
  Quiet /\ xpc = "loaded" =>
    /\ enable <=> state = "RUNNING"
    /\ \A c \in Cores : on[c] <=> enable

(* The counters of a core whose events are enabled stop only while the     *)
(* master serves it or after a negative estimate: starts, stops and passes *)
(* of the master in any order lose no restart (master.c:104-106, 191-193). *)
BeingServed(c) == mcpu = c /\ mpc \in {"estimate", "replenish", "restart"}

CountersReenabled ==
  \A c \in Cores : on[c] /\ ~counting[c] => BeingServed(c) \/ skips[c] > 0

(* No wake-up is lost: if the master sleeps although it has been started   *)
(* or told to stop, the writer that started it or the unload is about to   *)
(* wake it, however several writers and the unload interleave              *)
(* (master.c:44, 74, 250-259, 272-281).                                    *)
MasterNotForgotten ==
  asleep => /\ state = "RUNNING" => \E w \in Writers : wpc[w] = "wake"
            /\ mstop => xpc = "kick"

(* At the end of its pass the master has unthrottled, replenished and      *)
(* re-enabled every core whose events are enabled (master.c:188-193).      *)
EveryCoreServed == mpc = "nap" => \A c \in Cores : on[c] => counting[c]

(* An unloaded module has left no core throttled and no counter running.   *)
UnloadedClean ==
  xpc = "done" => \A c \in Cores : ~held[c] /\ ~on[c] /\ ~counting[c]

(* While regulation runs, a throttled core is eventually replenished.      *)
ThrottleIsTemporary ==
  \A c \in Cores : flag[c] /\ state = "RUNNING" ~> ~flag[c] \/ state # "RUNNING"

(* Enabling regulation starts the master, disabling it pauses the master.  *)
StartTakesEffect == state = "RUNNING" ~> mpc = "serve" \/ state # "RUNNING"
StopTakesEffect  == state = "INITIAL" ~> asleep \/ state # "INITIAL"

(* Unloading ends, from any state of the regulation, if every retired      *)
(* thread leaves.  One that an overflow threw back between the clearing of *)
(* its flag and kthread_stop needs an interrupt for it (ar.c:317-321), as  *)
(* Throttler!UnloadEnds says.                                              *)
UnloadEnds ==
  (\A c \in Cores : WF_vars(ThreadLetsGo(c))) => (xpc # "loaded" ~> xpc = "done")

(* Disabling regulation frees the cores (ar_debugfs.c:143, ar.c:409): once *)
(* regulation has run, a core is not held for ever while it is disabled.   *)
DisableFreesCores ==
  \A c \in Cores :
    ~enable /\ mpc \notin {"boot", "wait1", "woken1", "release"} ~> ~held[c] \/ enable

(* A core is throttled only for exhausting the budget it was last given    *)
(* (ar.c:167, master.c:188).                                               *)
ThrottledForItsBudget ==
  [][\A c \in Cores : ~flag[c] /\ flag'[c] => irq[c] # "stale"]_vars
=============================================================================

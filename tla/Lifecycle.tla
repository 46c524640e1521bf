------------------------------ MODULE Lifecycle ------------------------------
(***************************************************************************)
(* Loading and unloading the module: ar_init sets up the cores one by one, *)
(* each with two perf events, its work, flag and wait queue, and its       *)
(* throttler thread, then starts the master thread and creates the debugfs *)
(* files; when an event cannot be created it rolls back.  ar_exit takes    *)
(* everything down again.  Meanwhile the threads run and users write.      *)
(* What the threads do with the cores is in Regulator and Throttler; here  *)
(* it matters what they touch, and whether that exists.                    *)
(***************************************************************************)
EXTENDS Naturals

CONSTANTS N,       \* MAX_NO_CPUS: the regulated cores are 1..N
          Writers  \* processes that write enable_regulation

ASSUME LifecycleAssumption == N \in Nat \ {0}

Cores == 1..N

VARIABLES
  pc, cpu,   \* where ar_init or ar_exit is, and the core it is at
  rolling,   \* the cores are taken down by a roll-back of ar_init
  read,      \* read[c]: read_event of c is created and not released
  write,     \* write[c]: write_event of c is
  ready,     \* ready[c]: work, flag and wait queue of c are initialised
  thread,    \* thread[c]: the throttler thread of c
  mready,    \* master_wait_queue is initialised
  state,     \* master_state
  mpc, mcpu, \* where the master thread is, and the core it is at
  mstop,     \* its stop bit
  files,     \* the debugfs files admit writes
  at         \* at[w]: the core whose events the write of w is at, 0: no write

call   == <<pc, cpu, rolling>>
events == <<read, write>>
cores  == <<read, write, ready, thread>>
master == <<mpc, mcpu>>
vars   == <<call, cores, mready, state, master, mstop, files, at>>

SetupLabels    == {"read", "write", "queue", "thread"}
StandingLabels == {"master", "files", "loaded", "drain", "stopmaster", "joinmaster"}
TeardownLabels == {"retire", "join", "freeread", "freewrite"}
Labels == {"unloaded", "bug"} \cup SetupLabels \cup StandingLabels \cup TeardownLabels

(* The types; and the loops of ar_init and ar_exit stay within the cores.  *)
TypeOK ==
  /\ pc \in Labels /\ cpu \in Cores /\ rolling \in BOOLEAN
  /\ read \in [Cores -> BOOLEAN] /\ write \in [Cores -> BOOLEAN]
  /\ ready \in [Cores -> BOOLEAN]
  /\ thread \in [Cores -> {"none", "running", "stopping", "exited"}]
  /\ mready \in BOOLEAN /\ mstop \in BOOLEAN /\ files \in BOOLEAN
  /\ state \in {"INITIAL", "RUNNING", "STOPPED"}
  /\ mpc \in {"none", "created", "boot", "idle", "pass", "exited"}
  /\ mcpu \in Cores
  /\ at \in [Writers -> 0..N]

Init ==
  /\ pc = "unloaded" /\ cpu = 1 /\ rolling = FALSE
  /\ read = [c \in Cores |-> FALSE] /\ write = [c \in Cores |-> FALSE]
  /\ ready = [c \in Cores |-> FALSE]
  /\ thread = [c \in Cores |-> "none"]
  /\ mready = FALSE /\ state = "INITIAL"
  /\ mpc = "none" /\ mcpu = 1 /\ mstop = FALSE
  /\ files = FALSE
  /\ at = [w \in Writers |-> 0]

Put(f, c, v) == [f EXCEPT ![c] = v]
Goes(from, to) == pc = from /\ pc' = to /\ UNCHANGED <<cpu, rolling>>

others == <<mready, state, master, mstop, files, at>>
-----------------------------------------------------------------------------
(* ar_init.                                                                *)

(* The module's static data and all_cinfo start out as zero (ar.c:431).    *)
Load ==
  /\ pc = "unloaded"
  /\ pc' = "read" /\ cpu' = 1 /\ rolling' = FALSE
  /\ ready' = [c \in Cores |-> FALSE]
  /\ mready' = FALSE /\ state' = "INITIAL" /\ mstop' = FALSE
  /\ UNCHANGED <<events, thread, master, files, at>>

(* setup_cpu_info: init_counter of the two events ...                      *)
CreateRead ==
  /\ Goes("read", "write")
  /\ read' = Put(read, cpu, TRUE)
  /\ UNCHANGED <<write, ready, thread, others>>

CreateWrite ==
  /\ Goes("write", "queue")
  /\ write' = Put(write, cpu, TRUE)
  /\ UNCHANGED <<read, ready, thread, others>>

(* Slip: the roll-back leaves out the core that failed.                    *)
CreateFailsSparingFailed ==
  /\ pc \in {"read", "write"}
  /\ IF cpu = 1 THEN pc' = "unloaded" /\ UNCHANGED cpu
                ELSE pc' = "retire" /\ cpu' = cpu - 1
  /\ rolling' = TRUE
  /\ UNCHANGED <<cores, others>>

(* ... either of which may fail: ar_init takes down cpu, cpu - 1, .., 1.   *)
CreateFails ==
  /\ pc \in {"read", "write"}
  /\ pc' = "retire"
  /\ rolling' = TRUE
  /\ UNCHANGED <<cpu, cores, others>>

InitQueue ==
  /\ Goes("queue", "thread")
  /\ ready' = Put(ready, cpu, TRUE)
  /\ UNCHANGED <<events, thread, others>>

CreateThread ==
  /\ pc = "thread"
  /\ thread' = Put(thread, cpu, "running")
  /\ pc' = IF cpu = N THEN "master" ELSE "read"
  /\ cpu' = IF cpu = N THEN cpu ELSE cpu + 1
  /\ UNCHANGED <<rolling, events, ready, others>>

(* initialize_master.                                                      *)
StartMaster ==
  /\ Goes("master", "files")
  /\ mready' = TRUE
  /\ state' = "INITIAL"
  /\ mpc' = "created"
  /\ UNCHANGED <<cores, mcpu, mstop, files, at>>

(* The two BUG_ON(IS_ERR(..)) of kthread_create_on_node: the caller dies,  *)
(* and what was set up stays for good.                                     *)
ThreadFails ==
  /\ pc \in {"thread", "master"}
  /\ pc' = "bug"
  /\ UNCHANGED <<cpu, rolling, cores, others>>

(* ar_init_debugfs.  A failure of debugfs_create_dir is an error pointer,  *)
(* which BUG_ON(!ar_dir) lets pass: ar_init succeeds without files.        *)
CreateFiles ==
  /\ Goes("files", "loaded")
  /\ files' \in BOOLEAN
  /\ UNCHANGED <<cores, mready, state, master, mstop, at>>
-----------------------------------------------------------------------------
(* ar_exit.                                                                *)

(* ar_remove_debugfs bars new writes ...                                   *)
RemoveFiles ==
  /\ Goes("loaded", "drain")
  /\ files' = FALSE
  /\ UNCHANGED <<cores, mready, state, master, mstop, at>>

(* Slip: the writes in progress are not waited for.                        *)
DrainedAtOnce ==
  /\ Goes("drain", "stopmaster")
  /\ UNCHANGED <<cores, others>>

(* ... and waits for those in progress.                                    *)
Drained ==
  /\ \A w \in Writers : at[w] = 0
  /\ Goes("drain", "stopmaster")
  /\ UNCHANGED <<cores, others>>

(* Slip: the master is woken but not told to stop.                         *)
StopMasterStateOnly ==
  /\ Goes("stopmaster", "joinmaster")
  /\ state' = "STOPPED"
  /\ UNCHANGED <<cores, mready, master, mstop, files, at>>

(* deinitialize_master, up to the join of kthread_stop.                    *)
StopMaster ==
  /\ Goes("stopmaster", "joinmaster")
  /\ state' = "STOPPED"
  /\ mstop' = TRUE
  /\ UNCHANGED <<cores, mready, master, files, at>>

(* Slip: the master is told to stop but not waited for.                    *)
MasterNotJoined ==
  /\ pc = "joinmaster"
  /\ pc' = "retire" /\ cpu' = 1
  /\ UNCHANGED <<rolling, cores, others>>

MasterJoined ==
  /\ mpc = "exited"
  /\ pc = "joinmaster"
  /\ pc' = "retire" /\ cpu' = 1
  /\ mpc' = "none"
  /\ UNCHANGED <<rolling, cores, mready, state, mcpu, mstop, files, at>>
-----------------------------------------------------------------------------
(* deinitialize_cpu_info of the core cpu.                                  *)

Retire ==
  /\ Goes("retire", IF thread[cpu] = "none" THEN "freeread" ELSE "join")
  /\ thread' = IF thread[cpu] = "none" THEN thread ELSE Put(thread, cpu, "stopping")
  /\ UNCHANGED <<events, ready, others>>

ThreadJoined ==
  /\ thread[cpu] = "exited"
  /\ Goes("join", "freeread")
  /\ thread' = Put(thread, cpu, "none")
  /\ UNCHANGED <<events, ready, others>>

FreeRead ==
  /\ Goes("freeread", "freewrite")
  /\ read' = Put(read, cpu, FALSE)
  /\ UNCHANGED <<write, ready, thread, others>>

(* Slip: the end of the loop is the exit's, whichever way it goes.         *)
LastCoreOfExit == cpu = N

(* A roll-back ends at core 1, ar_exit at core N.                          *)
LastCore == cpu = IF rolling THEN 1 ELSE N

(* Slip: the roll-back counts upwards.                                     *)
FreeWriteUpwards ==
  /\ pc = "freewrite"
  /\ write' = Put(write, cpu, FALSE)
  /\ pc' = IF LastCore THEN "unloaded" ELSE "retire"
  /\ cpu' = IF LastCore THEN cpu ELSE cpu + 1
  /\ UNCHANGED <<rolling, read, ready, thread, others>>

FreeWrite ==
  /\ pc = "freewrite"
  /\ write' = Put(write, cpu, FALSE)
  /\ pc' = IF LastCore THEN "unloaded" ELSE "retire"
  /\ cpu' = IF LastCore THEN cpu ELSE IF rolling THEN cpu - 1 ELSE cpu + 1
  /\ UNCHANGED <<rolling, read, ready, thread, others>>

CallGoesOn ==
  \/ CreateRead \/ CreateWrite \/ CreateFails \/ InitQueue \/ CreateThread
  \/ StartMaster \/ ThreadFails \/ CreateFiles
  \/ Drained \/ StopMaster \/ MasterJoined
  \/ Retire \/ ThreadJoined \/ FreeRead \/ FreeWrite
-----------------------------------------------------------------------------
(* The threads and the writers.                                            *)

quiet == <<call, cores, mready, mstop, files>>

(* kthread_stop of a thread that never ran keeps it from running.          *)
MasterBegins ==
  /\ mpc = "created"
  /\ mpc' = IF mstop THEN "exited" ELSE "boot"
  /\ UNCHANGED <<quiet, state, mcpu, at>>

MasterOverCores(body) ==
  /\ mpc = body
  /\ mpc' = IF mcpu = N THEN "idle" ELSE body
  /\ mcpu' = IF mcpu = N THEN 1 ELSE mcpu + 1
  /\ UNCHANGED <<quiet, state, at>>

(* __throttle of a core wakes its wait queue.                              *)
MasterBoots == MasterOverCores("boot")

(* The waits and the top of the loop.                                      *)
MasterTurns ==
  /\ mpc = "idle"
  /\ mstop \/ state = "RUNNING"
  /\ mpc' = IF mstop THEN "exited" ELSE "pass"
  /\ UNCHANGED <<quiet, state, mcpu, at>>

(* The pass stops, reads and starts the counters of a core.                *)
MasterPasses == MasterOverCores("pass")

Master == MasterBegins \/ MasterBoots \/ MasterTurns \/ MasterPasses

ThreadExits(c) ==
  /\ thread[c] = "stopping"
  /\ thread' = Put(thread, c, "exited")
  /\ UNCHANGED <<call, events, ready, others>>

(* start_all_regulation or stop_all_regulation: the state of the master,   *)
(* then the events of each core.                                           *)
WriteBegins(w) ==
  /\ files
  /\ at[w] = 0
  /\ at' = Put(at, w, 1)
  /\ state' \in {"RUNNING", "INITIAL"}
  /\ UNCHANGED <<quiet, master>>

WriteGoesOn(w) ==
  /\ at[w] # 0
  /\ at' = Put(at, w, IF at[w] = N THEN 0 ELSE at[w] + 1)
  /\ UNCHANGED <<quiet, state, master>>
-----------------------------------------------------------------------------
Next == \/ Load \/ RemoveFiles \/ CallGoesOn
        \/ Master
        \/ \E c \in Cores : ThreadExits(c)
        \/ \E w \in Writers : WriteBegins(w) \/ WriteGoesOn(w)

(* Threads and calls that have begun go on; nobody need load, unload or    *)
(* write.  That a stopping thread exits supposes that an interrupt reaches *)
(* a core halted under a standing order, as Throttler!UnloadEnds does.     *)
Fairness ==
  /\ WF_vars(CallGoesOn)
  /\ WF_vars(Master)
  /\ \A c \in Cores : WF_vars(ThreadExits(c))
  /\ \A w \in Writers : WF_vars(WriteGoesOn(w))

Spec == Init /\ [][Next]_vars /\ Fairness
-----------------------------------------------------------------------------
Bare(c)     == ~read[c] /\ ~write[c] /\ thread[c] = "none"
Complete(c) == read[c] /\ write[c] /\ ready[c] /\ thread[c] = "running"

(* The pass of the master and the loops of start and stop take a core's    *)
(* events without a test (the WARN_ONs of master.c:96-98 stop nothing):    *)
(* neither finds one missing, during set-up, roll-back or unload.          *)
EventsHeldInUse ==
  /\ mpc = "pass" => read[mcpu] /\ write[mcpu]
  /\ \A w \in Writers : at[w] # 0 => read[at[w]] /\ write[at[w]]

(* No wait queue is slept on or woken before it is initialised: the        *)
(* cores' by their threads and the booting master, the master's by itself  *)
(* and the writers (ar.c:266, master.c:257).                               *)
QueuesReadyInUse ==
  /\ \A c \in Cores : thread[c] = "running" => ready[c]
  /\ mpc = "boot" => ready[mcpu]
  /\ mpc \in {"boot", "idle", "pass"} => mready
  /\ \A w \in Writers : at[w] # 0 => mready

(* A load that returns has set up every core and the master, a load that   *)
(* fails and an unload have left no event, thread or file, whichever step  *)
(* of whichever core failed (ar.c:434-465, 480-496).                       *)
AllOrNothing ==
  /\ pc = "loaded" => mpc \in {"created", "boot", "idle", "pass"}
                      /\ \A c \in Cores : Complete(c)
  /\ pc = "unloaded" => /\ mpc = "none" /\ ~files
                        /\ \A w \in Writers : at[w] = 0
                        /\ \A c \in Cores : Bare(c)

(* What a call waits for is under way: no write can begin any more, the    *)
(* master is told to stop, the throttler thread of the core is             *)
(* (ar_debugfs.c:204, master.c:279, ar.c:321).                             *)
NoWaitInVain ==
  /\ pc = "drain" => ~files
  /\ pc = "joinmaster" => mpc # "none" /\ mstop
  /\ pc = "join" => thread[cpu] \in {"stopping", "exited"}

(* The steps a call still has before it at most: four for each core in     *)
(* either direction, and those of the layers above the cores.              *)
SetupSteps    == [read |-> 4, write |-> 3, queue |-> 2, thread |-> 1]
TeardownSteps == [retire |-> 4, join |-> 3, freeread |-> 2, freewrite |-> 1]

StepsLeft ==
  CASE pc \in SetupLabels            -> 4 * N + 2 + 4 * (N - cpu) + SetupSteps[pc]
    [] pc = "drain"                  -> 4 * N + 3
    [] pc \in {"master", "stopmaster"} -> 4 * N + 2
    [] pc \in {"files", "joinmaster"} -> 4 * N + 1
    [] pc \in TeardownLabels         -> 4 * (IF rolling THEN cpu - 1 ELSE N - cpu)
                                        + TeardownSteps[pc]
    [] OTHER                         -> 0

(* A call comes to its end but for its waits: whichever step of whichever  *)
(* core fails, every step of a load, of its roll-back and of an unload     *)
(* leaves fewer before it (ar.c:434-465, 480-496).                         *)
CallAdvances ==
  [][pc \notin {"unloaded", "loaded"} /\ call' # call => StepsLeft' \in 0 .. StepsLeft - 1]_vars

(* Loading and unloading return, unless a thread could not be created:     *)
(* no wait of theirs is for something that does not come (ar.c:321,        *)
(* master.c:279).                                                          *)
CallsReturn == pc \notin {"unloaded", "loaded", "bug"} ~> pc \in {"unloaded", "loaded", "bug"}
=============================================================================

---------------------------- MODULE RegulatorProofs ----------------------------
(***************************************************************************)
(* Theorems about the control of the regulator, for any number of cores    *)
(* and of writers.                                                         *)
(***************************************************************************)
EXTENDS Regulator, TLAPS

(* A loop over the cores starts at core 1 and its next core is a core.      *)
LEMMA CoresStep ==
  /\ 1 \in Cores
  /\ \A c \in Cores : c # N => c + 1 \in Cores
BY RegulatorAssumption DEF Cores

(* The count of negative estimates starts within its bound.                *)
LEMMA SkipsStart == 0 \in 0..MaxSkips
BY RegulatorAssumption

(* Every step of the master, a writer, a handler, a thread or the unload   *)
(* keeps the types.                                                        *)
LEMMA TypesKept ==
  ASSUME TypeOK, [Next]_vars PROVE TypeOK'
<1> USE DEF MasterLabels, WriterLabels, ExitLabels, Put
<1> USE DEF TypeOK, Throttle!TypeOK, outside, inside, writers, exit, threads,
        events, master
<1>1. ASSUME Master PROVE TypeOK'
  <2>1. CASE Boot
    BY <2>1, CoresStep DEF Boot, ForEachCore
  <2>2. CASE WaitStart
    BY <2>2 DEF WaitStart, MasterWaits
  <2>3. CASE Started
    BY <2>3 DEF Started, MasterGoes
  <2>4. CASE Release
    BY <2>4, CoresStep DEF Release, ForEachCore
  <2>5. CASE Loop
    BY <2>5 DEF Loop, MasterGoes
  <2>6. CASE WaitResume
    BY <2>6 DEF WaitResume, MasterWaits
  <2>7. CASE Resumed
    BY <2>7 DEF Resumed, MasterGoes
  <2>8. CASE Serve
    BY <2>8 DEF Serve, MasterGoes
  <2>9. CASE EstimateNegative
    <3>1. skips[mcpu] + 1 \in 0..MaxSkips
      BY <2>9, RegulatorAssumption DEF EstimateNegative
    <3>2. skips' \in [Cores -> 0..MaxSkips]
      BY <2>9, <3>1 DEF EstimateNegative
    <3>3. mcpu' \in Cores /\ mpc' \in MasterLabels
      BY <2>9, CoresStep DEF EstimateNegative, ServeNext
    <3>4. QED
      BY <2>9, <3>2, <3>3 DEF EstimateNegative
  <2>10. CASE Estimate
    <3>1. skips' \in [Cores -> 0..MaxSkips]
      BY <2>10, SkipsStart DEF Estimate
    <3>2. QED
      BY <2>10, <3>1 DEF Estimate, MasterGoes
  <2>11. CASE Replenish
    BY <2>11 DEF Replenish, MasterGoes
  <2>12. CASE Restart
    BY <2>12, CoresStep DEF Restart, ServeNext
  <2>13. CASE Nap
    BY <2>13 DEF Nap, MasterGoes
  <2>14. QED
    BY <1>1, <2>1, <2>2, <2>3, <2>4, <2>5, <2>6, <2>7, <2>8,
       <2>9, <2>10, <2>11, <2>12, <2>13 DEF Master
<1>2. ASSUME NEW w \in Writers, WriteBegins(w) \/ WriteGoesOn(w) PROVE TypeOK'
  <2>1. CASE WriteBegins(w)
    BY <2>1 DEF WriteBegins, WriterGoes
  <2>2. CASE WriteSets(w)
    BY <2>2 DEF WriteSets, WriterGoes
  <2>3. CASE StartState(w)
    BY <2>3 DEF StartState, WriterGoes
  <2>4. CASE StartWake(w)
    <3>1. wpc' \in [Writers -> WriterLabels]
      BY <2>4 DEF StartWake, WriterGoes
    <3>2. asleep' \in BOOLEAN
      BY <2>4 DEF StartWake
    <3>3. QED
      BY <2>4, <3>1, <3>2 DEF StartWake
  <2>5. CASE StartEnable(w)
    BY <2>5, CoresStep DEF StartEnable, WriterGoes, WriterNextCore
  <2>6. CASE StopState(w)
    BY <2>6 DEF StopState, WriterGoes
  <2>7. CASE StopDisable(w)
    BY <2>7, CoresStep DEF StopDisable, WriterGoes, WriterNextCore
  <2>8. QED
    BY <1>2, <2>1, <2>2, <2>3, <2>4, <2>5, <2>6, <2>7 DEF WriteGoesOn
<1>3. ASSUME NEW c \in Cores, Overflow(c) \/ Handler(c) \/ ThreadHolds(c) \/ ThreadLetsGo(c) PROVE TypeOK'
  <2>1. CASE Overflow(c)
    BY <2>1 DEF Overflow
  <2>2. CASE HandlerReclaims(c)
    BY <2>2 DEF HandlerReclaims
  <2>3. CASE HandlerThrottles(c)
    BY <2>3 DEF HandlerThrottles
  <2>4. CASE ThreadHolds(c)
    BY <2>4 DEF ThreadHolds, Throttle!Hold
  <2>5. CASE ThreadLetsGo(c)
    BY <2>5 DEF ThreadLetsGo, Throttle!LetGo
  <2>6. QED
    BY <1>3, <2>1, <2>2, <2>3, <2>4, <2>5 DEF Handler
<1>4. ASSUME ExitBegins \/ ExitGoesOn PROVE TypeOK'
  <2>1. CASE ExitBegins
    BY <2>1 DEF ExitBegins, ExitGoes
  <2>2. CASE MasterStopped
    BY <2>2 DEF MasterStopped, ExitGoes
  <2>3. CASE MasterWoken
    BY <2>3 DEF MasterWoken, ExitGoes
  <2>4. CASE MasterStopBit
    BY <2>4 DEF MasterStopBit, ExitGoes
  <2>5. CASE MasterJoined
    BY <2>5 DEF MasterJoined, ExitGoes
  <2>6. CASE CoreClears
    BY <2>6 DEF CoreClears, ExitGoes
  <2>7. CASE CoreRetires
    BY <2>7 DEF CoreRetires, ExitGoes, Throttle!Retire
  <2>8. CASE CoreJoined
    BY <2>8 DEF CoreJoined, ExitGoes
  <2>9. CASE CoreFreed
    BY <2>9, CoresStep DEF CoreFreed
  <2>10. QED
    BY <1>4, <2>1, <2>2, <2>3, <2>4, <2>5, <2>6, <2>7, <2>8, <2>9 DEF ExitGoesOn
<1>5. CASE UNCHANGED vars
  BY <1>5 DEF vars
<1>6. QED
  BY <1>1, <1>2, <1>3, <1>4, <1>5 DEF Next

(* Every variable keeps its type, and counters run only while their events *)
(* are enabled.                                                            *)
THEOREM Typing == Spec => []TypeOK
<1> USE DEF MasterLabels, WriterLabels, ExitLabels, Put
<1>1. Init => TypeOK
  <2> SUFFICES ASSUME Init PROVE TypeOK
    OBVIOUS
  <2>1. 1 \in Cores /\ 0 \in 0..MaxSkips
    BY CoresStep, SkipsStart
  <2>2. /\ wcpu \in [Writers -> Cores] /\ xcpu \in Cores /\ mcpu \in Cores
        /\ skips \in [Cores -> 0..MaxSkips]
    BY <2>1 DEF Init
  <2>3. /\ wpc \in [Writers -> WriterLabels] /\ wval \in [Writers -> BOOLEAN]
        /\ mpc \in MasterLabels /\ xpc \in ExitLabels
    BY DEF Init
  <2>4. Throttle!TypeOK
    BY DEF Init, Throttle!Init, Throttle!TypeOK
  <2>5. /\ on \in [Cores -> BOOLEAN] /\ counting \in [Cores -> BOOLEAN]
        /\ irq \in [Cores -> {"idle", "queued", "stale"}]
        /\ \A c \in Cores : counting[c] => on[c]
    BY DEF Init
  <2>6. QED
    BY <2>2, <2>3, <2>4, <2>5 DEF Init, TypeOK
<1>2. TypeOK /\ [Next]_vars => TypeOK'
  BY TypesKept
<1>3. QED
  BY <1>1, <1>2, PTL DEF Spec
-----------------------------------------------------------------------------
(* The unload gets to the cores only when the master thread has ended.     *)
Unloading == {"clear", "retire", "joincore", "reclear", "free", "done"}
MasterGone == xpc \in Unloading => mpc = "exited"

(* kthread_stop in deinitialize_master returns when the thread has ended.  *)
LEMMA MasterEnds == Spec => []MasterGone
<1>1. Init => MasterGone
  BY DEF Init, MasterGone, Unloading
<1>2. MasterGone /\ [Next]_vars => MasterGone'
  <2> SUFFICES ASSUME MasterGone, [Next]_vars PROVE MasterGone'
    OBVIOUS
  <2> USE DEF MasterGone, Unloading
  <2>1. CASE Master
    BY <2>1 DEF Master, Boot, WaitStart, WaitResume, MasterWaits, Started, Release,
       Loop, Resumed, Serve, EstimateNegative, Estimate, Replenish, Restart, Nap,
       ForEachCore, MasterGoes, ServeNext, outside, exit
  <2>2. ASSUME NEW w \in Writers, WriteBegins(w) \/ WriteGoesOn(w) PROVE MasterGone'
    BY <2>2 DEF WriteBegins, WriteGoesOn, WriteSets, StartState, StartWake,
       StartEnable, StopState, StopDisable, exit, master
  <2>3. ASSUME NEW c \in Cores,
               Overflow(c) \/ Handler(c) \/ ThreadHolds(c) \/ ThreadLetsGo(c)
        PROVE  MasterGone'
    BY <2>3 DEF Overflow, Handler, HandlerReclaims, HandlerThrottles, ThreadHolds,
       ThreadLetsGo, exit, master
  <2>4. CASE ExitBegins \/ ExitGoesOn
    BY <2>4 DEF ExitBegins, ExitGoesOn, MasterStopped, MasterWoken, MasterStopBit,
       MasterJoined, CoreClears, CoreRetires, CoreJoined, CoreFreed, ExitGoes,
       inside, master
  <2>5. CASE UNCHANGED vars
    BY <2>5 DEF vars, master, exit
  <2>6. QED
    BY <2>1, <2>2, <2>3, <2>4, <2>5 DEF Next
<1>3. QED
  BY <1>1, <1>2, PTL DEF Spec

(* While the master throttles the cores, those it has passed are           *)
(* throttled.                                                              *)
Booting == mpc = "boot" => \A c \in Cores : c < mcpu => flag[c]

(* Nothing but the master's release clears a flag before regulation is     *)
(* first started: no stop, no start, no handler and no unload.             *)
THEOREM StartsThrottled == Spec => []ThrottledUntilStart
<1> DEFINE Inv == ThrottledUntilStart /\ Booting
<1>1. Init => Inv
  BY CoresStep, RegulatorAssumption DEF Init, ThrottledUntilStart, Booting, Cores
<1>2. TypeOK /\ MasterGone /\ Inv /\ [Next]_vars => Inv'
  <2> SUFFICES ASSUME TypeOK, MasterGone, Inv, [Next]_vars PROVE Inv'
    OBVIOUS
  <2> USE DEF ThrottledUntilStart, Booting
  <2>1. flag \in [Cores -> BOOLEAN] /\ mcpu \in Cores
    BY DEF TypeOK, Throttle!TypeOK
  <2>2. CASE Boot
    <3>1. \A c \in Cores : c < mcpu \/ c = mcpu => flag'[c]
      BY <2>1, <2>2 DEF Boot, ForEachCore, Put
    <3>2. CASE mcpu = N
      <4>1. \A c \in Cores : c < mcpu \/ c = mcpu
        BY <3>2, RegulatorAssumption DEF Cores
      <4>2. QED
        BY <2>2, <3>1, <3>2, <4>1 DEF Boot, ForEachCore
    <3>3. CASE mcpu # N
      <4>1. \A c \in Cores : c < mcpu + 1 => c < mcpu \/ c = mcpu
        BY <2>1, RegulatorAssumption DEF Cores
      <4>2. QED
        BY <2>2, <3>1, <3>3, <4>1 DEF Boot, ForEachCore
    <3>4. QED
      BY <3>2, <3>3
  <2>3. CASE WaitStart \/ WaitResume \/ Started \/ Loop \/ Resumed \/ Serve
             \/ Estimate \/ Nap
    BY <2>3 DEF WaitStart, WaitResume, MasterWaits, Started, Loop, Resumed, Serve,
       Estimate, Nap, MasterGoes, threads
  <2>4. CASE Release \/ EstimateNegative \/ Replenish \/ Restart
    BY <2>4 DEF Release, EstimateNegative, Replenish, Restart, ForEachCore,
       MasterGoes, ServeNext
  <2>5. ASSUME NEW w \in Writers, WriteBegins(w) \/ WriteGoesOn(w) PROVE Inv'
    BY <2>5 DEF WriteBegins, WriteGoesOn, WriteSets, StartState, StartWake,
       StartEnable, StopState, StopDisable, master, threads
  <2>6. ASSUME NEW c \in Cores, HandlerThrottles(c) PROVE Inv'
    BY <2>1, <2>6 DEF HandlerThrottles, Put, master
  <2>7. ASSUME NEW c \in Cores,
               Overflow(c) \/ HandlerReclaims(c) \/ ThreadHolds(c) \/ ThreadLetsGo(c)
        PROVE  Inv'
    BY <2>7 DEF Overflow, HandlerReclaims, ThreadHolds, ThreadLetsGo, Throttle!Hold,
       Throttle!LetGo, master, threads
  <2>8. CASE CoreClears
    BY <2>8 DEF CoreClears, ExitGoes, MasterGone, Unloading, inside
  <2>9. CASE ExitBegins \/ MasterStopped \/ MasterWoken \/ MasterStopBit \/ MasterJoined
             \/ CoreRetires \/ CoreJoined \/ CoreFreed
    BY <2>9 DEF ExitBegins, MasterStopped, MasterWoken, MasterStopBit, MasterJoined,
       CoreRetires, CoreJoined, CoreFreed, Throttle!Retire, inside, threads, master
  <2>10. CASE UNCHANGED vars
    BY <2>10 DEF vars, master, threads
  <2>11. QED
    BY <2>2, <2>3, <2>4, <2>5, <2>6, <2>7, <2>8, <2>9, <2>10
       DEF Next, Master, Handler, ExitGoesOn
<1>3. QED
  BY <1>1, <1>2, Typing, MasterEnds, PTL DEF Spec
-----------------------------------------------------------------------------
(* Starts, stops and passes of the master in any order lose no restart of  *)
(* the counters, whatever the number of writers.                           *)
THEOREM RestartNotLost == Spec => []CountersReenabled
<1>1. Init => CountersReenabled
  BY DEF Init, CountersReenabled
<1>2. TypeOK /\ CountersReenabled /\ [Next]_vars => CountersReenabled'
  <2> SUFFICES ASSUME TypeOK, CountersReenabled, [Next]_vars
               PROVE  CountersReenabled'
    OBVIOUS
  <2> USE DEF CountersReenabled, BeingServed
  <2>1. /\ on \in [Cores -> BOOLEAN] /\ counting \in [Cores -> BOOLEAN]
        /\ skips \in [Cores -> 0..MaxSkips] /\ mcpu \in Cores
    BY DEF TypeOK
  <2>2. CASE Serve
    BY <2>1, <2>2 DEF Serve, MasterGoes, Put
  <2>3. CASE EstimateNegative
    <3>1. skips'[mcpu] > 0 /\ \A c \in Cores : c # mcpu => skips'[c] = skips[c]
      BY <2>1, <2>3 DEF EstimateNegative, Put
    <3>2. QED
      BY <2>3, <3>1 DEF EstimateNegative, events
  <2>4. CASE Estimate
    <3>1. \A c \in Cores : c # mcpu => skips'[c] = skips[c]
      BY <2>1, <2>4 DEF Estimate, Put
    <3>2. QED
      BY <2>4, <3>1 DEF Estimate, MasterGoes, events
  <2>5. CASE Restart
    <3>1. \A c \in Cores : counting'[c] = IF c = mcpu THEN on[c] ELSE counting[c]
      BY <2>1, <2>5 DEF Restart, Put
    <3>2. QED
      BY <2>5, <3>1 DEF Restart
  <2>6. CASE Replenish
    BY <2>6 DEF Replenish, MasterGoes, events
  <2>7. CASE Boot \/ Release \/ WaitStart \/ WaitResume
    BY <2>7 DEF Boot, Release, ForEachCore, WaitStart, WaitResume, MasterWaits,
       events
  <2>8. CASE Started \/ Loop \/ Resumed \/ Nap
    BY <2>8 DEF Started, Loop, Resumed, Nap, MasterGoes, events
  <2>9. ASSUME NEW w \in Writers, StartEnable(w) PROVE CountersReenabled'
    <3>1. wcpu[w] \in Cores
      BY DEF TypeOK
    <3>2. \A c \in Cores : c # wcpu[w] => on'[c] = on[c] /\ counting'[c] = counting[c]
      BY <2>1, <2>9 DEF StartEnable, Put
    <3>3. counting'[wcpu[w]] = (counting[wcpu[w]] \/ ~on[wcpu[w]])
      BY <2>1, <2>9, <3>1 DEF StartEnable, Put
    <3>4. QED
      BY <2>9, <3>1, <3>2, <3>3 DEF StartEnable, master
  <2>10. ASSUME NEW w \in Writers, StopDisable(w) PROVE CountersReenabled'
    <3>1. wcpu[w] \in Cores
      BY DEF TypeOK
    <3>2. \A c \in Cores : c # wcpu[w] => on'[c] = on[c] /\ counting'[c] = counting[c]
      BY <2>1, <2>10 DEF StopDisable, Put
    <3>3. on'[wcpu[w]] = FALSE
      BY <2>1, <2>10, <3>1 DEF StopDisable, Put
    <3>4. QED
      BY <2>10, <3>1, <3>2, <3>3 DEF StopDisable, master
  <2>11. ASSUME NEW w \in Writers,
                \/ WriteBegins(w) \/ WriteSets(w) \/ StartState(w) \/ StartWake(w)
                \/ StopState(w)
         PROVE  CountersReenabled'
    BY <2>11 DEF WriteBegins, WriteSets, StartState, StartWake, StopState,
       master, events
  <2>12. ASSUME NEW c \in Cores,
                Overflow(c) \/ Handler(c) \/ ThreadHolds(c) \/ ThreadLetsGo(c)
         PROVE  CountersReenabled'
    BY <2>12 DEF Overflow, Handler, HandlerReclaims, HandlerThrottles, ThreadHolds,
       ThreadLetsGo, master, events
  <2>13. CASE CoreFreed
    <3>1. xcpu \in Cores
      BY DEF TypeOK
    <3>2. \A c \in Cores : c # xcpu => on'[c] = on[c] /\ counting'[c] = counting[c]
      BY <2>1, <2>13 DEF CoreFreed, Put
    <3>3. on'[xcpu] = FALSE
      BY <2>1, <2>13, <3>1 DEF CoreFreed, Put
    <3>4. QED
      BY <2>13, <3>1, <3>2, <3>3 DEF CoreFreed, master
  <2>14. CASE ExitBegins \/ MasterStopped \/ MasterWoken \/ MasterStopBit
              \/ MasterJoined \/ CoreClears \/ CoreRetires \/ CoreJoined
    BY <2>14 DEF ExitBegins, MasterStopped, MasterWoken, MasterStopBit, MasterJoined,
       CoreClears, CoreRetires, CoreJoined, inside
  <2>15. CASE UNCHANGED vars
    BY <2>15 DEF vars, master, events
  <2>16. QED
    BY <2>2, <2>3, <2>4, <2>5, <2>6, <2>7, <2>8, <2>9, <2>10, <2>11, <2>12, <2>13,
       <2>14, <2>15 DEF Next, Master, WriteGoesOn, ExitGoesOn
<1>3. QED
  BY <1>1, <1>2, Typing, PTL DEF Spec
-----------------------------------------------------------------------------
(* The unload admits no writer after it has begun.                         *)
WritersOut == xpc # "loaded" => Quiet

(* debugfs_remove_recursive waits for the writes that have begun.          *)
LEMMA WritersEnd == Spec => []WritersOut
<1>1. Init => WritersOut
  BY DEF Init, WritersOut
<1>2. WritersOut /\ [Next]_vars => WritersOut'
  <2> SUFFICES ASSUME WritersOut, [Next]_vars PROVE WritersOut'
    OBVIOUS
  <2> USE DEF WritersOut, Quiet
  <2>1. CASE Master
    BY <2>1 DEF Master, Boot, WaitStart, WaitResume, MasterWaits, Started, Release,
       Loop, Resumed, Serve, EstimateNegative, Estimate, Replenish, Restart, Nap,
       outside, exit, writers
  <2>2. ASSUME NEW w \in Writers, WriteBegins(w) \/ WriteGoesOn(w) PROVE WritersOut'
    <3>1. xpc = "loaded" /\ xpc' = xpc
      BY <2>2 DEF WriteBegins, WriteGoesOn, WriteSets, StartState, StartWake,
         StartEnable, StopState, StopDisable, WriterGoes, WriterNextCore,
         exit
    <3>2. QED
      BY <3>1
  <2>3. ASSUME NEW c \in Cores,
               Overflow(c) \/ Handler(c) \/ ThreadHolds(c) \/ ThreadLetsGo(c)
        PROVE  WritersOut'
    BY <2>3 DEF Overflow, Handler, HandlerReclaims, HandlerThrottles, ThreadHolds,
       ThreadLetsGo, exit, writers
  <2>4. CASE ExitBegins \/ ExitGoesOn
    BY <2>4 DEF ExitBegins, ExitGoesOn, MasterStopped, MasterWoken, MasterStopBit,
       MasterJoined, CoreClears, CoreRetires, CoreJoined, CoreFreed, ExitGoes,
       inside, writers
  <2>5. CASE UNCHANGED vars
    BY <2>5 DEF vars, writers, exit
  <2>6. QED
    BY <2>1, <2>2, <2>3, <2>4, <2>5 DEF Next
<1>3. QED
  BY <1>1, <1>2, PTL DEF Spec

(* The cores the unload has finished with, and how far it is with the one  *)
(* it is at.                                                               *)
Finished(c) == xpc = "done" \/ (xpc \in Unloading /\ c < xcpu)

Dismantled ==
  /\ \A c \in Cores :
       Finished(c) => retired[c] /\ ~held[c] /\ ~on[c] /\ ~counting[c]
  /\ xpc \notin Unloading \/ xpc = "done" => xcpu = 1
  /\ xpc \in {"joincore", "reclear", "free"} => retired[xcpu]
  /\ xpc \in {"reclear", "free"} => ~held[xcpu]

(* However the overflows of the remaining cores and the threads go on      *)
(* during the unload, a core it has finished with stays let go and off.    *)
THEOREM UnloadsClean == Spec => []UnloadedClean
<1>1. Init => Dismantled
  BY RegulatorAssumption DEF Init, Dismantled, Finished, Unloading
<1>2. TypeOK /\ MasterGone /\ WritersOut /\ Dismantled /\ [Next]_vars => Dismantled'
  <2> SUFFICES ASSUME TypeOK, MasterGone, WritersOut, Dismantled, [Next]_vars
               PROVE  Dismantled'
    OBVIOUS
  <2> USE DEF Dismantled, Finished, Unloading
  <2>1. /\ on \in [Cores -> BOOLEAN] /\ counting \in [Cores -> BOOLEAN]
        /\ held \in [Cores -> BOOLEAN] /\ retired \in [Cores -> BOOLEAN]
        /\ xcpu \in Cores /\ \A c \in Cores : ~(c < 1)
    BY DEF Cores, TypeOK, Throttle!TypeOK
  <2>2. CASE Master
    <3>1. CASE mpc = "exited"
      BY <2>2, <3>1 DEF Master, Boot, WaitStart, WaitResume, MasterWaits, Started,
         Release, Loop, Resumed, Serve, EstimateNegative, Estimate, Replenish,
         Restart, Nap, ForEachCore, MasterGoes, ServeNext
    <3>2. CASE mpc # "exited"
      <4>1. xpc \notin Unloading /\ xpc' = xpc /\ xcpu' = xcpu
        BY <2>2, <3>2 DEF MasterGone, Master, Boot, WaitStart, WaitResume, MasterWaits,
           Started, Release, Loop, Resumed, Serve, EstimateNegative, Estimate,
           Replenish, Restart, Nap, outside, exit
      <4>2. QED
        BY <4>1
    <3>3. QED
      BY <3>1, <3>2
  <2>3. ASSUME NEW w \in Writers, WriteBegins(w) \/ WriteGoesOn(w) PROVE Dismantled'
    <3>1. xpc = "loaded" /\ xpc' = xpc /\ xcpu' = xcpu
      BY <2>3 DEF WritersOut, Quiet, WriteBegins, WriteGoesOn, WriteSets, StartState,
         StartWake, StartEnable, StopState, StopDisable, WriterGoes,
         WriterNextCore, exit
    <3>2. QED
      BY <3>1
  <2>4. ASSUME NEW c \in Cores, ThreadHolds(c) PROVE Dismantled'
    <3>1. ~retired[c] /\ \A d \in Cores : d # c => held'[d] = held[d]
      BY <2>1, <2>4 DEF ThreadHolds, Throttle!Hold
    <3>2. QED
      BY <2>4, <3>1 DEF ThreadHolds, Throttle!Hold, exit, events
  <2>5. ASSUME NEW c \in Cores, ThreadLetsGo(c) PROVE Dismantled'
    <3>1. \A d \in Cores : held'[d] => held[d]
      BY <2>1, <2>5 DEF ThreadLetsGo, Throttle!LetGo
    <3>2. QED
      BY <2>1, <2>5, <3>1 DEF ThreadLetsGo, Throttle!LetGo, exit, events
  <2>6. ASSUME NEW c \in Cores, Overflow(c) \/ Handler(c) PROVE Dismantled'
    BY <2>6 DEF Overflow, Handler, HandlerReclaims, HandlerThrottles, exit, events,
       threads
  <2>7. CASE ExitBegins \/ MasterStopped \/ MasterWoken \/ MasterStopBit
    BY <2>7 DEF ExitBegins, MasterStopped, MasterWoken, MasterStopBit, ExitGoes
  <2>8. CASE MasterJoined \/ CoreClears \/ CoreJoined
    BY <2>1, <2>8 DEF MasterJoined, CoreClears, CoreJoined, ExitGoes, inside, threads
  <2>9. CASE CoreRetires
    <3>1. retired'[xcpu] /\ \A d \in Cores : retired[d] => retired'[d]
      BY <2>1, <2>9 DEF CoreRetires, Throttle!Retire
    <3>2. QED
      BY <2>9, <3>1 DEF CoreRetires, Throttle!Retire, ExitGoes, inside
  <2>10. CASE CoreFreed
    <3>1. /\ ~on'[xcpu] /\ ~counting'[xcpu]
          /\ \A d \in Cores : d # xcpu => on'[d] = on[d] /\ counting'[d] = counting[d]
      BY <2>1, <2>10 DEF CoreFreed, Put
    <3>2. \A d \in Cores : d < xcpu \/ d = xcpu
            => retired'[d] /\ ~held'[d] /\ ~on'[d] /\ ~counting'[d]
      BY <2>10, <3>1 DEF CoreFreed, threads
    <3>3. CASE xcpu = N
      <4>1. \A d \in Cores : d < xcpu \/ d = xcpu
        BY <3>3, RegulatorAssumption DEF Cores
      <4>2. QED
        BY <2>10, <3>2, <3>3, <4>1 DEF CoreFreed
    <3>4. CASE xcpu # N
      <4>1. \A d \in Cores : d < xcpu + 1 => d < xcpu \/ d = xcpu
        BY <2>1, RegulatorAssumption DEF Cores
      <4>2. QED
        BY <2>10, <3>2, <3>4, <4>1 DEF CoreFreed
    <3>5. QED
      BY <3>3, <3>4
  <2>11. CASE UNCHANGED vars
    BY <2>11 DEF vars, exit, events, threads
  <2>12. QED
    BY <2>2, <2>3, <2>4, <2>5, <2>6, <2>7, <2>8, <2>9, <2>10, <2>11
       DEF Next, ExitGoesOn
<1>3. Dismantled => UnloadedClean
  BY DEF Dismantled, Finished, UnloadedClean
<1>4. QED
  BY <1>1, <1>2, <1>3, Typing, MasterEnds, WritersEnd, PTL DEF Spec
-----------------------------------------------------------------------------
(* The safety core of StartTakesEffect and UnloadEnds: whatever number of  *)
(* writers start and stop regulation while the master goes to sleep, the   *)
(* one that made the condition of its wait true still has to wake it.      *)
THEOREM NoLostWakeUp == Spec => []MasterNotForgotten
<1>1. Init => MasterNotForgotten
  BY DEF Init, MasterNotForgotten
<1>2. TypeOK /\ MasterNotForgotten /\ [Next]_vars => MasterNotForgotten'
  <2> SUFFICES ASSUME TypeOK, MasterNotForgotten, [Next]_vars
               PROVE  MasterNotForgotten'
    OBVIOUS
  <2> USE DEF MasterNotForgotten
  <2>1. wpc \in [Writers -> WriterLabels]
    BY DEF TypeOK
  <2>2. CASE WaitStart \/ WaitResume
    BY <2>2 DEF WaitStart, WaitResume, MasterWaits, outside, writers, exit
  <2>3. CASE Boot \/ Started \/ Release \/ Loop \/ Resumed \/ Serve \/ EstimateNegative
             \/ Estimate \/ Replenish \/ Restart \/ Nap
    BY <2>3 DEF Boot, Started, Release, Loop, Resumed, Serve, EstimateNegative,
       Estimate, Replenish, Restart, Nap, outside, writers, exit
  <2>4. ASSUME NEW w \in Writers, StartState(w) PROVE MasterNotForgotten'
    <3>1. wpc'[w] = "wake"
      BY <2>1, <2>4 DEF StartState, WriterGoes, Put
    <3>2. QED
      BY <2>4, <3>1 DEF StartState, master, exit
  <2>5. CASE \E w \in Writers : StartWake(w)
    BY <2>5 DEF StartWake
  <2>6. CASE \E w \in Writers : StopState(w)
    BY <2>6 DEF StopState, master, exit
  <2>7. ASSUME NEW w \in Writers,
               WriteBegins(w) \/ WriteSets(w) \/ StartEnable(w) \/ StopDisable(w)
        PROVE  MasterNotForgotten'
    <3>1. UNCHANGED <<state, asleep, mstop, xpc>>
      BY <2>7 DEF WriteBegins, WriteSets, StartEnable, StopDisable, master, exit
    <3>2. \A v \in Writers : wpc[v] = "wake" => wpc'[v] = "wake"
      BY <2>1, <2>7 DEF WriteBegins, WriteSets, StartEnable, StopDisable, WriterNextCore,
         WriterGoes, Put
    <3>3. QED
      BY <3>1, <3>2
  <2>8. CASE \E c \in Cores : \/ Overflow(c) \/ Handler(c)
                             \/ ThreadHolds(c) \/ ThreadLetsGo(c)
    BY <2>8 DEF Overflow, Handler, HandlerReclaims, HandlerThrottles, ThreadHolds,
       ThreadLetsGo, master, writers, exit
  <2>9. CASE MasterStopped \/ MasterWoken \/ MasterStopBit
    BY <2>9 DEF MasterStopped, MasterWoken, MasterStopBit, ExitGoes, inside, writers
  <2>10. CASE ExitBegins \/ MasterJoined \/ CoreClears \/ CoreRetires \/ CoreJoined
              \/ CoreFreed
    BY <2>10 DEF ExitBegins, MasterJoined, CoreClears, CoreRetires, CoreJoined,
       CoreFreed, ExitGoes, inside, writers, master
  <2>11. CASE UNCHANGED vars
    BY <2>11 DEF vars, master, writers, exit
  <2>12. QED
    BY <2>2, <2>3, <2>4, <2>5, <2>6, <2>7, <2>8, <2>9, <2>10, <2>11
       DEF Next, Master, WriteGoesOn, ExitGoesOn
<1>3. QED
  BY <1>1, <1>2, Typing, PTL DEF Spec
-----------------------------------------------------------------------------
(* What the only writer w has done so far to the setting, to the state of  *)
(* the master and to the events of the cores.                              *)
Settled(w) == (enable <=> state = "RUNNING") /\ \A c \in Cores : on[c] <=> enable

Progress(w) ==
  CASE wpc[w] = "idle"    -> wcpu[w] = 1 /\ Settled(w)
    [] wpc[w] = "set"     -> wcpu[w] = 1 /\ Settled(w) /\ enable # wval[w]
    [] wpc[w] = "start"   -> /\ wcpu[w] = 1 /\ enable
                             /\ \A c \in Cores : ~on[c]
    [] wpc[w] = "wake"    -> /\ wcpu[w] = 1 /\ enable /\ state = "RUNNING"
                             /\ \A c \in Cores : ~on[c]
    [] wpc[w] = "enable"  -> /\ enable /\ state = "RUNNING"
                             /\ \A c \in Cores : on[c] <=> c < wcpu[w]
    [] wpc[w] = "stop"    -> /\ wcpu[w] = 1 /\ ~enable
                             /\ \A c \in Cores : on[c]
    [] wpc[w] = "disable" -> /\ ~enable /\ state # "RUNNING"
                             /\ \A c \in Cores : on[c] <=> ~(c < wcpu[w])

InProgress == xpc = "loaded" => \A w \in Writers : Progress(w)

(* A single writer leaves the setting, the master and the events of all    *)
(* cores in agreement, whatever the master and the handlers do meanwhile.  *)
(* It is the absence of a second writer that makes the unlocked test and   *)
(* set of ar_debugfs.c:131-136 right.                                      *)
THEOREM CoherentForOneWriter ==
  ASSUME Writers # {}, \A v, w \in Writers : v = w
  PROVE  Spec => []Coherent
<1>1. Init => InProgress
  BY DEF Init, InProgress, Progress, Settled
<1>2. TypeOK /\ WritersOut /\ InProgress /\ [Next]_vars => InProgress'
  <2> SUFFICES ASSUME TypeOK, WritersOut, InProgress, [Next]_vars PROVE InProgress'
    OBVIOUS
  <2>1. SUFFICES ASSUME NEW w \in Writers, xpc' = "loaded" PROVE Progress(w)'
    BY DEF InProgress
  <2>2. /\ on \in [Cores -> BOOLEAN] /\ enable \in BOOLEAN
        /\ wpc \in [Writers -> WriterLabels] /\ wval \in [Writers -> BOOLEAN]
        /\ wcpu \in [Writers -> Cores] /\ wcpu[w] \in Cores
        /\ \A c \in Cores : ~(c < 1)
    BY DEF TypeOK, Cores
  <2>3. xpc = "loaded" /\ Progress(w)
    BY <2>1 DEF InProgress, WritersOut, Next, Master, Boot, WaitStart, WaitResume,
       MasterWaits, Started, Release, Loop, Resumed, Serve, EstimateNegative, Estimate,
       Replenish, Restart, Nap, WriteBegins, WriteGoesOn, WriteSets, StartState,
       StartWake, StartEnable, StopState, StopDisable, Overflow, Handler,
       HandlerReclaims, HandlerThrottles, ThreadHolds, ThreadLetsGo, ExitBegins,
       ExitGoesOn, MasterStopped, MasterWoken, MasterStopBit, MasterJoined, CoreClears,
       CoreRetires, CoreJoined, CoreFreed, ExitGoes, outside, exit, vars
  <2>4. CASE WriteBegins(w)
    BY <2>2, <2>3, <2>4 DEF WriteBegins, WriterGoes, Put, Progress, Settled, events
  <2>5. CASE WriteSets(w)
    <3>1. enable' # enable /\ enable' = wval[w]
      BY <2>2, <2>3, <2>5 DEF WriteSets, WriterGoes, Progress
    <3>2. CASE wval[w] = TRUE
      BY <2>2, <2>3, <2>5, <3>1, <3>2 DEF WriteSets, WriterGoes, Put, Progress,
         Settled, events
    <3>3. CASE wval[w] = FALSE
      BY <2>2, <2>3, <2>5, <3>1, <3>3 DEF WriteSets, WriterGoes, Put, Progress,
         Settled, events
    <3>4. QED
      BY <2>2, <3>2, <3>3
  <2>6. CASE StartState(w)
    BY <2>2, <2>3, <2>6 DEF StartState, WriterGoes, Put, Progress, events
  <2>7. CASE StartWake(w)
    BY <2>2, <2>3, <2>7 DEF StartWake, WriterGoes, Put, Progress, events
  <2>8. CASE StopState(w)
    BY <2>2, <2>3, <2>8 DEF StopState, WriterGoes, Put, Progress, events
  <2>9. CASE StartEnable(w)
    <3>1. /\ on'[wcpu[w]]
          /\ \A d \in Cores : d # wcpu[w] => on'[d] = on[d]
      BY <2>2, <2>9 DEF StartEnable, Put
    <3>2. enable /\ state = "RUNNING" /\ UNCHANGED <<enable, state>>
      BY <2>3, <2>9 DEF StartEnable, WriterNextCore, WriterGoes, Progress
    <3>3. \A d \in Cores : on[d] <=> d < wcpu[w]
      BY <2>3, <2>9 DEF StartEnable, WriterNextCore, WriterGoes, Progress
    <3>4. CASE wcpu[w] = N
      <4>1. wpc'[w] = "idle" /\ wcpu'[w] = 1
        BY <2>2, <2>9, <3>4 DEF StartEnable, WriterNextCore, WriterGoes, Put
      <4>2. \A d \in Cores : d # N => d < N
        BY RegulatorAssumption DEF Cores
      <4>3. \A d \in Cores : on'[d]
        BY <2>2, <3>1, <3>3, <3>4, <4>2
      <4>4. QED
        BY <3>2, <4>1, <4>3 DEF Progress, Settled
    <3>5. CASE wcpu[w] # N
      <4>1. wpc'[w] = "enable" /\ wcpu'[w] = wcpu[w] + 1
        BY <2>2, <2>9, <3>5 DEF StartEnable, WriterNextCore, WriterGoes, Put
      <4>2. \A d \in Cores : d < wcpu[w] + 1 <=> d < wcpu[w] \/ d = wcpu[w]
        BY <2>2, RegulatorAssumption DEF Cores
      <4>3. \A d \in Cores : on'[d] <=> d < wcpu'[w]
        BY <2>2, <3>1, <3>3, <4>1, <4>2
      <4>4. QED
        BY <3>2, <4>1, <4>3 DEF Progress
    <3>6. QED
      BY <3>4, <3>5
  <2>10. CASE StopDisable(w)
    <3>1. /\ ~on'[wcpu[w]]
          /\ \A d \in Cores : d # wcpu[w] => on'[d] = on[d]
      BY <2>2, <2>10 DEF StopDisable, Put
    <3>2. ~enable /\ state # "RUNNING" /\ UNCHANGED <<enable, state>>
      BY <2>3, <2>10 DEF StopDisable, WriterNextCore, WriterGoes, Progress
    <3>3. \A d \in Cores : on[d] <=> ~(d < wcpu[w])
      BY <2>3, <2>10 DEF StopDisable, WriterNextCore, WriterGoes, Progress
    <3>4. CASE wcpu[w] = N
      <4>1. wpc'[w] = "idle" /\ wcpu'[w] = 1
        BY <2>2, <2>10, <3>4 DEF StopDisable, WriterNextCore, WriterGoes, Put
      <4>2. \A d \in Cores : d # N => d < N
        BY RegulatorAssumption DEF Cores
      <4>3. \A d \in Cores : ~on'[d]
        BY <2>2, <3>1, <3>3, <3>4, <4>2
      <4>4. QED
        BY <3>2, <4>1, <4>3 DEF Progress, Settled
    <3>5. CASE wcpu[w] # N
      <4>1. wpc'[w] = "disable" /\ wcpu'[w] = wcpu[w] + 1
        BY <2>2, <2>10, <3>5 DEF StopDisable, WriterNextCore, WriterGoes, Put
      <4>2. \A d \in Cores : d < wcpu[w] + 1 <=> d < wcpu[w] \/ d = wcpu[w]
        BY <2>2, RegulatorAssumption DEF Cores
      <4>3. \A d \in Cores : on'[d] <=> ~(d < wcpu'[w])
        BY <2>2, <3>1, <3>3, <4>1, <4>2
      <4>4. QED
        BY <3>2, <4>1, <4>3 DEF Progress
    <3>6. QED
      BY <3>4, <3>5
  <2>11. CASE UNCHANGED <<enable, state, wpc, wval, wcpu, on>>
    BY <2>3, <2>11 DEF Progress, Settled
  <2>12. CASE UNCHANGED vars
    BY <2>11, <2>12 DEF vars, writers, events
  <2>13. CASE Master
    BY <2>11, <2>13 DEF Master, Boot, WaitStart, WaitResume, MasterWaits, Started,
       Release, Loop, Resumed, Serve, EstimateNegative, Estimate, Replenish, Restart,
       Nap, outside, writers, events
  <2>14. CASE \E c \in Cores : \/ Overflow(c) \/ Handler(c)
                              \/ ThreadHolds(c) \/ ThreadLetsGo(c)
    BY <2>11, <2>14 DEF Overflow, Handler, HandlerReclaims, HandlerThrottles,
       ThreadHolds, ThreadLetsGo, writers, events
  <2>15. ~ExitBegins /\ ~ExitGoesOn
    BY <2>1, <2>3 DEF ExitBegins, ExitGoesOn, MasterStopped, MasterWoken, MasterStopBit,
       MasterJoined, CoreClears, CoreRetires, CoreJoined, CoreFreed, ExitGoes
  <2>16. QED
    BY <2>4, <2>5, <2>6, <2>7, <2>8, <2>9, <2>10, <2>12, <2>13, <2>14, <2>15
       DEF Next, WriteGoesOn
<1>3. InProgress => Coherent
  BY DEF InProgress, Progress, Settled, Coherent, Quiet
<1>4. QED
  BY <1>1, <1>2, <1>3, Typing, WritersEnd, PTL DEF Spec
-----------------------------------------------------------------------------
(* Whatever the master, the handlers, the threads and the unload do to the *)
(* cores' flags is an order or a cancellation of ThrottleSpec, and no core *)
(* is held or let go otherwise: the two modules fit together.              *)
THEOREM ImplementsThrottleSpec == Spec => Throttle!Safety
<1>1. Init => Throttle!Init
  BY DEF Init
<1>2. TypeOK /\ [Next]_vars => [Throttle!Next]_(Throttle!vars)
  <2> SUFFICES ASSUME TypeOK, [Next]_vars PROVE Throttle!Next \/ UNCHANGED threads
    BY DEF threads, Throttle!vars
  <2>1. /\ flag \in [Cores -> BOOLEAN]
        /\ mcpu \in Cores /\ xcpu \in Cores
    BY DEF TypeOK, Throttle!TypeOK
  <2>2. CASE Boot
    <3>1. Throttle!Order(mcpu)
      BY <2>2 DEF Boot, Put, Throttle!Order
    <3>2. QED
      BY <2>1, <3>1 DEF Throttle!Next
  <2>3. CASE Release \/ Replenish
    <3>1. Throttle!Cancel(mcpu)
      BY <2>3 DEF Release, Replenish, Put, Throttle!Cancel
    <3>2. QED
      BY <2>1, <3>1 DEF Throttle!Next
  <2>4. CASE \E c \in Cores : HandlerThrottles(c)
    <3>1. PICK c \in Cores : Throttle!Order(c)
      BY <2>4 DEF HandlerThrottles, Put, Throttle!Order
    <3>2. QED
      BY <3>1 DEF Throttle!Next
  <2>5. CASE \E c \in Cores : ThreadHolds(c) \/ ThreadLetsGo(c)
    BY <2>5 DEF ThreadHolds, ThreadLetsGo, Throttle!Next
  <2>6. CASE CoreClears
    <3>1. Throttle!Cancel(xcpu)
      BY <2>6 DEF CoreClears, Put, Throttle!Cancel
    <3>2. QED
      BY <2>1, <3>1 DEF Throttle!Next
  <2>7. CASE CoreRetires
    BY <2>1, <2>7 DEF CoreRetires, Throttle!Next
  <2>8. CASE WaitStart \/ Started \/ Loop \/ WaitResume \/ Resumed \/ Serve
             \/ EstimateNegative \/ Estimate \/ Restart \/ Nap
    BY <2>8 DEF WaitStart, WaitResume, MasterWaits, Started, Loop, Resumed, Serve,
       EstimateNegative, Estimate, Restart, Nap
  <2>9. CASE \E w \in Writers : WriteBegins(w) \/ WriteGoesOn(w)
    BY <2>9 DEF WriteBegins, WriteGoesOn, WriteSets, StartState, StartWake,
       StartEnable, StopState, StopDisable
  <2>10. CASE \E c \in Cores : Overflow(c) \/ HandlerReclaims(c)
    BY <2>10 DEF Overflow, HandlerReclaims
  <2>11. CASE ExitBegins \/ MasterStopped \/ MasterWoken \/ MasterStopBit
              \/ MasterJoined \/ CoreJoined \/ CoreFreed
    BY <2>11 DEF ExitBegins, MasterStopped, MasterWoken, MasterStopBit, MasterJoined,
       CoreJoined, CoreFreed
  <2>12. CASE UNCHANGED vars
    BY <2>12 DEF vars
  <2>13. QED
    BY <2>2, <2>3, <2>4, <2>5, <2>6, <2>7, <2>8, <2>9, <2>10, <2>11, <2>12
       DEF Next, Master, Handler, ExitGoesOn
<1>3. QED
  BY <1>1, <1>2, Typing, PTL DEF Spec, Throttle!Safety
-----------------------------------------------------------------------------
(* A negative estimate is the only thing that leaves a core without its    *)
(* counters at the end of a pass: as long as no core has had one since its *)
(* last allocation, every core with events enabled is served.              *)
THEOREM UnservedBySkipOnly == Spec => []((\A c \in Cores : skips[c] = 0) => EveryCoreServed)
<1>1. CountersReenabled => ((\A c \in Cores : skips[c] = 0) => EveryCoreServed)
  BY DEF CountersReenabled, BeingServed, EveryCoreServed
<1>2. QED
  BY <1>1, RestartNotLost, PTL
=============================================================================

--------------------------- MODULE ThrottlerProofs ---------------------------
(***************************************************************************)
(* Theorems about the throttle mechanism, for any set of cores and with or *)
(* without MWAIT: its types, that no throttle order and no release is      *)
(* lost, and that it implements the safety part of ThrottleSpec.           *)
(***************************************************************************)
EXTENDS Throttler, TLAPS

(* Every step of a thread, an interrupt, the master or the unload keeps    *)
(* the types.                                                              *)
LEMMA TypesKept ==
  ASSUME TypeOK, [Next]_vars PROVE TypeOK'
<1> USE DEF TypeOK, ThreadLabels
<1>1. ASSUME NEW c \in Cores, Thread(c) PROVE TypeOK'
  <2> USE DEF Goto, At, others
  <2>1. CASE LoopTop(c)
    BY <2>1 DEF LoopTop
  <2>2. CASE WaitTest(c)
    BY <2>2 DEF WaitTest
  <2>3. CASE WaitPrepare(c)
    BY <2>3 DEF WaitPrepare
  <2>4. CASE WaitRecheck(c)
    <3>1. CASE Wanted(c)
      BY <2>4, <3>1 DEF WaitRecheck, WakeThread
    <3>2. CASE ~Wanted(c)
      BY <2>4, <3>2 DEF WaitRecheck
    <3>3. QED
      BY <3>1, <3>2
  <2>5. CASE WaitResume(c)
    BY <2>5 DEF WaitResume
  <2>6. CASE Enter(c)
    BY <2>6 DEF Enter, Body
  <2>7. CASE Monitor(c)
    BY <2>7 DEF Monitor
  <2>8. CASE Verify(c)
    BY <2>8 DEF Verify
  <2>9. CASE Mwait(c)
    BY <2>9 DEF Mwait
  <2>10. CASE MwaitReturn(c)
    BY <2>10 DEF MwaitReturn
  <2>11. CASE Again(c)
    BY <2>11 DEF Again, Body
  <2>12. QED
    BY <1>1, <2>1, <2>2, <2>3, <2>4, <2>5, <2>6, <2>7, <2>8, <2>9, <2>10,
       <2>11 DEF Thread
<1>2. ASSUME NEW c \in Cores, Tick(c) \/ Overflow(c) \/ Irq(c) PROVE TypeOK'
  <2>1. CASE Tick(c)
    BY <2>1 DEF Tick, Interrupted, others
  <2>2. CASE Overflow(c)
    BY <2>2 DEF Overflow
  <2>3. CASE HandlerReclaims(c)
    BY <2>3 DEF HandlerReclaims, Interrupted
  <2>4. CASE HandlerThrottles(c)
    BY <2>4 DEF HandlerThrottles, Interrupted, StoreFlag
  <2>5. CASE HandlerWakes(c)
    BY <2>5 DEF HandlerWakes, WakeThread
  <2>6. QED
    BY <1>2, <2>1, <2>2, <2>3, <2>4, <2>5 DEF Irq
<1>3. ASSUME NEW c \in Cores, Master(c) PROVE TypeOK'
  <2>1. CASE ThrottleReads(c)
    BY <2>1 DEF ThrottleReads, Call
  <2>2. CASE ThrottleSets(c)
    BY <2>2 DEF ThrottleSets, Call, StoreFlag
  <2>3. CASE ThrottleWakes(c)
    BY <2>3 DEF ThrottleWakes, Call, WakeThread
  <2>4. CASE Unthrottle(c)
    BY <2>4 DEF Unthrottle, Call, StoreFlag
  <2>5. QED
    BY <1>3, <2>1, <2>2, <2>3, <2>4 DEF Master
<1>4. ASSUME NEW c \in Cores, DeinitClears(c) \/ DeinitGoesOn(c) PROVE TypeOK'
  <2>1. CASE DeinitClears(c)
    BY <2>1 DEF DeinitClears, Deinit, StoreFlag
  <2>2. CASE DeinitWakes(c)
    BY <2>2 DEF DeinitWakes, Deinit, WakeThread
  <2>3. CASE KthreadStop(c)
    BY <2>3 DEF KthreadStop, Deinit
  <2>4. CASE KthreadKick(c)
    BY <2>4 DEF KthreadKick, Deinit, WakeThread
  <2>5. CASE KthreadJoin(c)
    BY <2>5 DEF KthreadJoin, Deinit
  <2>6. CASE DeinitClearsAgain(c)
    BY <2>6 DEF DeinitClearsAgain, Deinit, StoreFlag
  <2>7. CASE DeinitReleases(c)
    BY <2>7 DEF DeinitReleases, Deinit
  <2>8. QED
    BY <1>4, <2>1, <2>2, <2>3, <2>4, <2>5, <2>6, <2>7 DEF DeinitGoesOn
<1>5. CASE UNCHANGED vars
  BY <1>5 DEF vars
<1>6. QED
  BY <1>1, <1>2, <1>3, <1>4, <1>5 DEF Next

(* Every variable keeps its type.                                          *)
THEOREM Typing == Spec => []TypeOK
<1>1. Init => TypeOK
  BY DEF Init, TypeOK, ThreadLabels
<1>2. TypeOK /\ [Next]_vars => TypeOK'
  BY TypesKept
<1>3. QED
  BY <1>1, <1>2, PTL DEF Spec
-----------------------------------------------------------------------------
(* No step leaves a wanted thread asleep without a wake-up to come.        *)
LEMMA ThrottleKept ==
  ASSUME TypeOK, NoMissedThrottle, [Next]_vars PROVE NoMissedThrottle'
<1> USE DEF TypeOK, NoMissedThrottle, Wanted, WakerComing
<1>1. ASSUME NEW c \in Cores, Thread(c) PROVE NoMissedThrottle'
  <2>1. CASE WaitRecheck(c)
    BY <2>1 DEF WaitRecheck, At, Goto, WakeThread, others
  <2>2. CASE WaitPrepare(c)
    BY <2>2 DEF WaitPrepare, At, Goto, others
  <2>3. CASE LoopTop(c) \/ WaitTest(c) \/ WaitResume(c) \/ Enter(c)
             \/ Monitor(c) \/ Verify(c) \/ Mwait(c) \/ MwaitReturn(c) \/ Again(c)
    BY <2>3 DEF LoopTop, WaitTest, WaitResume, Enter, Monitor, Verify, Mwait,
       MwaitReturn, Again, At, Goto, Body, others
  <2>4. QED
    BY <1>1, <2>1, <2>2, <2>3 DEF Thread
<1>2. ASSUME NEW c \in Cores, Tick(c) \/ Overflow(c) \/ Irq(c)
      PROVE NoMissedThrottle'
  BY <1>2 DEF Tick, At, Overflow, Irq, HandlerReclaims, HandlerThrottles,
     HandlerWakes, Interrupted, StoreFlag, WakeThread, others
<1>3. ASSUME NEW c \in Cores, Master(c) PROVE NoMissedThrottle'
  BY <1>3 DEF Master, ThrottleReads, ThrottleSets, ThrottleWakes, Unthrottle,
     Call, StoreFlag, WakeThread
<1>4. ASSUME NEW c \in Cores, DeinitClears(c) \/ DeinitGoesOn(c)
      PROVE NoMissedThrottle'
  BY <1>4 DEF DeinitClears, DeinitGoesOn, DeinitWakes, KthreadStop,
     KthreadKick, KthreadJoin, DeinitClearsAgain, DeinitReleases, Deinit,
     StoreFlag, WakeThread
<1>5. CASE UNCHANGED vars
  BY <1>5 DEF vars
<1>6. QED
  BY <1>1, <1>2, <1>3, <1>4, <1>5 DEF Next

(* A sleeping thread that is wanted is about to be woken: every store that *)
(* makes it wanted is followed by a wake-up of the same caller, and the    *)
(* thread tests the condition again after it has queued itself.            *)
THEOREM NoLostThrottle == Spec => []NoMissedThrottle
<1>1. Init => NoMissedThrottle
  BY DEF Init, NoMissedThrottle
<1>2. TypeOK /\ NoMissedThrottle /\ [Next]_vars => NoMissedThrottle'
  BY ThrottleKept
<1>3. QED
  BY <1>1, <1>2, Typing, PTL DEF Spec

(* No step halts a core on a store that has already happened.              *)
LEMMA ReleaseKept ==
  ASSUME TypeOK, NoMissedRelease, [Next]_vars PROVE NoMissedRelease'
<1> USE DEF TypeOK, NoMissedRelease
<1>1. ASSUME NEW c \in Cores, Thread(c) PROVE NoMissedRelease'
  BY <1>1 DEF Thread, LoopTop, WaitTest, WaitPrepare, WaitRecheck, WaitResume,
     Enter, Monitor, Verify, Mwait, MwaitReturn, Again, Keep, Goto, At, Body,
     others
<1>2. ASSUME NEW c \in Cores, Tick(c) \/ Overflow(c) \/ Irq(c)
      PROVE NoMissedRelease'
  BY <1>2 DEF Tick, Overflow, Irq, HandlerReclaims, HandlerThrottles,
     HandlerWakes, Interrupted, StoreFlag, others
<1>3. ASSUME NEW c \in Cores, Master(c) PROVE NoMissedRelease'
  BY <1>3 DEF Master, ThrottleReads, ThrottleSets, ThrottleWakes, Unthrottle,
     Call, StoreFlag
<1>4. ASSUME NEW c \in Cores, DeinitClears(c) \/ DeinitGoesOn(c)
      PROVE NoMissedRelease'
  BY <1>4 DEF DeinitClears, DeinitGoesOn, DeinitWakes, KthreadStop,
     KthreadKick, KthreadJoin, DeinitClearsAgain, DeinitReleases, Deinit,
     StoreFlag
<1>5. CASE UNCHANGED vars
  BY <1>5 DEF vars
<1>6. QED
  BY <1>1, <1>2, <1>3, <1>4, <1>5 DEF Next

(* A core that halts with its monitor armed is still ordered throttled:    *)
(* the recheck comes after MONITOR, and every store triggers the monitor.  *)
THEOREM NoLostRelease == Spec => []NoMissedRelease
<1>1. Init => NoMissedRelease
  BY DEF Init, NoMissedRelease
<1>2. TypeOK /\ NoMissedRelease /\ [Next]_vars => NoMissedRelease'
  BY ReleaseKept
<1>3. QED
  BY <1>1, <1>2, Typing, PTL DEF Spec
-----------------------------------------------------------------------------
(* Moving the thread of c changes held at c only.                          *)
LEMMA HeldAfterGoto ==
  ASSUME TypeOK, NEW c \in Cores, NEW label \in ThreadLabels, Goto(c, label)
  PROVE  held' = [held EXCEPT ![c] = label \in Holding]
BY DEF TypeOK, Goto, held

(* A core becomes held only at a step that reads a standing order, and is  *)
(* let go only at one that reads that the order is gone or its thread is   *)
(* to stop: every step is a step of ThrottleSpec or leaves it unchanged.   *)
THEOREM ImplementsThrottleSpec == Spec => Promise!Safety
<1>1. Init => Promise!Init
  <2> SUFFICES ASSUME Init PROVE Promise!Init
    OBVIOUS
  <2>1. \A c \in Cores : (tpc[c] \in Holding) = FALSE
    <3> SUFFICES ASSUME NEW c \in Cores PROVE (tpc[c] \in Holding) = FALSE
      OBVIOUS
    <3>1. tpc[c] \notin Holding
      BY DEF Init, Holding
    <3>2. QED
      BY <3>1
  <2>2. held = [c \in Cores |-> FALSE]
    BY <2>1, Zenon DEF held
  <2>3. QED
    BY <2>2 DEF Init, Promise!Init
<1>2. TypeOK /\ [Next]_vars => [Promise!Next]_(Promise!vars)
  <2> SUFFICES ASSUME TypeOK, [Next]_vars
               PROVE Promise!Next \/ UNCHANGED <<flag, held, stop>>
    BY DEF Promise!vars
  <2>1. ASSUME NEW c \in Cores, Thread(c)
        PROVE Promise!Next \/ UNCHANGED <<flag, held, stop>>
    <3>1. CASE LoopTop(c) \/ WaitTest(c) \/ WaitPrepare(c) \/ WaitRecheck(c)
               \/ WaitResume(c)
      BY <3>1 DEF LoopTop, WaitTest, WaitPrepare, WaitRecheck, WaitResume, At,
         Goto, TypeOK, held, Holding, others
    <3>2. CASE Enter(c)
      <4>1. CASE flag[c] /\ ~stop[c]
        <5>1. Goto(c, Body) /\ tpc[c] = "enter" /\ UNCHANGED <<flag, stop>>
          BY <3>2, <4>1 DEF Enter, At
        <5>2. Body \in Holding /\ Body \in ThreadLabels
          BY DEF Body, Holding, ThreadLabels
        <5>3. held' = [held EXCEPT ![c] = TRUE]
          BY <5>1, <5>2, HeldAfterGoto
        <5>4. ~held[c]
          BY <5>1 DEF held, Holding
        <5>5. Promise!Hold(c)
          BY <4>1, <5>1, <5>3, <5>4 DEF Promise!Hold
        <5>6. QED
          BY <5>5 DEF Promise!Next
      <4>2. CASE ~(flag[c] /\ ~stop[c])
        BY <3>2, <4>2 DEF Enter, At, Goto, TypeOK, held, Holding, others
      <4>3. QED
        BY <4>1, <4>2
    <3>3. CASE Monitor(c) \/ Verify(c) \/ Mwait(c) \/ MwaitReturn(c)
      BY <3>3 DEF Monitor, Verify, Mwait, MwaitReturn, At, Goto, TypeOK, held,
         Holding, others
    <3>4. CASE Again(c)
      <4>1. CASE Keep(c)
        <5>1. Goto(c, Body) /\ tpc[c] = "again" /\ UNCHANGED <<flag, stop>>
          BY <3>4, <4>1 DEF Again, At
        <5>2. Body \in Holding
          BY DEF Body, Holding
        <5>3. UNCHANGED held
          BY <5>1, <5>2 DEF Goto, TypeOK, held, Holding
        <5>4. QED
          BY <5>1, <5>3
      <4>2. CASE ~Keep(c)
        <5>1. Goto(c, "loop") /\ tpc[c] = "again" /\ UNCHANGED <<flag, stop>>
          BY <3>4, <4>2 DEF Again, At
        <5>2. held' = [held EXCEPT ![c] = FALSE]
          <6>1. "loop" \in ThreadLabels /\ "loop" \notin Holding
            BY DEF ThreadLabels, Holding
          <6>2. held' = [held EXCEPT ![c] = "loop" \in Holding]
            BY <5>1, <6>1, HeldAfterGoto
          <6>3. ("loop" \in Holding) = FALSE
            BY <6>1
          <6>4. QED
            BY <6>2, <6>3
        <5>3. held[c]
          BY <5>1 DEF held, Holding
        <5>4. Promise!LetGo(c)
          BY <4>2, <5>1, <5>2, <5>3 DEF Promise!LetGo, Keep, TypeOK
        <5>5. QED
          BY <5>4 DEF Promise!Next
      <4>3. QED
        BY <4>1, <4>2
    <3>5. QED
      BY <2>1, <3>1, <3>2, <3>3, <3>4 DEF Thread
  <2>2. ASSUME NEW c \in Cores, Tick(c) \/ Overflow(c) \/ Irq(c)
        PROVE Promise!Next \/ UNCHANGED <<flag, held, stop>>
    <3>1. CASE HandlerThrottles(c)
      <4>1. UNCHANGED held
        BY <3>1 DEF HandlerThrottles, Interrupted, TypeOK, held, Holding
      <4>2. Promise!Order(c)
        BY <3>1, <4>1 DEF HandlerThrottles, StoreFlag, Promise!Order
      <4>3. QED
        BY <4>2 DEF Promise!Next
    <3>2. CASE Tick(c) \/ Overflow(c) \/ HandlerReclaims(c) \/ HandlerWakes(c)
      BY <3>2 DEF Tick, Overflow, HandlerReclaims, HandlerWakes, Interrupted,
         TypeOK, held, Holding, others
    <3>3. QED
      BY <2>2, <3>1, <3>2 DEF Irq
  <2>3. ASSUME NEW c \in Cores, Master(c)
        PROVE Promise!Next \/ UNCHANGED <<flag, held, stop>>
    <3>1. UNCHANGED <<held, stop>>
      BY <2>3 DEF Master, ThrottleReads, ThrottleSets, ThrottleWakes,
         Unthrottle, Call, held
    <3>2. CASE ThrottleSets(c)
      BY <3>1, <3>2 DEF ThrottleSets, StoreFlag, Promise!Order, Promise!Next
    <3>3. CASE Unthrottle(c)
      BY <3>1, <3>3 DEF Unthrottle, StoreFlag, Promise!Cancel, Promise!Next
    <3>4. CASE ThrottleReads(c) \/ ThrottleWakes(c)
      BY <3>1, <3>4 DEF ThrottleReads, ThrottleWakes
    <3>5. QED
      BY <2>3, <3>2, <3>3, <3>4 DEF Master
  <2>4. ASSUME NEW c \in Cores, DeinitClears(c) \/ DeinitGoesOn(c)
        PROVE Promise!Next \/ UNCHANGED <<flag, held, stop>>
    <3>1. UNCHANGED held
      BY <2>4 DEF DeinitClears, DeinitGoesOn, DeinitWakes, KthreadStop,
         KthreadKick, KthreadJoin, DeinitClearsAgain, DeinitReleases, Deinit, held
    <3>2. CASE DeinitClears(c) \/ DeinitClearsAgain(c)
      BY <3>1, <3>2 DEF DeinitClears, DeinitClearsAgain, StoreFlag,
         Promise!Cancel, Promise!Next
    <3>3. CASE KthreadStop(c)
      <4>1. UNCHANGED flag /\ stop' = [stop EXCEPT ![c] = TRUE]
        BY <3>3 DEF KthreadStop
      <4>2. CASE stop[c]
        BY <3>1, <4>1, <4>2 DEF TypeOK
      <4>3. CASE ~stop[c]
        BY <3>1, <4>1, <4>3 DEF Promise!Retire, Promise!Next
      <4>4. QED
        BY <4>2, <4>3
    <3>4. CASE DeinitWakes(c) \/ KthreadKick(c) \/ KthreadJoin(c)
               \/ DeinitReleases(c)
      BY <3>1, <3>4 DEF DeinitWakes, KthreadKick, KthreadJoin, DeinitReleases
    <3>5. QED
      BY <2>4, <3>2, <3>3, <3>4 DEF DeinitGoesOn
  <2>5. CASE UNCHANGED vars
    BY <2>5 DEF vars, held
  <2>6. QED
    BY <2>1, <2>2, <2>3, <2>4, <2>5 DEF Next
<1>3. QED
  BY <1>1, <1>2, Typing, PTL DEF Spec, Promise!Safety
=============================================================================

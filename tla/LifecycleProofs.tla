---------------------------- MODULE LifecycleProofs ----------------------------
(***************************************************************************)
(* Theorems about loading and unloading, for any number of cores and of    *)
(* writers.                                                                *)
(***************************************************************************)
EXTENDS Lifecycle, TLAPS

(* The loops over the cores, upwards and downwards, stay within them.      *)
LEMMA CoresStep ==
  /\ 1 \in Cores /\ N \in Cores
  /\ \A c \in Cores : /\ c # N => c + 1 \in Cores
                      /\ c # 1 => c - 1 \in Cores
                      /\ c \in 0..N
  /\ 0 \in 0..N /\ 1 \in 0..N
  /\ \A k \in 0..N : k # 0 => k \in Cores
  /\ \A k \in 0..N : k # N => k + 1 \in 0..N
BY LifecycleAssumption DEF Cores

(* Every variable keeps its type; no loop runs past the cores.             *)
THEOREM Typing == Spec => []TypeOK
<1> USE DEF Put, Labels, SetupLabels, StandingLabels, TeardownLabels
<1>1. Init => TypeOK
  BY CoresStep DEF Init, TypeOK
<1>2. TypeOK /\ [Next]_vars => TypeOK'
  <2> SUFFICES ASSUME TypeOK, [Next]_vars PROVE TypeOK'
    OBVIOUS
  <2> USE DEF TypeOK, Goes, others, call, events, cores, master, quiet
  <2>1. CASE Load
    BY <2>1, CoresStep DEF Load
  <2>2. CASE RemoveFiles
    BY <2>2 DEF RemoveFiles
  <2>3. CASE CallGoesOn
    <3>1. CASE CreateRead
      BY <3>1 DEF CreateRead
    <3>2. CASE CreateWrite
      BY <3>2 DEF CreateWrite
    <3>3. CASE CreateFails \/ InitQueue
      BY <3>3 DEF CreateFails, InitQueue
    <3>4. CASE CreateThread
      BY <3>4, CoresStep DEF CreateThread
    <3>5. CASE StartMaster
      BY <3>5 DEF StartMaster
    <3>6. CASE ThreadFails \/ CreateFiles
      BY <3>6 DEF ThreadFails, CreateFiles
    <3>7. CASE Drained \/ StopMaster
      BY <3>7 DEF Drained, StopMaster
    <3>8. CASE MasterJoined
      BY <3>8, CoresStep DEF MasterJoined
    <3>9. CASE Retire
      BY <3>9 DEF Retire
    <3>10. CASE ThreadJoined
      BY <3>10 DEF ThreadJoined
    <3>11. CASE FreeRead
      BY <3>11 DEF FreeRead
    <3>12. CASE FreeWrite
      <4>1. cpu' \in Cores
        BY <3>12, CoresStep DEF FreeWrite, LastCore
      <4>2. QED
        BY <3>12, <4>1 DEF FreeWrite
    <3>13. QED
      BY <2>3, <3>1, <3>2, <3>3, <3>4, <3>5, <3>6, <3>7, <3>8, <3>9, <3>10, <3>11, <3>12
         DEF CallGoesOn
  <2>4. CASE Master
    BY <2>4, CoresStep DEF Master, MasterBegins, MasterBoots, MasterTurns, MasterPasses,
       MasterOverCores
  <2>5. ASSUME NEW c \in Cores, ThreadExits(c) PROVE TypeOK'
    BY <2>5 DEF ThreadExits
  <2>6. ASSUME NEW w \in Writers, WriteBegins(w) PROVE TypeOK'
    BY <2>6, CoresStep DEF WriteBegins
  <2>7. ASSUME NEW w \in Writers, WriteGoesOn(w) PROVE TypeOK'
    BY <2>7, CoresStep DEF WriteGoesOn
  <2>8. CASE UNCHANGED vars
    BY <2>8 DEF vars
  <2>9. QED
    BY <2>1, <2>2, <2>3, <2>4, <2>5, <2>6, <2>7, <2>8 DEF Next
<1>3. QED
  BY <1>1, <1>2, PTL DEF Spec
-----------------------------------------------------------------------------
(* What is set up follows from where the call is.                          *)

(* The core the call is at: how much of it is set up, step by step; and    *)
(* only ar_init rolls back.                                                *)
AtCore ==
  /\ pc \in SetupLabels =>
       /\ read[cpu] <=> pc # "read"
       /\ write[cpu] <=> pc \in {"queue", "thread"}
       /\ thread[cpu] = "none"
       /\ pc = "thread" => ready[cpu]
  /\ pc = "join" => thread[cpu] \in {"stopping", "exited"}
  /\ pc \in {"freeread", "freewrite"} => thread[cpu] = "none"
  /\ pc = "freewrite" => ~read[cpu]
  /\ pc = "retire" => thread[cpu] \in {"none", "running"}
  /\ pc \in SetupLabels \cup StandingLabels => ~rolling

(* The other cores: a set-up and a roll-back have complete cores below     *)
(* cpu and bare ones above, an unload the opposite.                        *)
OtherCores ==
  /\ pc = "unloaded" => \A c \in Cores : Bare(c)
  /\ pc \in StandingLabels => \A c \in Cores : Complete(c)
  /\ pc \in SetupLabels \/ (pc \in TeardownLabels /\ rolling) =>
       \A c \in Cores : (c < cpu => Complete(c)) /\ (c > cpu => Bare(c))
  /\ pc \in TeardownLabels /\ ~rolling =>
       \A c \in Cores : (c < cpu => Bare(c)) /\ (c > cpu => Complete(c))

(* The layers above the cores stand only on complete cores: the master     *)
(* between its creation and its join, the writes while files are in place  *)
(* or being drained.                                                       *)
Layers ==
  /\ mpc # "none" => pc \in {"files", "loaded", "drain", "stopmaster", "joinmaster"} /\ mready
  /\ pc \in {"files", "loaded", "drain", "stopmaster"} => mpc \notin {"none", "exited"} /\ ~mstop
  /\ pc = "joinmaster" => mpc # "none" /\ mstop
  /\ files => pc = "loaded"
  /\ \A w \in Writers : at[w] # 0 => pc \in {"loaded", "drain"}
  /\ pc \in SetupLabels \cup {"master"} => ~mstop

(* No thread outlives its wait queue's initialisation.                     *)
ThreadsReady == \A c \in Cores : thread[c] = "running" => ready[c]

Stages == TypeOK /\ AtCore /\ OtherCores /\ Layers /\ ThreadsReady

(* Steps of the threads and the writers leave the cores to the call.       *)
LEMMA CoresKept ==
  ASSUME Stages, UNCHANGED <<call, cores>>
  PROVE  AtCore' /\ OtherCores' /\ ThreadsReady'
BY DEF Stages, AtCore, OtherCores, ThreadsReady, Bare, Complete, call, cores

(* The stages are an inductive invariant.                                  *)
THEOREM StagesHold == Spec => []Stages
<1> USE DEF Put, Labels, SetupLabels, StandingLabels, TeardownLabels, Bare, Complete
<1>1. Init => Stages
  <2> SUFFICES ASSUME Init PROVE Stages
    OBVIOUS
  <2>1. TypeOK
    BY CoresStep DEF Init, TypeOK
  <2>2. QED
    BY <2>1 DEF Init, Stages, AtCore, OtherCores, Layers, ThreadsReady
<1>2. Stages /\ TypeOK' /\ [Next]_vars => Stages'
  <2> SUFFICES ASSUME Stages, TypeOK', [Next]_vars
               PROVE  AtCore' /\ OtherCores' /\ Layers' /\ ThreadsReady'
    BY DEF Stages
  <2>1. TypeOK /\ AtCore /\ OtherCores /\ Layers /\ ThreadsReady
    BY DEF Stages
  <2> USE DEF Goes, others, events, master
  <2>2. CASE Load
    BY <2>1, <2>2 DEF Load, TypeOK, AtCore, OtherCores, Layers, ThreadsReady, Cores
  <2>3. CASE RemoveFiles
    BY <2>1, <2>3 DEF RemoveFiles, TypeOK, AtCore, OtherCores, Layers, ThreadsReady, cores
  <2>4. CASE CallGoesOn
    <3> USE <2>1 DEF TypeOK, AtCore, OtherCores, Layers, ThreadsReady
    <3>1. CASE CreateRead
      BY <3>1 DEF CreateRead
    <3>2. CASE CreateWrite
      BY <3>2 DEF CreateWrite
    <3>3. CASE CreateFails
      BY <3>3 DEF CreateFails, cores
    <3>4. CASE InitQueue
      BY <3>4 DEF InitQueue
    <3>5. CASE CreateThread
      BY <3>5 DEF CreateThread, Cores
    <3>6. CASE StartMaster
      BY <3>6 DEF StartMaster, cores
    <3>7. CASE ThreadFails
      BY <3>7 DEF ThreadFails, cores
    <3>8. CASE CreateFiles
      BY <3>8 DEF CreateFiles, cores
    <3>9. CASE Drained
      BY <3>9 DEF Drained, cores
    <3>10. CASE StopMaster
      BY <3>10 DEF StopMaster, cores
    <3>11. CASE MasterJoined
      BY <3>11, CoresStep DEF MasterJoined, cores, Cores
    <3>12. CASE Retire
      BY <3>12 DEF Retire
    <3>13. CASE ThreadJoined
      BY <3>13 DEF ThreadJoined
    <3>14. CASE FreeRead
      BY <3>14 DEF FreeRead
    <3>15. CASE FreeWrite
      BY <3>15 DEF FreeWrite, LastCore, Cores
    <3>16. QED
      BY <2>4, <3>1, <3>2, <3>3, <3>4, <3>5, <3>6, <3>7, <3>8, <3>9, <3>10, <3>11,
         <3>12, <3>13, <3>14, <3>15 DEF CallGoesOn
  <2>5. CASE Master
    <3>1. UNCHANGED <<call, cores, mready, mstop, files, at>>
      BY <2>5 DEF Master, MasterBegins, MasterBoots, MasterTurns, MasterPasses,
         MasterOverCores, quiet
    <3>2. Layers'
      BY <2>1, <2>5, <3>1 DEF Layers, Master, MasterBegins, MasterBoots, MasterTurns,
         MasterPasses, MasterOverCores, call, TypeOK
    <3>3. QED
      BY <3>1, <3>2, CoresKept
  <2>6. ASSUME NEW c \in Cores, ThreadExits(c)
        PROVE AtCore' /\ OtherCores' /\ Layers' /\ ThreadsReady'
    BY <2>1, <2>6 DEF ThreadExits, TypeOK, AtCore, OtherCores, Layers, ThreadsReady, call
  <2>7. ASSUME NEW w \in Writers, WriteBegins(w) \/ WriteGoesOn(w)
        PROVE AtCore' /\ OtherCores' /\ Layers' /\ ThreadsReady'
    <3>1. UNCHANGED <<call, cores, mready, mstop, files, master>>
      BY <2>7 DEF WriteBegins, WriteGoesOn, quiet
    <3>2. Layers'
      BY <2>1, <2>7, <3>1 DEF Layers, WriteBegins, WriteGoesOn, call, TypeOK
    <3>3. QED
      BY <3>1, <3>2, CoresKept
  <2>8. CASE UNCHANGED vars
    <3>1. Layers'
      BY <2>1, <2>8 DEF Layers, vars, call
    <3>2. QED
      BY <2>8, <3>1, CoresKept DEF vars
  <2>9. QED
    BY <2>2, <2>3, <2>4, <2>5, <2>6, <2>7, <2>8 DEF Next
<1>3. QED
  BY <1>1, <1>2, Typing, PTL DEF Spec
-----------------------------------------------------------------------------
(* The pass of the master and the loops of start and stop never find an    *)
(* event of a core missing.                                                *)
THEOREM NoEventMissing == Spec => []EventsHeldInUse
<1>1. Stages => EventsHeldInUse
  BY CoresStep DEF Stages, TypeOK, Layers, OtherCores, EventsHeldInUse, Complete, StandingLabels
<1>2. QED
  BY <1>1, StagesHold, PTL

(* No wait queue is used before it is initialised.                         *)
THEOREM NoQueueMissing == Spec => []QueuesReadyInUse
<1>1. Stages => QueuesReadyInUse
  BY DEF Stages, TypeOK, Layers, OtherCores, ThreadsReady, QueuesReadyInUse, Complete,
     StandingLabels
<1>2. QED
  BY <1>1, StagesHold, PTL

(* A load sets up everything or leaves nothing, an unload leaves nothing.  *)
THEOREM LoadsAllOrNothing == Spec => []AllOrNothing
<1>1. Stages => AllOrNothing
  BY DEF Stages, TypeOK, Layers, OtherCores, AllOrNothing, StandingLabels, SetupLabels
<1>2. QED
  BY <1>1, StagesHold, PTL
-----------------------------------------------------------------------------
(* The two halves of CallsReturn that are safety: a wait of the call is for*)
(* something under way ...                                                 *)
THEOREM WaitsAreAnswered == Spec => []NoWaitInVain
<1>1. Stages => NoWaitInVain
  BY DEF Stages, AtCore, Layers, NoWaitInVain
<1>2. QED
  BY <1>1, StagesHold, PTL

(* The steps left, label by label.                                         *)
Setting(n)  == StepsLeft = 4 * N + 2 + 4 * (N - cpu) + n
Tearing(n)  == StepsLeft = 4 * (IF rolling THEN cpu - 1 ELSE N - cpu) + n

StepsTable ==
  /\ pc = "read" => Setting(4)
  /\ pc = "write" => Setting(3)
  /\ pc = "queue" => Setting(2)
  /\ pc = "thread" => Setting(1)
  /\ pc = "drain" => StepsLeft = 4 * N + 3
  /\ pc \in {"master", "stopmaster"} => StepsLeft = 4 * N + 2
  /\ pc \in {"files", "joinmaster"} => StepsLeft = 4 * N + 1
  /\ pc = "retire" => Tearing(4)
  /\ pc = "join" => Tearing(3)
  /\ pc = "freeread" => Tearing(2)
  /\ pc = "freewrite" => Tearing(1)
  /\ pc \in {"unloaded", "loaded", "bug"} => StepsLeft = 0

LEMMA StepsLeftAt == StepsTable
<1> USE DEF StepsTable, StepsLeft, SetupLabels, TeardownLabels, SetupSteps, TeardownSteps,
        Setting, Tearing
<1>1. CASE pc \in SetupLabels
  BY <1>1
<1>2. CASE pc \in TeardownLabels
  BY <1>2
<1>3. CASE pc \notin SetupLabels \cup TeardownLabels
  BY <1>3
<1>4. QED
  BY <1>1, <1>2, <1>3

(* ... and between its waits it comes to an end, for any number of cores.  *)
THEOREM CallsAdvance == Spec => CallAdvances
<1>1. Stages /\ TypeOK' /\ StepsTable /\ StepsTable' /\ [Next]_vars =>
        [pc \notin {"unloaded", "loaded"} /\ call' # call
           => StepsLeft' \in 0 .. StepsLeft - 1]_vars
  <2> SUFFICES ASSUME Stages, TypeOK', StepsTable, StepsTable', Next,
                      pc \notin {"unloaded", "loaded"}, call' # call
               PROVE  StepsLeft' \in 0 .. StepsLeft - 1
    OBVIOUS
  <2>1. /\ N \in Nat /\ cpu \in 1..N /\ cpu' \in 1..N /\ rolling \in BOOLEAN
        /\ pc \in SetupLabels \cup StandingLabels => ~rolling
    BY LifecycleAssumption DEF Stages, TypeOK, AtCore, Cores
  <2>2. CallGoesOn
    <3>1. ~Master /\ (\A c \in Cores : ~ThreadExits(c))
          /\ \A w \in Writers : ~WriteBegins(w) /\ ~WriteGoesOn(w)
      BY DEF Master, MasterBegins, MasterBoots, MasterTurns, MasterPasses,
         MasterOverCores, ThreadExits, WriteBegins, WriteGoesOn, quiet
    <3>2. QED
      BY <3>1 DEF Next, Load, RemoveFiles, Goes
  <2> USE DEF Goes, StepsTable, Setting, Tearing
  <2>3. CASE CreateRead
    BY <2>1, <2>3 DEF CreateRead
  <2>4. CASE CreateWrite
    BY <2>1, <2>4 DEF CreateWrite
  <2>5. CASE CreateFails
    BY <2>1, <2>5 DEF CreateFails
  <2>6. CASE InitQueue
    BY <2>1, <2>6 DEF InitQueue
  <2>7. CASE CreateThread
    BY <2>1, <2>7 DEF CreateThread
  <2>8. CASE StartMaster \/ CreateFiles
    BY <2>1, <2>8 DEF StartMaster, CreateFiles
  <2>9. CASE ThreadFails
    BY <2>1, <2>9 DEF ThreadFails
  <2>10. CASE Drained \/ StopMaster
    BY <2>1, <2>10 DEF Drained, StopMaster
  <2>11. CASE MasterJoined
    BY <2>1, <2>11 DEF MasterJoined, StandingLabels
  <2>12. CASE Retire
    BY <2>1, <2>12 DEF Retire
  <2>13. CASE ThreadJoined
    BY <2>1, <2>13 DEF ThreadJoined
  <2>14. CASE FreeRead
    BY <2>1, <2>14 DEF FreeRead
  <2>15. CASE FreeWrite
    BY <2>1, <2>15 DEF FreeWrite, LastCore
  <2>16. QED
    BY <2>2, <2>3, <2>4, <2>5, <2>6, <2>7, <2>8, <2>9, <2>10, <2>11, <2>12, <2>13,
       <2>14, <2>15 DEF CallGoesOn
<1>2. QED
  BY <1>1, StepsLeftAt, StagesHold, Typing, PTL DEF Spec, CallAdvances
=============================================================================

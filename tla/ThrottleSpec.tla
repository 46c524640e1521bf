---------------------------- MODULE ThrottleSpec ----------------------------
(***************************************************************************)
(* What the throttle mechanism of ar.c promises, seen from outside: a core *)
(* is held (its SCHED_FIFO throttler thread occupies it) only after an     *)
(* order to throttle it, it is let go only after the order was cancelled   *)
(* or its thread was asked to stop, and both follow eventually.            *)
(***************************************************************************)

CONSTANT Cores

VARIABLES order,    \* order[c]: cinfo->throttler_task, the throttle order for c
          held,     \* held[c]: the throttler thread keeps the core busy
          retired   \* retired[c]: the throttler thread has been asked to stop

vars == <<order, held, retired>>

TypeOK == /\ order   \in [Cores -> BOOLEAN]
          /\ held    \in [Cores -> BOOLEAN]
          /\ retired \in [Cores -> BOOLEAN]

Init == /\ order   = [c \in Cores |-> FALSE]
        /\ held    = [c \in Cores |-> FALSE]
        /\ retired = [c \in Cores |-> FALSE]

(* Anyone may order a core throttled, or cancel the order, at any time.    *)
Order(c)  == order' = [order EXCEPT ![c] = TRUE]  /\ UNCHANGED <<held, retired>>
Cancel(c) == order' = [order EXCEPT ![c] = FALSE] /\ UNCHANGED <<held, retired>>

(* The core becomes held only under a standing order.                      *)
Hold(c) == /\ order[c]
           /\ ~retired[c]
           /\ ~held[c]
           /\ held' = [held EXCEPT ![c] = TRUE]
           /\ UNCHANGED <<order, retired>>

(* The core is let go only without an order, or when its thread retires.   *)
LetGo(c) == /\ held[c]
            /\ ~order[c] \/ retired[c]
            /\ held' = [held EXCEPT ![c] = FALSE]
            /\ UNCHANGED <<order, retired>>

Retire(c) == /\ ~retired[c]
             /\ retired' = [retired EXCEPT ![c] = TRUE]
             /\ UNCHANGED <<order, held>>

Next == \E c \in Cores :
           Order(c) \/ Cancel(c) \/ Hold(c) \/ LetGo(c) \/ Retire(c)

(* A standing order is carried out, and a cancelled one is undone.         *)
Fairness == \A c \in Cores : /\ WF_vars(Hold(c))
                             /\ WF_vars(~order[c] /\ LetGo(c))

Safety == Init /\ [][Next]_vars
Spec   == Safety /\ Fairness
=============================================================================

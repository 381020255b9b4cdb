--------------------------- MODULE AutoResetEvent ---------------------------
(***************************************************************************)
(* What CEventSyncObject promises in EventSyncObject.h: an event that is   *)
(* initially nonsignalled, and an auto resetting one, so that each         *)
(* successful wait takes the signal.  A Signal comes for every thread that *)
(* is waiting at that moment: a thread it came for has to return true, and *)
(* only a thread for which none came may give up.                          *)
(***************************************************************************)
CONSTANT Thread

VARIABLES signalled,   \* the event is signalled
          waiting,     \* the threads inside Wait
          called       \* those of them for which a Signal came

vars == <<signalled, waiting, called>>

Init == signalled = FALSE /\ waiting = {} /\ called = {}

Signal == /\ signalled' = TRUE
          /\ called' = waiting
          /\ UNCHANGED waiting

Reset == signalled' = FALSE /\ UNCHANGED <<waiting, called>>

(* Wait starts; there is a signal to take, or the thread has to wait. *)
TakeAtOnce(t) == /\ t \notin waiting
                 /\ signalled
                 /\ signalled' = FALSE
                 /\ UNCHANGED <<waiting, called>>

Enter(t) == /\ t \notin waiting
            /\ ~signalled
            /\ waiting' = waiting \cup {t}
            /\ UNCHANGED <<signalled, called>>

(* Wait returns true, and no signal is left. *)
Take(t) == /\ t \in called
           /\ signalled' = FALSE
           /\ waiting' = waiting \ {t}
           /\ called' = called \ {t}

(* Wait returns false, and leaves the event as it finds it. *)
GiveUp(t) == /\ t \in waiting \ called
             /\ waiting' = waiting \ {t}
             /\ UNCHANGED <<signalled, called>>

Next == \/ Signal
        \/ Reset
        \/ \E t \in Thread : \/ TakeAtOnce(t)
                             \/ Enter(t)
                             \/ Take(t)
                             \/ GiveUp(t)

Spec == Init /\ [][Next]_vars
=============================================================================

------------------------------ MODULE EventSync ------------------------------
(***************************************************************************)
(* CEventSyncObject (EventSyncObject_unix.cpp): an event made of a flag, a *)
(* mutex and a condition variable.  Nothing inside a critical section      *)
(* blocks except pthread_cond_wait, which releases the mutex, so a section *)
(* is one action, and the section of a waiter that has to block is two:    *)
(* up to pthread_cond_wait, and from the moment it owns the mutex again.   *)
(* Between the two, any other thread may enter Signal, Reset or Wait.      *)
(***************************************************************************)
EXTENDS Naturals, FiniteSets

CONSTANTS
  Thread,     \* the threads that share the event
  Timed,      \* the threads whose Wait has a timeout (msecsWaitTime >= 0)
  Spurious    \* does pthread_cond_wait wake up without a broadcast?

ASSUME EventSyncAssumption ==
  /\ Timed \subseteq Thread
  /\ Spurious \in BOOLEAN

VARIABLES
  signalled,  \* m_bSignalled
  pc,         \* where each thread is in Wait; "idle" outside of it
  result      \* what the last Wait of each thread returned

vars == <<signalled, pc, result>>

Location == {"idle", "blocked", "woken", "timedout"}

(* Types; a wait ends in a timeout only if it has one. *)
TypeOK ==
  /\ signalled \in BOOLEAN
  /\ pc \in [Thread -> Location]
  /\ result \in [Thread -> {"none", "true", "false"}]
  /\ \A t \in Thread : (pc[t] = "timedout" \/ result[t] = "false") => t \in Timed

Init ==
  /\ signalled = FALSE
  /\ pc = [t \in Thread |-> "idle"]
  /\ result = [t \in Thread |-> "none"]

-----------------------------------------------------------------------------
(* Mistakes the properties are there to catch: Signal wakes one waiter,    *)
(* Wait tests the flag again in a loop (and with several waiters all but   *)
(* one sleep on), the sign of the timeout is taken the other way round.    *)
SignalWakesOne(t) ==
  /\ pc[t] = "idle"
  /\ signalled' = TRUE
  /\ \/ ~signalled /\ \E u \in Thread : pc[u] = "blocked" /\ pc' = [pc EXCEPT ![u] = "woken"]
     \/ (signalled \/ \A u \in Thread : pc[u] # "blocked") /\ UNCHANGED pc
  /\ UNCHANGED result

WaitLoops(t) ==
  /\ pc[t] \in {"woken", "timedout"}
  /\ signalled' = FALSE
  /\ IF signalled \/ pc[t] = "timedout"
     THEN /\ pc' = [pc EXCEPT ![t] = "idle"]
          /\ result' = [result EXCEPT ![t] = IF signalled THEN "true" ELSE "false"]
     ELSE pc' = [pc EXCEPT ![t] = "blocked"] /\ UNCHANGED result

TimeOutSign(t) ==
  /\ pc[t] = "blocked"
  /\ t \notin Timed
  /\ pc' = [pc EXCEPT ![t] = "timedout"]
  /\ UNCHANGED <<signalled, result>>

(* Signal(): the broadcast is sent only when the flag was down. *)
Signal(t) ==
  /\ pc[t] = "idle"
  /\ signalled' = TRUE
  /\ pc' = IF signalled THEN pc
           ELSE [u \in Thread |-> IF pc[u] = "blocked" THEN "woken" ELSE pc[u]]
  /\ UNCHANGED result

Reset(t) ==
  /\ pc[t] = "idle"
  /\ signalled' = FALSE
  /\ UNCHANGED <<pc, result>>

(* Wait() on a signalled event takes the signal without blocking. *)
WaitFast(t) ==
  /\ pc[t] = "idle"
  /\ signalled
  /\ signalled' = FALSE
  /\ result' = [result EXCEPT ![t] = "true"]
  /\ UNCHANGED pc

(* Wait() on a nonsignalled event releases the mutex and blocks. *)
WaitBlock(t) ==
  /\ pc[t] = "idle"
  /\ ~signalled
  /\ pc' = [pc EXCEPT ![t] = "blocked"]
  /\ UNCHANGED <<signalled, result>>

(* pthread_cond_timedwait stops waiting with ETIMEDOUT; the thread still   *)
(* has to get the mutex back.                                              *)
TimeOut(t) ==
  /\ pc[t] = "blocked"
  /\ t \in Timed
  /\ pc' = [pc EXCEPT ![t] = "timedout"]
  /\ UNCHANGED <<signalled, result>>

(* POSIX lets the wait return although nobody signalled the condition. *)
WakeSpuriously(t) ==
  /\ Spurious
  /\ pc[t] = "blocked"
  /\ pc' = [pc EXCEPT ![t] = "woken"]
  /\ UNCHANGED <<signalled, result>>

(* The thread owns the mutex again.  The flag is cleared and never looked  *)
(* at: neither a loop nor the return value depends on it.                  *)
WaitReturn(t) ==
  /\ pc[t] \in {"woken", "timedout"}
  /\ signalled' = FALSE
  /\ result' = [result EXCEPT ![t] = IF pc[t] = "timedout" THEN "false" ELSE "true"]
  /\ pc' = [pc EXCEPT ![t] = "idle"]

Next ==
  \E t \in Thread :
    \/ Signal(t)
    \/ Reset(t)
    \/ WaitFast(t)
    \/ WaitBlock(t)
    \/ TimeOut(t)
    \/ WakeSpuriously(t)
    \/ WaitReturn(t)

(* A thread that was woken or timed out gets the mutex in the end, and a   *)
(* timeout that was set expires in the end.  Nothing makes a thread call   *)
(* Signal.                                                                 *)
Fairness == \A t \in Thread : WF_vars(WaitReturn(t)) /\ WF_vars(TimeOut(t))

Spec == Init /\ [][Next]_vars

FairSpec == Spec /\ Fairness

-----------------------------------------------------------------------------
(* No wakeup is lost: no thread sleeps in pthread_cond_wait while the      *)
(* event is signalled.  Signal skips the broadcast when the flag is        *)
(* already up, so this is what makes that shortcut correct.                *)
NoLostWakeup == signalled => \A t \in Thread : pc[t] # "blocked"

(* If the event is signalled again and again, no waiter sleeps forever:    *)
(* every Signal wakes them all, and no thread takes it from another.       *)
NoWaiterStarves ==
  []<><<\E u \in Thread : Signal(u)>>_vars
    => \A t \in Thread : []<>(pc[t] = "idle")

(* A Wait with a timeout always returns. *)
TimedWaitReturns == \A t \in Timed : (pc[t] # "idle") ~> (pc[t] = "idle")

(* EventSyncObject.h on Wait: "return true if event is signalled, false on *)
(* timeout".  A Wait that blocked returns true exactly when the event is   *)
(* signalled at that moment: a spurious wakeup is no success, and a        *)
(* timeout does not swallow a Signal.                                      *)
WaitReportsEvent ==
  [][\A t \in Thread :
       WaitReturn(t) => (result'[t] = "true" <=> signalled)]_vars

-----------------------------------------------------------------------------
(* The contract of the header: a Signal came for the threads it woke. *)
Contract == INSTANCE AutoResetEvent
              WITH waiting <- {t \in Thread : pc[t] # "idle"},
                   called  <- {t \in Thread : pc[t] = "woken"}

(* The event implements its contract, for any number of waiters, when no   *)
(* Wait has a timeout and no wakeup is spurious: a Signal made while the   *)
(* flag is up, which sends no broadcast, still comes for every waiter.     *)
ImplementsContract == Contract!Spec
=============================================================================

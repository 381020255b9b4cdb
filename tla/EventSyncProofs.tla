--------------------------- MODULE EventSyncProofs ---------------------------
(***************************************************************************)
(* What holds of CEventSyncObject for any number of threads, whichever of  *)
(* them have a timeout: its types, that no wakeup is lost, and that        *)
(* without timeouts and spurious wakeups it keeps the contract of its      *)
(* header.                                                                 *)
(***************************************************************************)
EXTENDS EventSync, TLAPS

(* The types are those of the code's flag, and a wait ends in a timeout    *)
(* only if it has one.                                                     *)
THEOREM TypeCorrect == Spec => []TypeOK
<1>1. Init => TypeOK
  BY DEF Init, TypeOK, Location
<1>2. TypeOK /\ [Next]_vars => TypeOK'
  <2> SUFFICES ASSUME TypeOK, [Next]_vars PROVE TypeOK'
    OBVIOUS
  <2> USE DEF TypeOK, Location
  <2>1. CASE UNCHANGED vars
    BY <2>1 DEF vars
  <2>2. ASSUME NEW t \in Thread, Signal(t) PROVE TypeOK'
    BY <2>2 DEF Signal
  <2>3. ASSUME NEW t \in Thread, Reset(t) PROVE TypeOK'
    BY <2>3 DEF Reset
  <2>4. ASSUME NEW t \in Thread, WaitFast(t) PROVE TypeOK'
    BY <2>4 DEF WaitFast
  <2>5. ASSUME NEW t \in Thread, WaitBlock(t) PROVE TypeOK'
    BY <2>5 DEF WaitBlock
  <2>6. ASSUME NEW t \in Thread, TimeOut(t) PROVE TypeOK'
    BY <2>6 DEF TimeOut
  <2>7. ASSUME NEW t \in Thread, WakeSpuriously(t) PROVE TypeOK'
    BY <2>7 DEF WakeSpuriously
  <2>8. ASSUME NEW t \in Thread, WaitReturn(t) PROVE TypeOK'
    BY <2>8 DEF WaitReturn
  <2> QED
    BY <2>1, <2>2, <2>3, <2>4, <2>5, <2>6, <2>7, <2>8 DEF Next
<1> QED
  BY <1>1, <1>2, PTL DEF Spec

(* No thread sleeps while the event is signalled, although Signal sends no *)
(* broadcast when the flag is already up: only Signal raises the flag, and *)
(* the Signal that does wakes every sleeper; a thread falls asleep only    *)
(* while the flag is down.                                                 *)
THEOREM NoWakeupIsLost == Spec => []NoLostWakeup
<1>1. Init => NoLostWakeup
  BY DEF Init, NoLostWakeup
<1>2. TypeOK /\ NoLostWakeup /\ [Next]_vars => NoLostWakeup'
  <2> SUFFICES ASSUME TypeOK, NoLostWakeup, [Next]_vars PROVE NoLostWakeup'
    OBVIOUS
  <2> USE DEF TypeOK, NoLostWakeup
  <2>1. CASE UNCHANGED vars
    BY <2>1 DEF vars
  <2>2. ASSUME NEW t \in Thread, Signal(t) PROVE NoLostWakeup'
    <3>1. CASE signalled
      BY <2>2, <3>1 DEF Signal
    <3>2. CASE ~signalled
      BY <2>2, <3>2 DEF Signal
    <3> QED
      BY <3>1, <3>2
  <2>3. ASSUME NEW t \in Thread, Reset(t) \/ WaitFast(t) \/ WaitReturn(t)
        PROVE  NoLostWakeup'
    BY <2>3 DEF Reset, WaitFast, WaitReturn
  <2>4. ASSUME NEW t \in Thread, WaitBlock(t) PROVE NoLostWakeup'
    BY <2>4 DEF WaitBlock
  <2>5. ASSUME NEW t \in Thread, TimeOut(t) \/ WakeSpuriously(t)
        PROVE  NoLostWakeup'
    BY <2>5 DEF TimeOut, WakeSpuriously
  <2> QED
    BY <2>1, <2>2, <2>3, <2>4, <2>5 DEF Next
<1> QED
  BY <1>1, <1>2, TypeCorrect, PTL DEF Spec

(* Without timeouts and spurious wakeups the event implements the contract *)
(* of its header: every step of Signal, Reset and Wait is a step of        *)
(* AutoResetEvent.  The step that needs NoLostWakeup is the Signal that    *)
(* finds the flag up: it wakes nobody, and comes for everyone all the same *)
(* because everyone in Wait has been woken before.                         *)
THEOREM ContractKept ==
  ASSUME Timed = {}, ~Spurious
  PROVE  Spec => ImplementsContract
<1> DEFINE Waiting == {t \in Thread : pc[t] # "idle"}
           Called  == {t \in Thread : pc[t] = "woken"}
<1>1. Init => Contract!Init
  BY DEF Init, Contract!Init
<1>2. TypeOK /\ TypeOK' /\ NoLostWakeup /\ [Next]_vars => [Contract!Next]_(Contract!vars)
  <2> SUFFICES ASSUME TypeOK, TypeOK', NoLostWakeup, [Next]_vars
               PROVE  [Contract!Next]_(Contract!vars)
    OBVIOUS
  <2>0. \A t \in Thread : pc[t] \in {"idle", "blocked", "woken"}
    BY DEF TypeOK, Location
  <2>1. CASE UNCHANGED vars
    BY <2>1 DEF vars, Contract!vars
  <2>2. ASSUME NEW t \in Thread, Signal(t) PROVE Contract!Signal
    <3>1. signalled' = TRUE
      BY <2>2 DEF Signal
    <3>2. Called' = Waiting /\ Waiting' = Waiting
      <4>1. CASE signalled
        BY <2>0, <2>2, <4>1 DEF Signal, NoLostWakeup
      <4>2. CASE ~signalled
        BY <2>0, <2>2, <4>2 DEF Signal
      <4> QED
        BY <4>1, <4>2
    <3> QED
      BY <3>1, <3>2 DEF Contract!Signal
  <2>3. ASSUME NEW t \in Thread, Reset(t) PROVE Contract!Reset
    BY <2>3 DEF Reset, Contract!Reset
  <2>4. ASSUME NEW t \in Thread, WaitFast(t) PROVE Contract!TakeAtOnce(t)
    BY <2>4 DEF WaitFast, Contract!TakeAtOnce
  <2>5. ASSUME NEW t \in Thread, WaitBlock(t) PROVE Contract!Enter(t)
    <3>1. Waiting' = Waiting \cup {t} /\ Called' = Called
      BY <2>5 DEF WaitBlock, TypeOK
    <3> QED
      BY <2>5, <3>1 DEF WaitBlock, Contract!Enter
  <2>6. ASSUME NEW t \in Thread, WaitReturn(t) PROVE Contract!Take(t)
    <3>1. Waiting' = Waiting \ {t} /\ Called' = Called \ {t} /\ t \in Called
      BY <2>0, <2>6 DEF WaitReturn, TypeOK
    <3> QED
      BY <2>6, <3>1 DEF WaitReturn, Contract!Take
  <2>7. \A t \in Thread : ~TimeOut(t) /\ ~WakeSpuriously(t)
    BY DEF TimeOut, WakeSpuriously
  <2> QED
    BY <2>1, <2>2, <2>3, <2>4, <2>5, <2>6, <2>7 DEF Next, Contract!Next
<1> QED
  BY <1>1, <1>2, TypeCorrect, NoWakeupIsLost, PTL
     DEF Spec, ImplementsContract, Contract!Spec
=============================================================================

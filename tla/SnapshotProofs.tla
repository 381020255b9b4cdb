---------------------------- MODULE SnapshotProofs ----------------------------
(***************************************************************************)
(* What holds of snapshot --wait however often others start and stop the   *)
(* VM, with a timeout or without: its types, and that success is not       *)
(* announced while the memory of a VM that prlctl knew to run is written.  *)
(***************************************************************************)
EXTENDS Snapshot, SequenceTheorems, TLAPS

EventName == {"started", "swap_started", "swap_finished", "question"}

Has(s, e) == \E i \in 1..Len(s) : s[i] = e

Sent(e) == Has(inbox, e)

(* The event has been, or will be, signalled by what is in the inbox. *)
Woken == signalled \/ pc["prlctl"] = "woken" \/ result["prlctl"] = "true"

(* The inductive form of AnnouncedWhenWritten.  The job runs once, and     *)
(* memory is written only after it; the event is signalled only when that  *)
(* is over, the VM asked a question or another client's swap was told of;  *)
(* and a main thread that knew the VM to run passes through the wait.      *)
JobRunsOnce ==
  /\ cli \in {"state", "current", "register", "start"} => job = "none"
  /\ swapping => job = "ok"

SignalledWhenWritten ==
  /\ Sent("question") => asked
  /\ (Woken \/ Sent("swap_finished")) /\ ~asked /\ ~foreign => job = "ok" /\ ~swapping

KnownWaits ==
  known => /\ cli \in {"start", "job", "test"} => toWait
           /\ cli = "done" => result["prlctl"] = "true"

WaitInv == JobRunsOnce /\ SignalledWhenWritten /\ KnownWaits

-----------------------------------------------------------------------------
(* What a queue of events holds after its head is taken and after others   *)
(* are put behind it.                                                      *)
LEMMA TailHas ==
  ASSUME NEW S, NEW s \in Seq(S), s # <<>>, NEW e
  PROVE  /\ Has(s, Head(s))
         /\ Has(Tail(s), e) => Has(s, e)
<1>1. Len(s) \in Nat /\ Len(s) > 0
  BY EmptySeq, LenProperties
<1>2. /\ Len(Tail(s)) = Len(s) - 1
      /\ \A i \in 1..Len(Tail(s)) : Tail(s)[i] = s[i + 1]
  BY HeadTailProperties
<1>3. Has(s, Head(s))
  BY <1>1 DEF Has
<1>4. ASSUME Has(Tail(s), e) PROVE Has(s, e)
  <2>1. PICK i \in 1..Len(Tail(s)) : Tail(s)[i] = e
    BY <1>4 DEF Has
  <2>2. i + 1 \in 1..Len(s) /\ s[i + 1] = e
    BY <1>1, <1>2, <2>1
  <2> QED
    BY <2>2 DEF Has
<1> QED
  BY <1>3, <1>4

(* What a concatenation holds is in one of its parts. *)
LEMMA ConcatHas ==
  ASSUME NEW S, NEW s \in Seq(S), NEW t \in Seq(S), NEW e, Has(s \o t, e)
  PROVE  Has(s, e) \/ Has(t, e)
<1>1. PICK i \in 1..Len(s \o t) : (s \o t)[i] = e
  BY DEF Has
<1>2. Len(s) \in Nat /\ Len(t) \in Nat /\ i \in 1..(Len(s) + Len(t))
  BY LenProperties, ConcatProperties
<1>3. CASE i <= Len(s)
  <2>1. s[i] = e
    BY <1>1, <1>2, <1>3, ConcatProperties
  <2> QED
    BY <1>2, <1>3, <2>1 DEF Has
<1>4. CASE i > Len(s)
  <2>1. t[i - Len(s)] = e /\ i - Len(s) \in 1..Len(t)
    BY <1>1, <1>2, <1>4, ConcatProperties
  <2> QED
    BY <2>1 DEF Has
<1> QED
  BY <1>2, <1>3, <1>4

(* Sending keeps the inbox a queue of events, and adds only what is sent.  *)
LEMMA SendHas ==
  ASSUME inbox \in Seq(EventName), NEW es \in Seq(EventName), Send(es)
  PROVE  /\ inbox' \in Seq(EventName)
         /\ \A e : Sent(e)' => Sent(e) \/ Has(es, e)
<1>1. CASE registered
  <2>1. inbox' = inbox \o es
    BY <1>1 DEF Send
  <2> QED
    BY <2>1, ConcatProperties, ConcatHas DEF Sent
<1>2. CASE ~registered
  BY <1>2 DEF Send, Sent
<1> QED
  BY <1>1, <1>2

(* The events each step of the dispatcher sends. *)
LEMMA EventsSent ==
  /\ <<>> \in Seq(EventName) /\ \A e : ~Has(<<>>, e)
  /\ \A x \in EventName :
       /\ <<x>> \in Seq(EventName) /\ \A e : Has(<<x>>, e) => e = x
       /\ \A y \in EventName :
            <<x, y>> \in Seq(EventName) /\ \A e : Has(<<x, y>>, e) => e \in {x, y}
  BY DEF Has
-----------------------------------------------------------------------------
(* What each step of another component does to the inbox: the SDK thread   *)
(* takes its head, and the dispatcher sends what the job or the VM did.    *)
LEMMA InboxOf ==
  ASSUME inbox \in Seq(EventName)
  PROVE  /\ Deliver => /\ Head(inbox) \in EventName /\ Sent(Head(inbox))
                       /\ inbox' \in Seq(EventName)
                       /\ \A e : Sent(e)' => Sent(e)
         /\ VmChanges => /\ inbox' \in Seq(EventName)
                         /\ \A e : Sent(e)' => Sent(e) \/ e = "started"
         /\ OthersSwap => /\ inbox' \in Seq(EventName)
                          /\ \A e : Sent(e)' => Sent(e) \/ (registered /\ e = "swap_finished")
         /\ JobSucceeds => /\ inbox' \in Seq(EventName)
                           /\ \A e : Sent(e)' => Sent(e) \/ e \in {"started", "swap_started"}
         /\ SwapFinishes => /\ inbox' \in Seq(EventName)
                            /\ \A e : Sent(e)' => Sent(e) \/ e = "swap_finished"
         /\ Question => /\ inbox' \in Seq(EventName)
                        /\ \A e : Sent(e)' => Sent(e) \/ e = "question"
<1>0. {"started", "swap_started", "swap_finished", "question"} \subseteq EventName
  BY DEF EventName
<1>1. ASSUME Deliver
      PROVE  /\ Head(inbox) \in EventName /\ Sent(Head(inbox))
             /\ inbox' \in Seq(EventName)
             /\ \A e : Sent(e)' => Sent(e)
  <2>1. inbox # <<>> /\ inbox' = Tail(inbox)
    BY <1>1 DEF Deliver
  <2> QED
    BY <2>1, TailHas, HeadTailProperties DEF Sent
<1>2. ASSUME VmChanges
      PROVE  /\ inbox' \in Seq(EventName)
             /\ \A e : Sent(e)' => Sent(e) \/ e = "started"
  <2>1. Send(<<"started">>) \/ Send(<<>>)
    <3>1. CASE running'
      BY <1>2, <3>1 DEF VmChanges
    <3>2. CASE ~running'
      BY <1>2, <3>2 DEF VmChanges
    <3> QED
      BY <3>1, <3>2
  <2>2. CASE Send(<<"started">>)
    BY <1>0, <2>2, EventsSent, SendHas
  <2>3. CASE Send(<<>>)
    BY <2>3, EventsSent, SendHas
  <2> QED
    BY <2>1, <2>2, <2>3
<1>3. ASSUME JobSucceeds
      PROVE  /\ inbox' \in Seq(EventName)
             /\ \A e : Sent(e)' => Sent(e) \/ e \in {"started", "swap_started"}
  <2> DEFINE a == IF op = "switch" /\ running' THEN <<"started">> ELSE <<>>
             b == IF running' THEN <<"swap_started">> ELSE <<>>
  <2>1. Send(a \o b)
    BY <1>3 DEF JobSucceeds
  <2>2. /\ a \in Seq(EventName) /\ b \in Seq(EventName)
        /\ \A e : (Has(a, e) => e = "started") /\ (Has(b, e) => e = "swap_started")
    BY <1>0, EventsSent
  <2> HIDE DEF a, b
  <2>3. a \o b \in Seq(EventName) /\ \A e : Has(a \o b, e) => e \in {"started", "swap_started"}
    BY <2>2, ConcatProperties, ConcatHas
  <2> QED
    BY <2>1, <2>3, SendHas
<1>4. ASSUME SwapFinishes
      PROVE  /\ inbox' \in Seq(EventName)
             /\ \A e : Sent(e)' => Sent(e) \/ e = "swap_finished"
  <2>1. Send(<<"swap_finished">>)
    BY <1>4 DEF SwapFinishes
  <2> QED
    BY <1>0, <2>1, EventsSent, SendHas
<1>5. ASSUME Question
      PROVE  /\ inbox' \in Seq(EventName)
             /\ \A e : Sent(e)' => Sent(e) \/ e = "question"
  <2>1. Send(<<"question">>)
    BY <1>5 DEF Question
  <2> QED
    BY <1>0, <2>1, EventsSent, SendHas
<1>6. ASSUME OthersSwap
      PROVE  /\ inbox' \in Seq(EventName)
             /\ \A e : Sent(e)' => Sent(e) \/ (registered /\ e = "swap_finished")
  <2>1. Send(<<"swap_finished">>)
    BY <1>6 DEF OthersSwap
  <2>2. ~registered => inbox' = inbox
    BY <2>1 DEF Send
  <2> QED
    BY <1>0, <2>1, <2>2, EventsSent, SendHas DEF Sent
<1> QED
  BY <1>1, <1>2, <1>3, <1>4, <1>5, <1>6

(* What a step of the event does to its variables, with the types of       *)
(* EventSync spelled out for the two threads.                              *)
EventOK ==
  /\ signalled \in BOOLEAN
  /\ pc \in [{"prlctl", "sdk"} -> {"idle", "blocked", "woken", "timedout"}]
  /\ result \in [{"prlctl", "sdk"} -> {"none", "true", "false"}]
  /\ \A t \in {"prlctl", "sdk"} :
       (pc[t] = "timedout" \/ result[t] = "false") => TimeoutGiven /\ t = "prlctl"
  /\ pc["sdk"] = "idle" /\ (pc["prlctl"] # "idle" => cli = "wait")

RestOK ==
  /\ op \in Op
  /\ cli \in {"state", "current", "register", "start", "job", "test", "wait", "done", "failed"}
  /\ known \in BOOLEAN /\ toWait \in BOOLEAN /\ registered \in BOOLEAN
  /\ running \in BOOLEAN /\ swapping \in BOOLEAN /\ memory \in BOOLEAN
  /\ asked \in BOOLEAN /\ foreign \in BOOLEAN
  /\ job \in {"none", "running", "ok", "failed"}
  /\ changes \in 0..MaxChanges
  /\ inbox \in Seq(EventName)

(* The types of the event and of the rest. *)
LEMMA TypeParts ==
  /\ TypeOK <=> EventOK /\ RestOK
  /\ TypeOK' <=> EventOK' /\ RestOK'
  BY DEF TypeOK, EventOK, RestOK, EventName, Event!TypeOK, Event!Location

(* Each step that a thread takes on the event keeps the event typed, if    *)
(* the main thread is where that step needs it to be.                      *)
LEMMA EventSteps ==
  ASSUME EventOK
  PROVE  /\ Event!WaitBlock("prlctl") \/ Event!TimeOut("prlctl")
              => (cli' = "wait" => EventOK')
         /\ Event!WaitFast("prlctl") \/ Event!WaitReturn("prlctl") => EventOK'
         /\ Event!Signal("sdk") \/ UNCHANGED event => (cli' = cli => EventOK')
<1> USE DEF EventOK
<1>1. Event!WaitBlock("prlctl") => (cli' = "wait" => EventOK')
  BY DEF Event!WaitBlock
<1>2. Event!TimeOut("prlctl") => (cli' = "wait" => EventOK')
  BY DEF Event!TimeOut
<1>3. Event!WaitFast("prlctl") => EventOK'
  BY DEF Event!WaitFast
<1>4. Event!WaitReturn("prlctl") => EventOK'
  BY DEF Event!WaitReturn
<1>5. Event!Signal("sdk") => (cli' = cli => EventOK')
  BY DEF Event!Signal
<1>6. UNCHANGED event => (cli' = cli => EventOK')
  BY DEF event
<1> QED
  BY <1>1, <1>2, <1>3, <1>4, <1>5, <1>6

(* Types; only the main thread waits, and only at the wait.                *)
THEOREM TypeCorrect == Spec => []TypeOK
<1>1. Init => TypeOK
  <2> SUFFICES ASSUME Init PROVE EventOK /\ RestOK
    BY TypeParts
  <2>1. EventOK
    BY DEF Init, Event!Init, EventOK
  <2>2. inbox \in Seq(EventName)
    BY EventsSent DEF Init
  <2>3. 0 \in 0..MaxChanges
    BY SnapshotAssumption DEF SnapshotAssumption
  <2> QED
    BY <2>1, <2>2, <2>3 DEF Init, RestOK
<1>2. TypeOK /\ [Next]_vars => TypeOK'
  <2> SUFFICES ASSUME EventOK, RestOK, [Next]_vars PROVE EventOK' /\ RestOK'
    BY TypeParts
  <2>1. CASE UNCHANGED vars
    <3>1. EventOK'
      BY <2>1 DEF vars, event, EventOK
    <3> QED
      BY <2>1, <3>1 DEF vars, vm, RestOK
  <2>2. CASE ReadState \/ FindCurrent \/ Register \/ StartJob \/ JobReturns \/ Test
    <3>1. UNCHANGED <<signalled, pc, result>> /\ cli # "wait"
      BY <2>2 DEF ReadState, FindCurrent, Register, StartJob, JobReturns, Test, Goes, event
    <3>2. EventOK'
      BY <3>1 DEF EventOK
    <3>3. UNCHANGED <<op, running, swapping, memory, asked, foreign, changes, inbox>>
      BY <2>2 DEF ReadState, FindCurrent, Register, StartJob, JobReturns, Test, Goes, vm
    <3>4. /\ cli' \in {"current", "register", "start", "job", "test", "wait", "done", "failed"}
          /\ job' \in {job, "running"}
      BY <2>2 DEF ReadState, FindCurrent, Register, StartJob, JobReturns, Test, Goes, vm
    <3>5. known' \in BOOLEAN /\ toWait' \in BOOLEAN /\ registered' \in BOOLEAN
      BY <2>2 DEF ReadState, FindCurrent, Register, StartJob, JobReturns, Test, RestOK
    <3> QED
      BY <3>2, <3>3, <3>4, <3>5 DEF RestOK
  <2>3. CASE Block \/ TimeOut
    <3>1. RestOK'
      BY <2>3 DEF Block, TimeOut, Waiting, vm, RestOK
    <3>2. /\ Event!WaitBlock("prlctl") \/ Event!TimeOut("prlctl")
          /\ cli' = "wait"
      BY <2>3 DEF Block, TimeOut, Waiting
    <3> QED
      BY <3>1, <3>2, EventSteps
  <2>4. CASE Return
    <3>0. cli' \in {"done", "failed"}
      BY <2>4 DEF Return
    <3>1. RestOK'
      BY <2>4, <3>0 DEF Return, Waiting, vm, RestOK
    <3> QED
      BY <2>4, <3>1, EventSteps DEF Return
  <2>5. CASE Deliver
    <3>1. inbox' \in Seq(EventName) /\ cli' = cli
      BY <2>5, InboxOf DEF Deliver, RestOK
    <3>2. \/ toWait' = TRUE /\ UNCHANGED event
          \/ Event!Signal("sdk") /\ UNCHANGED toWait
          \/ UNCHANGED <<toWait, event>>
      <4>1. Handle(Head(inbox))
        BY <2>5 DEF Deliver
      <4> QED
        BY <2>5, <4>1, InboxOf DEF Handle, EventName, RestOK
    <3>3. RestOK'
      <4>1. UNCHANGED <<op, cli, known, registered, vm>>
        BY <2>5 DEF Deliver
      <4>2. toWait' \in BOOLEAN
        BY <3>2 DEF RestOK
      <4> QED
        BY <3>1, <4>1, <4>2 DEF vm, RestOK
    <3>4. Event!Signal("sdk") \/ UNCHANGED event
      BY <3>2
    <3> QED
      BY <3>1, <3>3, <3>4, EventSteps
  <2>6. CASE Dispatcher
    <3>1. inbox' \in Seq(EventName)
      BY <2>6, InboxOf DEF Dispatcher, JobFails, RestOK
    <3>2. UNCHANGED <<op, cli, known, toWait, registered, event>>
      BY <2>6 DEF Dispatcher, VmChanges, OthersSwap, JobSucceeds, JobFails, SwapFinishes, Question, Elsewhere
    <3>3. EventOK'
      BY <3>2 DEF event, EventOK
    <3>4. CASE VmChanges
      <4>1. changes' \in 0..MaxChanges
        BY <3>4, SnapshotAssumption DEF VmChanges, RestOK, SnapshotAssumption
      <4> QED
        BY <3>1, <3>2, <3>3, <3>4, <4>1 DEF VmChanges, RestOK
    <3>5. CASE JobSucceeds
      <4>1. running' \in BOOLEAN
        BY <3>5 DEF JobSucceeds, RestOK
      <4>2. memory' = running' /\ swapping' = running' /\ job' = "ok" /\ UNCHANGED <<asked, foreign, changes>>
        BY <3>5 DEF JobSucceeds
      <4> QED
        BY <3>1, <3>2, <3>3, <4>1, <4>2 DEF RestOK
    <3>6. CASE JobFails \/ SwapFinishes \/ Question
      <4>1. /\ job' \in {job, "failed"} /\ UNCHANGED <<running, memory, foreign, changes>>
            /\ swapping' \in {swapping, FALSE} /\ asked' \in {asked, TRUE}
        BY <3>6 DEF JobFails, SwapFinishes, Question
      <4>2. job' \in {"none", "running", "ok", "failed"} /\ swapping' \in BOOLEAN /\ asked' \in BOOLEAN
        BY <4>1 DEF RestOK
      <4> QED
        BY <3>1, <3>2, <3>3, <4>1, <4>2 DEF RestOK
    <3>7. CASE OthersSwap
      <4>1. changes' \in 0..MaxChanges
        BY <3>7, SnapshotAssumption DEF OthersSwap, RestOK, SnapshotAssumption
      <4>2. foreign' \in BOOLEAN
        BY <3>7 DEF OthersSwap
      <4> QED
        BY <3>1, <3>2, <3>3, <3>7, <4>1, <4>2 DEF OthersSwap, RestOK
    <3> QED
      BY <2>6, <3>4, <3>5, <3>6, <3>7 DEF Dispatcher
  <2> QED
    BY <2>1, <2>2, <2>3, <2>4, <2>5, <2>6 DEF Next, Client
<1> QED
  BY <1>1, <1>2, PTL DEF Spec

(* prlctl does not say that the snapshot is there while the memory of the  *)
(* VM is still being written, unless it did not know that the VM runs and  *)
(* did not wait, the VM asked a question, or another client's swap ended   *)
(* meanwhile.                                                              *)
THEOREM NotAnnouncedEarly == Spec => []AnnouncedWhenWritten
<1>1. Init => WaitInv
  <2>1. Init => ~Sent("question") /\ ~Sent("swap_finished")
    BY EventsSent DEF Init, Sent
  <2> QED
    BY <2>1 DEF Init, Event!Init, WaitInv, JobRunsOnce, SignalledWhenWritten, KnownWaits, Woken
<1>2. TypeOK /\ WaitInv /\ [Next]_vars => WaitInv'
  <2> SUFFICES ASSUME EventOK, RestOK, WaitInv, [Next]_vars PROVE WaitInv'
    BY TypeParts
  <2> USE DEF EventOK, RestOK, WaitInv, JobRunsOnce, SignalledWhenWritten, KnownWaits, Woken
  <2>1. CASE UNCHANGED vars
    BY <2>1 DEF vars, event, vm, Sent
  <2>2. CASE ReadState \/ FindCurrent \/ Register \/ StartJob \/ JobReturns \/ Test
    <3>1. UNCHANGED <<signalled, pc, result, inbox, swapping, asked, foreign>>
      BY <2>2 DEF ReadState, FindCurrent, Register, StartJob, JobReturns, Test, event, vm
    <3>2. SignalledWhenWritten' /\ JobRunsOnce'
      <4>1. CASE StartJob
        BY <3>1, <4>1 DEF StartJob, Goes, Sent
      <4>2. CASE ReadState \/ FindCurrent \/ Register \/ JobReturns \/ Test
        BY <3>1, <4>2 DEF ReadState, FindCurrent, Register, JobReturns, Test, Goes, vm, Sent
      <4> QED
        BY <2>2, <4>1, <4>2
    <3>3. KnownWaits'
      <4>1. CASE ReadState \/ FindCurrent \/ Register \/ StartJob
        BY <3>1, <4>1 DEF ReadState, FindCurrent, Register, StartJob, Goes
      <4>2. CASE JobReturns \/ Test
        BY <3>1, <4>2 DEF JobReturns, Test, Goes
      <4> QED
        BY <2>2, <4>1, <4>2
    <3> QED
      BY <3>2, <3>3
  <2>3. CASE Block
    BY <2>3 DEF Block, Waiting, Event!WaitBlock, vm, Sent
  <2>4. CASE TimeOut
    BY <2>4 DEF TimeOut, Waiting, Event!TimeOut, vm, Sent
  <2>5. CASE Return
    <3>1. CASE Event!WaitFast("prlctl")
      BY <2>5, <3>1 DEF Return, Waiting, Event!WaitFast, vm, Sent
    <3>2. CASE Event!WaitReturn("prlctl")
      BY <2>5, <3>2 DEF Return, Waiting, Event!WaitReturn, vm, Sent
    <3> QED
      BY <2>5, <3>1, <3>2 DEF Return
  <2>6. CASE Deliver
    <3>1. /\ Sent(Head(inbox))
          /\ \A e : Sent(e)' => Sent(e)
      BY <2>6, InboxOf
    <3>2. UNCHANGED <<cli, known, vm>>
      BY <2>6 DEF Deliver
    <3>3. CASE UNCHANGED event
      BY <2>6, <3>1, <3>2, <3>3 DEF Deliver, Handle, event, vm, Event!Signal
    <3>4. CASE Event!Signal("sdk") /\ UNCHANGED toWait /\ Head(inbox) \in {"swap_finished", "question"}
      <4>1. UNCHANGED result
        BY <3>4 DEF Event!Signal
      <4>2. ~asked /\ ~foreign => job = "ok" /\ ~swapping
        BY <3>1, <3>4
      <4> QED
        BY <3>1, <3>2, <3>4, <4>1, <4>2 DEF vm
    <3> QED
      BY <2>6, <3>3, <3>4 DEF Deliver, Handle
  <2>7. CASE Dispatcher
    <3>1. UNCHANGED <<op, cli, known, toWait, registered, event>>
      BY <2>7 DEF Dispatcher, VmChanges, OthersSwap, JobSucceeds, JobFails, SwapFinishes, Question, Elsewhere
    <3>2. CASE VmChanges
      BY <3>1, <3>2, InboxOf DEF VmChanges, event
    <3>3. CASE JobSucceeds
      <4>1. Sent("question")' => Sent("question")
        BY <3>3, InboxOf
      <4>2. Sent("swap_finished")' => Sent("swap_finished")
        BY <3>3, InboxOf
      <4> QED
        BY <3>1, <3>3, <4>1, <4>2 DEF JobSucceeds, event
    <3>4. CASE JobFails
      BY <3>1, <3>4 DEF JobFails, event, Sent
    <3>5. CASE SwapFinishes
      BY <3>1, <3>5, InboxOf DEF SwapFinishes, event
    <3>6. CASE Question
      BY <3>1, <3>6, InboxOf DEF Question, event
    <3>7. CASE OthersSwap
      BY <3>1, <3>7, InboxOf DEF OthersSwap, event
    <3> QED
      BY <2>7, <3>2, <3>3, <3>4, <3>5, <3>6, <3>7 DEF Dispatcher
  <2> QED
    BY <2>1, <2>2, <2>3, <2>4, <2>5, <2>6, <2>7 DEF Next, Client
<1>3. WaitInv => AnnouncedWhenWritten
  BY DEF WaitInv, SignalledWhenWritten, KnownWaits, Woken, AnnouncedWhenWritten
<1> QED
  BY <1>1, <1>2, <1>3, TypeCorrect, PTL DEF Spec
=============================================================================

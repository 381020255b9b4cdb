------------------------------- MODULE Snapshot -------------------------------
(***************************************************************************)
(* prlctl snapshot --wait and snapshot-switch --wait (PrlVm.cpp): the main *)
(* thread makes an event and registers a handler for it, waits for the     *)
(* job, and then, if the VM runs, for the event, which an SDK thread       *)
(* signals when the dispatcher tells that the VM's memory is written (or   *)
(* read).  Whether to wait is decided by a flag that starts as the state   *)
(* prlctl has read of the VM and that the SDK thread raises when the VM    *)
(* starts.                                                                 *)
(*                                                                         *)
(* The event is that of EventSync, shared by the two threads; a wakeup     *)
(* without a signal, which EventSync studies, is left out here.            *)
(***************************************************************************)
EXTENDS Naturals, Sequences

CONSTANTS
  Op,            \* "create", "switch": the commands to run
  TimeoutGiven,  \* was --timeout on the command line (g_nJobTimeout)?
  MaxChanges     \* bound: how often others start or stop the VM, or swap its memory

ASSUME SnapshotAssumption ==
  /\ Op \subseteq {"create", "switch"}
  /\ TimeoutGiven \in BOOLEAN /\ MaxChanges \in Nat

VARIABLES
  op,            \* the command
  cli,           \* where the main thread is
  known,         \* m_VmState is VMS_RUNNING
  toWait,        \* m_wait of the handler
  registered,    \* PrlVm_RegEventHandler succeeded; an error is only printed
  signalled, pc, result,   \* the event
  job,           \* the job, in the dispatcher
  running,       \* the VM runs
  swapping,      \* its memory is being written or read
  memory,        \* the job saved, or restored, a running VM
  asked,         \* the VM asked a question that needs an answer
  foreign,       \* the handler was told of a swap that another client began
  changes,       \* starts, stops and such swaps so far
  inbox          \* events sent to the handler and not handled yet

event == <<signalled, pc, result>>
vm    == <<job, running, swapping, memory, asked, foreign, changes>>
vars  == <<op, cli, known, toWait, registered, event, vm, inbox>>

Event == INSTANCE EventSync
           WITH Thread <- {"prlctl", "sdk"},
                Timed <- IF TimeoutGiven THEN {"prlctl"} ELSE {},
                Spurious <- FALSE

(* Types; only the main thread waits, and only at the wait. *)
TypeOK ==
  /\ op \in Op
  /\ cli \in {"state", "current", "register", "start", "job", "test", "wait", "done", "failed"}
  /\ {known, toWait, registered, running, swapping, memory, asked, foreign} \subseteq BOOLEAN
  /\ Event!TypeOK
  /\ pc["sdk"] = "idle" /\ (pc["prlctl"] # "idle" => cli = "wait")
  /\ job \in {"none", "running", "ok", "failed"}
  /\ changes \in 0..MaxChanges
  /\ inbox \in Seq({"started", "swap_started", "swap_finished", "question"})

Init ==
  /\ op \in Op /\ cli = "state"
  /\ known = FALSE /\ toWait = FALSE /\ registered = FALSE
  /\ Event!Init
  /\ job = "none" /\ running \in BOOLEAN /\ swapping = FALSE /\ memory = FALSE
  /\ asked = FALSE /\ foreign = FALSE /\ changes = 0 /\ inbox = <<>>

-----------------------------------------------------------------------------
(* The main thread. *)
Goes(from, to) == cli = from /\ cli' = to /\ UNCHANGED op

(* update_state: an invalid configuration leaves the state unknown. *)
ReadState ==
  /\ Goes("state", "register") \/ (op = "switch" /\ Goes("state", "current"))
  /\ known' \in {running, FALSE}
  /\ UNCHANGED <<toWait, registered, event, vm, inbox>>

(* Without --id the current snapshot is looked up, by a job of its own. *)
FindCurrent ==
  /\ Goes("current", "register") \/ Goes("current", "failed")
  /\ UNCHANGED <<known, toWait, registered, event, vm, inbox>>

Register ==
  /\ Goes("register", "start")
  /\ toWait' = known
  /\ registered' \in BOOLEAN
  /\ UNCHANGED <<known, event, vm, inbox>>

StartJob ==
  /\ Goes("start", "job")
  /\ job' = "running"
  /\ UNCHANGED <<known, toWait, registered, event, running, swapping, memory, asked, foreign, changes, inbox>>

JobReturns ==
  /\ \/ job = "ok" /\ Goes("job", "test")
     \/ job = "failed" /\ Goes("job", "failed")
     \/ TimeoutGiven /\ job = "running" /\ Goes("job", "failed")
  /\ UNCHANGED <<known, toWait, registered, event, vm, inbox>>

(* isToWait *)
Test ==
  /\ Goes("test", IF toWait THEN "wait" ELSE "done")
  /\ UNCHANGED <<known, toWait, registered, event, vm, inbox>>

Waiting == cli = "wait" /\ UNCHANGED <<op, known, toWait, registered, vm, inbox>>

(* A mistake: a wait that times out does not wait for the event's mutex. *)
TimeOutAtOnce == Waiting /\ Event!TimeOut("prlctl") /\ cli' = "failed"

Block   == Waiting /\ Event!WaitBlock("prlctl") /\ UNCHANGED cli
TimeOut == Waiting /\ Event!TimeOut("prlctl") /\ UNCHANGED cli
Return  ==
  /\ Waiting
  /\ Event!WaitFast("prlctl") \/ Event!WaitReturn("prlctl")
  /\ cli' = IF result'["prlctl"] = "true" THEN "done" ELSE "failed"

-----------------------------------------------------------------------------
(* Mistakes the properties are there to catch: the handler signals too     *)
(* early, or only a main thread that already waits.                        *)
HandleTooEarly(e) ==
  CASE e = "started" -> toWait' = TRUE /\ UNCHANGED event
    [] e \in {"swap_started", "question"} -> Event!Signal("sdk") /\ UNCHANGED toWait
    [] OTHER -> UNCHANGED <<toWait, event>>

HandleIfWaiting(e) ==
  CASE e = "started" -> toWait' = TRUE /\ UNCHANGED event
    [] e \in {"swap_finished", "question"} /\ pc["prlctl"] = "blocked"
         -> Event!Signal("sdk") /\ UNCHANGED toWait
    [] OTHER -> UNCHANGED <<toWait, event>>

(* Handler::handle, in an SDK thread, until the Event is destroyed. *)
Handle(e) ==
  CASE e = "started" -> toWait' = TRUE /\ UNCHANGED event
    [] e \in {"swap_finished", "question"} -> Event!Signal("sdk") /\ UNCHANGED toWait
    [] OTHER -> UNCHANGED <<toWait, event>>

Deliver ==
  /\ inbox # <<>> /\ cli \notin {"done", "failed"}
  /\ Handle(Head(inbox))
  /\ inbox' = Tail(inbox)
  /\ UNCHANGED <<op, cli, known, registered, vm>>

-----------------------------------------------------------------------------
(* The dispatcher and the VM: what prlctl is told comes in order. *)
Send(es) == inbox' = IF registered THEN inbox \o es ELSE inbox

Elsewhere == UNCHANGED <<op, cli, known, toWait, registered, event>>

(* Another client, or the guest, starts or stops the VM. *)
VmChanges ==
  /\ job # "running" /\ ~swapping /\ changes < MaxChanges
  /\ running' = ~running /\ changes' = changes + 1
  /\ Send(IF running' THEN <<"started">> ELSE <<>>)
  /\ Elsewhere /\ UNCHANGED <<job, swapping, memory, asked, foreign>>

(* The memory swapping of another client's operation, a snapshot or a      *)
(* suspend, ends.  The handler cannot tell whose it was.                   *)
OthersSwap ==
  /\ changes < MaxChanges /\ changes' = changes + 1
  /\ Send(<<"swap_finished">>)
  /\ foreign' = (foreign \/ registered)
  /\ Elsewhere /\ UNCHANGED <<job, running, swapping, memory, asked>>

(* A snapshot of a running VM has its memory, and a VM that is switched to *)
(* such a snapshot is started from it.                                     *)
JobSucceeds ==
  /\ job = "running" /\ job' = "ok"
  /\ IF op = "create" THEN running' = running ELSE running' \in BOOLEAN
  /\ memory' = running' /\ swapping' = running'
  /\ Send((IF op = "switch" /\ running' THEN <<"started">> ELSE <<>>)
            \o (IF running' THEN <<"swap_started">> ELSE <<>>))
  /\ Elsewhere /\ UNCHANGED <<asked, foreign, changes>>

JobFails ==
  /\ job = "running" /\ job' = "failed"
  /\ Elsewhere /\ UNCHANGED <<running, swapping, memory, asked, foreign, changes, inbox>>

SwapFinishes ==
  /\ swapping /\ swapping' = FALSE
  /\ Send(<<"swap_finished">>)
  /\ Elsewhere /\ UNCHANGED <<job, running, memory, asked, foreign, changes>>

Question ==
  /\ job = "running" \/ swapping
  /\ ~asked /\ asked' = TRUE
  /\ Send(<<"question">>)
  /\ Elsewhere /\ UNCHANGED <<job, running, swapping, memory, foreign, changes>>

-----------------------------------------------------------------------------
Client     == ReadState \/ Register \/ StartJob \/ JobReturns \/ Test \/ Block \/ Return
Dispatcher == VmChanges \/ OthersSwap \/ JobSucceeds \/ JobFails \/ SwapFinishes \/ Question

Next == Client \/ FindCurrent \/ TimeOut \/ Deliver \/ Dispatcher

Spec == Init /\ [][Next]_vars

(* The two threads run, and swapping ends.  A job may take forever, and so *)
(* may a timeout: what ends, ends without it.                              *)
FairSpec == Spec /\ WF_vars(Client) /\ WF_vars(Deliver) /\ WF_vars(SwapFinishes)

-----------------------------------------------------------------------------
(* Success is announced only when the VM's memory is written, if prlctl    *)
(* knew that the VM runs or waited for the event at all, and unless the VM *)
(* asked a question or another client's swap ended after the handler was   *)
(* registered: no other event, and none of an earlier moment, ends the     *)
(* wait.                                                                   *)
AnnouncedWhenWritten ==
  cli = "done" /\ (known \/ result["prlctl"] = "true") /\ ~asked /\ ~foreign => ~swapping

(* The wait ends also when the event comes before it begins (the handler   *)
(* is registered before the job starts), provided that the handler was     *)
(* registered and the VM still ran when the dispatcher made the snapshot.  *)
WaitEnds == (cli = "wait" /\ memory /\ registered) ~> (cli # "wait")
=============================================================================

------------------------------ MODULE PerfStats ------------------------------
(***************************************************************************)
(* prlctl statistics and prlsrvctl statistics (PrlStat.cpp): the main      *)
(* thread subscribes to the statistics of the node and of one VM after     *)
(* another, and waits, at most ten seconds for each VM, for an event that  *)
(* a thread of the SDK signals when it has printed statistics.  The event  *)
(* is one for all VMs.  With --loop it does not exist, and every VM stays  *)
(* subscribed until a key is pressed.                                      *)
(***************************************************************************)
EXTENDS Naturals, FiniteSets

CONSTANTS
  Vms,        \* the number of VMs
  MaxEvents   \* bound: how many times the node and the VMs send statistics

Parameters == Vms \in Nat /\ MaxEvents \in Nat

VARIABLES
  options,      \* "srv": prlsrvctl; "all": --all; "loop": --loop
  line,         \* where print_statistics is
  cur,          \* the VM it is at
  registered,   \* whose events the callback is registered for
  subscribed,   \* who sends statistics
  accepted, refused,   \* whose subscription succeeded, and whose failed
  sent,         \* how many events were sent
  pending,      \* how many are not handled yet
  handling,     \* whose event the callback is about to signal, if it runs
  printed,      \* whose statistics were printed
  unprinted,    \* whose event had nothing that could be printed, or not all
  waited,       \* what the wait for each VM returned
  stray,        \* a VM's event was signalled when its wait was over
  returned,     \* what print_statistics returned
  signalled, pc, result    \* s_evt

event  == <<signalled, pc, result>>
main   == <<options, line, cur, registered, accepted, refused, waited, returned>>
sdk    == <<pending, handling, printed, unprinted, stray>>
vars   == <<main, subscribed, sent, sdk, event>>

Node   == 0
Vm     == 1..Vms
Source == {Node} \cup Vm
Nobody == Vms + 1

Evt == INSTANCE EventSync
         WITH Thread <- {"prlctl", "sdk"}, Timed <- {"prlctl"}, Spurious <- FALSE

Has(o) == o \in options

(* Types; only the main thread waits, for the VM it is at. *)
TypeOK ==
  /\ options \subseteq {"srv", "all", "loop"}
  /\ line \in {"list", "node", "vm", "wait", "reset", "remove", "key", "done", "crashed"}
  /\ cur \in 1..Vms + 1
  /\ registered \subseteq Source /\ subscribed \subseteq Source
  /\ accepted \subseteq Source /\ refused \subseteq Source
  /\ sent \in 0..MaxEvents /\ pending \in [Source -> 0..MaxEvents]
  /\ handling \in Source \cup {Nobody}
  /\ printed \subseteq Source /\ unprinted \subseteq Source
  /\ waited \in [Vm -> {"none", "true", "false"}] /\ stray \in BOOLEAN
  /\ returned \in {"nothing", "ok", "error"}
  /\ Evt!TypeOK
  /\ pc["sdk"] = "idle" /\ (pc["prlctl"] # "idle" => line = "wait" /\ cur \in Vm)
  /\ Has("loop") => ~signalled

Init ==
  /\ options \in SUBSET {"srv", "all", "loop"}
  /\ line = "list" /\ cur = 1
  /\ registered = {} /\ subscribed = {} /\ accepted = {} /\ refused = {}
  /\ sent = 0 /\ pending = [s \in Source |-> 0]
  /\ handling = Nobody /\ printed = {} /\ unprinted = {}
  /\ waited = [v \in Vm |-> "none"] /\ stray = FALSE
  /\ returned = "nothing"
  /\ Evt!Init

-----------------------------------------------------------------------------
Goto(from, to) == line = from /\ line' = to /\ UNCHANGED <<options, waited>>

Return(from, value) == Goto(from, "done") /\ returned' = value /\ UNCHANGED cur

Others == UNCHANGED <<sent, sdk, event>>

Answers == <<registered, subscribed, accepted, refused>>

(* update_vm_list.  What is read of a VM that cannot be read is a pointer  *)
(* nobody has set, and it is used at once.                                 *)
List ==
  /\ \/ Goto("list", "node") /\ UNCHANGED <<cur, returned>>
     \/ Has("all") /\ Return("list", "error")
     \/ Has("all") /\ Goto("list", "crashed") /\ UNCHANGED <<cur, returned>>
  /\ UNCHANGED Answers /\ Others

Subscribed(source, to, next) ==
  /\ line' = to /\ cur' = next
  /\ subscribed' = subscribed \cup {source} /\ accepted' = accepted \cup {source}
  /\ UNCHANGED <<options, waited, returned, refused>>

(* A job that was given up may still subscribe. *)
Refused(from, source, value) ==
  /\ Return(from, value)
  /\ refused' = refused \cup {source} /\ UNCHANGED accepted
  /\ subscribed' \in {subscribed, subscribed \cup {source}}

(* A mistake: the error of the handler is made of another variable, too. *)
SubscribeHides(source, from, to, next) ==
  /\ \/ Return(from, "ok") /\ UNCHANGED Answers
     \/ /\ line = from /\ registered' = registered \cup {source}
        /\ Refused(from, source, "ok") \/ Subscribed(source, to, next)
  /\ Others

(* A handler is registered and then the statistics are subscribed to.  The *)
(* error of the second call is printed and success is returned.            *)
Subscribe(source, from, to, next) ==
  /\ \/ Return(from, "error") /\ UNCHANGED Answers
     \/ /\ line = from /\ registered' = registered \cup {source}
        /\ Refused(from, source, "ok") \/ Subscribed(source, to, next)
  /\ Others

SubscribeNode ==
  IF Has("srv") THEN Subscribe(Node, "node", "vm", cur)
  ELSE Goto("node", "vm") /\ UNCHANGED <<cur, Answers, returned>> /\ Others

(* prlsrvctl without --all has no VM, prlctl without it has one. *)
Visited == IF Has("all") THEN Vm ELSE IF Has("srv") THEN {} ELSE Vm \cap {1}

SubscribeVm ==
  /\ cur \in Visited
  /\ IF Has("loop") THEN Subscribe(cur, "vm", "vm", cur + 1)
                    ELSE Subscribe(cur, "vm", "wait", cur)

(* A mistake: the wait has no timeout. *)
TimeOutNever == FALSE /\ UNCHANGED vars

InWait == line = "wait" /\ UNCHANGED <<options, cur, Answers, returned, sent, sdk>>

Block   == InWait /\ Evt!WaitBlock("prlctl") /\ UNCHANGED <<line, waited>>
TimeOut == InWait /\ Evt!TimeOut("prlctl") /\ UNCHANGED <<line, waited>>

WaitOver ==
  /\ InWait
  /\ Evt!WaitFast("prlctl") \/ Evt!WaitReturn("prlctl")
  /\ line' = "reset"
  /\ waited' = [waited EXCEPT ![cur] = result'["prlctl"]]

(* A mistake: the event keeps a second signal of the same VM. *)
NoReset ==
  /\ Goto("reset", "remove")
  /\ UNCHANGED <<cur, Answers, returned, sent, sdk, event>>

Reset ==
  /\ Goto("reset", "remove")
  /\ Evt!Reset("prlctl")
  /\ UNCHANGED <<cur, Answers, returned, sent, sdk>>

(* The result of the job that ends the subscription is not looked at. *)
Remove ==
  /\ Goto("remove", "vm")
  /\ registered' = registered \ {cur}
  /\ subscribed' \in {subscribed, subscribed \ {cur}}
  /\ cur' = cur + 1
  /\ UNCHANGED <<accepted, refused, returned>> /\ Others

(* With --loop a key ends it.  The handler of the node is unregistered     *)
(* with other data than it was registered with, and stays.                 *)
LastVm ==
  /\ cur \notin Visited
  /\ \/ Has("loop") /\ Goto("vm", "key") /\ UNCHANGED <<cur, returned>>
     \/ ~Has("loop") /\ Return("vm", "ok")
  /\ UNCHANGED Answers /\ Others

Key == Return("key", "ok") /\ UNCHANGED Answers /\ Others

Main == List \/ SubscribeNode \/ SubscribeVm \/ Block \/ WaitOver \/ Reset \/ Remove \/ LastVm

-----------------------------------------------------------------------------
(* perfstats_callback, in a thread of the SDK: it prints, and then signals *)
(* whatever came of that; an event it does not know it drops.  It may      *)
(* still run when it is unregistered.                                      *)
PrintStatistics(s) ==
  /\ pending[s] > 0 /\ handling = Nobody
  /\ pending' = [pending EXCEPT ![s] = @ - 1]
  /\ \/ UNCHANGED <<handling, printed, unprinted>>
     \/ /\ s \in registered /\ handling' = s
        /\ \/ printed' = printed \cup {s} /\ UNCHANGED unprinted
           \/ unprinted' = unprinted \cup {s} /\ UNCHANGED printed
  /\ UNCHANGED <<main, subscribed, sent, stray, event>>

Signal ==
  /\ handling # Nobody /\ handling' = Nobody
  /\ IF Has("loop") THEN UNCHANGED event ELSE Evt!Signal("sdk")
  /\ stray' = (stray \/ handling # cur \/ line \notin {"wait", "reset"})
  /\ UNCHANGED <<main, subscribed, sent, pending, printed, unprinted>>

(* The dispatcher sends statistics to who has subscribed to them. *)
Send(s) ==
  /\ s \in subscribed /\ sent < MaxEvents
  /\ sent' = sent + 1 /\ pending' = [pending EXCEPT ![s] = @ + 1]
  /\ UNCHANGED <<main, subscribed, handling, printed, unprinted, stray, event>>

Next ==
  /\ line \notin {"done", "crashed"}
  /\ Main \/ TimeOut \/ Key \/ Signal \/ \E s \in Source : PrintStatistics(s) \/ Send(s)

Spec == Init /\ [][Next]_vars

-----------------------------------------------------------------------------
(* The wait for a VM does not succeed before an event of that VM was       *)
(* handled: its statistics were printed, or there were none in it that     *)
(* could be.  Except when an event came after the Reset of the wait it was *)
(* for, or was the node's.                                                 *)
WaitsForItsVm ==
  \A v \in Vm : waited[v] = "true" => v \in printed \cup unprinted \/ stray

(* Whom print_statistics has to subscribe. *)
Due == (IF Has("srv") THEN {Node} ELSE {}) \cup Visited
=============================================================================

-------------------------- MODULE JobCommandsProofs --------------------------
(***************************************************************************)
(* Ctrl-C, the commands and the program, for any signals and any order of  *)
(* the threads' steps, in three parts.                                     *)
(*   PrlCleanup by itself: its types with the iterator of do_cleanup       *)
(* inside the list, that the list is not changed under the iterator, and   *)
(* that a signal kills the program only before its handlers are installed  *)
(* and between the two calls of close() in join().                         *)
(*   The scripts of JobScripts, which obey the rules of JobCommands, one   *)
(* by one and without the program around them.  A command is good if it    *)
(* belongs to a set of pairs of steps and states that is closed under what *)
(* may come next and in which every pair obeys the rules: the largest such *)
(* set needs no induction over the script.  A part of a script leads from  *)
(* a set of states to another (Leads), which composes as the scripts do;   *)
(* In and State are the sets of states that the commands go through.       *)
(*   The program, for any set of commands, with and without --timeout.     *)
(* The inductive invariant JobInv says that what the command has still to  *)
(* do is good in the state it sees, where the monitor may ask for the      *)
(* cancel of a job at any time; the steps of the other threads change      *)
(* nothing of it, and those of the main thread are the script's.           *)
(***************************************************************************)
EXTENDS JobCommands, SequenceTheorems, TLAPS

(* Taking an element out of a list of hooks leaves a list of hooks.        *)
LEMMA WithoutType ==
  ASSUME NEW S, NEW s \in Seq(S), NEW i \in 1..Len(s)
  PROVE  Without(s, i) \in Seq(S)
<1>1. SubSeq(s, 1, i - 1) \in Seq(S)
  <2>1. \A k \in 1..(i - 1) : s[k] \in S
    BY ElementOfSeq
  <2> QED
    BY <2>1, SubSeqProperties
<1>2. SubSeq(s, i + 1, Len(s)) \in Seq(S)
  <2>1. \A k \in (i + 1)..Len(s) : s[k] \in S
    BY ElementOfSeq
  <2> QED
    BY <2>1, SubSeqProperties
<1> QED
  BY <1>1, <1>2, ConcatProperties DEF Without

(* The list without its newest element. *)
LEMMA FrontType ==
  ASSUME NEW S, NEW s \in Seq(S), s # <<>>
  PROVE  SubSeq(s, 1, Len(s) - 1) \in Seq(S)
<1>1. \A k \in 1..(Len(s) - 1) : s[k] \in S
  BY ElementOfSeq
<1>2. Len(s) \in Nat
  BY LenProperties
<1> QED
  BY <1>1, <1>2, SubSeqProperties

(* The inductive form of TypeOK: a monitor that is started finds no pass   *)
(* over the hooks under way, since there was no monitor before.            *)
Typed == TypeOK /\ (main \in {"install", "pipe", "thread"} => monitor = "unborn")

(* The types of the start, and each step keeps them. *)
LEMMA InitTyped ==
  ASSUME Init
  PROVE  Typed
<1>1. <<>> \in Seq(Hook) /\ Len(<<>>) = 0
  BY EmptySeq
<1>2. hooks \in Seq(Hook) /\ left \in 0..Len(hooks)
  BY <1>1 DEF Init
<1> QED
  BY <1>2 DEF Init, Typed, TypeOK, MainAt, MonitorAt

(* Each step keeps the types. *)
LEMMA NextTyped ==
  ASSUME Typed, [Next]_vars
  PROVE  Typed'
<1> USE DEF Typed, TypeOK, MainAt, MonitorAt
<1>1. CASE UNCHANGED vars
  BY <1>1 DEF vars, startup, queue, cleanup
<1>2. CASE Startup
  <2>1. CASE InstallHandlers \/ OpenPipe
    BY <2>1 DEF InstallHandlers, OpenPipe, MainGoes, queue, cleanup
  <2>2. CASE PipeFails \/ StartWork \/ InitFails
    BY <2>2 DEF PipeFails, StartWork, InitFails, MainGoes, startup, queue, cleanup
  <2>3. CASE StartMonitor
    BY <2>3 DEF StartMonitor, MainGoes, startup, queue
  <2> QED
    BY <1>2, <2>1, <2>2, <2>3 DEF Startup
<1>3. ASSUME NEW h \in Hook, RegisterHook(h) PROVE Typed'
  <2>1. hooks' = Append(hooks, h) /\ Append(hooks, h) \in Seq(Hook)
    BY <1>3, AppendProperties DEF RegisterHook
  <2>2. left = 0 /\ left' = 0 /\ Len(hooks') \in Nat
    BY <1>3, <2>1, LenProperties DEF RegisterHook, Working, MutexFree
  <2> QED
    BY <1>3, <2>1, <2>2 DEF RegisterHook, Working, startup, queue
<1>4. ASSUME NEW i \in 1..Len(hooks), UnregisterHook(i) PROVE Typed'
  <2>1. hooks' \in Seq(Hook)
    BY <1>4, WithoutType DEF UnregisterHook
  <2>2. left = 0 /\ left' = 0 /\ Len(hooks') \in Nat
    BY <1>4, <2>1, LenProperties DEF UnregisterHook, Working, MutexFree
  <2> QED
    BY <1>4, <2>1, <2>2 DEF UnregisterHook, Working, startup, queue
<1>5. CASE UnregisterLast
  <2>1. hooks' \in Seq(Hook)
    BY <1>5, FrontType DEF UnregisterLast
  <2>2. left = 0 /\ left' = 0 /\ Len(hooks') \in Nat
    BY <1>5, <2>1, LenProperties DEF UnregisterLast, Working, MutexFree
  <2> QED
    BY <1>5, <2>1, <2>2 DEF UnregisterLast, Working, startup, queue
<1>6. CASE StartJoin \/ Ending
  BY <1>6 DEF StartJoin, Ending, CloseRead, CloseWrite, Join, Exit, MainGoes,
              startup, queue, cleanup
<1>7. CASE EnterRead \/ ReadSignal \/ ReadEof \/ UnlockHooks
  BY <1>7 DEF EnterRead, ReadSignal, ReadEof, UnlockHooks, startup, queue
<1>8. CASE LockHooks
  <2>1. Len(hooks) \in Nat
    BY LenProperties
  <2> QED
    BY <1>8, <2>1 DEF LockHooks, startup, queue
<1>9. CASE CallHook
  <2>1. Len(hooks) \in Nat
    BY LenProperties
  <2> QED
    BY <1>9, <2>1 DEF CallHook, startup, queue
<1>10. CASE SignalKills \/ SignalIgnored
  BY <1>10 DEF SignalKills, SignalIgnored, Delivered, startup, cleanup
<1>11. ASSUME NEW t \in Receiver, SignalQueued(t) PROVE Typed'
  BY <1>11 DEF SignalQueued, Delivered, startup
<1> QED
  BY <1>1, <1>2, <1>3, <1>4, <1>5, <1>6, <1>7, <1>8, <1>9, <1>10, <1>11
     DEF Next, Work, Monitor, Signal

(* The types: in particular left never points past the end of the list.    *)
THEOREM CleanupTypes == Spec => []TypeOK
<1>1. Init => Typed
  BY InitTyped
<1>2. Typed /\ [Next]_vars => Typed'
  BY NextTyped
<1>3. Typed => TypeOK
  BY DEF Typed
<1> QED
  BY <1>1, <1>2, <1>3, PTL DEF Spec

(* do_cleanup holds m_mutex over its loop, and every change of the list    *)
(* takes it, so no hook comes or goes while the monitor calls them.        *)
THEOREM ListIsFrozen == Spec => HooksFrozen
<1>1. [Next]_vars => (monitor = "calling" => hooks' = hooks)
  <2> SUFFICES ASSUME [Next]_vars, monitor = "calling" PROVE hooks' = hooks
    OBVIOUS
  <2>1. ~Work
    BY DEF Work, RegisterHook, UnregisterHook, UnregisterLast, Working, MutexFree
  <2>2. CASE UNCHANGED vars
    BY <2>2 DEF vars, cleanup
  <2>3. CASE Startup \/ StartJoin \/ Ending
    BY <2>3 DEF Startup, InstallHandlers, OpenPipe, PipeFails, StartMonitor, StartWork,
                InitFails, StartJoin, Ending, CloseRead, CloseWrite, Join, Exit, cleanup
  <2>4. CASE Monitor
    BY <2>4 DEF Monitor, EnterRead, ReadSignal, ReadEof, LockHooks, CallHook, UnlockHooks
  <2>5. CASE Signal
    BY <2>5 DEF Signal, SignalKills, SignalIgnored, SignalQueued, cleanup
  <2> QED
    BY <2>1, <2>2, <2>3, <2>4, <2>5 DEF Next
<1> QED
  BY <1>1, PTL DEF Spec, HooksFrozen

(* The inductive form of SurvivesSignals: which of the handlers and of the *)
(* ends of the pipe the main thread has dealt with follows from where it   *)
(* is, and a main thread that was killed stays where it is.                *)
SafeWindows ==
  /\ SurvivesSignals
  /\ handler = "default" => main = "install"
  /\ writeEnd /\ ~readEnd => main = "close1"
  /\ main \in {"install", "pipe"} => ~writeEnd

(* No signal kills the program once its handlers are installed, except     *)
(* between the two calls of close() in join().                             *)
THEOREM OnlyTwoWindows == Spec => []SurvivesSignals
<1>1. Init => SafeWindows
  BY DEF Init, SafeWindows, SurvivesSignals
<1>2. SafeWindows /\ [Next]_vars => SafeWindows'
  <2> SUFFICES ASSUME SafeWindows, [Next]_vars PROVE SafeWindows'
    OBVIOUS
  <2> USE DEF SafeWindows, SurvivesSignals
  <2>1. CASE UNCHANGED vars
    BY <2>1 DEF vars, startup
  <2>2. CASE Startup
    BY <2>2 DEF Startup, InstallHandlers, OpenPipe, PipeFails, StartMonitor, StartWork,
                InitFails, MainGoes, startup
  <2>3. CASE Work
    BY <2>3 DEF Work, RegisterHook, UnregisterHook, UnregisterLast, startup
  <2>4. CASE StartJoin
    BY <2>4 DEF StartJoin, MainGoes, startup
  <2>5. CASE CloseRead
    BY <2>5 DEF CloseRead, MainGoes
  <2>6. CASE CloseWrite
    BY <2>6 DEF CloseWrite, MainGoes
  <2>7. CASE Join \/ Exit
    BY <2>7 DEF Join, Exit, MainGoes, startup
  <2>8. CASE Monitor
    BY <2>8 DEF Monitor, EnterRead, ReadSignal, ReadEof, LockHooks, CallHook, UnlockHooks,
                startup
  <2>9. CASE SignalKills
    BY <2>9 DEF SignalKills, Delivered, Readable, startup
  <2>10. CASE SignalIgnored \/ \E t \in Receiver : SignalQueued(t)
    BY <2>10 DEF SignalIgnored, SignalQueued, Delivered, startup
  <2> QED
    BY <2>1, <2>2, <2>3, <2>4, <2>5, <2>6, <2>7, <2>8, <2>9, <2>10
       DEF Next, Ending, Signal
<1>3. SafeWindows => SurvivesSignals
  BY DEF SafeWindows
<1> QED
  BY <1>1, <1>2, <1>3, PTL DEF Spec

-----------------------------------------------------------------------------
(* A command by itself: the steps of a script, with the part of the state  *)
(* that they change.  may: the jobs the dispatcher was asked to cancel, or *)
(* a hook may ask it to; cut: a wait has returned "canceled".              *)
Handle == Job \cup {"hVm", "hVmGuest"}
Buf    == {"NULL", "batch", "this", "vm_uuid", "vm_id"}
Fn     == {"start", "progress", "migrate", "commit", "backup", "server", "monitor"}
Result == {"none", "ok", "failed", "canceled", "timeout"}

Sees == [hooks : Seq(CommandHook), own : Seq(CommandHook), live : SUBSET Handle, bufs : SUBSET Buf,
         regs : SUBSET (Fn \X Buf), handler : {"default", "cleanup", "terminal"},
         may : SUBSET Job, rc : Result, cut : {"yes", "no"}]

(* The jobs that a hook cancels, whatever handles are freed. *)
CancelledBy(h) ==
  CASE h.fn = "cancel_job"         -> {h.data}
    [] h.fn = "migrate_cancel_job" -> {"hJob"}
    [] OTHER                       -> {}

Cancellable(list) == UNION {CancelledBy(list[i]) : i \in 1..Len(list)}

(* The states after a step e, other than if and either. *)
After(e, s) ==
  CASE e.op = "start"       -> {[s EXCEPT !.live = @ \cup {e.h}, !.may = (@ \ {e.h}) \cup Cancellable(s.hooks)]}
    [] e.op = "wait"        -> {[s EXCEPT !.rc = r, !.cut = IF r = "canceled" THEN "yes" ELSE @] :
                                  r \in IF e.h \in s.may THEN {"ok", "failed", "timeout", "canceled"} ELSE {"ok", "failed", "timeout"}}
    [] e.op = "cancel_late" -> {[s EXCEPT !.may = IF s.rc = "timeout" THEN @ \cup {e.h} ELSE @]}
    [] e.op = "obtain"      -> {[s EXCEPT !.live = @ \cup {e.h}]}
    [] e.op = "free"        -> {[s EXCEPT !.live = @ \ {e.h}]}
    [] e.op = "buffer"      -> {[s EXCEPT !.bufs = @ \cup {e.b}]}
    [] e.op = "drop"        -> {[s EXCEPT !.bufs = @ \ {e.b}]}
    [] e.op = "reg"         -> {[s EXCEPT !.regs = @ \cup {e.cb}]}
    [] e.op = "unreg"       -> {[s EXCEPT !.regs = @ \ {e.cb}]}
    [] e.op = "hook"        -> {[s EXCEPT !.hooks = Append(@, e.hook), !.own = IF e.keep THEN <<e.hook>> ELSE @,
                                          !.may = @ \cup CancelledBy(e.hook)]}
    [] e.op = "unhook"      -> {[s EXCEPT !.hooks = Without(@, i), !.may = m] :
                                  i \in {k \in 1..Len(s.hooks) : s.own = <<s.hooks[k]>>}, m \in SUBSET s.may}
    [] e.op = "unhook_last" -> {[s EXCEPT !.hooks = IF @ = <<>> THEN @ ELSE SubSeq(@, 1, Len(@) - 1), !.may = m] :
                                  m \in SUBSET s.may}
    [] e.op = "handler"     -> {[s EXCEPT !.handler = e.to]}
    [] OTHER                -> {}

(* The rules of command c: those of JobCommands, of one state and of the   *)
(* step that is next; and that the step is one the model knows.            *)
Obeys(c, q, s) ==
  /\ \A i, k \in 1..Len(s.hooks) : s.hooks[i] = s.hooks[k] => i = k
  /\ c \notin LeavesDeadHook => \A i \in 1..Len(s.hooks) : s.hooks[i].data \in s.live
  /\ c \notin LeavesDeadCallback => \A cb \in s.regs : cb[2] \in s.bufs
  /\ s.handler = "default" => c = "enter"
  /\ q = <<>> /\ c \notin LeavesHook => s.hooks = <<>>
  /\ q = <<>> /\ c \notin LeavesCallback => s.regs = {}

Allowed(c, e, s) ==
  /\ e.op \in {"start", "wait", "cancel_late"} => e.h \in Job
  /\ e.op = "start" /\ s.cut = "yes" => e.h = "hLogout" \/ (c = "restore" /\ e.h = "hRestore")
  /\ e.op = "hook" => e.hook \in CommandHook
  /\ e.op = "handler" => e.to \in {"default", "cleanup", "terminal"}

Branches(e, s) ==
  CASE e.op = "if"     -> IF s.rc \in e.in THEN {e.yes} ELSE {e.no}
    [] e.op = "either" -> {e.yes, e.no}
    [] OTHER           -> {}

(* What a command in state s with the steps q to do may come to next. *)
Then(q, s) ==
  {<<Tail(q), s2>> : s2 \in After(Head(q), s)} \cup {<<p \o Tail(q), s>> : p \in Branches(Head(q), s)}

(* A set of such pairs that has with each one all that may come next, and  *)
(* obeys the rules; and what belongs to one.                               *)
Closed(c, R) ==
  \A x \in R : /\ Obeys(c, x[1], x[2])
               /\ x[1] # <<>> => Allowed(c, Head(x[1]), x[2]) /\ Then(x[1], x[2]) \subseteq R

Good(c, q, s) == \E R : Closed(c, R) /\ <<q, s>> \in R

(* The rules hold of a good command where it is. *)
LEMMA GoodNow ==
  ASSUME NEW c, NEW q, NEW s, Good(c, q, s)
  PROVE  Obeys(c, q, s) /\ (q # <<>> => Allowed(c, Head(q), s))
<1>1. PICK R : Closed(c, R) /\ <<q, s>> \in R
  BY DEF Good
<1> QED
  BY <1>1 DEF Closed

(* Whatever a good command comes to next is good again. *)
LEMMA GoodNext ==
  ASSUME NEW c, NEW q, NEW s, Good(c, q, s), q # <<>>, NEW t2, NEW s2, <<t2, s2>> \in Then(q, s)
  PROVE  Good(c, t2, s2)
<1>1. PICK R : Closed(c, R) /\ <<q, s>> \in R
  BY DEF Good
<1>2. <<t2, s2>> \in R
  BY <1>1 DEF Closed
<1> QED
  BY <1>1, <1>2 DEF Good

(* The converse: a command is good if it obeys the rules and all that may  *)
(* come next is good. The set that shows it is the union of the sets of    *)
(* what comes next, and the command itself.                                *)
LEMMA GoodFrom ==
  ASSUME NEW c, NEW q, NEW s, Obeys(c, q, s),
         q # <<>> => Allowed(c, Head(q), s) /\ \A x \in Then(q, s) : Good(c, x[1], x[2])
  PROVE  Good(c, q, s)
<1> DEFINE of(x) == CHOOSE R : Closed(c, R) /\ <<x[1], x[2]>> \in R
           N == IF q = <<>> THEN {} ELSE Then(q, s)
           R == {<<q, s>>} \cup UNION {of(x) : x \in N}
<1>1. ASSUME NEW x \in N PROVE Closed(c, of(x)) /\ <<x[1], x[2]>> \in of(x)
  <2>1. Good(c, x[1], x[2])
    BY <1>1
  <2>2. \E Q : Closed(c, Q) /\ <<x[1], x[2]>> \in Q
    BY <2>1 DEF Good
  <2> QED
    BY <2>2
<1>2. ASSUME NEW x \in N PROVE x = <<x[1], x[2]>>
  BY DEF Then
<1>3. N \subseteq R
  <2> SUFFICES ASSUME NEW x \in N PROVE x \in R
    OBVIOUS
  <2>1. x \in of(x)
    BY <1>1, <1>2
  <2> QED
    BY <2>1
<1>4. Closed(c, R)
  <2> SUFFICES ASSUME NEW y \in R
               PROVE  /\ Obeys(c, y[1], y[2])
                      /\ y[1] # <<>> => Allowed(c, Head(y[1]), y[2]) /\ Then(y[1], y[2]) \subseteq R
    BY DEF Closed
  <2>1. CASE y = <<q, s>>
    BY <1>3, <2>1
  <2>2. CASE y # <<q, s>>
    <3>1. PICK x \in N : y \in of(x)
      BY <2>2
    <3>2. of(x) \subseteq R
      BY <3>1
    <3>3. Closed(c, of(x))
      BY <1>1, <3>1
    <3> HIDE DEF of, R, N
    <3> QED
      BY <3>1, <3>2, <3>3 DEF Closed
  <2> QED
    BY <2>1, <2>2
<1>5. <<q, s>> \in R
  OBVIOUS
<1> QED
  BY <1>4, <1>5 DEF Good

-----------------------------------------------------------------------------
(* From a state of P the steps p lead, through states that obey the rules  *)
(* of c, to a state of Q, if they come to their end: whatever may follow   *)
(* them there may follow them here.                                        *)
IsScript(p) == \E S : p \in Seq(S)

Leads(c, P, p, Q) ==
  /\ IsScript(p)
  /\ \A k : IsScript(k) /\ (\A s \in Q : Good(c, k, s)) => \A s \in P : Good(c, p \o k, s)

(* Two lists and the one made of them, as lists of the same elements.      *)
LEMMA ScriptsTogether ==
  ASSUME NEW p, NEW q, NEW k, IsScript(p), IsScript(q), IsScript(k)
  PROVE  \E S : p \in Seq(S) /\ q \in Seq(S) /\ k \in Seq(S)
<1>1. PICK S : p \in Seq(S)
  BY DEF IsScript
<1>2. PICK T : q \in Seq(T)
  BY DEF IsScript
<1>3. PICK U : k \in Seq(U)
  BY DEF IsScript
<1> DEFINE V == S \cup T \cup U
<1>4. p \in Seq(V) /\ q \in Seq(V) /\ k \in Seq(V)
  BY <1>1, <1>2, <1>3, SeqMonotonic
<1> QED
  BY <1>4

(* Scripts in sequence: the second goes on where the first ends. *)
LEMMA LeadsOn ==
  ASSUME NEW c, NEW P, NEW p, NEW M, NEW q, NEW Q, Leads(c, P, p, M), Leads(c, M, q, Q)
  PROVE  Leads(c, P, p \o q, Q)
<1>1. IsScript(p) /\ IsScript(q)
  BY DEF Leads
<1>2. IsScript(p \o q)
  <2>1. PICK S : p \in Seq(S) /\ q \in Seq(S)
    BY <1>1, ScriptsTogether
  <2> QED
    BY <2>1, ConcatProperties DEF IsScript
<1>3. ASSUME NEW k, IsScript(k), \A s \in Q : Good(c, k, s), NEW s \in P
      PROVE  Good(c, (p \o q) \o k, s)
  <2>1. PICK S : p \in Seq(S) /\ q \in Seq(S) /\ k \in Seq(S)
    BY <1>1, <1>3, ScriptsTogether
  <2>2. (p \o q) \o k = p \o (q \o k) /\ q \o k \in Seq(S)
    BY <2>1, ConcatAssociative, ConcatProperties
  <2>3. IsScript(q \o k)
    BY <2>2 DEF IsScript
  <2>4. \A x \in M : Good(c, q \o k, x)
    BY <1>3 DEF Leads
  <2>5. Good(c, p \o (q \o k), s)
    BY <2>3, <2>4 DEF Leads
  <2> QED
    BY <2>2, <2>5
<1> QED
  BY <1>2, <1>3 DEF Leads

(* The empty script stays where it is. *)
LEMMA LeadsNowhere ==
  ASSUME NEW c, NEW P
  PROVE  Leads(c, P, <<>>, P)
<1>1. IsScript(<<>>)
  BY EmptySeq DEF IsScript
<1>2. ASSUME NEW k, IsScript(k) PROVE <<>> \o k = k
  BY <1>2, ConcatEmptySeq DEF IsScript
<1> QED
  BY <1>1, <1>2 DEF Leads

(* A script leads from fewer states to more. *)
LEMMA LeadsWithin ==
  ASSUME NEW c, NEW P, NEW P2, NEW p, NEW Q, NEW Q2, Leads(c, P, p, Q), P2 \subseteq P, Q \subseteq Q2
  PROVE  Leads(c, P2, p, Q2)
BY DEF Leads

(* From one of two sets of states, to one of two. *)
LEMMA LeadsEither ==
  ASSUME NEW c, NEW P, NEW P2, NEW p, NEW Q, NEW Q2, Leads(c, P, p, Q), Leads(c, P2, p, Q2)
  PROVE  Leads(c, P \cup P2, p, Q \cup Q2)
BY DEF Leads

(* One step, before any others. *)
LEMMA StepAndRest ==
  ASSUME NEW e, NEW k, IsScript(k)
  PROVE  IsScript(<<e>>) /\ <<e>> \o k # <<>> /\ Head(<<e>> \o k) = e /\ Tail(<<e>> \o k) = k
<1>1. <<e>> \in Seq({e})
  OBVIOUS
<1>2. IsScript(<<e>>)
  BY <1>1 DEF IsScript
<1>3. PICK S : k \in Seq(S) /\ <<e>> \in Seq(S)
  BY <1>2, ScriptsTogether
<1>4. e \in S
  <2>1. Len(<<e>>) = 1 /\ <<e>>[1] = e
    OBVIOUS
  <2> QED
    BY <1>3, <2>1, ElementOfSeq
<1> QED
  BY <1>2, <1>3, <1>4

(* A single step leads to the states after it, if the rules hold before    *)
(* it.                                                                     *)
LEMMA OneStep ==
  ASSUME NEW c, NEW P, NEW e, NEW Q, e.op \notin {"if", "either"},
         \A s \in P : Obeys(c, <<e>>, s) /\ Allowed(c, e, s) /\ After(e, s) \subseteq Q
  PROVE  Leads(c, P, <<e>>, Q)
<1>1. IsScript(<<e>>)
  BY StepAndRest, EmptySeq DEF IsScript
<1>2. ASSUME NEW k, IsScript(k), \A s \in Q : Good(c, k, s), NEW s \in P
      PROVE  Good(c, <<e>> \o k, s)
  <2>1. <<e>> \o k # <<>> /\ Head(<<e>> \o k) = e /\ Tail(<<e>> \o k) = k
    BY <1>2, StepAndRest
  <2>2. Obeys(c, <<e>> \o k, s)
    <3>1. <<e>> # <<>>
      OBVIOUS
    <3> QED
      BY <2>1, <3>1 DEF Obeys
  <2>3. Branches(e, s) = {}
    BY DEF Branches
  <2>4. ASSUME NEW x \in Then(<<e>> \o k, s) PROVE Good(c, x[1], x[2])
    <3>1. PICK s2 \in After(e, s) : x = <<k, s2>>
      BY <2>1, <2>3 DEF Then
    <3> QED
      BY <1>2, <3>1
  <2> QED
    BY <2>1, <2>2, <2>4, GoodFrom
<1> QED
  BY <1>1, <1>2 DEF Leads

(* If: each branch goes on from the states whose result chooses it. *)
LEMMA LeadsIf ==
  ASSUME NEW c, NEW P, NEW S, NEW p, NEW q, NEW Q,
         Leads(c, {s \in P : s.rc \in S}, p, Q), Leads(c, {s \in P : s.rc \notin S}, q, Q),
         \A s \in P : Obeys(c, If(S, p, q), s)
  PROVE  Leads(c, P, If(S, p, q), Q)
<1> DEFINE e == [op |-> "if", in |-> S, yes |-> p, no |-> q]
<1>0. If(S, p, q) = <<e>>
  BY DEF If
<1>1. IsScript(<<e>>)
  BY StepAndRest, EmptySeq DEF IsScript
<1>2. ASSUME NEW k, IsScript(k), \A s \in Q : Good(c, k, s), NEW s \in P
      PROVE  Good(c, <<e>> \o k, s)
  <2>1. <<e>> \o k # <<>> /\ Head(<<e>> \o k) = e /\ Tail(<<e>> \o k) = k
    BY <1>2, StepAndRest
  <2>2. Obeys(c, <<e>> \o k, s)
    <3>1. <<e>> # <<>>
      OBVIOUS
    <3> QED
      BY <1>0, <2>1, <3>1 DEF Obeys
  <2>3. After(e, s) = {}
    BY DEF After
  <2>4. Branches(e, s) = IF s.rc \in S THEN {p} ELSE {q}
    BY DEF Branches
  <2>5. Allowed(c, e, s)
    BY DEF Allowed
  <2>6. Good(c, (IF s.rc \in S THEN p ELSE q) \o k, s)
    BY <1>2 DEF Leads
  <2>7. ASSUME NEW x \in Then(<<e>> \o k, s) PROVE Good(c, x[1], x[2])
    <3> HIDE DEF e
    <3>1. x = <<(IF s.rc \in S THEN p ELSE q) \o k, s>>
      BY <2>1, <2>3, <2>4 DEF Then
    <3> QED
      BY <2>6, <3>1
  <2> HIDE DEF e
  <2> QED
    BY <2>1, <2>2, <2>5, <2>7, GoodFrom
<1> QED
  BY <1>0, <1>1, <1>2 DEF Leads

(* Either: both branches are possible in every state. *)
LEMMA LeadsEach ==
  ASSUME NEW c, NEW P, NEW p, NEW q, NEW Q, Leads(c, P, p, Q), Leads(c, P, q, Q),
         \A s \in P : Obeys(c, Either(p, q), s)
  PROVE  Leads(c, P, Either(p, q), Q)
<1> DEFINE e == [op |-> "either", yes |-> p, no |-> q]
<1>0. Either(p, q) = <<e>>
  BY DEF Either
<1>1. IsScript(<<e>>)
  BY StepAndRest, EmptySeq DEF IsScript
<1>2. ASSUME NEW k, IsScript(k), \A s \in Q : Good(c, k, s), NEW s \in P
      PROVE  Good(c, <<e>> \o k, s)
  <2>1. <<e>> \o k # <<>> /\ Head(<<e>> \o k) = e /\ Tail(<<e>> \o k) = k
    BY <1>2, StepAndRest
  <2>2. Obeys(c, <<e>> \o k, s)
    <3>1. <<e>> # <<>>
      OBVIOUS
    <3> QED
      BY <1>0, <2>1, <3>1 DEF Obeys
  <2>3. After(e, s) = {}
    BY DEF After
  <2>4. Branches(e, s) = {p, q}
    BY DEF Branches
  <2>5. Allowed(c, e, s)
    BY DEF Allowed
  <2>6. Good(c, p \o k, s) /\ Good(c, q \o k, s)
    BY <1>2 DEF Leads
  <2>7. ASSUME NEW x \in Then(<<e>> \o k, s) PROVE Good(c, x[1], x[2])
    <3> HIDE DEF e
    <3>1. PICK y \in {p, q} : x = <<y \o k, s>>
      BY <2>1, <2>3, <2>4 DEF Then
    <3>2. Good(c, y \o k, s)
      BY <2>6
    <3> QED
      BY <3>1, <3>2
  <2> HIDE DEF e
  <2> QED
    BY <2>1, <2>2, <2>5, <2>7, GoodFrom
<1> QED
  BY <1>0, <1>1, <1>2 DEF Leads

(* A script that leads to states in which nothing is left behind.         *)
LEMMA LeadsToEnd ==
  ASSUME NEW c, NEW P, NEW p, NEW Q, Leads(c, P, p, Q), \A s \in Q : Obeys(c, <<>>, s)
  PROVE  \A s \in P : Good(c, p, s)
<1>1. IsScript(<<>>)
  BY EmptySeq DEF IsScript
<1>2. \A s \in Q : Good(c, <<>>, s)
  BY GoodFrom
<1>3. p \o <<>> = p
  BY ConcatEmptySeq DEF IsScript, Leads
<1> QED
  BY <1>1, <1>2, <1>3 DEF Leads

-----------------------------------------------------------------------------
(* What is known of the state between two steps of a script: the list of   *)
(* hooks, the hook h may point to, the callbacks that may be registered,   *)
(* the buffers and handles that exist, the jobs that may be cancelled, and *)
(* what the waits returned.                                                *)
In(c, h, o, r, b, l, m, w) ==
  {s \in Sees : /\ s.hooks = h /\ s.own \in o /\ s.regs \subseteq r /\ b \subseteq s.bufs /\ l \subseteq s.live
                /\ s.may \subseteq m /\ <<s.rc, s.cut>> \in w
                /\ s.handler = "default" => c = "enter"}

(* No wait was cancelled; only the last; any. *)
Calm == Result \X {"no"}
Told == Calm \cup {<<"canceled", "yes">>}
Any  == Result \X {"no", "yes"}

(* The rules of c, of such a state. *)
Sound(c, h, r, b, l, m) ==
  /\ h \in Seq(CommandHook) /\ r \in SUBSET (Fn \X Buf)
  /\ \A i, k \in 1..Len(h) : h[i] = h[k] => i = k
  /\ c \notin LeavesDeadHook => \A i \in 1..Len(h) : h[i].data \in l
  /\ c \notin LeavesDeadCallback => \A cb \in r : cb[2] \in b
  /\ Cancellable(h) \subseteq m

(* The rules hold in such a state, as long as a step is left. *)
LEMMA InObeys ==
  ASSUME NEW c, NEW h, NEW o, NEW r, NEW b, NEW l, NEW m, NEW w, Sound(c, h, r, b, l, m),
         NEW s \in In(c, h, o, r, b, l, m, w), NEW q, q # <<>>
  PROVE  Obeys(c, q, s)
BY DEF In, Sound, Obeys

(* Hooks cancel jobs. *)
LEMMA CancellableJobs ==
  ASSUME NEW h \in Seq(CommandHook)
  PROVE  Cancellable(h) \subseteq Job
<1>1. \A i \in 1..Len(h) : h[i] \in CommandHook
  BY ElementOfSeq
<1>2. \A x \in CommandHook : CancelledBy(x) \subseteq Job
  BY DEF CommandHook, CancelledBy, Job
<1> QED
  BY <1>1, <1>2 DEF Cancellable

(* A step by its operation: what it does to the states that are known. *)
LEMMA StepIn ==
  ASSUME NEW c, NEW h, NEW o, NEW r, NEW b, NEW l, NEW m, NEW w, Sound(c, h, r, b, l, m),
         NEW e, NEW Q, e.op \notin {"if", "either"},
         \A s \in In(c, h, o, r, b, l, m, w) : Allowed(c, e, s) /\ After(e, s) \subseteq Q
  PROVE  Leads(c, In(c, h, o, r, b, l, m, w), <<e>>, Q)
<1>1. <<e>> # <<>>
  OBVIOUS
<1> QED
  BY <1>1, InObeys, OneStep

(* A job is started only if no wait was cancelled, or it is one that may   *)
(* be.                                                                     *)
LEMMA StartIs ==
  ASSUME NEW c, NEW h, NEW o, NEW r, NEW b, NEW l, NEW m, NEW w, Sound(c, h, r, b, l, m), NEW j \in Job,
         w \subseteq Calm \/ j = "hLogout" \/ (c = "restore" /\ j = "hRestore")
  PROVE  Leads(c, In(c, h, o, r, b, l, m, w), Start(j),
                  In(c, h, o, r, b, l \cup {j}, m, w))
<1> DEFINE e == [op |-> "start", h |-> j]
<1>1. Start(j) = <<e>>
  BY DEF Start
<1>2. ASSUME NEW s \in In(c, h, o, r, b, l, m, w)
      PROVE  /\ Allowed(c, e, s)
             /\ After(e, s) \subseteq In(c, h, o, r, b, l \cup {j}, m, w)
  <2>1. Cancellable(h) \subseteq Job
    BY CancellableJobs DEF Sound
  <2>2. After(e, s) = {[s EXCEPT !.live = @ \cup {j}, !.may = (@ \ {j}) \cup Cancellable(s.hooks)]}
    BY DEF After
  <2>3. Allowed(c, e, s)
    BY DEF Allowed, In, Calm
  <2> QED
    <3>1. s \in Sees /\ j \in Handle
      BY DEF In, Handle
    <3> DEFINE t == [s EXCEPT !.live = @ \cup {j}, !.may = (@ \ {j}) \cup Cancellable(s.hooks)]
    <3>2. t \in Sees
      BY <2>1, <3>1 DEF Sees, In
    <3>3. /\ t.hooks = s.hooks /\ t.own = s.own /\ t.regs = s.regs /\ t.bufs = s.bufs /\ t.handler = s.handler
          /\ t.rc = s.rc /\ t.cut = s.cut
      BY <3>1 DEF Sees
    <3>4. t.live = s.live \cup {j} /\ t.may = (s.may \ {j}) \cup Cancellable(s.hooks)
      BY <3>1 DEF Sees
    <3> HIDE DEF t
    <3>5. t \in In(c, h, o, r, b, l \cup {j}, m, w)
      BY <3>2, <3>3, <3>4 DEF In, Sound
    <3> QED
      BY <2>2, <2>3, <3>5 DEF t
<1> HIDE DEF e
<1>3. e.op \notin {"if", "either"}
  BY DEF e
<1> QED
  BY <1>1, <1>2, <1>3, StepIn
(* After a timeout handle_job_err cancels the job. *)
LEMMA CancelLateIs ==
  ASSUME NEW c, NEW h, NEW o, NEW r, NEW b, NEW l, NEW m, NEW w, Sound(c, h, r, b, l, m), NEW j \in Job
  PROVE  Leads(c, In(c, h, o, r, b, l, m, w), CancelLate(j), In(c, h, o, r, b, l, m \cup {j}, w))
<1> DEFINE e == [op |-> "cancel_late", h |-> j]
<1>1. CancelLate(j) = <<e>>
  BY DEF CancelLate
<1>2. ASSUME NEW s \in In(c, h, o, r, b, l, m, w)
      PROVE  Allowed(c, e, s) /\ After(e, s) \subseteq In(c, h, o, r, b, l, m \cup {j}, w)
  <2> DEFINE t == [s EXCEPT !.may = IF s.rc = "timeout" THEN @ \cup {j} ELSE @]
  <2>1. After(e, s) = {t}
    BY DEF After
  <2>2. Allowed(c, e, s)
    BY DEF Allowed, In
  <2>3. s \in Sees
    BY DEF In
  <2>4. t \in Sees
    BY <2>3 DEF Sees
  <2>5. /\ t.hooks = s.hooks /\ t.own = s.own /\ t.live = s.live /\ t.bufs = s.bufs
        /\ t.regs = s.regs /\ t.handler = s.handler /\ t.rc = s.rc /\ t.cut = s.cut
    BY <2>3 DEF Sees
  <2>6. t.may = IF s.rc = "timeout" THEN s.may \cup {j} ELSE s.may
    BY <2>3 DEF Sees
  <2> HIDE DEF t
  <2>7. t \in In(c, h, o, r, b, l, m \cup {j}, w)
    BY <2>4, <2>5, <2>6 DEF In
  <2> QED
    BY <2>1, <2>2, <2>7
<1>3. e.op \notin {"if", "either"}
  OBVIOUS
<1> HIDE DEF e
<1> QED
  BY <1>1, <1>2, <1>3, StepIn

(* Handles come and go, ... *)
LEMMA ObtainIs ==
  ASSUME NEW c, NEW h, NEW o, NEW r, NEW b, NEW l, NEW m, NEW w, Sound(c, h, r, b, l, m),
         NEW x \in Handle
  PROVE  Leads(c, In(c, h, o, r, b, l, m, w), Obtain(x), In(c, h, o, r, b, l \cup {x}, m, w))
<1> DEFINE e == [op |-> "obtain", h |-> x]
<1>1. Obtain(x) = <<e>>
  BY DEF Obtain
<1>2. ASSUME NEW s \in In(c, h, o, r, b, l, m, w)
      PROVE  Allowed(c, e, s) /\ After(e, s) \subseteq In(c, h, o, r, b, l \cup {x}, m, w)
  <2> DEFINE t == [s EXCEPT !.live = @ \cup {x}]
  <2>1. After(e, s) = {t}
    BY DEF After
  <2>2. Allowed(c, e, s)
    BY DEF Allowed, In
  <2>3. s \in Sees
    BY DEF In
  <2>4. t \in Sees
    BY <2>3 DEF Sees
  <2>5. /\ t.hooks = s.hooks /\ t.own = s.own /\ t.bufs = s.bufs /\ t.regs = s.regs
        /\ t.handler = s.handler /\ t.may = s.may /\ t.rc = s.rc /\ t.cut = s.cut
    BY <2>3 DEF Sees
  <2>6. t.live = s.live \cup {x}
    BY <2>3 DEF Sees
  <2> HIDE DEF t
  <2>7. t \in In(c, h, o, r, b, l \cup {x}, m, w)
    BY <2>4, <2>5, <2>6 DEF In
  <2> QED
    BY <2>1, <2>2, <2>7
<1>3. e.op \notin {"if", "either"}
  OBVIOUS
<1> HIDE DEF e
<1> QED
  BY <1>1, <1>2, <1>3, StepIn

(* ... as their destructors and the ends of their scopes say; ... *)
LEMMA FreeIs ==
  ASSUME NEW c, NEW h, NEW o, NEW r, NEW b, NEW l, NEW m, NEW w, Sound(c, h, r, b, l, m), NEW x
  PROVE  Leads(c, In(c, h, o, r, b, l, m, w), Free(x), In(c, h, o, r, b, l \ {x}, m, w))
<1> DEFINE e == [op |-> "free", h |-> x]
<1>1. Free(x) = <<e>>
  BY DEF Free
<1>2. ASSUME NEW s \in In(c, h, o, r, b, l, m, w)
      PROVE  Allowed(c, e, s) /\ After(e, s) \subseteq In(c, h, o, r, b, l \ {x}, m, w)
  <2> DEFINE t == [s EXCEPT !.live = @ \ {x}]
  <2>1. After(e, s) = {t}
    BY DEF After
  <2>2. Allowed(c, e, s)
    BY DEF Allowed, In
  <2>3. s \in Sees
    BY DEF In
  <2>4. t \in Sees
    BY <2>3 DEF Sees
  <2>5. /\ t.hooks = s.hooks /\ t.own = s.own /\ t.bufs = s.bufs /\ t.regs = s.regs
        /\ t.handler = s.handler /\ t.may = s.may /\ t.rc = s.rc /\ t.cut = s.cut
    BY <2>3 DEF Sees
  <2>6. t.live = s.live \ {x}
    BY <2>3 DEF Sees
  <2> HIDE DEF t
  <2>7. t \in In(c, h, o, r, b, l \ {x}, m, w)
    BY <2>4, <2>5, <2>6 DEF In
  <2> QED
    BY <2>1, <2>2, <2>7
<1>3. e.op \notin {"if", "either"}
  OBVIOUS
<1> HIDE DEF e
<1> QED
  BY <1>1, <1>2, <1>3, StepIn

(* ... buffers ... *)
LEMMA BufferIs ==
  ASSUME NEW c, NEW h, NEW o, NEW r, NEW b, NEW l, NEW m, NEW w, Sound(c, h, r, b, l, m), NEW x \in Buf
  PROVE  Leads(c, In(c, h, o, r, b, l, m, w), Buffer(x), In(c, h, o, r, b \cup {x}, l, m, w))
<1> DEFINE e == [op |-> "buffer", b |-> x]
<1>1. Buffer(x) = <<e>>
  BY DEF Buffer
<1>2. ASSUME NEW s \in In(c, h, o, r, b, l, m, w)
      PROVE  Allowed(c, e, s) /\ After(e, s) \subseteq In(c, h, o, r, b \cup {x}, l, m, w)
  <2> DEFINE t == [s EXCEPT !.bufs = @ \cup {x}]
  <2>1. After(e, s) = {t}
    BY DEF After
  <2>2. Allowed(c, e, s)
    BY DEF Allowed, In
  <2>3. s \in Sees
    BY DEF In
  <2>4. t \in Sees
    BY <2>3 DEF Sees
  <2>5. /\ t.hooks = s.hooks /\ t.own = s.own /\ t.live = s.live /\ t.regs = s.regs
        /\ t.handler = s.handler /\ t.may = s.may /\ t.rc = s.rc /\ t.cut = s.cut
    BY <2>3 DEF Sees
  <2>6. t.bufs = s.bufs \cup {x}
    BY <2>3 DEF Sees
  <2> HIDE DEF t
  <2>7. t \in In(c, h, o, r, b \cup {x}, l, m, w)
    BY <2>4, <2>5, <2>6 DEF In
  <2> QED
    BY <2>1, <2>2, <2>7
<1>3. e.op \notin {"if", "either"}
  OBVIOUS
<1> HIDE DEF e
<1> QED
  BY <1>1, <1>2, <1>3, StepIn

(* ... too, ... *)
LEMMA DropIs ==
  ASSUME NEW c, NEW h, NEW o, NEW r, NEW b, NEW l, NEW m, NEW w, Sound(c, h, r, b, l, m), NEW x
  PROVE  Leads(c, In(c, h, o, r, b, l, m, w), Drop(x), In(c, h, o, r, b \ {x}, l, m, w))
<1> DEFINE e == [op |-> "drop", b |-> x]
<1>1. Drop(x) = <<e>>
  BY DEF Drop
<1>2. ASSUME NEW s \in In(c, h, o, r, b, l, m, w)
      PROVE  Allowed(c, e, s) /\ After(e, s) \subseteq In(c, h, o, r, b \ {x}, l, m, w)
  <2> DEFINE t == [s EXCEPT !.bufs = @ \ {x}]
  <2>1. After(e, s) = {t}
    BY DEF After
  <2>2. Allowed(c, e, s)
    BY DEF Allowed, In
  <2>3. s \in Sees
    BY DEF In
  <2>4. t \in Sees
    BY <2>3 DEF Sees
  <2>5. /\ t.hooks = s.hooks /\ t.own = s.own /\ t.live = s.live /\ t.regs = s.regs
        /\ t.handler = s.handler /\ t.may = s.may /\ t.rc = s.rc /\ t.cut = s.cut
    BY <2>3 DEF Sees
  <2>6. t.bufs = s.bufs \ {x}
    BY <2>3 DEF Sees
  <2> HIDE DEF t
  <2>7. t \in In(c, h, o, r, b \ {x}, l, m, w)
    BY <2>4, <2>5, <2>6 DEF In
  <2> QED
    BY <2>1, <2>2, <2>7
<1>3. e.op \notin {"if", "either"}
  OBVIOUS
<1> HIDE DEF e
<1> QED
  BY <1>1, <1>2, <1>3, StepIn

(* ... and callbacks with their data. *)
LEMMA RegIs ==
  ASSUME NEW c, NEW h, NEW o, NEW r, NEW b, NEW l, NEW m, NEW w, Sound(c, h, r, b, l, m), NEW f \in Fn,
         NEW x \in Buf
  PROVE  Leads(c, In(c, h, o, r, b, l, m, w), Reg(f, x), In(c, h, o, r \cup {<<f, x>>}, b, l, m, w))
<1> DEFINE e == [op |-> "reg", cb |-> <<f, x>>]
<1>1. Reg(f, x) = <<e>>
  BY DEF Reg
<1>2. ASSUME NEW s \in In(c, h, o, r, b, l, m, w)
      PROVE  Allowed(c, e, s) /\ After(e, s) \subseteq In(c, h, o, r \cup {<<f, x>>}, b, l, m, w)
  <2> DEFINE t == [s EXCEPT !.regs = @ \cup {<<f, x>>}]
  <2>1. After(e, s) = {t}
    BY DEF After
  <2>2. Allowed(c, e, s)
    BY DEF Allowed, In
  <2>3. s \in Sees /\ <<f, x>> \in Fn \X Buf
    BY DEF In
  <2>4. t \in Sees
    BY <2>3 DEF Sees
  <2>5. /\ t.hooks = s.hooks /\ t.own = s.own /\ t.live = s.live /\ t.bufs = s.bufs
        /\ t.handler = s.handler /\ t.may = s.may /\ t.rc = s.rc /\ t.cut = s.cut
    BY <2>3 DEF Sees
  <2>6. t.regs = s.regs \cup {<<f, x>>}
    BY <2>3 DEF Sees
  <2> HIDE DEF t
  <2>7. t \in In(c, h, o, r \cup {<<f, x>>}, b, l, m, w)
    BY <2>4, <2>5, <2>6 DEF In
  <2> QED
    BY <2>1, <2>2, <2>7
<1>3. e.op \notin {"if", "either"}
  OBVIOUS
<1> HIDE DEF e
<1> QED
  BY <1>1, <1>2, <1>3, StepIn

(* Only the same function with the same data is unregistered. *)
LEMMA UnregIs ==
  ASSUME NEW c, NEW h, NEW o, NEW r, NEW b, NEW l, NEW m, NEW w, Sound(c, h, r, b, l, m), NEW f, NEW x
  PROVE  Leads(c, In(c, h, o, r, b, l, m, w), Unreg(f, x), In(c, h, o, r \ {<<f, x>>}, b, l, m, w))
<1> DEFINE e == [op |-> "unreg", cb |-> <<f, x>>]
<1>1. Unreg(f, x) = <<e>>
  BY DEF Unreg
<1>2. ASSUME NEW s \in In(c, h, o, r, b, l, m, w)
      PROVE  Allowed(c, e, s) /\ After(e, s) \subseteq In(c, h, o, r \ {<<f, x>>}, b, l, m, w)
  <2> DEFINE t == [s EXCEPT !.regs = @ \ {<<f, x>>}]
  <2>1. After(e, s) = {t}
    BY DEF After
  <2>2. Allowed(c, e, s)
    BY DEF Allowed, In
  <2>3. s \in Sees
    BY DEF In
  <2>4. t \in Sees
    BY <2>3 DEF Sees
  <2>5. /\ t.hooks = s.hooks /\ t.own = s.own /\ t.live = s.live /\ t.bufs = s.bufs
        /\ t.handler = s.handler /\ t.may = s.may /\ t.rc = s.rc /\ t.cut = s.cut
    BY <2>3 DEF Sees
  <2>6. t.regs = s.regs \ {<<f, x>>}
    BY <2>3 DEF Sees
  <2> HIDE DEF t
  <2>7. t \in In(c, h, o, r \ {<<f, x>>}, b, l, m, w)
    BY <2>4, <2>5, <2>6 DEF In
  <2> QED
    BY <2>1, <2>2, <2>7
<1>3. e.op \notin {"if", "either"}
  OBVIOUS
<1> HIDE DEF e
<1> QED
  BY <1>1, <1>2, <1>3, StepIn

(* Only prlctl enter sets the signals to their default. *)
LEMMA HandlerIs ==
  ASSUME NEW c, NEW h, NEW o, NEW r, NEW b, NEW l, NEW m, NEW w, Sound(c, h, r, b, l, m),
         NEW d \in {"default", "cleanup", "terminal"}, d = "default" => c = "enter"
  PROVE  Leads(c, In(c, h, o, r, b, l, m, w), Handler(d), In(c, h, o, r, b, l, m, w))
<1> DEFINE e == [op |-> "handler", to |-> d]
<1>1. Handler(d) = <<e>>
  BY DEF Handler
<1>2. ASSUME NEW s \in In(c, h, o, r, b, l, m, w)
      PROVE  Allowed(c, e, s) /\ After(e, s) \subseteq In(c, h, o, r, b, l, m, w)
  <2> DEFINE t == [s EXCEPT !.handler = d]
  <2>1. After(e, s) = {t}
    BY DEF After
  <2>2. Allowed(c, e, s)
    BY DEF Allowed, In
  <2>3. s \in Sees
    BY DEF In
  <2>4. t \in Sees
    BY <2>3 DEF Sees
  <2>5. /\ t.hooks = s.hooks /\ t.own = s.own /\ t.live = s.live /\ t.bufs = s.bufs
        /\ t.regs = s.regs /\ t.may = s.may /\ t.rc = s.rc /\ t.cut = s.cut
    BY <2>3 DEF Sees
  <2>6. t.handler = d
    BY <2>3 DEF Sees
  <2> HIDE DEF t
  <2>7. t \in In(c, h, o, r, b, l, m, w)
    BY <2>4, <2>5, <2>6 DEF In
  <2> QED
    BY <2>1, <2>2, <2>7
<1>3. e.op \notin {"if", "either"}
  OBVIOUS
<1> HIDE DEF e
<1> QED
  BY <1>1, <1>2, <1>3, StepIn

(* The hook of a job is registered, and kept, if h points to it; jobs that *)
(* it may cancel are added.                                                *)
LEMMA HookIs ==
  ASSUME NEW c, NEW h, NEW o, NEW r, NEW b, NEW l, NEW m, NEW w, Sound(c, h, r, b, l, m),
         NEW fn, NEW x, [fn |-> fn, data |-> x] \in CommandHook
  PROVE  LET hook == [fn |-> fn, data |-> x] IN
         /\ Leads(c, In(c, h, o, r, b, l, m, w), AddHook(fn, x),
                     In(c, Append(h, hook), o, r, b, l, m \cup CancelledBy(hook), w))
         /\ Leads(c, In(c, h, o, r, b, l, m, w), KeepHook(fn, x),
                     In(c, Append(h, hook), {<<hook>>}, r, b, l, m \cup CancelledBy(hook), w))
<1> DEFINE hook == [fn |-> fn, data |-> x]
           e(keep) == [op |-> "hook", hook |-> hook, keep |-> keep]
           to(keep) == IF keep THEN {<<hook>>} ELSE o
<1>1. AddHook(fn, x) = <<e(FALSE)>> /\ KeepHook(fn, x) = <<e(TRUE)>>
  BY DEF AddHook, KeepHook
<1>2. ASSUME NEW keep \in BOOLEAN, NEW s \in In(c, h, o, r, b, l, m, w)
      PROVE  /\ Allowed(c, e(keep), s)
             /\ After(e(keep), s) \subseteq In(c, Append(h, hook), to(keep), r, b, l, m \cup CancelledBy(hook), w)
  <2> DEFINE a == Append(s.hooks, hook)
             k == IF keep THEN <<hook>> ELSE s.own
             y == s.may \cup CancelledBy(hook)
             t == [s EXCEPT !.hooks = a, !.own = k, !.may = y]
  <2>1. After(e(keep), s) = {t}
    BY DEF After
  <2>2. Allowed(c, e(keep), s)
    BY DEF Allowed
  <2>3. s \in Sees /\ hook \in CommandHook /\ s.hooks = h
    BY DEF In
  <2>4. a \in Seq(CommandHook) /\ k \in Seq(CommandHook) /\ y \in SUBSET Job
    <3>1. s.hooks \in Seq(CommandHook) /\ s.own \in Seq(CommandHook) /\ s.may \in SUBSET Job
      BY <2>3 DEF Sees
    <3>2. a \in Seq(CommandHook)
      BY <2>3, <3>1, AppendProperties
    <3>3. <<hook>> \in Seq(CommandHook)
      BY <2>3
    <3>4. CancelledBy(hook) \subseteq Job
      BY <2>3 DEF CancelledBy, CommandHook, Job
    <3> QED
      BY <3>1, <3>2, <3>3, <3>4
  <2> HIDE DEF a, k, y, hook
  <2>5. t \in Sees
    BY <2>3, <2>4 DEF Sees
  <2>6. /\ t.hooks = a /\ t.own = k /\ t.may = y /\ t.live = s.live /\ t.bufs = s.bufs /\ t.regs = s.regs
        /\ t.handler = s.handler /\ t.rc = s.rc /\ t.cut = s.cut
    BY <2>3 DEF Sees
  <2> HIDE DEF t
  <2>7. k \in to(keep)
    BY DEF k, In
  <2>8. a = Append(h, hook) /\ y \subseteq m \cup CancelledBy(hook)
    BY <2>3 DEF a, y, In
  <2>9. t \in In(c, Append(h, hook), to(keep), r, b, l, m \cup CancelledBy(hook), w)
    BY <2>5, <2>6, <2>7, <2>8 DEF In
  <2> QED
    BY <2>1, <2>2, <2>9
<1>3. \A keep \in BOOLEAN : e(keep).op \notin {"if", "either"}
  OBVIOUS
<1>4. to(FALSE) = o /\ to(TRUE) = {<<hook>>}
  OBVIOUS
<1> HIDE DEF e, to, hook
<1>5. \A keep \in BOOLEAN : Leads(c, In(c, h, o, r, b, l, m, w), <<e(keep)>>,
                                     In(c, Append(h, hook), to(keep), r, b, l, m \cup CancelledBy(hook), w))
  BY <1>2, <1>3, StepIn
<1> QED
  BY <1>1, <1>4, <1>5 DEF hook

(* unregister_hook of the hook that h points to: of a list in which it is  *)
(* once, at i.                                                             *)
LEMMA UnhookIs ==
  ASSUME NEW c, NEW h, NEW x, NEW r, NEW b, NEW l, NEW m, NEW w, Sound(c, h, r, b, l, m),
         NEW i \in 1..Len(h), h[i] = x
  PROVE  Leads(c, In(c, h, {<<x>>}, r, b, l, m, w), Unhook, In(c, Without(h, i), {<<x>>}, r, b, l, m, w))
<1> DEFINE e == [op |-> "unhook"]
           o == {<<x>>}
<1>1. Unhook = <<e>>
  BY DEF Unhook
<1>2. ASSUME NEW s \in In(c, h, o, r, b, l, m, w)
      PROVE  Allowed(c, e, s) /\ After(e, s) \subseteq In(c, Without(h, i), o, r, b, l, m, w)
  <2> DEFINE I == {k \in 1..Len(s.hooks) : s.own = <<s.hooks[k]>>}
             t(k, y) == [s EXCEPT !.hooks = Without(s.hooks, k), !.may = y]
  <2>1. After(e, s) = {t(k, y) : k \in I, y \in SUBSET s.may}
    BY DEF After
  <2>2. Allowed(c, e, s)
    BY DEF Allowed
  <2>3. s \in Sees /\ s.hooks = h /\ s.own = <<x>> /\ h \in Seq(CommandHook) /\ Len(h) \in Nat
    BY LenProperties DEF In, Sound
  <2>4. \A k \in I : k = i
    BY <2>3 DEF Sound
  <2>5. Without(h, i) \in Seq(CommandHook)
    BY <2>3, WithoutType
  <2>6. ASSUME NEW y \in SUBSET s.may PROVE t(i, y) \in In(c, Without(h, i), o, r, b, l, m, w)
    <3> DEFINE u == t(i, y)
    <3>1. y \in SUBSET Job /\ y \subseteq m
      BY <2>3 DEF Sees, In
    <3>2. u \in Sees
      BY <2>3, <2>5, <3>1 DEF Sees
    <3>3. /\ u.hooks = Without(h, i) /\ u.own = s.own /\ u.may = y /\ u.live = s.live /\ u.bufs = s.bufs
          /\ u.regs = s.regs /\ u.handler = s.handler /\ u.rc = s.rc /\ u.cut = s.cut
      BY <2>3 DEF Sees
    <3> HIDE DEF u
    <3>4. u \in In(c, Without(h, i), o, r, b, l, m, w)
      BY <3>1, <3>2, <3>3 DEF In
    <3> QED
      BY <3>4 DEF u
  <2> HIDE DEF I, t
  <2>7. ASSUME NEW z \in After(e, s) PROVE z \in In(c, Without(h, i), o, r, b, l, m, w)
    <3>1. PICK k \in I, y \in SUBSET s.may : z = t(k, y)
      BY <2>1
    <3>2. k = i
      BY <2>4
    <3> QED
      BY <2>6, <3>1, <3>2
  <2> QED
    BY <2>2, <2>7
<1>3. e.op \notin {"if", "either"}
  OBVIOUS
<1> HIDE DEF e
<1> QED
  BY <1>1, <1>2, <1>3, StepIn

(* unregister_last_hook. *)
LEMMA UnhookLastIs ==
  ASSUME NEW c, NEW g \in Seq(CommandHook), NEW x \in CommandHook, NEW o, NEW r, NEW b, NEW l, NEW m,
         NEW w,
         Sound(c, Append(g, x), r, b, l, m)
  PROVE  Leads(c, In(c, Append(g, x), o, r, b, l, m, w), UnhookLast, In(c, g, o, r, b, l, m, w))
<1> DEFINE e == [op |-> "unhook_last"]
           h == Append(g, x)
<1>1. UnhookLast = <<e>>
  BY DEF UnhookLast
<1>2. ASSUME NEW s \in In(c, h, o, r, b, l, m, w)
      PROVE  Allowed(c, e, s) /\ After(e, s) \subseteq In(c, g, o, r, b, l, m, w)
  <2> DEFINE less == IF s.hooks = <<>> THEN s.hooks ELSE SubSeq(s.hooks, 1, Len(s.hooks) - 1)
             t(y) == [s EXCEPT !.hooks = less, !.may = y]
  <2>1. After(e, s) = {t(y) : y \in SUBSET s.may}
    BY DEF After
  <2>2. Allowed(c, e, s)
    BY DEF Allowed
  <2>3. s \in Sees /\ s.hooks = h
    BY DEF In
  <2>4. less = g
    BY <2>3
  <2> HIDE DEF less
  <2>5. ASSUME NEW y \in SUBSET s.may PROVE t(y) \in In(c, g, o, r, b, l, m, w)
    <3> DEFINE u == t(y)
    <3>1. y \in SUBSET Job /\ y \subseteq m
      BY <2>3 DEF Sees, In
    <3>2. u \in Sees
      BY <2>3, <2>4, <3>1 DEF Sees
    <3>3. /\ u.hooks = g /\ u.own = s.own /\ u.may = y /\ u.live = s.live /\ u.bufs = s.bufs
          /\ u.regs = s.regs /\ u.handler = s.handler /\ u.rc = s.rc /\ u.cut = s.cut
      BY <2>3, <2>4 DEF Sees
    <3> HIDE DEF u
    <3>4. u \in In(c, g, o, r, b, l, m, w)
      BY <3>1, <3>2, <3>3 DEF In
    <3> QED
      BY <3>4 DEF u
  <2> HIDE DEF t
  <2> QED
    BY <2>1, <2>2, <2>5
<1>3. e.op \notin {"if", "either"}
  OBVIOUS
<1> HIDE DEF e
<1> QED
  BY <1>1, <1>2, <1>3, StepIn

(* What a wait for j may leave: nothing is cancelled if j cannot be; the   *)
(* last wait is the only one that may have been, or not.                   *)
Waited(j, m, w) == IF w = Calm THEN IF j \in m THEN Told ELSE Calm ELSE Any

(* A wait may return "canceled" only for a job that may be cancelled. *)
LEMMA WaitIs ==
  ASSUME NEW c, NEW h, NEW o, NEW r, NEW b, NEW l, NEW m, NEW w, Sound(c, h, r, b, l, m), NEW j \in Job
  PROVE  /\ Leads(c, In(c, h, o, r, b, l, m, w), Wait(j), In(c, h, o, r, b, l, m, Waited(j, m, w)))
         /\ Leads(c, In(c, h, o, r, b, l, m, w), WaitAtMost(j), In(c, h, o, r, b, l, m, Waited(j, m, w)))
<1> DEFINE e(lim) == [op |-> "wait", h |-> j, own |-> lim]
<1>1. Wait(j) = <<e(FALSE)>> /\ WaitAtMost(j) = <<e(TRUE)>>
  BY DEF Wait, WaitAtMost
<1>2. ASSUME NEW lim \in BOOLEAN, NEW s \in In(c, h, o, r, b, l, m, w)
      PROVE  /\ Allowed(c, e(lim), s)
             /\ After(e(lim), s) \subseteq In(c, h, o, r, b, l, m, Waited(j, m, w))
  <2> DEFINE X == IF j \in s.may THEN {"ok", "failed", "timeout", "canceled"} ELSE {"ok", "failed", "timeout"}
             k(x) == IF x = "canceled" THEN "yes" ELSE s.cut
             t(x) == [s EXCEPT !.rc = x, !.cut = k(x)]
  <2>1. After(e(lim), s) = {t(x) : x \in X}
    BY DEF After
  <2>2. Allowed(c, e(lim), s)
    BY DEF Allowed
  <2>3. s \in Sees
    BY DEF In
  <2>4. ASSUME NEW x \in X PROVE t(x) \in In(c, h, o, r, b, l, m, Waited(j, m, w))
    <3> DEFINE u == t(x)
    <3>1. x \in Result /\ k(x) \in {"yes", "no"}
      BY <2>3 DEF Result, Sees
    <3>2. u \in Sees
      BY <2>3, <3>1 DEF Sees
    <3>3. /\ u.hooks = s.hooks /\ u.own = s.own /\ u.may = s.may /\ u.live = s.live /\ u.bufs = s.bufs
          /\ u.regs = s.regs /\ u.handler = s.handler /\ u.rc = x /\ u.cut = k(x)
      BY <2>3 DEF Sees
    <3>4. <<x, k(x)>> \in Waited(j, m, w)
      <4>1. CASE w # Calm
        BY <3>1, <4>1 DEF Waited, Any
      <4>2. CASE w = Calm
        <5>1. s.cut = "no" /\ (x = "canceled" => j \in m)
          BY <4>2 DEF In, Calm
        <5>2. CASE x = "canceled"
          BY <4>2, <5>1, <5>2 DEF Waited, Told
        <5>3. CASE x # "canceled"
          BY <3>1, <4>2, <5>1, <5>3 DEF Waited, Told, Calm
        <5> QED
          BY <5>2, <5>3
      <4> QED
        BY <4>1, <4>2
    <3> HIDE DEF u, k
    <3>5. u \in In(c, h, o, r, b, l, m, Waited(j, m, w))
      BY <3>2, <3>3, <3>4 DEF In
    <3> QED
      BY <3>5 DEF u
  <2> HIDE DEF t, X
  <2> QED
    BY <2>1, <2>2, <2>4
<1>3. \A lim \in BOOLEAN : e(lim).op \notin {"if", "either"}
  OBVIOUS
<1> HIDE DEF e
<1>4. \A lim \in BOOLEAN : Leads(c, In(c, h, o, r, b, l, m, w), <<e(lim)>>, In(c, h, o, r, b, l, m, Waited(j, m, w)))
  BY <1>2, <1>3, StepIn
<1> QED
  BY <1>1, <1>4

(* Knowing less of a state. *)
LEMMA InWithin ==
  ASSUME NEW c, NEW h, NEW o, NEW r, NEW b, NEW l, NEW m, NEW w, NEW o2, NEW r2, NEW b2, NEW l2,
         NEW m2, NEW w2,
         o \subseteq o2, r \subseteq r2, b2 \subseteq b, l2 \subseteq l, m \subseteq m2, w \subseteq w2
  PROVE  In(c, h, o, r, b, l, m, w) \subseteq In(c, h, o2, r2, b2, l2, m2, w2)
BY DEF In

(* A script and the one hook x that it is about, over the hooks g that     *)
(* other scripts of the command have left: nothing is there yet, or        *)
(* nothing any more (free); the handle that x cancels by is valid (begun); *)
(* x is registered, and h points to it (kept) or it need not (added); the  *)
(* handle is freed and x still registered (dead).                          *)
Phase == {"free", "begun", "kept", "added", "dead"}

Hooks(g, k, x) == IF k \in {"free", "begun"} THEN g ELSE Append(g, x)
Owned(k, x)    == IF k = "kept" THEN {<<x>>} ELSE Seq(CommandHook)
Valid(k, x)    == IF k \in {"free", "dead"} THEN {"hVm"} ELSE {"hVm", x.data}
Ends(g, x)     == Cancellable(g) \cup CancelledBy(x)

State(c, g, k, x, r, b, m, w) == In(c, Hooks(g, k, x), Owned(k, x), r, b, Valid(k, x), m, w)

(* What the rules of c demand of it: those that break a rule may.          *)
Over(c, g, x) ==
  \/ g = <<>>
  \/ c \in LeavesDeadHook /\ \E y \in CommandHook : g = <<y>> /\ y # x

Fine(c, g, k, x, r, b, m) ==
  /\ k \in Phase /\ x \in CommandHook /\ Over(c, g, x)
  /\ k = "dead" => c \in LeavesDeadHook
  /\ r \subseteq Fn \X Buf
  /\ c \in LeavesDeadCallback \/ \A cb \in r : cb[2] \in b
  /\ Ends(g, x) \subseteq m

(* A list to which an element was appended, without it. *)
LEMMA WithoutNewest ==
  ASSUME NEW S, NEW s \in Seq(S), NEW x \in S
  PROVE  Without(Append(s, x), Len(s) + 1) = s
<1> DEFINE a == Append(s, x)
           n == Len(s)
<1>1. n \in Nat /\ a \in Seq(S) /\ Len(a) = n + 1 /\ \A i \in 1..n : a[i] = s[i]
  BY AppendProperties, LenProperties
<1>2. \A i \in 1..n : a[i] \in S
  BY <1>1, ElementOfSeq
<1> HIDE DEF a
<1>3. SubSeq(a, 1, n) \in Seq(S) /\ Len(SubSeq(a, 1, n)) = n /\ \A i \in 1..n : SubSeq(a, 1, n)[i] = s[i]
  BY <1>1, <1>2, SubSeqProperties
<1>4. SubSeq(a, 1, n) = s
  BY <1>3, SeqEqual
<1>5. SubSeq(a, n + 2, n + 1) = <<>>
  BY <1>1, SubSeqEmpty
<1>6. Without(a, n + 1) = SubSeq(a, 1, n) \o SubSeq(a, n + 2, n + 1)
  BY <1>1 DEF Without
<1> QED
  BY <1>4, <1>5, <1>6, ConcatEmptySeq DEF a

(* The lists of hooks, with x and without. *)
LEMMA OverIs ==
  ASSUME NEW c, NEW g, NEW x \in CommandHook, Over(c, g, x)
  PROVE  /\ g \in Seq(CommandHook) /\ Append(g, x) \in Seq(CommandHook)
         /\ Len(Append(g, x)) = Len(g) + 1 /\ Append(g, x)[Len(g) + 1] = x /\ Len(g) \in Nat
         /\ Without(Append(g, x), Len(g) + 1) = g
         /\ Cancellable(g) \subseteq Ends(g, x) /\ Cancellable(Append(g, x)) = Ends(g, x)
         /\ \A i, j \in 1..(Len(g) + 1) : Append(g, x)[i] = Append(g, x)[j] => i = j
         /\ \A i, j \in 1..Len(g) : g[i] = g[j] => i = j
         /\ c \notin LeavesDeadHook => g = <<>>
<1>3. g \in Seq(CommandHook)
  <2>1. CASE g = <<>>
    BY <2>1, EmptySeq
  <2>2. CASE \E y \in CommandHook : g = <<y>> /\ y # x
    BY <2>2
  <2> QED
    BY <2>1, <2>2 DEF Over
<1>4. /\ Append(g, x) \in Seq(CommandHook) /\ Len(Append(g, x)) = Len(g) + 1 /\ Append(g, x)[Len(g) + 1] = x
      /\ \A i \in 1..Len(g) : Append(g, x)[i] = g[i]
  BY <1>3, AppendProperties
<1>5. Without(Append(g, x), Len(g) + 1) = g
  BY <1>3, WithoutNewest
<1>1. CASE g = <<>>
  <2>1. g \in Seq(CommandHook) /\ Len(g) = 0 /\ Append(g, x) = <<x>> /\ Append(g, x) \in Seq(CommandHook)
    BY <1>1
  <2>2. Without(<<x>>, 1) = <<>>
    BY DEF Without
  <2>3. Cancellable(g) = {} /\ Cancellable(<<x>>) = CancelledBy(x)
    BY <1>1 DEF Cancellable
  <2> QED
    BY <1>1, <2>1, <2>2, <2>3 DEF Ends
<1>2. CASE g # <<>>
  <2>1. PICK y \in CommandHook : g = <<y>> /\ y # x
    BY <1>2 DEF Over
  <2>2. g \in Seq(CommandHook) /\ Len(g) = 1 /\ g[1] = y
    BY <2>1
  <2> DEFINE a == Append(g, x)
  <2>3. a \in Seq(CommandHook) /\ Len(a) = 2 /\ a[1] = y /\ a[2] = x
    BY <1>4, <2>2
  <2>4. Without(a, 2) = g
    BY <1>5, <2>2
  <2> HIDE DEF a
  <2>5. Cancellable(g) = CancelledBy(y)
    BY <2>2 DEF Cancellable
  <2>6. Cancellable(a) = CancelledBy(y) \cup CancelledBy(x)
    <3>1. 1..Len(a) = {1, 2}
      BY <2>3
    <3> QED
      BY <2>3, <3>1 DEF Cancellable
  <2>7. \A i, j \in 1..2 : a[i] = a[j] => i = j
    BY <2>1, <2>3
  <2>8. c \in LeavesDeadHook
    BY <1>2 DEF Over
  <2> QED
    BY <2>2, <2>3, <2>4, <2>5, <2>6, <2>7, <2>8 DEF Ends, a
<1> QED
  BY <1>1, <1>2

(* What is known of a state that is fine implies the rules of the command. *)
LEMMA StateSound ==
  ASSUME NEW c, NEW g, NEW k, NEW x, NEW r, NEW b, NEW m, Fine(c, g, k, x, r, b, m)
  PROVE  Sound(c, Hooks(g, k, x), r, b, Valid(k, x), m)
<1>1. x \in CommandHook /\ Over(c, g, x)
  BY DEF Fine
<1>2. CASE k \in {"free", "begun"}
  <2>1. Hooks(g, k, x) = g
    BY <1>2 DEF Hooks
  <2>2. c \notin LeavesDeadHook => \A i \in 1..Len(g) : g[i].data \in Valid(k, x)
    BY <1>1, OverIs
  <2> QED
    BY <1>1, <2>1, <2>2, OverIs DEF Sound, Fine
<1>3. CASE k \notin {"free", "begun"}
  <2>1. Hooks(g, k, x) = Append(g, x)
    BY <1>3 DEF Hooks
  <2>2. ASSUME c \notin LeavesDeadHook, NEW i \in 1..Len(Append(g, x)) PROVE Append(g, x)[i].data \in Valid(k, x)
    <3>1. g = <<>> /\ k # "dead"
      BY <1>1, <2>2, OverIs DEF Fine
    <3>2. Append(g, x)[i] = x
      BY <1>1, <2>2, <3>1, OverIs
    <3>3. x.data \in Valid(k, x)
      BY <1>3, <3>1 DEF Valid
    <3> QED
      BY <3>2, <3>3
  <2> QED
    BY <1>1, <2>1, <2>2, OverIs DEF Sound, Fine
<1> QED
  BY <1>2, <1>3

(* A state, and more of it. *)
LEMMA StateWithin ==
  ASSUME NEW c, NEW g, NEW k, NEW x, NEW r, NEW b, NEW m, NEW w, NEW r2, NEW b2, NEW w2,
         r \subseteq r2, b2 \subseteq b, w \subseteq w2
  PROVE  State(c, g, k, x, r, b, m, w) \subseteq State(c, g, k, x, r2, b2, m, w2)
BY InWithin DEF State

(* A handle need not be known to be valid, nor h to point to the hook. *)
LEMMA PhaseWithin ==
  ASSUME NEW c, NEW g, NEW x \in CommandHook, NEW r, NEW b, NEW m, NEW w
  PROVE  /\ State(c, g, "begun", x, r, b, m, w) \subseteq State(c, g, "free", x, r, b, m, w)
         /\ State(c, g, "kept", x, r, b, m, w) \subseteq State(c, g, "added", x, r, b, m, w)
<1>1. <<x>> \in Seq(CommandHook)
  OBVIOUS
<1>2. /\ Owned("begun", x) = Owned("free", x) /\ Hooks(g, "begun", x) = Hooks(g, "free", x)
      /\ Valid("free", x) \subseteq Valid("begun", x)
  BY DEF Owned, Hooks, Valid
<1>3. /\ Owned("kept", x) \subseteq Owned("added", x) /\ Hooks(g, "kept", x) = Hooks(g, "added", x)
      /\ Valid("kept", x) = Valid("added", x)
  BY <1>1 DEF Owned, Hooks, Valid
<1>4. State(c, g, "begun", x, r, b, m, w) \subseteq State(c, g, "free", x, r, b, m, w)
  BY <1>2, InWithin DEF State
<1>5. State(c, g, "kept", x, r, b, m, w) \subseteq State(c, g, "added", x, r, b, m, w)
  BY <1>3, InWithin DEF State
<1> QED
  BY <1>4, <1>5

(* The steps that change none of the hooks: a job is started, ...          *)
LEMMA StateStart ==
  ASSUME NEW c, NEW g, NEW k, NEW x, NEW r, NEW b, NEW m, NEW w, NEW k2, NEW j \in Job, Fine(c, g, k,
         x, r, b, m),
         w \subseteq Calm \/ j = "hLogout" \/ (c = "restore" /\ j = "hRestore"),
         k2 = k \/ (k = "free" /\ k2 = "begun" /\ j = x.data)
  PROVE  Leads(c, State(c, g, k, x, r, b, m, w), Start(j), State(c, g, k2, x, r, b, m, w))
<1>1. Sound(c, Hooks(g, k, x), r, b, Valid(k, x), m)
  BY StateSound
<1> DEFINE Q == In(c, Hooks(g, k, x), Owned(k, x), r, b, Valid(k, x) \cup {j}, m, w)
<1>2. Leads(c, State(c, g, k, x, r, b, m, w), Start(j), Q)
  BY <1>1, StartIs DEF State
<1>3. /\ Hooks(g, k2, x) = Hooks(g, k, x) /\ Owned(k2, x) = Owned(k, x)
      /\ Valid(k2, x) \subseteq Valid(k, x) \cup {j}
  BY DEF Hooks, Owned, Valid
<1>4. Q \subseteq State(c, g, k2, x, r, b, m, w)
  BY <1>3, InWithin DEF State
<1> HIDE DEF Q
<1> QED
  BY <1>2, <1>4, LeadsWithin

(* ... the handle that the hook will cancel by is obtained, ... *)
LEMMA StateObtain ==
  ASSUME NEW c, NEW g, NEW x, NEW r, NEW b, NEW m, NEW w, Fine(c, g, "free", x, r, b, m),
         x.data \in Handle
  PROVE  Leads(c, State(c, g, "free", x, r, b, m, w), Obtain(x.data), State(c, g, "begun", x, r, b, m, w))
<1>1. Sound(c, Hooks(g, "free", x), r, b, Valid("free", x), m)
  BY StateSound
<1> DEFINE Q == In(c, Hooks(g, "free", x), Owned("free", x), r, b, Valid("free", x) \cup {x.data}, m, w)
<1>2. Leads(c, State(c, g, "free", x, r, b, m, w), Obtain(x.data), Q)
  BY <1>1, ObtainIs DEF State
<1>3. /\ Hooks(g, "begun", x) = Hooks(g, "free", x) /\ Owned("begun", x) = Owned("free", x)
      /\ Valid("begun", x) = Valid("free", x) \cup {x.data}
  BY DEF Hooks, Owned, Valid
<1>4. Q = State(c, g, "begun", x, r, b, m, w)
  BY <1>3 DEF State
<1> HIDE DEF Q
<1> QED
  BY <1>2, <1>4

(* ... waited for, with the limit of --timeout or one of its own, ...      *)
LEMMA StateWait ==
  ASSUME NEW c, NEW g, NEW k, NEW x, NEW r, NEW b, NEW m, NEW w, NEW w2, NEW j \in Job, Fine(c, g, k,
         x, r, b, m),
         \/ w = Calm /\ w2 = Calm /\ j \notin m
         \/ w = Calm /\ w2 = Told
         \/ w2 = Any
  PROVE  /\ Leads(c, State(c, g, k, x, r, b, m, w), Wait(j), State(c, g, k, x, r, b, m, w2))
         /\ Leads(c, State(c, g, k, x, r, b, m, w), WaitAtMost(j), State(c, g, k, x, r, b, m, w2))
<1>1. Sound(c, Hooks(g, k, x), r, b, Valid(k, x), m)
  BY StateSound
<1> DEFINE Q == State(c, g, k, x, r, b, m, Waited(j, m, w))
<1>2. /\ Leads(c, State(c, g, k, x, r, b, m, w), Wait(j), Q)
      /\ Leads(c, State(c, g, k, x, r, b, m, w), WaitAtMost(j), Q)
  BY <1>1, WaitIs DEF State
<1>3. Calm \subseteq Told /\ Told \subseteq Any
  BY DEF Calm, Told, Any, Result
<1>4. Waited(j, m, w) \subseteq w2
  BY <1>3 DEF Waited
<1>5. Q \subseteq State(c, g, k, x, r, b, m, w2)
  BY <1>4, StateWithin
<1> HIDE DEF Q
<1> QED
  BY <1>2, <1>5, LeadsWithin

(* ... and, if it is late, cancelled, as its hook might; ...               *)
LEMMA StateLate ==
  ASSUME NEW c, NEW g, NEW k, NEW x, NEW r, NEW b, NEW m, NEW w, NEW j \in Job, Fine(c, g, k, x, r, b,
         m), CancelledBy(x) = {j}
  PROVE  Leads(c, State(c, g, k, x, r, b, m, w), CancelLate(j), State(c, g, k, x, r, b, m, w))
<1>1. Sound(c, Hooks(g, k, x), r, b, Valid(k, x), m)
  BY StateSound
<1>2. m \cup {j} = m
  BY DEF Ends, Fine
<1> QED
  BY <1>1, <1>2, CancelLateIs DEF State

(* ... a handle is freed, which may be the one of the hook; ...            *)
LEMMA StateFree ==
  ASSUME NEW c, NEW g, NEW k, NEW x, NEW r, NEW b, NEW m, NEW w, NEW k2, NEW h, Fine(c, g, k, x, r, b,
         m), h # "hVm",
         \/ k2 = k /\ h # x.data
         \/ k2 = k /\ k \in {"free", "dead"}
         \/ k = "begun" /\ k2 = "free"
         \/ k \in {"kept", "added"} /\ k2 = "dead"
  PROVE  Leads(c, State(c, g, k, x, r, b, m, w), Free(h), State(c, g, k2, x, r, b, m, w))
<1>1. Sound(c, Hooks(g, k, x), r, b, Valid(k, x), m) /\ x \in CommandHook
  BY StateSound DEF Fine
<1> DEFINE Q == In(c, Hooks(g, k, x), Owned(k, x), r, b, Valid(k, x) \ {h}, m, w)
<1>2. Leads(c, State(c, g, k, x, r, b, m, w), Free(h), Q)
  BY <1>1, FreeIs DEF State
<1>3. <<x>> \in Seq(CommandHook)
  BY <1>1
<1>4. /\ Hooks(g, k2, x) = Hooks(g, k, x) /\ Owned(k, x) \subseteq Owned(k2, x)
      /\ Valid(k2, x) \subseteq Valid(k, x) \ {h}
  BY <1>3 DEF Hooks, Owned, Valid
<1>5. Q \subseteq State(c, g, k2, x, r, b, m, w)
  BY <1>4, InWithin DEF State
<1> HIDE DEF Q
<1> QED
  BY <1>2, <1>5, LeadsWithin

(* ... callbacks and buffers come and go, ...                              *)
LEMMA StateData ==
  ASSUME NEW c, NEW g, NEW k, NEW x, NEW r, NEW b, NEW m, NEW w, NEW y \in Buf, NEW f \in Fn, Fine(c,
         g, k, x, r, b, m)
  PROVE  /\ Leads(c, State(c, g, k, x, r, b, m, w), Reg(f, y), State(c, g, k, x, r \cup {<<f, y>>}, b, m, w))
         /\ Leads(c, State(c, g, k, x, r, b, m, w), Unreg(f, y), State(c, g, k, x, r \ {<<f, y>>}, b, m, w))
         /\ Leads(c, State(c, g, k, x, r, b, m, w), Buffer(y), State(c, g, k, x, r, b \cup {y}, m, w))
         /\ Leads(c, State(c, g, k, x, r, b, m, w), Drop(y), State(c, g, k, x, r, b \ {y}, m, w))
<1>1. Sound(c, Hooks(g, k, x), r, b, Valid(k, x), m)
  BY StateSound
<1>2. Leads(c, State(c, g, k, x, r, b, m, w), Reg(f, y), State(c, g, k, x, r \cup {<<f, y>>}, b, m, w))
  BY <1>1, RegIs DEF State
<1>3. Leads(c, State(c, g, k, x, r, b, m, w), Unreg(f, y), State(c, g, k, x, r \ {<<f, y>>}, b, m, w))
  BY <1>1, UnregIs DEF State
<1>4. Leads(c, State(c, g, k, x, r, b, m, w), Buffer(y), State(c, g, k, x, r, b \cup {y}, m, w))
  BY <1>1, BufferIs DEF State
<1>5. Leads(c, State(c, g, k, x, r, b, m, w), Drop(y), State(c, g, k, x, r, b \ {y}, m, w))
  BY <1>1, DropIs DEF State
<1> QED
  BY <1>2, <1>3, <1>4, <1>5

(* ... and the handlers change. *)
LEMMA StateHandler ==
  ASSUME NEW c, NEW g, NEW k, NEW x, NEW r, NEW b, NEW m, NEW w, NEW d \in {"default", "cleanup",
         "terminal"},
         d = "default" => c = "enter", Fine(c, g, k, x, r, b, m)
  PROVE  Leads(c, State(c, g, k, x, r, b, m, w), Handler(d), State(c, g, k, x, r, b, m, w))
<1>1. Sound(c, Hooks(g, k, x), r, b, Valid(k, x), m)
  BY StateSound
<1> QED
  BY <1>1, HandlerIs DEF State

(* The hook is registered when its handle is valid, ...                    *)
LEMMA StateHook ==
  ASSUME NEW c, NEW g, NEW fn, NEW h, NEW r, NEW b, NEW m, NEW w, Fine(c, g, "begun", [fn |-> fn,
         data |-> h], r, b, m)
  PROVE  LET x == [fn |-> fn, data |-> h] IN
         /\ Leads(c, State(c, g, "begun", x, r, b, m, w), KeepHook(fn, h), State(c, g, "kept", x, r, b, m, w))
         /\ Leads(c, State(c, g, "begun", x, r, b, m, w), AddHook(fn, h), State(c, g, "added", x, r, b, m, w))
<1> DEFINE x == [fn |-> fn, data |-> h]
<1>1. Sound(c, Hooks(g, "begun", x), r, b, Valid("begun", x), m) /\ x \in CommandHook
  BY StateSound DEF Fine
<1>2. /\ Hooks(g, "begun", x) = g /\ Hooks(g, "kept", x) = Append(g, x)
      /\ Hooks(g, "added", x) = Append(g, x)
  BY DEF Hooks
<1>3. /\ Valid("kept", x) = Valid("begun", x) /\ Valid("added", x) = Valid("begun", x)
      /\ Owned("kept", x) = {<<x>>} /\ Owned("added", x) = Owned("begun", x)
  BY DEF Valid, Owned
<1>4. m \cup CancelledBy(x) = m
  BY DEF Ends, Fine
<1>5. /\ Leads(c, State(c, g, "begun", x, r, b, m, w), AddHook(fn, h),
               In(c, Append(g, x), Owned("begun", x), r, b, Valid("begun", x), m \cup CancelledBy(x), w))
      /\ Leads(c, State(c, g, "begun", x, r, b, m, w), KeepHook(fn, h),
               In(c, Append(g, x), {<<x>>}, r, b, Valid("begun", x), m \cup CancelledBy(x), w))
  BY <1>1, <1>2, HookIs DEF State
<1> HIDE DEF x
<1>6. Leads(c, State(c, g, "begun", x, r, b, m, w), KeepHook(fn, h), State(c, g, "kept", x, r, b, m, w))
  BY <1>2, <1>3, <1>4, <1>5 DEF State
<1>7. Leads(c, State(c, g, "begun", x, r, b, m, w), AddHook(fn, h), State(c, g, "added", x, r, b, m, w))
  BY <1>2, <1>3, <1>4, <1>5 DEF State
<1> QED
  BY <1>6, <1>7 DEF x

(* It is taken away before its handle is freed: the one h points to. *)
LEMMA StateUnhook ==
  ASSUME NEW c, NEW g, NEW x, NEW r, NEW b, NEW m, NEW w, Fine(c, g, "kept", x, r, b, m)
  PROVE  Leads(c, State(c, g, "kept", x, r, b, m, w), Unhook, State(c, g, "begun", x, r, b, m, w))
<1>1. Sound(c, Hooks(g, "kept", x), r, b, Valid("kept", x), m) /\ x \in CommandHook /\ Over(c, g, x)
  BY StateSound DEF Fine
<1> DEFINE a == Append(g, x)
           n == Len(g) + 1
<1>2. a[n] = x /\ n \in 1..Len(a) /\ Without(a, n) = g
  BY <1>1, OverIs
<1>3. Hooks(g, "kept", x) = a /\ Hooks(g, "begun", x) = g /\ Owned("kept", x) = {<<x>>}
  BY DEF Hooks, Owned
<1>4. Valid("kept", x) = Valid("begun", x) /\ {<<x>>} \subseteq Owned("begun", x)
  <2>1. <<x>> \in Seq(CommandHook)
    BY <1>1
  <2> QED
    BY <2>1 DEF Valid, Owned
<1> HIDE DEF a, n
<1> DEFINE P == In(c, a, {<<x>>}, r, b, Valid("kept", x), m, w)
           Q == In(c, g, {<<x>>}, r, b, Valid("kept", x), m, w)
<1>5. Sound(c, a, r, b, Valid("kept", x), m)
  BY <1>1, <1>3
<1>6. Leads(c, P, Unhook, In(c, Without(a, n), {<<x>>}, r, b, Valid("kept", x), m, w))
  BY <1>2, <1>5, UnhookIs
<1>7. Leads(c, P, Unhook, Q)
  BY <1>2, <1>6
<1>8. P = State(c, g, "kept", x, r, b, m, w)
  BY <1>3 DEF State
<1>9. Q \subseteq State(c, g, "begun", x, r, b, m, w)
  <2>1. State(c, g, "begun", x, r, b, m, w) = In(c, g, Owned("begun", x), r, b, Valid("kept", x), m, w)
    BY <1>3, <1>4 DEF State
  <2> QED
    BY <1>4, <2>1, InWithin
<1> HIDE DEF P, Q
<1> QED
  BY <1>7, <1>8, <1>9, LeadsWithin

(* The newest one. *)
LEMMA StateUnhookLast ==
  ASSUME NEW c, NEW g, NEW x, NEW r, NEW b, NEW m, NEW w, Fine(c, g, "added", x, r, b, m)
  PROVE  Leads(c, State(c, g, "added", x, r, b, m, w), UnhookLast, State(c, g, "begun", x, r, b, m, w))
<1>1. Sound(c, Hooks(g, "added", x), r, b, Valid("added", x), m) /\ x \in CommandHook /\ Over(c, g, x)
  BY StateSound DEF Fine
<1>2. g \in Seq(CommandHook)
  BY <1>1, OverIs
<1>3. /\ Hooks(g, "added", x) = Append(g, x) /\ Hooks(g, "begun", x) = g
      /\ Owned("added", x) = Owned("begun", x) /\ Valid("added", x) = Valid("begun", x)
  BY DEF Hooks, Owned, Valid
<1> QED
  BY <1>1, <1>2, <1>3, UnhookLastIs DEF State

(* What comes next depends on the result: it was no cancel if the result   *)
(* is another one.                                                         *)
LEMMA StateIf ==
  ASSUME NEW c, NEW g, NEW k, NEW x, NEW r, NEW b, NEW m, NEW w, NEW S, NEW p, NEW q, NEW Q, NEW w1,
         NEW w2, Fine(c, g, k, x, r, b, m),
         w1 = w \/ (w = Told /\ w1 = Calm /\ "canceled" \notin S),
         w2 = w \/ (w = Told /\ w2 = Calm /\ "canceled" \in S),
         Leads(c, State(c, g, k, x, r, b, m, w1), p, Q), Leads(c, State(c, g, k, x, r, b, m, w2), q, Q)
  PROVE  Leads(c, State(c, g, k, x, r, b, m, w), If(S, p, q), Q)
<1> DEFINE P == State(c, g, k, x, r, b, m, w)
<1>1. ASSUME NEW s \in P PROVE Obeys(c, If(S, p, q), s)
  <2>1. Sound(c, Hooks(g, k, x), r, b, Valid(k, x), m)
    BY StateSound
  <2>2. If(S, p, q) # <<>>
    BY DEF If
  <2> QED
    BY <2>1, <2>2, InObeys DEF State
<1>2. \A s \in P : s.rc \in S => s \in State(c, g, k, x, r, b, m, w1)
  BY DEF State, In, Told, Calm
<1>3. \A s \in P : s.rc \notin S => s \in State(c, g, k, x, r, b, m, w2)
  BY DEF State, In, Told, Calm
<1> HIDE DEF P
<1>4. Leads(c, {s \in P : s.rc \in S}, p, Q)
  BY <1>2, LeadsWithin
<1>5. Leads(c, {s \in P : s.rc \notin S}, q, Q)
  BY <1>3, LeadsWithin
<1>6. Leads(c, P, If(S, p, q), Q)
  BY <1>1, <1>4, <1>5, LeadsIf
<1> QED
  BY <1>6 DEF P

(* What comes next depends on something else. *)
LEMMA StateEither ==
  ASSUME NEW c, NEW g, NEW k, NEW x, NEW r, NEW b, NEW m, NEW w, NEW p, NEW q, NEW Q, Fine(c, g, k, x,
         r, b, m),
         Leads(c, State(c, g, k, x, r, b, m, w), p, Q), Leads(c, State(c, g, k, x, r, b, m, w), q, Q)
  PROVE  Leads(c, State(c, g, k, x, r, b, m, w), Either(p, q), Q)
<1> DEFINE P == State(c, g, k, x, r, b, m, w)
<1>1. ASSUME NEW s \in P PROVE Obeys(c, Either(p, q), s)
  <2>1. Sound(c, Hooks(g, k, x), r, b, Valid(k, x), m)
    BY StateSound
  <2>2. Either(p, q) # <<>>
    BY DEF Either
  <2> QED
    BY <2>1, <2>2, InObeys DEF State
<1> HIDE DEF P
<1>2. Leads(c, P, Either(p, q), Q)
  BY <1>1, LeadsEach DEF P
<1> QED
  BY <1>2 DEF P

(* A job that no hook cancels leaves the state as it was.                  *)
LEMMA StateRun ==
  ASSUME NEW c, NEW g, NEW k, NEW x, NEW r, NEW b, NEW m, NEW j \in Job, Fine(c, g, k, x, r, b, m),
         j \notin m,
         j # x.data \/ k = "free"
  PROVE  Leads(c, State(c, g, k, x, r, b, m, Calm), RunJob(j), State(c, g, k, x, r, b, m, Calm))
<1> DEFINE P == State(c, g, k, x, r, b, m, Calm)
<1>1. Leads(c, P, Start(j), P)
  BY StateStart
<1>2. Leads(c, P, Wait(j), P)
  BY StateWait
<1>3. j # "hVm"
  BY DEF Job
<1>4. Leads(c, P, Free(j), P)
  BY <1>3, StateFree
<1> HIDE DEF P
<1>5. Leads(c, P, RunJob(j), P)
  BY <1>1, <1>2, <1>4, LeadsOn DEF RunJob
<1> QED
  BY <1>5 DEF P

(* The look-up of a VM, and what follows it if it is found or missing.     *)
LEMMA FindLeads ==
  ASSUME NEW c, NEW g, NEW x, NEW r, NEW b, NEW m, Fine(c, g, "free", x, r, b, m), "hConfig" \notin m,
         NEW f, NEW n, NEW Q,
         State(c, g, "free", x, r, b, m, Calm) \subseteq Q,
         Leads(c, State(c, g, "free", x, r, b, m, Calm), f, Q), Leads(c, State(c, g, "free", x, r, b, m, Calm), n, Q)
  PROVE  /\ Leads(c, State(c, g, "free", x, r, b, m, Calm), Config(f, n), Q)
         /\ Leads(c, State(c, g, "free", x, r, b, m, Calm), FindVm(f, n), Q)
<1> DEFINE P == State(c, g, "free", x, r, b, m, Calm)
<1>1. Leads(c, P, RunJob("hConfig"), P)
  <2>1. "hConfig" \in Job
    BY DEF Job
  <2> QED
    BY <2>1, StateRun
<1>2. \A p, q : Leads(c, P, p, Q) /\ Leads(c, P, q, Q)
                  => Leads(c, P, Either(p, q), Q) /\ \A S : Leads(c, P, If(S, p, q), Q)
  BY StateIf, StateEither
<1>3. Leads(c, P, <<>>, P)
  BY LeadsNowhere
<1> HIDE DEF P
<1>4. Leads(c, P, <<>>, Q)
  BY <1>3, LeadsWithin DEF P
<1>5. ASSUME NEW y, NEW z, Leads(c, P, y, Q), Leads(c, P, z, Q) PROVE Leads(c, P, Config(y, z), Q)
  <2>1. Leads(c, P, Either(y, <<>>), Q) /\ Leads(c, P, Either(z, <<>>), Q)
    BY <1>2, <1>4, <1>5
  <2>2. Leads(c, P, If({"failed"}, Either(z, <<>>), <<>>), Q)
    BY <1>2, <1>4, <2>1
  <2>3. Leads(c, P, If({"ok"}, Either(y, <<>>), If({"failed"}, Either(z, <<>>), <<>>)), Q)
    BY <1>2, <2>1, <2>2
  <2> QED
    BY <1>1, <2>3, LeadsOn DEF Config
<1>6. Leads(c, P, f, Q) /\ Leads(c, P, n, Q)
  BY DEF P
<1>7. Leads(c, P, Config(f, n), Q)
  BY <1>5, <1>6
<1>8. Leads(c, P, FindVm(f, n), Q)
  BY <1>5, <1>6, <1>7 DEF FindVm
<1> QED
  BY <1>7, <1>8 DEF P

-----------------------------------------------------------------------------
(* The commands.  At rest no hook is there and no wait was cancelled; a    *)
(* script that stays leads from there to there.                            *)
Cancel(j) == [fn |-> "cancel_job", data |-> j]
Session   == [fn |-> "cancel_session", data |-> "hVmGuest"]
Migration == [fn |-> "migrate_cancel_job", data |-> "hVm"]
Buffers   == {"NULL", "batch", "this"}

Rest(c, x, r, b)     == State(c, <<>>, "free", x, r, b, Ends(<<>>, x), Calm)
Stays(c, x, r, b, p) == Leads(c, Rest(c, x, r, b), p, Rest(c, x, r, b))

(* A callback may be called with the data r it was registered with.        *)
Calls(c, r, b) == r \subseteq Fn \X Buf /\ (c \in LeavesDeadCallback \/ \A cb \in r : cb[2] \in b)

(* The three kinds of hooks. *)
LEMMA CancelledIs ==
  /\ \A j \in Job : Cancel(j) \in CommandHook /\ Ends(<<>>, Cancel(j)) = {j} /\ CancelledBy(Cancel(j)) = {j} /\ Cancel(j).data = j
  /\ Session \in CommandHook /\ Ends(<<>>, Session) = {} /\ CancelledBy(Session) = {} /\ Session.data = "hVmGuest"
  /\ Migration \in CommandHook /\ Ends(<<>>, Migration) = {"hJob"} /\ Migration.data = "hVm"
<1>1. Cancellable(<<>>) = {}
  BY DEF Cancellable
<1>2. ASSUME NEW j \in Job PROVE Cancel(j) \in CommandHook /\ CancelledBy(Cancel(j)) = {j} /\ Cancel(j).data = j
  BY DEF Cancel, CommandHook, CancelledBy
<1>3. Session \in CommandHook /\ CancelledBy(Session) = {} /\ Session.data = "hVmGuest"
  BY DEF Session, CommandHook, CancelledBy
<1>4. Migration \in CommandHook /\ CancelledBy(Migration) = {"hJob"} /\ Migration.data = "hVm"
  BY DEF Migration, CommandHook, CancelledBy
<1> QED
  BY <1>1, <1>2, <1>3, <1>4 DEF Ends

(* A hook over nothing. *)
LEMMA FineFrom ==
  ASSUME NEW c, NEW x \in CommandHook, NEW r, NEW b, NEW k \in Phase, Calls(c, r, b),
         k = "dead" => c \in LeavesDeadHook
  PROVE  Fine(c, <<>>, k, x, r, b, Ends(<<>>, x))
BY DEF Fine, Over, Calls

(* Scripts that stay: the empty one, ... *)
LEMMA StaysNowhere ==
  ASSUME NEW c, NEW x, NEW r, NEW b
  PROVE  Stays(c, x, r, b, <<>>)
BY LeadsNowhere DEF Stays

(* ... two in sequence, ... *)
LEMMA StaysOn ==
  ASSUME NEW c, NEW x, NEW r, NEW b, NEW p, NEW q, Stays(c, x, r, b, p), Stays(c, x, r, b, q)
  PROVE  Stays(c, x, r, b, p \o q)
BY LeadsOn DEF Stays

(* Jobs that no hook cancels. *)
LEMMA JobStays ==
  ASSUME NEW c, NEW x \in CommandHook, NEW r, NEW b, Calls(c, r, b), NEW j \in Job
  PROVE  /\ Stays(c, x, r, b, Start(j))
         /\ Stays(c, x, r, b, Free(j))
         /\ j \notin Ends(<<>>, x) => Stays(c, x, r, b, Wait(j)) /\ Stays(c, x, r, b, WaitAtMost(j)) /\ Stays(c, x, r, b, RunJob(j))
<1>1. Fine(c, <<>>, "free", x, r, b, Ends(<<>>, x))
  BY FineFrom DEF Phase
<1>2. j # "hVm"
  BY DEF Job
<1>3. Stays(c, x, r, b, Start(j))
  BY <1>1, StateStart DEF Stays, Rest
<1>4. Stays(c, x, r, b, Free(j))
  BY <1>1, <1>2, StateFree DEF Stays, Rest
<1>5. ASSUME j \notin Ends(<<>>, x) PROVE Stays(c, x, r, b, Wait(j)) /\ Stays(c, x, r, b, WaitAtMost(j)) /\ Stays(c, x, r, b, RunJob(j))
  BY <1>1, <1>5, StateWait, StateRun DEF Stays, Rest
<1> QED
  BY <1>3, <1>4, <1>5

(* ... and two of which one is chosen, by a result ... *)
LEMMA StaysIf ==
  ASSUME NEW c, NEW x \in CommandHook, NEW r, NEW b, Calls(c, r, b), NEW S, NEW p, NEW q, Stays(c, x,
         r, b, p), Stays(c, x, r, b, q)
  PROVE  Stays(c, x, r, b, If(S, p, q))
<1>1. Fine(c, <<>>, "free", x, r, b, Ends(<<>>, x))
  BY FineFrom DEF Phase
<1> QED
  BY <1>1, StateIf DEF Stays, Rest

(* ... or otherwise. *)
LEMMA StaysEither ==
  ASSUME NEW c, NEW x \in CommandHook, NEW r, NEW b, Calls(c, r, b), NEW p, NEW q, Stays(c, x, r, b,
         p), Stays(c, x, r, b, q)
  PROVE  Stays(c, x, r, b, Either(p, q))
<1>1. Fine(c, <<>>, "free", x, r, b, Ends(<<>>, x))
  BY FineFrom DEF Phase
<1> QED
  BY <1>1, StateEither DEF Stays, Rest

(* A callback that may be there may be registered, or unregistered. *)
LEMMA CallbackStays ==
  ASSUME NEW c, NEW x \in CommandHook, NEW r, NEW b, Calls(c, r, b), NEW f \in Fn, NEW y \in Buf
  PROVE  /\ Stays(c, x, r, b, Unreg(f, y))
         /\ <<f, y>> \in r => Stays(c, x, r, b, Reg(f, y))
<1>1. Fine(c, <<>>, "free", x, r, b, Ends(<<>>, x))
  BY FineFrom DEF Phase
<1> DEFINE P == State(c, <<>>, "free", x, r, b, Ends(<<>>, x), Calm)
<1>2. State(c, <<>>, "free", x, r \ {<<f, y>>}, b, Ends(<<>>, x), Calm) \subseteq P
  BY StateWithin
<1>3. Leads(c, P, Unreg(f, y), State(c, <<>>, "free", x, r \ {<<f, y>>}, b, Ends(<<>>, x), Calm))
  BY <1>1, StateData
<1>4. Leads(c, P, Unreg(f, y), P)
  BY <1>2, <1>3, LeadsWithin
<1>5. ASSUME <<f, y>> \in r PROVE Leads(c, P, Reg(f, y), P)
  <2>1. r \cup {<<f, y>>} = r
    BY <1>5
  <2> QED
    BY <1>1, <2>1, StateData
<1> QED
  BY <1>4, <1>5 DEF Stays, Rest

(* The scripts of jobs, each waited for before the next is started. *)
Alone == {"hJob", "hDelete", "hStop", "hList", "hConfig", "hTools", "hPrefs", "hLoginJob", "hIoJob", "hLogout", "j1", "j2", "j3"}

(* The scripts that register nothing: one job, or several in a loop. *)
LEMMA QuietScripts ==
  ASSUME NEW c
  PROVE  \A p \in {RunJob("hJob"), convertCT, ct_templates, destroy, set_user, usbassign, status_vm, list_vm} :
            Stays(c, Session, {}, Buffers, p)
<1> DEFINE S(p) == Stays(c, Session, {}, Buffers, p)
<1>1. Session \in CommandHook /\ Calls(c, {}, Buffers)
  BY CancelledIs DEF Calls
<1>2. ASSUME NEW j \in Alone PROVE S(Start(j)) /\ S(Free(j)) /\ S(Wait(j)) /\ S(WaitAtMost(j)) /\ S(RunJob(j))
  <2>1. j \in Job /\ j \notin Ends(<<>>, Session)
    BY CancelledIs DEF Alone, Job
  <2> QED
    BY <1>1, <2>1, JobStays
<1>3. \A p, q : S(p) /\ S(q) => S(p \o q) /\ S(Either(p, q)) /\ \A V : S(If(V, p, q))
  BY <1>1, StaysOn, StaysIf, StaysEither
<1>4. S(<<>>)
  BY StaysNowhere
<1> HIDE DEF S
<1>5. S(RunJob("hJob"))
  BY <1>2 DEF Alone
<1>6. S(convertCT)
  BY <1>2, <1>3, <1>4 DEF Alone, convertCT
<1>7. S(ct_templates)
  BY <1>2, <1>3 DEF Alone, ct_templates
<1>8. S(destroy)
  BY <1>2, <1>3, <1>4 DEF Alone, destroy
<1>9. S(set_user)
  BY <1>2, <1>3, <1>4 DEF Alone, set_user
<1>10. S(usbassign)
  BY <1>2, <1>3, <1>4 DEF Alone, usbassign
<1>14. \A p, q : S(p) /\ S(q) => S(FindVm(p, q))
  <2>1. \A p, q : S(p) /\ S(q) => S(Config(p, q))
    BY <1>2, <1>3, <1>4 DEF Alone, Config
  <2> QED
    BY <2>1 DEF FindVm
<1>11. S(status_vm)
  BY <1>4, <1>14 DEF status_vm
<1>12. S(get_real_ip)
  BY <1>2, <1>3, <1>4 DEF Alone, get_real_ip
<1>13. S(list_vm)
  BY <1>2, <1>3, <1>4, <1>12, <1>14 DEF Alone, list_vm
<1> QED
  BY <1>5, <1>6, <1>7, <1>8, <1>9, <1>10, <1>11, <1>13 DEF S

(* The steps of a job j and its hook, with callbacks that may be called.   *)
Hooked(c, j, k, r, b, w) == State(c, <<>>, k, Cancel(j), r, b, Ends(<<>>, Cancel(j)), w)

(* Started, hooked, waited for, cancelled when late, unhooked, freed. *)
LEMMA JobMoves ==
  ASSUME NEW c, NEW r, NEW b, Calls(c, r, b), NEW j \in Job, NEW w
  PROVE  LET P(k, v) == Hooked(c, j, k, r, b, v) IN
         /\ Leads(c, P("free", Calm), Start(j), P("begun", Calm))
         /\ Leads(c, P("begun", w), KeepHook("cancel_job", j), P("kept", w))
         /\ Leads(c, P("begun", w), AddHook("cancel_job", j), P("added", w))
         /\ Leads(c, P("kept", Calm), Wait(j), P("kept", Told))
         /\ Leads(c, P("kept", Calm), WaitAtMost(j), P("kept", Told))
         /\ Leads(c, P("added", Calm), Wait(j), P("added", Told))
         /\ Leads(c, P("kept", w), CancelLate(j), P("kept", w))
         /\ Leads(c, P("kept", w), Unhook, P("begun", w))
         /\ Leads(c, P("added", w), UnhookLast, P("begun", w))
         /\ Leads(c, P("begun", w), Free(j), P("free", w))
         /\ c \in LeavesDeadHook => Leads(c, P("kept", w), Free(j), P("dead", w)) /\ Leads(c, P("added", w), Free(j), P("dead", w))
<1> DEFINE x == Cancel(j)
           P(k, v) == State(c, <<>>, k, x, r, b, Ends(<<>>, x), v)
<1>1. x \in CommandHook /\ CancelledBy(x) = {j} /\ x.data = j /\ j # "hVm"
  BY CancelledIs DEF Job
<1>2. \A k \in {"free", "begun", "kept", "added"} : Fine(c, <<>>, k, x, r, b, Ends(<<>>, x))
  BY <1>1, FineFrom DEF Phase
<1>3. x = [fn |-> "cancel_job", data |-> j]
  BY DEF Cancel
<1> HIDE DEF x
<1>4. Leads(c, P("free", Calm), Start(j), P("begun", Calm))
  BY <1>1, <1>2, StateStart
<1>5. /\ Leads(c, P("begun", w), KeepHook("cancel_job", j), P("kept", w))
      /\ Leads(c, P("begun", w), AddHook("cancel_job", j), P("added", w))
  BY <1>2, <1>3, StateHook
<1>6. \A k \in {"kept", "added"} : Leads(c, P(k, Calm), Wait(j), P(k, Told)) /\ Leads(c, P(k, Calm), WaitAtMost(j), P(k, Told))
  BY <1>2, StateWait
<1>7. Leads(c, P("kept", w), CancelLate(j), P("kept", w))
  BY <1>1, <1>2, StateLate
<1>8. Leads(c, P("kept", w), Unhook, P("begun", w))
  BY <1>2, StateUnhook
<1>9. Leads(c, P("added", w), UnhookLast, P("begun", w))
  BY <1>2, StateUnhookLast
<1>10. /\ Leads(c, P("begun", w), Free(j), P("free", w))
       /\ Leads(c, P("kept", w), Free(j), P("dead", w))
       /\ Leads(c, P("added", w), Free(j), P("dead", w))
  BY <1>1, <1>2, StateFree
<1> QED
  BY <1>4, <1>5, <1>6, <1>7, <1>8, <1>9, <1>10 DEF x, Hooked

(* Of a callback, and of a buffer.                                         *)
LEMMA DataMoves ==
  ASSUME NEW c, NEW x \in CommandHook, NEW k \in Phase \ {"dead"}, NEW b, NEW w, NEW f \in Fn,
         NEW y \in Buf,
         c \in LeavesDeadCallback \/ y \in b
  PROVE  LET P(r) == State(c, <<>>, k, x, r, b, Ends(<<>>, x), w) IN
         /\ Leads(c, P({}), Reg(f, y), P({<<f, y>>}))
         /\ Leads(c, P({<<f, y>>}), Unreg(f, y), P({}))
<1> DEFINE P(r) == State(c, <<>>, k, x, r, b, Ends(<<>>, x), w)
<1>1. Calls(c, {}, b) /\ Calls(c, {<<f, y>>}, b)
  BY DEF Calls
<1>2. Fine(c, <<>>, k, x, {}, b, Ends(<<>>, x)) /\ Fine(c, <<>>, k, x, {<<f, y>>}, b, Ends(<<>>, x))
  BY <1>1, FineFrom
<1>3. {} \cup {<<f, y>>} = {<<f, y>>} /\ {<<f, y>>} \ {<<f, y>>} = {}
  OBVIOUS
<1>4. Leads(c, P({}), Reg(f, y), P({<<f, y>>}))
  BY <1>2, <1>3, StateData
<1>5. Leads(c, P({<<f, y>>}), Unreg(f, y), P({}))
  BY <1>2, <1>3, StateData
<1> QED
  BY <1>4, <1>5

(* The same, while a job is hooked. *)
LEMMA HookedData ==
  ASSUME NEW c, NEW j \in Job, NEW k \in {"free", "begun", "kept", "added"}, NEW b, NEW w,
         NEW f \in Fn, NEW y \in Buf,
         c \in LeavesDeadCallback \/ y \in b
  PROVE  /\ Leads(c, Hooked(c, j, k, {}, b, w), Reg(f, y), Hooked(c, j, k, {<<f, y>>}, b, w))
         /\ Leads(c, Hooked(c, j, k, {<<f, y>>}, b, w), Unreg(f, y), Hooked(c, j, k, {}, b, w))
<1>1. Cancel(j) \in CommandHook
  BY CancelledIs
<1>2. k \in Phase \ {"dead"}
  BY DEF Phase
<1> QED
  BY <1>1, <1>2, DataMoves DEF Hooked

(* clone: one job, whose wait may be cancelled. *)
LEMMA CloneLeads ==
  ASSUME NEW c
  PROVE  Leads(c, Hooked(c, "hJob", "free", {}, Buffers, Calm), clone, Hooked(c, "hJob", "free", {}, Buffers, Told))
<1> DEFINE R == {<<"progress", "NULL">>}
           P(k, r, w) == Hooked(c, "hJob", k, r, Buffers, w)
<1>1. "hJob" \in Job /\ "progress" \in Fn /\ "NULL" \in Buf /\ "NULL" \in Buffers
  BY DEF Job, Fn, Buf, Buffers
<1>2. Calls(c, {}, Buffers) /\ Calls(c, R, Buffers)
  BY <1>1 DEF Calls
<1>3. /\ Leads(c, P("free", {}, Calm), Reg("progress", "NULL"), P("free", R, Calm))
      /\ Leads(c, P("kept", R, Told), Unreg("progress", "NULL"), P("kept", {}, Told))
  BY <1>1, HookedData
<1>4. /\ Leads(c, P("free", R, Calm), Start("hJob"), P("begun", R, Calm))
      /\ Leads(c, P("begun", R, Calm), KeepHook("cancel_job", "hJob"), P("kept", R, Calm))
      /\ Leads(c, P("kept", R, Calm), Wait("hJob"), P("kept", R, Told))
  BY <1>1, <1>2, JobMoves
<1>5. /\ Leads(c, P("kept", {}, Told), Unhook, P("begun", {}, Told))
      /\ Leads(c, P("begun", {}, Told), Free("hJob"), P("free", {}, Told))
  BY <1>1, <1>2, JobMoves
<1> HIDE DEF P, R
<1>6. Leads(c, P("free", {}, Calm), clone, P("free", {}, Told))
  BY <1>3, <1>4, <1>5, LeadsOn DEF clone
<1> QED
  BY <1>6 DEF P

(* Less of what is known of such a state. *)
LEMMA HookedWithin ==
  ASSUME NEW c, NEW j \in Job, NEW r, NEW b, NEW r2, r \subseteq r2
  PROVE  /\ \A k : Hooked(c, j, k, r, b, Calm) \subseteq Hooked(c, j, k, r2, b, Told)
         /\ \A k, w : Hooked(c, j, k, r, b, w) \subseteq Hooked(c, j, k, r2, b, w)
         /\ \A w : Hooked(c, j, "begun", r, b, w) \subseteq Hooked(c, j, "free", r2, b, w)
<1>1. Calm \subseteq Told /\ Cancel(j) \in CommandHook
  BY CancelledIs DEF Told
<1>2. \A k : Hooked(c, j, k, r, b, Calm) \subseteq Hooked(c, j, k, r2, b, Told)
  BY <1>1, StateWithin DEF Hooked
<1>3. \A k, w : Hooked(c, j, k, r, b, w) \subseteq Hooked(c, j, k, r2, b, w)
  BY StateWithin DEF Hooked
<1>4. ASSUME NEW w PROVE Hooked(c, j, "begun", r, b, w) \subseteq Hooked(c, j, "free", r2, b, w)
  <2>1. Hooked(c, j, "begun", r, b, w) \subseteq Hooked(c, j, "free", r, b, w)
    BY <1>1, PhaseWithin DEF Hooked
  <2> QED
    BY <1>3, <2>1
<1> QED
  BY <1>2, <1>3, <1>4

(* Choices between scripts, of a state in which the hook is or is not.     *)
LEMMA HookedChoice ==
  ASSUME NEW c, NEW j \in Job, NEW k \in Phase, k = "dead" => c \in LeavesDeadHook, NEW r, NEW b,
         Calls(c, r, b), NEW w, NEW p, NEW q, NEW Q
  PROVE  /\ Leads(c, Hooked(c, j, k, r, b, w), p, Q) /\ Leads(c, Hooked(c, j, k, r, b, w), q, Q)
              => Leads(c, Hooked(c, j, k, r, b, w), Either(p, q), Q) /\ \A S : Leads(c, Hooked(c, j, k, r, b, w), If(S, p, q), Q)
         /\ Leads(c, Hooked(c, j, k, r, b, Calm), p, Q) /\ Leads(c, Hooked(c, j, k, r, b, Told), q, Q)
              => Leads(c, Hooked(c, j, k, r, b, Told), If({"ok"}, p, q), Q)
         /\ Leads(c, Hooked(c, j, k, r, b, Told), p, Q) /\ Leads(c, Hooked(c, j, k, r, b, Calm), q, Q)
              => Leads(c, Hooked(c, j, k, r, b, Told), If({"canceled"}, p, q), Q)
<1> DEFINE P(v) == Hooked(c, j, k, r, b, v)
<1>1. Fine(c, <<>>, k, Cancel(j), r, b, Ends(<<>>, Cancel(j)))
  BY CancelledIs, FineFrom
<1>2. ASSUME Leads(c, P(w), p, Q), Leads(c, P(w), q, Q) PROVE Leads(c, P(w), Either(p, q), Q)
  BY <1>1, <1>2, StateEither DEF Hooked
<1>3. ASSUME Leads(c, P(w), p, Q), Leads(c, P(w), q, Q), NEW S PROVE Leads(c, P(w), If(S, p, q), Q)
  BY <1>1, <1>3, StateIf DEF Hooked
<1>4. ASSUME Leads(c, P(Calm), p, Q), Leads(c, P(Told), q, Q) PROVE Leads(c, P(Told), If({"ok"}, p, q), Q)
  <2>1. "canceled" \notin {"ok"}
    OBVIOUS
  <2> QED
    BY <1>1, <1>4, <2>1, StateIf DEF Hooked
<1>5. ASSUME Leads(c, P(Told), p, Q), Leads(c, P(Calm), q, Q) PROVE Leads(c, P(Told), If({"canceled"}, p, q), Q)
  <2>1. "canceled" \in {"canceled"}
    OBVIOUS
  <2> QED
    BY <1>1, <1>5, <2>1, StateIf DEF Hooked
<1> QED
  BY <1>2, <1>3, <1>4, <1>5

(* A job that the hook is not about, before and after.                     *)
LEMMA OtherMoves ==
  ASSUME NEW c, NEW j \in Job, NEW k \in Phase, k = "dead" => c \in LeavesDeadHook, NEW r, NEW b,
         Calls(c, r, b), NEW i \in Job \ {j}, NEW w
  PROVE  /\ Leads(c, Hooked(c, j, k, r, b, Calm), RunJob(i), Hooked(c, j, k, r, b, Calm))
         /\ Leads(c, Hooked(c, j, k, r, b, Calm), Start(i), Hooked(c, j, k, r, b, Calm))
         /\ Leads(c, Hooked(c, j, k, r, b, Calm), Wait(i), Hooked(c, j, k, r, b, Calm))
         /\ Leads(c, Hooked(c, j, k, r, b, w), Free(i), Hooked(c, j, k, r, b, w))
<1>1. Fine(c, <<>>, k, Cancel(j), r, b, Ends(<<>>, Cancel(j)))
  BY CancelledIs, FineFrom
<1>2. Cancel(j).data = j /\ i \notin Ends(<<>>, Cancel(j)) /\ i # "hVm"
  BY CancelledIs DEF Job
<1>3. Leads(c, Hooked(c, j, k, r, b, Calm), RunJob(i), Hooked(c, j, k, r, b, Calm))
  BY <1>1, <1>2, StateRun DEF Hooked
<1>4. Leads(c, Hooked(c, j, k, r, b, Calm), Start(i), Hooked(c, j, k, r, b, Calm))
  BY <1>1, <1>2, StateStart DEF Hooked
<1>5. Leads(c, Hooked(c, j, k, r, b, Calm), Wait(i), Hooked(c, j, k, r, b, Calm))
  BY <1>1, <1>2, StateWait DEF Hooked
<1>6. Leads(c, Hooked(c, j, k, r, b, w), Free(i), Hooked(c, j, k, r, b, w))
  BY <1>1, <1>2, StateFree DEF Hooked
<1> QED
  BY <1>3, <1>4, <1>5, <1>6

(* The look-up of a VM, before a job with a hook. *)
LEMMA HookedFind ==
  ASSUME NEW c, NEW j \in Job \ {"hConfig"}, NEW r, NEW b, Calls(c, r, b), NEW f, NEW n, NEW Q,
         Hooked(c, j, "free", r, b, Calm) \subseteq Q,
         Leads(c, Hooked(c, j, "free", r, b, Calm), f, Q), Leads(c, Hooked(c, j, "free", r, b, Calm), n, Q)
  PROVE  /\ Leads(c, Hooked(c, j, "free", r, b, Calm), Config(f, n), Q)
         /\ Leads(c, Hooked(c, j, "free", r, b, Calm), FindVm(f, n), Q)
<1>1. Fine(c, <<>>, "free", Cancel(j), r, b, Ends(<<>>, Cancel(j)))
  BY CancelledIs, FineFrom DEF Phase
<1>2. "hConfig" \notin Ends(<<>>, Cancel(j))
  BY CancelledIs
<1> QED
  BY <1>1, <1>2, FindLeads DEF Hooked

(* reg: the job is freed, and its hook is left.                            *)
LEMMA RegLeads ==
  ASSUME NEW c \in LeavesDeadHook
  PROVE  Leads(c, Hooked(c, "hJob", "free", {}, Buffers, Calm), reg, Hooked(c, "hJob", "dead", {}, Buffers, Told))
<1> DEFINE R == {<<"progress", "NULL">>}
           P(k, r, w) == Hooked(c, "hJob", k, r, Buffers, w)
<1>1. "hJob" \in Job /\ "progress" \in Fn /\ "NULL" \in Buf /\ "NULL" \in Buffers
  BY DEF Job, Fn, Buf, Buffers
<1>2. Calls(c, {}, Buffers) /\ Calls(c, R, Buffers)
  BY <1>1 DEF Calls
<1>3. /\ Leads(c, P("free", {}, Calm), Reg("progress", "NULL"), P("free", R, Calm))
      /\ Leads(c, P("added", R, Told), Unreg("progress", "NULL"), P("added", {}, Told))
  BY <1>1, HookedData
<1>4. /\ Leads(c, P("free", R, Calm), Start("hJob"), P("begun", R, Calm))
      /\ Leads(c, P("begun", R, Calm), AddHook("cancel_job", "hJob"), P("added", R, Calm))
      /\ Leads(c, P("added", R, Calm), Wait("hJob"), P("added", R, Told))
  BY <1>1, <1>2, JobMoves
<1>5. Leads(c, P("added", {}, Told), Free("hJob"), P("dead", {}, Told))
  BY <1>1, <1>2, JobMoves
<1> HIDE DEF P, R
<1>6. Leads(c, P("free", {}, Calm), reg, P("dead", {}, Told))
  BY <1>3, <1>4, <1>5, LeadsOn DEF reg
<1> QED
  BY <1>6 DEF P

(* The image of a disk: the hook is taken away as the newest one. *)
LEMMA CreateImageLeads ==
  ASSUME NEW c
  PROVE  Leads(c, Hooked(c, "hImage", "free", {}, Buffers, Calm), create_image, Hooked(c, "hImage", "free", {}, Buffers, Told))
<1> DEFINE P(k, w) == Hooked(c, "hImage", k, {}, Buffers, w)
<1>1. "hImage" \in Job /\ Calls(c, {}, Buffers)
  BY DEF Job, Calls
<1>2. /\ Leads(c, P("free", Calm), Start("hImage"), P("begun", Calm))
      /\ Leads(c, P("begun", Calm), AddHook("cancel_job", "hImage"), P("added", Calm))
      /\ Leads(c, P("added", Calm), Wait("hImage"), P("added", Told))
  BY <1>1, JobMoves
<1>3. /\ Leads(c, P("added", Told), UnhookLast, P("begun", Told))
      /\ Leads(c, P("begun", Told), Free("hImage"), P("free", Told))
  BY <1>1, JobMoves
<1> HIDE DEF P
<1>4. Leads(c, P("free", Calm), create_image, P("free", Told))
  BY <1>2, <1>3, LeadsOn DEF create_image
<1> QED
  BY <1>4 DEF P

(* A problem report is sent by a job with a hook. *)
LEMMA SendReportLeads ==
  ASSUME NEW c
  PROVE  Leads(c, Hooked(c, "hJob", "free", {}, Buffers, Calm), send_problem_report, Hooked(c, "hJob", "free", {}, Buffers, Told))
<1> DEFINE P(k, w) == Hooked(c, "hJob", k, {}, Buffers, w)
<1>1. "hJob" \in Job /\ Calls(c, {}, Buffers)
  BY DEF Job, Calls
<1>2. /\ Leads(c, P("free", Calm), Start("hJob"), P("begun", Calm))
      /\ Leads(c, P("begun", Calm), KeepHook("cancel_job", "hJob"), P("kept", Calm))
      /\ Leads(c, P("kept", Calm), WaitAtMost("hJob"), P("kept", Told))
  BY <1>1, JobMoves
<1>3. /\ Leads(c, P("kept", Told), Unhook, P("begun", Told))
      /\ Leads(c, P("begun", Told), Free("hJob"), P("free", Told))
  BY <1>1, JobMoves
<1> HIDE DEF P
<1>4. Leads(c, P("free", Calm), send_problem_report, P("free", Told))
  BY <1>2, <1>3, LeadsOn DEF send_problem_report
<1> QED
  BY <1>4 DEF P

(* convert of a VM: as clone, with a callback around the job. *)
LEMMA ConvertLeads ==
  ASSUME NEW c
  PROVE  Leads(c, Hooked(c, "hJob", "free", {}, Buffers, Calm), convert_vm, Hooked(c, "hJob", "free", {}, Buffers, Told))
<1> DEFINE R == {<<"server", "NULL">>}
           P(k, r, w) == Hooked(c, "hJob", k, r, Buffers, w)
<1>1. "hJob" \in Job /\ "server" \in Fn /\ "NULL" \in Buf /\ "NULL" \in Buffers
  BY DEF Job, Fn, Buf, Buffers
<1>2. Calls(c, {}, Buffers) /\ Calls(c, R, Buffers)
  BY <1>1 DEF Calls
<1>3. /\ Leads(c, P("free", {}, Calm), Start("hJob"), P("begun", {}, Calm))
      /\ Leads(c, P("begun", {}, Calm), KeepHook("cancel_job", "hJob"), P("kept", {}, Calm))
  BY <1>1, <1>2, JobMoves
<1>4. /\ Leads(c, P("kept", {}, Calm), Reg("server", "NULL"), P("kept", R, Calm))
      /\ Leads(c, P("kept", R, Told), Unreg("server", "NULL"), P("kept", {}, Told))
  BY <1>1, HookedData
<1>5. Leads(c, P("kept", R, Calm), Wait("hJob"), P("kept", R, Told))
  BY <1>1, <1>2, JobMoves
<1>6. /\ Leads(c, P("kept", {}, Told), Unhook, P("begun", {}, Told))
      /\ Leads(c, P("begun", {}, Told), Free("hJob"), P("free", {}, Told))
  BY <1>1, <1>2, JobMoves
<1> HIDE DEF P, R
<1>7. Leads(c, P("free", {}, Calm), convert_vm, P("free", {}, Told))
  BY <1>3, <1>4, <1>5, <1>6, LeadsOn DEF convert_vm
<1> QED
  BY <1>7 DEF P

(* appliance install: the callback of the server stays registered. *)
LEMMA ApplianceLeads ==
  ASSUME NEW c
  PROVE  Leads(c, Hooked(c, "hJob", "free", {}, Buffers, Calm), appliance_install,
                  Hooked(c, "hJob", "free", {<<"server", "batch">>}, Buffers, Told))
<1> DEFINE R == {<<"server", "batch">>}
           P(k, r, w) == Hooked(c, "hJob", k, r, Buffers, w)
<1>1. "hJob" \in Job /\ "server" \in Fn /\ "NULL" \in Buf /\ "batch" \in Buf /\ "batch" \in Buffers
  BY DEF Job, Fn, Buf, Buffers
<1>2. Calls(c, {}, Buffers) /\ Calls(c, R, Buffers)
  BY <1>1 DEF Calls
<1>3. Leads(c, P("free", {}, Calm), Reg("server", "batch"), P("free", R, Calm))
  BY <1>1, HookedData
<1>4. /\ Leads(c, P("free", R, Calm), Start("hJob"), P("begun", R, Calm))
      /\ Leads(c, P("begun", R, Calm), KeepHook("cancel_job", "hJob"), P("kept", R, Calm))
      /\ Leads(c, P("kept", R, Calm), Wait("hJob"), P("kept", R, Told))
  BY <1>1, <1>2, JobMoves
<1>5. Leads(c, P("kept", R, Told), Unreg("server", "NULL"), P("kept", R, Told))
  <2>1. Fine(c, <<>>, "kept", Cancel("hJob"), R, Buffers, Ends(<<>>, Cancel("hJob")))
    BY <1>1, <1>2, CancelledIs, FineFrom DEF Phase
  <2>2. R \ {<<"server", "NULL">>} \subseteq R
    OBVIOUS
  <2> HIDE DEF R
  <2>3. Leads(c, P("kept", R, Told), Unreg("server", "NULL"), P("kept", R \ {<<"server", "NULL">>}, Told))
    BY <1>1, <2>1, StateData DEF Hooked
  <2>4. P("kept", R \ {<<"server", "NULL">>}, Told) \subseteq P("kept", R, Told)
    BY <1>1, <2>2, HookedWithin
  <2> HIDE DEF P
  <2> QED
    BY <2>3, <2>4, LeadsWithin
<1>6. /\ Leads(c, P("kept", R, Told), Unhook, P("begun", R, Told))
      /\ Leads(c, P("begun", R, Told), Free("hJob"), P("free", R, Told))
  BY <1>1, <1>2, JobMoves
<1> HIDE DEF P, R
<1>7. Leads(c, P("free", {}, Calm), appliance_install, P("free", R, Told))
  BY <1>3, <1>4, <1>5, <1>6, LeadsOn DEF appliance_install
<1> QED
  BY <1>7 DEF P, R

(* The buffer of the callback outlives its registration.                   *)
LEMMA VmBackupLeads ==
  ASSUME NEW c
  PROVE  Leads(c, Hooked(c, "hBackup", "free", {}, Buffers, Calm), do_vm_backup, Hooked(c, "hBackup", "free", {}, Buffers, Told))
<1> DEFINE R == {<<"backup", "vm_uuid">>}
           B == Buffers \cup {"vm_uuid"}
           P(k, r, w) == Hooked(c, "hBackup", k, r, B, w)
<1>1. "hBackup" \in Job /\ "backup" \in Fn /\ "vm_uuid" \in Buf /\ "vm_uuid" \in B
  BY DEF Job, Fn, Buf
<1>2. Calls(c, {}, B) /\ Calls(c, R, B) /\ Calls(c, {}, Buffers)
  BY <1>1 DEF Calls
<1>3. B \ {"vm_uuid"} = Buffers
  BY DEF Buffers
<1>4. \A w : /\ Leads(c, Hooked(c, "hBackup", "free", {}, Buffers, w), Buffer("vm_uuid"), P("free", {}, w))
             /\ Leads(c, P("free", {}, w), Drop("vm_uuid"), Hooked(c, "hBackup", "free", {}, Buffers, w))
  <2>1. /\ Fine(c, <<>>, "free", Cancel("hBackup"), {}, Buffers, Ends(<<>>, Cancel("hBackup")))
        /\ Fine(c, <<>>, "free", Cancel("hBackup"), {}, B, Ends(<<>>, Cancel("hBackup")))
    BY <1>1, <1>2, CancelledIs, FineFrom DEF Phase
  <2>2. \E f : f \in Fn
    BY <1>1
  <2> HIDE DEF B
  <2> QED
    BY <1>1, <1>3, <2>1, <2>2, StateData DEF Hooked, B
<1>5. Leads(c, P("free", {}, Calm), Start("hBackup"), P("begun", {}, Calm))
  BY <1>1, <1>2, JobMoves
<1>6. /\ Leads(c, P("begun", {}, Calm), Reg("backup", "vm_uuid"), P("begun", R, Calm))
      /\ Leads(c, P("free", R, Told), Unreg("backup", "vm_uuid"), P("free", {}, Told))
  BY <1>1, HookedData
<1>7. /\ Leads(c, P("begun", R, Calm), KeepHook("cancel_job", "hBackup"), P("kept", R, Calm))
      /\ Leads(c, P("kept", R, Calm), Wait("hBackup"), P("kept", R, Told))
  BY <1>1, <1>2, JobMoves
<1>8. /\ Leads(c, P("kept", R, Told), CancelLate("hBackup"), P("kept", R, Told))
      /\ Leads(c, P("kept", R, Told), Unhook, P("begun", R, Told))
      /\ Leads(c, P("begun", R, Told), Free("hBackup"), P("free", R, Told))
  BY <1>1, <1>2, JobMoves
<1> DEFINE A == Hooked(c, "hBackup", "free", {}, Buffers, Calm)
           Z == Hooked(c, "hBackup", "free", {}, Buffers, Told)
<1>9. /\ Leads(c, A, Buffer("vm_uuid"), P("free", {}, Calm))
      /\ Leads(c, P("free", {}, Told), Drop("vm_uuid"), Z)
  BY <1>4
<1> HIDE DEF P, R, B, A, Z
<1>10. Leads(c, A, do_vm_backup, Z)
  BY <1>5, <1>6, <1>7, <1>8, <1>9, LeadsOn DEF do_vm_backup
<1> QED
  BY <1>10 DEF A, Z

(* One more VM: a backup that was cancelled is the last.                   *)
BackupThen(rest) ==
  RunJob("hConfig") \o If({"ok"}, Either(do_vm_backup \o If({"canceled"}, <<>>, rest), rest), rest)

(* All of them, of a node with two. *)
Node == RunJob("hList") \o If({"ok"}, Either(BackupThen(BackupThen(<<>>)), <<>>), <<>>)

(* backup_node unrolled. *)
LEMMA BackupNodeIs == backup_node(2) = Node
<1> DEFINE body(f) == [n \in 0..2 |-> IF n = 0 THEN <<>> ELSE BackupThen(f[n - 1])]
           one == BackupThen(<<>>)
           two == BackupThen(one)
           it == [n \in 0..2 |-> IF n = 0 THEN <<>> ELSE IF n = 1 THEN one ELSE two]
           rest == CHOOSE f : f = body(f)
<1>1. backup_node(2) = RunJob("hList") \o If({"ok"}, Either(rest[2], <<>>), <<>>)
  BY DEF backup_node, BackupThen
<1>2. it = body(it)
  <2>1. it[0] = <<>> /\ it[1] = one /\ it[2] = two
     OBVIOUS
  <2>2. ASSUME NEW n \in 0..2 PROVE it[n] = body(it)[n]
    <3>1. CASE n = 0
      BY <3>1
    <3>2. CASE n = 1
      BY <2>1, <3>2
    <3>3. CASE n = 2
      BY <2>1, <3>3 
    <3> QED BY <3>1, <3>2, <3>3
  <2> QED BY <2>2
<1>3. rest = body(rest)
  <2> HIDE DEF it, body
  <2> QED BY <1>2
<1> HIDE DEF rest
<1>4. rest[0] = <<>>
  BY <1>3
<1>5. rest[1] = BackupThen(rest[0])
  <2>1. 1 \in 0..2 /\ 1 # 0 /\ 1 - 1 = 0
    OBVIOUS
  <2> QED
    BY <1>3, <2>1
<1>6. rest[2] = BackupThen(rest[1])
  <2>1. 2 \in 0..2 /\ 2 # 0 /\ 2 - 1 = 1
    OBVIOUS
  <2> QED
    BY <1>3, <2>1
<1> QED BY <1>1, <1>4, <1>5, <1>6 DEF Node

(* One VM of a node, and then the rest. *)
LEMMA BackupThenLeads ==
  ASSUME NEW c, NEW rest, Leads(c, Hooked(c, "hBackup", "free", {}, Buffers, Calm), rest, Hooked(c,
         "hBackup", "free", {}, Buffers, Told))
  PROVE  Leads(c, Hooked(c, "hBackup", "free", {}, Buffers, Calm), BackupThen(rest), Hooked(c, "hBackup", "free", {}, Buffers, Told))
<1> DEFINE P(w) == Hooked(c, "hBackup", "free", {}, Buffers, w)
<1>1. /\ "hBackup" \in Job /\ "hConfig" \in Job \ {"hBackup"} /\ Calls(c, {}, Buffers)
      /\ "free" \in Phase /\ "free" # "dead"
  BY DEF Job, Calls, Phase
<1>2. Leads(c, P(Calm), RunJob("hConfig"), P(Calm))
  BY <1>1, OtherMoves
<1>3. Leads(c, P(Told), <<>>, P(Told))
  BY LeadsNowhere
<1>4. Leads(c, P(Told), If({"canceled"}, <<>>, rest), P(Told))
  BY <1>1, <1>3, HookedChoice
<1>5. Leads(c, P(Calm), do_vm_backup, P(Told))
  BY VmBackupLeads
<1> HIDE DEF P
<1>6. Leads(c, P(Calm), do_vm_backup \o If({"canceled"}, <<>>, rest), P(Told))
  BY <1>4, <1>5, LeadsOn
<1>9. Leads(c, P(Calm), rest, P(Told))
  BY DEF P
<1>10. Leads(c, P(Calm), Either(do_vm_backup \o If({"canceled"}, <<>>, rest), rest), P(Told))
  BY <1>1, <1>6, <1>9, HookedChoice DEF P
<1>7. Leads(c, P(Calm), If({"ok"}, Either(do_vm_backup \o If({"canceled"}, <<>>, rest), rest), rest), P(Told))
  BY <1>1, <1>9, <1>10, HookedChoice DEF P
<1>8. Leads(c, P(Calm), BackupThen(rest), P(Told))
  BY <1>2, <1>7, LeadsOn DEF BackupThen
<1> QED
  BY <1>8 DEF P

(* backup of one VM and of the node. *)
LEMMA BackupsLead ==
  ASSUME NEW c
  PROVE  /\ Leads(c, Hooked(c, "hBackup", "free", {}, Buffers, Calm), backup, Hooked(c, "hBackup", "free", {}, Buffers, Told))
         /\ Leads(c, Hooked(c, "hBackup", "free", {}, Buffers, Calm), backup_node(2), Hooked(c, "hBackup", "free", {}, Buffers, Told))
<1> DEFINE P(w) == Hooked(c, "hBackup", "free", {}, Buffers, w)
<1>1. /\ "hBackup" \in Job /\ "hList" \in Job \ {"hBackup"} /\ "hBackup" \in Job \ {"hConfig"}
      /\ Calls(c, {}, Buffers) /\ "free" \in Phase /\ "free" # "dead"
  BY DEF Job, Calls, Phase
<1>2. Leads(c, P(Calm), RunJob("hList"), P(Calm))
  BY <1>1, OtherMoves
<1>3. Leads(c, P(Calm), do_vm_backup, P(Told))
  BY VmBackupLeads
<1>4. P(Calm) \subseteq P(Told)
  BY <1>1, HookedWithin
<1>5. Leads(c, P(Calm), <<>>, P(Told))
  <2>1. Leads(c, P(Calm), <<>>, P(Calm))
    BY LeadsNowhere
  <2> HIDE DEF P
  <2> QED
    BY <1>4, <2>1, LeadsWithin
<1>6. Leads(c, P(Calm), backup, P(Told))
  BY <1>1, <1>3, <1>4, <1>5, HookedFind DEF backup
<1>7. Leads(c, P(Calm), BackupThen(BackupThen(<<>>)), P(Told))
  BY <1>5, BackupThenLeads
<1>8. Leads(c, P(Calm), Either(BackupThen(BackupThen(<<>>)), <<>>), P(Told))
  BY <1>1, <1>5, <1>7, HookedChoice
<1>9. Leads(c, P(Calm), If({"ok"}, Either(BackupThen(BackupThen(<<>>)), <<>>), <<>>), P(Told))
  BY <1>1, <1>5, <1>8, HookedChoice
<1> HIDE DEF P
<1>10. Leads(c, P(Calm), Node, P(Told))
  BY <1>2, <1>9, LeadsOn DEF Node
<1> QED
  BY <1>6, <1>10, BackupNodeIs DEF P

(* What is left of the job that reg has registered: nothing, or its hook.  *)
Registered(c) == Hooked(c, "hJob", "free", {}, Buffers, Told) \cup Hooked(c, "hJob", "dead", {}, Buffers, Told)

(* create of a container and of a VM: what reg leaves. *)
LEMMA CreateLeads ==
  ASSUME NEW c \in LeavesDeadHook
  PROVE  /\ Leads(c, Hooked(c, "hJob", "free", {}, Buffers, Calm), create_ct, Registered(c))
         /\ Leads(c, Hooked(c, "hJob", "free", {}, Buffers, Calm), create_vm, Registered(c))
<1> DEFINE P(k, w) == Hooked(c, "hJob", k, {}, Buffers, w)
           Q == Registered(c)
<1>1. /\ "hJob" \in Job /\ "hConfig" \in Job \ {"hJob"} /\ "hSrvConf" \in Job \ {"hJob"} /\ Calls(c, {}, Buffers)
      /\ "free" \in Phase /\ "dead" \in Phase
  BY DEF Job, Calls, Phase
<1>2. P("free", Calm) \subseteq P("free", Told)
  BY <1>1, HookedWithin
<1>3. \A w : /\ Leads(c, P("free", w), Free("hConfig"), P("free", w))
             /\ Leads(c, P("dead", w), Free("hConfig"), P("dead", w))
  BY <1>1, OtherMoves
<1>4. /\ Leads(c, P("free", Calm), RunJob("hConfig"), P("free", Calm))
      /\ Leads(c, P("free", Calm), RunJob("hSrvConf"), P("free", Calm))
      /\ Leads(c, P("free", Calm), Start("hConfig"), P("free", Calm))
      /\ Leads(c, P("free", Calm), Wait("hConfig"), P("free", Calm))
  BY <1>1, OtherMoves
<1>5. Leads(c, P("free", Calm), <<>>, P("free", Calm))
  BY LeadsNowhere
<1>6. /\ Leads(c, P("free", Calm), reg, P("dead", Told))
      /\ Leads(c, P("free", Calm), clone, P("free", Told))
  BY RegLeads, CloneLeads
<1>7. Q = P("free", Told) \cup P("dead", Told)
  BY DEF Registered
<1>8. \A p, q : Leads(c, P("free", Calm), p, Q) /\ Leads(c, P("free", Calm), q, Q)
                  => Leads(c, P("free", Calm), Either(p, q), Q) /\ \A S : Leads(c, P("free", Calm), If(S, p, q), Q)
  BY <1>1, HookedChoice
<1>9. \A p, q : Leads(c, P("free", Calm), p, P("free", Calm)) /\ Leads(c, P("free", Calm), q, P("free", Calm))
                  => Leads(c, P("free", Calm), Either(p, q), P("free", Calm))
  BY <1>1, HookedChoice
<1> HIDE DEF P, Q
<1>10. /\ Leads(c, P("free", Calm), reg, Q) /\ Leads(c, P("free", Calm), clone, Q)
       /\ Leads(c, P("free", Calm), <<>>, Q)
  BY <1>2, <1>5, <1>6, <1>7, LeadsWithin
<1>11. Leads(c, P("free", Calm), If({"ok"}, Either(reg, <<>>), <<>>), Q)
  BY <1>8, <1>10
<1>12. Leads(c, Q, Free("hConfig"), Q)
  BY <1>3, <1>7, LeadsEither
<1>13. Leads(c, P("free", Calm), create_ct, Q)
  BY <1>4, <1>11, <1>12, LeadsOn DEF create_ct
<1>14. Leads(c, P("free", Calm), Config(clone, <<>>), Q)
  <2>1. "hJob" \in Job \ {"hConfig"} /\ P("free", Calm) \subseteq Q
    BY <1>1, <1>2, <1>7 DEF Job
  <2> QED
    BY <1>1, <1>10, <2>1, HookedFind DEF P
<1>15. Leads(c, P("free", Calm), Either(RunJob("hSrvConf"), <<>>) \o Either(reg, <<>>), Q)
  BY <1>4, <1>5, <1>8, <1>9, <1>10, LeadsOn
<1>16. Leads(c, P("free", Calm), create_vm, Q)
  BY <1>8, <1>14, <1>15 DEF create_vm
<1> QED
  BY <1>13, <1>16 DEF P, Q

(* problem-report of a VM and of the server. *)
LEMMA ReportsLead ==
  ASSUME NEW c
  PROVE  /\ Leads(c, Hooked(c, "hJob", "free", {}, Buffers, Calm), vm_problem_report, Hooked(c, "hJob", "free", {}, Buffers, Told))
         /\ Leads(c, Hooked(c, "hJob", "free", {}, Buffers, Calm), srv_problem_report, Hooked(c, "hJob", "free", {}, Buffers, Told))
<1> DEFINE P(w) == Hooked(c, "hJob", "free", {}, Buffers, w)
           old == RunJob("hOldReport") \o If({"ok"}, Either(Deliver, <<>>), <<>>)
<1>1. /\ "hJob" \in Job /\ {"hReport", "hOldReport", "hAssembly"} \subseteq Job \ {"hJob"} /\ Calls(c, {}, Buffers)
      /\ "free" \in Phase /\ "free" # "dead"
  BY DEF Job, Calls, Phase
<1>2. P(Calm) \subseteq P(Told)
  BY <1>1, HookedWithin
<1>3. \A i \in {"hReport", "hOldReport", "hAssembly"} :
        /\ Leads(c, P(Calm), RunJob(i), P(Calm)) /\ Leads(c, P(Calm), Start(i), P(Calm)) /\ Leads(c, P(Calm), Wait(i), P(Calm))
        /\ Leads(c, P(Calm), Free(i), P(Calm)) /\ Leads(c, P(Told), Free(i), P(Told))
  BY <1>1, OtherMoves
<1>4. Leads(c, P(Calm), <<>>, P(Calm)) /\ Leads(c, P(Calm), send_problem_report, P(Told))
  BY LeadsNowhere, SendReportLeads
<1>5. \A p, q : Leads(c, P(Calm), p, P(Told)) /\ Leads(c, P(Calm), q, P(Told))
                  => Leads(c, P(Calm), Either(p, q), P(Told)) /\ \A S : Leads(c, P(Calm), If(S, p, q), P(Told))
  BY <1>1, HookedChoice
<1> HIDE DEF P
<1>6. Leads(c, P(Calm), <<>>, P(Told)) /\ Leads(c, P(Calm), RunJob("hOldReport"), P(Told))
  BY <1>2, <1>3, <1>4, LeadsWithin
<1>7. Leads(c, P(Calm), Deliver, P(Told))
  <2>1. Leads(c, P(Calm), If({"ok"}, Either(send_problem_report, <<>>), <<>>), P(Told))
    BY <1>4, <1>5, <1>6
  <2> QED
    BY <1>3, <2>1, LeadsOn DEF Deliver
<1>8. Leads(c, P(Calm), old, P(Told))
  <2>1. Leads(c, P(Calm), If({"ok"}, Either(Deliver, <<>>), <<>>), P(Told))
    BY <1>5, <1>6, <1>7
  <2> QED
    BY <1>3, <2>1, LeadsOn
<1> HIDE DEF old
<1>9. ASSUME NEW o, Leads(c, P(Calm), o, P(Told)) PROVE Leads(c, P(Calm), ReportJob(o), P(Told))
  <2>1. Leads(c, P(Calm), Either(Deliver, <<>>), P(Told)) /\ Leads(c, P(Calm), Either(o, <<>>), P(Told))
    BY <1>5, <1>6, <1>7, <1>9
  <2>2. Leads(c, P(Calm), If({"failed"}, Either(o, <<>>), <<>>), P(Told))
    BY <1>5, <1>6, <2>1
  <2>3. Leads(c, P(Calm), If({"ok"}, Either(Deliver, <<>>), If({"failed"}, Either(o, <<>>), <<>>)), P(Told))
    BY <1>5, <2>1, <2>2
  <2>4. /\ Leads(c, P(Calm), Start("hReport") \o Wait("hReport"), P(Calm))
        /\ Leads(c, P(Told), Free("hReport"), P(Told))
    BY <1>3, LeadsOn
  <2> QED
    BY <2>3, <2>4, LeadsOn DEF ReportJob
<1>10. Leads(c, P(Calm), vm_problem_report, P(Told))
  BY <1>6, <1>9 DEF vm_problem_report
<1>11. Leads(c, P(Calm), srv_problem_report, P(Told))
  <2>1. Leads(c, P(Calm), ReportJob(old), P(Told)) /\ Leads(c, P(Calm), Either(Deliver, <<>>), P(Told))
    BY <1>5, <1>6, <1>7, <1>8, <1>9
  <2> QED
    BY <1>5, <2>1 DEF srv_problem_report, old
<1> QED
  BY <1>10, <1>11 DEF P

(* commit_configuration, whose callbacks the early returns leave.          *)
Commits == {<<"commit", "vm_uuid">>, <<"progress", "NULL">>}

(* What set does after the settings may leave both of them, with data that *)
(* is gone.  A hook with a freed handle that is there before stays.        *)
LEMMA SaveLeads ==
  ASSUME NEW c \in LeavesDeadCallback, NEW j \in {"hImage", "hTree"}, NEW k \in {"free", "dead"},
         k = "dead" => c \in LeavesDeadHook
  PROVE  Leads(c, Hooked(c, j, k, Commits, Buffers, Calm), save, Hooked(c, j, k, Commits, Buffers, Calm))
<1> DEFINE P(b) == Hooked(c, j, k, Commits, b, Calm)
           S(p) == Leads(c, P(Buffers), p, P(Buffers))
           end  == Free("hJob") \o Drop("vm_uuid")
<1>1. /\ j \in Job /\ k \in Phase /\ Calls(c, Commits, Buffers)
      /\ {"commit", "progress"} \subseteq Fn /\ {"vm_uuid", "NULL"} \subseteq Buf
  BY DEF Job, Calls, Commits, Fn, Buf, Phase
<1>2. \A i \in {"hJob", "hNvram", "hValidate", "hEncrypt", "hRefresh"} : S(Start(i)) /\ S(Wait(i)) /\ S(Free(i)) /\ S(RunJob(i))
  <2>1. {"hJob", "hNvram", "hValidate", "hEncrypt", "hRefresh"} \subseteq Job \ {j}
    BY DEF Job
  <2> QED
    BY <1>1, <2>1, OtherMoves
<1>3. Fine(c, <<>>, k, Cancel(j), Commits, Buffers, Ends(<<>>, Cancel(j)))
  BY <1>1, CancelledIs, FineFrom
<1>4. /\ S(Reg("commit", "vm_uuid")) /\ S(Reg("progress", "NULL"))
      /\ S(Unreg("commit", "vm_uuid")) /\ S(Unreg("progress", "NULL"))
  <2>1. ASSUME NEW f \in {"commit", "progress"}, NEW y \in {"vm_uuid", "NULL"}
        PROVE  /\ S(Unreg(f, y))
               /\ <<f, y>> \in Commits => S(Reg(f, y))
    <3>1. /\ Leads(c, Hooked(c, j, k, Commits, Buffers, Calm), Reg(f, y), Hooked(c, j, k, Commits \cup {<<f, y>>}, Buffers, Calm))
          /\ Leads(c, Hooked(c, j, k, Commits, Buffers, Calm), Unreg(f, y), Hooked(c, j, k, Commits \ {<<f, y>>}, Buffers, Calm))
      BY <1>1, <1>3, StateData DEF Hooked
    <3>2. Hooked(c, j, k, Commits \ {<<f, y>>}, Buffers, Calm) \subseteq P(Buffers)
      BY <1>1, HookedWithin
    <3>3. <<f, y>> \in Commits => Commits \cup {<<f, y>>} = Commits
      OBVIOUS
    <3>4. S(Unreg(f, y))
      <4>1. P(Buffers) \subseteq P(Buffers)
        OBVIOUS
      <4> DEFINE Z == Hooked(c, j, k, Commits \ {<<f, y>>}, Buffers, Calm)
      <4>2. Leads(c, P(Buffers), Unreg(f, y), Z) /\ Z \subseteq P(Buffers)
        BY <3>1, <3>2
      <4> HIDE DEF Z, P
      <4> QED
        BY <4>1, <4>2, LeadsWithin
    <3>5. ASSUME <<f, y>> \in Commits PROVE S(Reg(f, y))
      BY <3>1, <3>3, <3>5
    <3> QED
      BY <3>4, <3>5
  <2>2. <<"commit", "vm_uuid">> \in Commits /\ <<"progress", "NULL">> \in Commits
    BY DEF Commits
  <2> QED
    BY <2>1, <2>2
<1>5. S(Buffer("vm_uuid")) /\ S(Drop("vm_uuid"))
  <2>1. /\ Leads(c, P(Buffers), Buffer("vm_uuid"), P(Buffers \cup {"vm_uuid"}))
        /\ Leads(c, P(Buffers), Drop("vm_uuid"), P(Buffers \ {"vm_uuid"}))
    BY <1>1, <1>3, StateData DEF Hooked
  <2>2. P(Buffers \cup {"vm_uuid"}) \subseteq P(Buffers)
    BY StateWithin DEF Hooked
  <2>3. Buffers \ {"vm_uuid"} = Buffers
    BY DEF Buffers
  <2> HIDE DEF P
  <2> QED
    BY <2>1, <2>2, <2>3, LeadsWithin
<1>6. \A p, q : S(p) /\ S(q) => S(p \o q) /\ S(Either(p, q)) /\ \A V : S(If(V, p, q))
  <2>1. ASSUME NEW p, NEW q, S(p), S(q) PROVE S(p \o q)
    BY <2>1, LeadsOn
  <2>2. ASSUME NEW p, NEW q, S(p), S(q) PROVE S(Either(p, q)) /\ \A V : S(If(V, p, q))
    BY <1>1, <2>2, HookedChoice
  <2> QED
    BY <2>1, <2>2
<1>7. S(<<>>)
  BY LeadsNowhere
<1> HIDE DEF S
<1>8. S(end)
  BY <1>2, <1>5, <1>6
<1>9. S(commit(RunJob("hRefresh")))
  <2>1. S(RunJob("hRefresh"))
    BY <1>2
  <2>2. S(If({"ok"}, RunJob("hRefresh"), <<>>))
    BY <1>6, <1>7, <2>1
  <2>3. S(Unreg("commit", "vm_uuid") \o Unreg("progress", "NULL") \o end \o If({"ok"}, RunJob("hRefresh"), <<>>))
    BY <1>4, <1>6, <1>8, <2>2
  <2>4. S(If({"timeout"}, end,
             Either(Unreg("commit", "vm_uuid") \o Unreg("progress", "NULL") \o end \o If({"ok"}, RunJob("hRefresh"), <<>>), end)))
    BY <1>6, <1>8, <2>3
  <2> QED
    BY <1>2, <1>4, <1>5, <1>6, <2>4 DEF commit
<1>10. S(save)
  <2>1. S(RunJob("hEncrypt") \o If({"ok"}, RunJob("hRefresh"), <<>>))
    BY <1>2, <1>6, <1>7
  <2> QED
    BY <1>2, <1>6, <1>7, <1>9, <2>1 DEF save
<1> QED
  BY <1>10 DEF S, P

(* set, around its settings: they are made where the command began, or not *)
(* at all.                                                                 *)
LEMMA EditLeads ==
  ASSUME NEW c, NEW j \in {"hImage", "hTree"}, NEW r, Calls(c, r, Buffers), NEW Q, NEW p,
         Hooked(c, j, "free", r, Buffers, Calm) \subseteq Q,
         Leads(c, Q, Free("hEdit"), Q), Leads(c, Hooked(c, j, "free", r, Buffers, Calm), p, Q)
  PROVE  Leads(c, Hooked(c, j, "free", r, Buffers, Calm), edit(p), Q)
<1> DEFINE P == Hooked(c, j, "free", r, Buffers, Calm)
<1>1. j \in Job /\ "free" \in Phase /\ "free" # "dead" /\ {"hConnect", "hPasswd", "hEdit"} \subseteq Job \ {j}
  BY DEF Job, Phase
<1>2. \A i \in {"hConnect", "hPasswd", "hEdit"} : Leads(c, P, Start(i), P) /\ Leads(c, P, Wait(i), P) /\ Leads(c, P, RunJob(i), P)
  BY <1>1, OtherMoves
<1>3. Leads(c, P, <<>>, P)
  BY LeadsNowhere
<1>4. \A q, t, Z : Leads(c, P, q, Z) /\ Leads(c, P, t, Z) => Leads(c, P, Either(q, t), Z) /\ \A S : Leads(c, P, If(S, q, t), Z)
  BY <1>1, HookedChoice
<1>5. P \subseteq Q /\ Leads(c, P, p, Q)
  OBVIOUS
<1> HIDE DEF P
<1>6. Leads(c, P, <<>>, Q)
  BY <1>3, <1>5, LeadsWithin
<1>7. Leads(c, P, If({"ok"}, Either(p, <<>>), <<>>), Q)
  BY <1>4, <1>5, <1>6
<1>8. Leads(c, P, Start("hEdit") \o Wait("hEdit") \o If({"ok"}, Either(p, <<>>), <<>>) \o Free("hEdit"), Q)
  <2>1. Leads(c, P, Start("hEdit") \o Wait("hEdit"), P)
    BY <1>2, LeadsOn
  <2>2. Leads(c, P, Start("hEdit") \o Wait("hEdit") \o If({"ok"}, Either(p, <<>>), <<>>), Q)
    BY <1>7, <2>1, LeadsOn
  <2> QED
    BY <2>2, LeadsOn
<1>9. Leads(c, P, Either(RunJob("hPasswd"), <<>>), P) /\ Leads(c, P, Either(RunJob("hConnect"), <<>>), P)
  BY <1>2, <1>3, <1>4
<1> DEFINE session == Start("hEdit") \o Wait("hEdit") \o If({"ok"}, Either(p, <<>>), <<>>) \o Free("hEdit")
           rest    == Either(RunJob("hPasswd"), <<>>) \o If({"none", "ok"}, session, <<>>)
<1>10. edit(p) = Either(RunJob("hConnect"), <<>>) \o If({"none", "ok"}, rest, <<>>)
  BY DEF edit
<1>11. Leads(c, P, session, Q)
  BY <1>8
<1> HIDE DEF session
<1>12. Leads(c, P, If({"none", "ok"}, session, <<>>), Q)
  BY <1>4, <1>6, <1>11
<1>13. Leads(c, P, rest, Q)
  BY <1>9, <1>12, LeadsOn
<1> HIDE DEF rest
<1>14. Leads(c, P, If({"none", "ok"}, rest, <<>>), Q)
  BY <1>4, <1>6, <1>13
<1>15. Leads(c, P, edit(p), Q)
  BY <1>9, <1>10, <1>14, LeadsOn
<1> QED
  BY <1>15 DEF P

(* The end of set, after a job that may have been cancelled: only if it    *)
(* succeeded.                                                              *)
LEMMA ThenSave ==
  ASSUME NEW c \in LeavesDeadCallback, NEW j \in {"hImage", "hTree"}, NEW k \in {"free", "dead"},
         k = "dead" => c \in LeavesDeadHook
  PROVE  Leads(c, Hooked(c, j, k, {}, Buffers, Told), If({"ok"}, Either(save, <<>>), <<>>), Hooked(c, j, k, Commits, Buffers, Told))
<1> DEFINE P(r, w) == Hooked(c, j, k, r, Buffers, w)
<1>1. j \in Job /\ k \in Phase /\ Calls(c, {}, Buffers) /\ {} \subseteq Commits
  BY DEF Job, Phase, Calls
<1>2. /\ P({}, Calm) \subseteq P(Commits, Calm) /\ P(Commits, Calm) \subseteq P(Commits, Told)
      /\ P({}, Told) \subseteq P(Commits, Told) /\ P({}, Calm) \subseteq P(Commits, Told)
  BY <1>1, HookedWithin
<1>3. Leads(c, P(Commits, Calm), save, P(Commits, Calm))
  BY SaveLeads
<1>4. Leads(c, P({}, Told), <<>>, P({}, Told)) /\ Leads(c, P({}, Calm), <<>>, P({}, Calm))
  BY LeadsNowhere
<1>5. /\ \A p, q, Q : Leads(c, P({}, Calm), p, Q) /\ Leads(c, P({}, Calm), q, Q) => Leads(c, P({}, Calm), Either(p, q), Q)
      /\ \A p, q, Q : Leads(c, P({}, Calm), p, Q) /\ Leads(c, P({}, Told), q, Q) => Leads(c, P({}, Told), If({"ok"}, p, q), Q)
  BY <1>1, HookedChoice
<1> HIDE DEF P
<1>6. /\ Leads(c, P({}, Calm), save, P(Commits, Told)) /\ Leads(c, P({}, Calm), <<>>, P(Commits, Told))
      /\ Leads(c, P({}, Told), <<>>, P(Commits, Told))
  BY <1>2, <1>3, <1>4, LeadsWithin
<1>7. Leads(c, P({}, Calm), Either(save, <<>>), P(Commits, Told))
  BY <1>5, <1>6
<1>8. Leads(c, P({}, Told), If({"ok"}, Either(save, <<>>), <<>>), P(Commits, Told))
  BY <1>5, <1>6, <1>7
<1> QED
  BY <1>8 DEF P

(* set, and set of a disk: the image first, and then the commit. *)
LEMMA SetLeads ==
  ASSUME NEW c \in LeavesDeadCallback
  PROVE  /\ Leads(c, Hooked(c, "hImage", "free", {}, Buffers, Calm), set, Hooked(c, "hImage", "free", Commits, Buffers, Told))
         /\ Leads(c, Hooked(c, "hImage", "free", {}, Buffers, Calm), set_hdd, Hooked(c, "hImage", "free", Commits, Buffers, Told))
<1> DEFINE P(r, w) == Hooked(c, "hImage", "free", r, Buffers, w)
           Q == P(Commits, Told)
<1>1. /\ "hImage" \in Job /\ {"hEdit", "hFloppy"} \subseteq Job \ {"hImage"}
      /\ Calls(c, {}, Buffers) /\ Calls(c, Commits, Buffers)
      /\ {} \subseteq Commits /\ "free" \in Phase /\ "free" # "dead"
  BY DEF Job, Calls, Phase, Commits, Fn, Buf
<1>2. /\ P({}, Calm) \subseteq P(Commits, Calm) /\ P(Commits, Calm) \subseteq Q /\ P({}, Calm) \subseteq Q
  BY <1>1, HookedWithin
<1>3. Leads(c, Q, Free("hEdit"), Q)
  BY <1>1, OtherMoves
<1>4. Leads(c, P(Commits, Calm), save, P(Commits, Calm))
  BY <1>1, SaveLeads
<1>5. Leads(c, P({}, Calm), create_image, P({}, Told))
  BY CreateImageLeads
<1>6. Leads(c, P({}, Told), If({"ok"}, Either(save, <<>>), <<>>), Q)
  BY <1>1, ThenSave
<1>7. \A p : Leads(c, P({}, Calm), p, Q) => Leads(c, P({}, Calm), edit(p), Q)
  BY <1>1, <1>2, <1>3, EditLeads
<1>12. Leads(c, P({}, Calm), RunJob("hFloppy"), P({}, Calm)) /\ Leads(c, P({}, Calm), <<>>, P({}, Calm))
  BY <1>1, OtherMoves, LeadsNowhere
<1>13. \A p, q : Leads(c, P({}, Calm), p, Q) /\ Leads(c, P({}, Calm), q, Q)
         => Leads(c, P({}, Calm), Either(p, q), Q) /\ \A V : Leads(c, P({}, Calm), If(V, p, q), Q)
  BY <1>1, HookedChoice
<1> HIDE DEF P, Q
<1>8. Leads(c, P({}, Calm), save, Q)
  BY <1>2, <1>4, LeadsWithin
<1>9. Leads(c, P({}, Calm), create_image \o If({"ok"}, Either(save, <<>>), <<>>), Q)
  BY <1>5, <1>6, LeadsOn
<1>10. Leads(c, P({}, Calm), set, Q)
  <2>1. Leads(c, P({}, Calm), <<>>, Q)
    BY <1>2, <1>12, LeadsWithin
  <2>2. Leads(c, P({}, Calm), If({"ok"}, Either(save, <<>>), <<>>), Q)
    BY <1>8, <1>13, <2>1
  <2>3. Leads(c, P({}, Calm), RunJob("hFloppy") \o If({"ok"}, Either(save, <<>>), <<>>), Q)
    BY <1>12, <2>2, LeadsOn
  <2> QED
    BY <1>7, <1>8, <1>13, <2>3 DEF set
<1>11. Leads(c, P({}, Calm), set_hdd, Q)
  BY <1>7, <1>9 DEF set_hdd
<1> QED
  BY <1>10, <1>11 DEF P, Q

-----------------------------------------------------------------------------
(* The callback of the server, and of shutdown: it may be left.            *)
Server == {<<"server", "NULL">>}

(* shutdown and the commands of networks. *)
LEMMA ServerStays ==
  ASSUME NEW c
  PROVE  \A p \in {shutdown, vnetwork, priv_network} : Stays(c, Session, Server, Buffers, p)
<1> DEFINE S(p) == Stays(c, Session, Server, Buffers, p)
<1>1. /\ Session \in CommandHook /\ Calls(c, Server, Buffers) /\ Ends(<<>>, Session) = {}
      /\ "server" \in Fn /\ "NULL" \in Buf /\ <<"server", "NULL">> \in Server
  BY CancelledIs DEF Calls, Server, Buffers, Fn, Buf
<1>2. ASSUME NEW j \in {"hJob", "hList", "hAdd"} PROVE S(Start(j)) /\ S(Free(j)) /\ S(Wait(j)) /\ S(RunJob(j))
  <2>1. j \in Job
    BY DEF Job
  <2> QED
    BY <1>1, <2>1, JobStays
<1>3. \A p, q : S(p) /\ S(q) => S(p \o q) /\ S(Either(p, q)) /\ \A V : S(If(V, p, q))
  BY <1>1, StaysOn, StaysIf, StaysEither
<1>4. S(<<>>)
  BY StaysNowhere
<1>5. S(Reg("server", "NULL")) /\ S(Unreg("server", "NULL"))
  BY <1>1, CallbackStays
<1> HIDE DEF S
<1>6. S(shutdown)
  BY <1>2, <1>3, <1>4, <1>5 DEF shutdown
<1>7. S(ChangeNetwork)
  BY <1>2, <1>3, <1>4, <1>5 DEF ChangeNetwork
<1>8. \A p : S(p) => S(FindNetwork(p))
  BY <1>2, <1>3, <1>4 DEF FindNetwork
<1>9. S(vnetwork)
  BY <1>2, <1>3, <1>4, <1>5, <1>7, <1>8 DEF vnetwork
<1>10. S(priv_network)
  BY <1>2, <1>3, <1>4, <1>5, <1>7, <1>8 DEF priv_network
<1> QED
  BY <1>6, <1>9, <1>10 DEF S

(* start and monitor take away the callbacks they register. *)
LEMMA StartLeads ==
  ASSUME NEW c
  PROVE  Stays(c, Session, {}, Buffers, start) /\ Stays(c, Session, {}, Buffers, monitor_events)
<1> DEFINE P(r) == Rest(c, Session, r, Buffers)
           R == {<<"start", "NULL">>}
           M == {<<"monitor", "this">>}
<1>1. /\ Session \in CommandHook /\ Ends(<<>>, Session) = {} /\ "free" \in Phase \ {"dead"}
      /\ {"start", "monitor"} \subseteq Fn /\ {"NULL", "this"} \subseteq Buf /\ {"NULL", "this"} \subseteq Buffers /\ "hJob" \in Job
  BY CancelledIs DEF Buffers, Fn, Buf, Phase, Job
<1>2. Calls(c, {}, Buffers) /\ Calls(c, R, Buffers)
  BY <1>1 DEF Calls
<1>3. Leads(c, P({}), Reg("start", "NULL"), P(R)) /\ Leads(c, P(R), Unreg("start", "NULL"), P({}))
  BY <1>1, DataMoves DEF Rest
<1>4. Leads(c, P({}), Reg("monitor", "this"), P(M)) /\ Leads(c, P(M), Unreg("monitor", "this"), P({}))
  BY <1>1, DataMoves DEF Rest
<1>5. /\ Leads(c, P(R), Start("hJob"), P(R)) /\ Leads(c, P(R), Wait("hJob"), P(R))
      /\ Leads(c, P({}), Free("hJob"), P({}))
  BY <1>1, <1>2, JobStays DEF Stays
<1> HIDE DEF P, R, M
<1>6. Leads(c, P({}), start, P({}))
  BY <1>3, <1>5, LeadsOn DEF start
<1>7. Leads(c, P({}), monitor_events, P({}))
  BY <1>4, LeadsOn DEF monitor_events
<1> QED
  BY <1>6, <1>7 DEF P, Stays

(* What copy_ct_template leaves: its hook, if it returns early.            *)
LEMMA TemplateLeads ==
  ASSUME NEW c
  PROVE  Leads(c, Hooked(c, "hJob", "free", {}, Buffers, Calm), copy_ct_template,
                  Hooked(c, "hJob", "free", {}, Buffers, Told) \cup Hooked(c, "hJob", "kept", {}, Buffers, Told))
<1> DEFINE P(k, w) == Hooked(c, "hJob", k, {}, Buffers, w)
           Q == P("free", Told) \cup P("kept", Told)
           end == Unhook \o Free("hJob")
<1>1. "hJob" \in Job /\ Calls(c, {}, Buffers) /\ "kept" \in Phase /\ "kept" # "dead"
  BY DEF Job, Calls, Phase
<1>2. /\ Leads(c, P("free", Calm), Start("hJob"), P("begun", Calm))
      /\ Leads(c, P("begun", Calm), KeepHook("cancel_job", "hJob"), P("kept", Calm))
      /\ Leads(c, P("kept", Calm), Wait("hJob"), P("kept", Told))
  BY <1>1, JobMoves
<1>3. /\ Leads(c, P("kept", Told), Unhook, P("begun", Told))
      /\ Leads(c, P("begun", Told), Free("hJob"), P("free", Told))
  BY <1>1, JobMoves
<1>4. Leads(c, P("kept", Told), <<>>, P("kept", Told))
  BY LeadsNowhere
<1>5. \A p, q : Leads(c, P("kept", Told), p, Q) /\ Leads(c, P("kept", Told), q, Q)
                  => Leads(c, P("kept", Told), Either(p, q), Q) /\ \A S : Leads(c, P("kept", Told), If(S, p, q), Q)
  BY <1>1, HookedChoice
<1> HIDE DEF P
<1>6. Leads(c, P("kept", Told), <<>>, Q)
  BY <1>4, LeadsWithin
<1>7. Leads(c, P("kept", Told), end, Q)
  <2>1. Leads(c, P("kept", Told), end, P("free", Told))
    BY <1>3, LeadsOn
  <2> QED
    BY <2>1, LeadsWithin
<1>8. copy_ct_template = Start("hJob") \o KeepHook("cancel_job", "hJob") \o Wait("hJob") \o If({"ok"}, end, Either(end, <<>>))
  BY DEF copy_ct_template
<1> HIDE DEF Q, end
<1>9. Leads(c, P("kept", Told), If({"ok"}, end, Either(end, <<>>)), Q)
  BY <1>5, <1>6, <1>7
<1>10. Leads(c, P("free", Calm), copy_ct_template, Q)
  BY <1>2, <1>8, <1>9, LeadsOn
<1> QED
  BY <1>10 DEF P, Q

(* And migrate, whose hook cancels by the handle of the VM.                *)
Migrated(c) == State(c, <<>>, "begun", Migration, {}, Buffers, {"hJob"}, Told) \cup State(c, <<>>, "kept", Migration, {}, Buffers, {"hJob"}, Told)

(* migrate takes the hook away, unless it returns early. *)
LEMMA MigrateLeads ==
  ASSUME NEW c
  PROVE  Leads(c, State(c, <<>>, "begun", Migration, {}, Buffers, {"hJob"}, Calm), migrate, Migrated(c))
<1> DEFINE R == {<<"migrate", "NULL">>}
           P(k, r, w) == State(c, <<>>, k, Migration, r, Buffers, {"hJob"}, w)
           Q == P("begun", {}, Told) \cup P("kept", {}, Told)
           end == Unhook \o Free("hJob")
<1>1. /\ "hJob" \in Job /\ "migrate" \in Fn /\ "NULL" \in Buf /\ "NULL" \in Buffers
      /\ Migration \in CommandHook /\ Migration.data = "hVm" /\ Ends(<<>>, Migration) = {"hJob"} /\ "hJob" # "hVm"
  BY CancelledIs DEF Job, Fn, Buf, Buffers
<1>2. Calls(c, {}, Buffers) /\ Calls(c, R, Buffers)
  BY <1>1 DEF Calls
<1>3. \A k \in {"begun", "kept"}, r \in {{}, R} : Fine(c, <<>>, k, Migration, r, Buffers, {"hJob"})
  <2> SUFFICES ASSUME NEW k \in {"begun", "kept"}, NEW r \in {{}, R} PROVE Fine(c, <<>>, k, Migration, r, Buffers, {"hJob"})
    OBVIOUS
  <2>1. k \in Phase /\ k # "dead" /\ Calls(c, r, Buffers)
    BY <1>2 DEF Phase
  <2> QED
    BY <1>1, <2>1 DEF Fine, Over, Calls
<1>4. {} \cup R = R /\ R \ R = {}
  OBVIOUS
<1>5. Leads(c, P("begun", {}, Calm), Start("hJob"), P("begun", {}, Calm))
  BY <1>1, <1>3, StateStart
<1>6. Leads(c, P("begun", {}, Calm), Reg("migrate", "NULL"), P("begun", R, Calm))
  BY <1>1, <1>3, <1>4, StateData
<1>7. Leads(c, P("begun", R, Calm), KeepHook("migrate_cancel_job", "hVm"), P("kept", R, Calm))
  BY <1>3, StateHook DEF Migration
<1>8. Leads(c, P("kept", R, Calm), Wait("hJob"), P("kept", R, Told))
  BY <1>1, <1>3, StateWait
<1>9. Leads(c, P("kept", R, Told), Unreg("migrate", "NULL"), P("kept", {}, Told))
  BY <1>1, <1>3, <1>4, StateData
<1>10. Leads(c, P("kept", {}, Told), Unhook, P("begun", {}, Told))
  BY <1>3, StateUnhook
<1>11. Leads(c, P("begun", {}, Told), Free("hJob"), P("begun", {}, Told))
  BY <1>1, <1>3, StateFree
<1>12. Leads(c, P("kept", {}, Told), <<>>, P("kept", {}, Told))
  BY LeadsNowhere
<1>13. \A p, q : Leads(c, P("kept", {}, Told), p, Q) /\ Leads(c, P("kept", {}, Told), q, Q)
                   => Leads(c, P("kept", {}, Told), Either(p, q), Q) /\ Leads(c, P("kept", {}, Told), If({"ok"}, p, q), Q)
  BY <1>3, StateIf, StateEither
<1>14. migrate = Start("hJob") \o Reg("migrate", "NULL") \o KeepHook("migrate_cancel_job", "hVm") \o Wait("hJob")
                   \o Unreg("migrate", "NULL") \o If({"ok"}, end, Either(end, <<>>))
  BY DEF migrate
<1> HIDE DEF P, R
<1>15. Leads(c, P("kept", {}, Told), <<>>, Q)
  BY <1>12, LeadsWithin
<1>16. Leads(c, P("kept", {}, Told), end, Q)
  <2>1. Leads(c, P("kept", {}, Told), end, P("begun", {}, Told))
    BY <1>10, <1>11, LeadsOn
  <2> QED
    BY <2>1, LeadsWithin
<1> HIDE DEF Q, end
<1>17. Leads(c, P("kept", {}, Told), If({"ok"}, end, Either(end, <<>>)), Q)
  BY <1>13, <1>15, <1>16
<1>18. Leads(c, P("begun", {}, Calm), migrate, Q)
  BY <1>5, <1>6, <1>7, <1>8, <1>9, <1>14, <1>17, LeadsOn
<1> QED
  BY <1>18 DEF P, Q, Migrated

(* The backup tree: after an error its hook stays, with a freed handle.    *)
LEMMA TreeLeads ==
  ASSUME NEW c \in LeavesDeadHook, NEW m, "hTree" \in m
  PROVE  Leads(c, State(c, <<>>, "free", Cancel("hTree"), {}, Buffers, m, Calm), do_get_backup_tree,
                  State(c, <<>>, "free", Cancel("hTree"), {}, Buffers, m, Told) \cup State(c, <<>>, "dead", Cancel("hTree"), {}, Buffers, m, Told))
<1> DEFINE x == Cancel("hTree")
           P(k, w) == State(c, <<>>, k, x, {}, Buffers, m, w)
<1>1. /\ "hTree" \in Job /\ Calls(c, {}, Buffers) /\ x \in CommandHook /\ x.data = "hTree"
      /\ Ends(<<>>, x) \subseteq m
  BY CancelledIs DEF Job, Calls
<1>2. \A k \in {"free", "begun", "kept"} : Fine(c, <<>>, k, x, {}, Buffers, m)
  BY <1>1 DEF Fine, Over, Calls, Phase
<1>3. x = [fn |-> "cancel_job", data |-> "hTree"] /\ "hTree" # "hVm"
  BY DEF Cancel
<1> HIDE DEF x
<1>4. Leads(c, P("free", Calm), Start("hTree"), P("begun", Calm))
  BY <1>1, <1>2, StateStart
<1>5. Leads(c, P("begun", Calm), KeepHook("cancel_job", "hTree"), P("kept", Calm))
  BY <1>2, <1>3, StateHook
<1>6. Leads(c, P("kept", Calm), Wait("hTree"), P("kept", Told))
  BY <1>1, <1>2, StateWait
<1>7. Leads(c, P("kept", Told), Unhook, P("begun", Told))
  BY <1>2, StateUnhook
<1>8. /\ Leads(c, P("begun", Told), Free("hTree"), P("free", Told))
      /\ Leads(c, P("kept", Told), Free("hTree"), P("dead", Told))
  BY <1>2, <1>3, StateFree
<1>9. Leads(c, P("kept", Told), <<>>, P("kept", Told))
  BY LeadsNowhere
<1>10. \A p, q, Q : Leads(c, P("kept", Told), p, Q) /\ Leads(c, P("kept", Told), q, Q) => Leads(c, P("kept", Told), If({"ok"}, p, q), Q)
  BY <1>2, StateIf
<1> HIDE DEF P
<1> DEFINE Q == P("begun", Told) \cup P("kept", Told)
           Z == P("free", Told) \cup P("dead", Told)
<1>11. Leads(c, P("kept", Told), Unhook, Q) /\ Leads(c, P("kept", Told), <<>>, Q)
  BY <1>7, <1>9, LeadsWithin
<1>12. Leads(c, Q, Free("hTree"), Z)
  BY <1>8, LeadsEither
<1> HIDE DEF Q, Z
<1>13. Leads(c, P("kept", Told), If({"ok"}, Unhook, <<>>), Q)
  BY <1>10, <1>11
<1>14. Leads(c, P("free", Calm), do_get_backup_tree, Z)
  BY <1>4, <1>5, <1>6, <1>12, <1>13, LeadsOn DEF do_get_backup_tree
<1> QED
  BY <1>14 DEF P, Z, x

(* What is left of the tree, of a command that asks for it first. *)
TreeLeft(c, r) == Hooked(c, "hTree", "free", r, Buffers, Told) \cup Hooked(c, "hTree", "dead", r, Buffers, Told)

(* The tree, from where such a command begins. *)
LEMMA HookedTree ==
  ASSUME NEW c \in LeavesDeadHook
  PROVE  Leads(c, Hooked(c, "hTree", "free", {}, Buffers, Calm), do_get_backup_tree, TreeLeft(c, {}))
<1>1. "hTree" \in Ends(<<>>, Cancel("hTree"))
  <2>1. "hTree" \in Job
    BY DEF Job
  <2> QED
    BY <2>1, CancelledIs
<1> QED
  BY <1>1, TreeLeads DEF Hooked, TreeLeft

(* backup-list prints what the tree and the jobs after it told. *)
LEMMA BackupListLeads ==
  ASSUME NEW c \in LeavesDeadHook
  PROVE  Leads(c, Hooked(c, "hTree", "free", {}, Buffers, Calm), backup_list, TreeLeft(c, {}))
<1> DEFINE P(k, w) == Hooked(c, "hTree", k, {}, Buffers, w)
           Q       == TreeLeft(c, {})
           print   == Either(RunJob("hList") \o Either(RunJob("hConfig"), <<>>), <<>>)
           tree    == do_get_backup_tree \o If({"ok"}, Either(print, <<>>), <<>>)
<1>1. /\ "hTree" \in Job \ {"hConfig"} /\ {"hList", "hConfig"} \subseteq Job \ {"hTree"} /\ Calls(c, {}, Buffers)
      /\ {"free", "dead"} \subseteq Phase
  BY DEF Job, Calls, Phase
<1>2. Q = P("free", Told) \cup P("dead", Told)
  BY DEF TreeLeft
<1>3. ASSUME NEW k \in {"free", "dead"} PROVE Leads(c, P(k, Told), If({"ok"}, Either(print, <<>>), <<>>), P(k, Told))
  <2>1. Leads(c, P(k, Calm), RunJob("hList"), P(k, Calm)) /\ Leads(c, P(k, Calm), RunJob("hConfig"), P(k, Calm))
    BY <1>1, OtherMoves
  <2>2. Leads(c, P(k, Calm), <<>>, P(k, Calm)) /\ Leads(c, P(k, Told), <<>>, P(k, Told))
    BY LeadsNowhere
  <2>3. \A p, q, Z : Leads(c, P(k, Calm), p, Z) /\ Leads(c, P(k, Calm), q, Z) => Leads(c, P(k, Calm), Either(p, q), Z)
    BY <1>1, HookedChoice
  <2>4. \A p, q, Z : Leads(c, P(k, Calm), p, Z) /\ Leads(c, P(k, Told), q, Z) => Leads(c, P(k, Told), If({"ok"}, p, q), Z)
    BY <1>1, HookedChoice
  <2>5. P(k, Calm) \subseteq P(k, Told)
    BY <1>1, HookedWithin
  <2> HIDE DEF P
  <2>6. Leads(c, P(k, Calm), Either(print, <<>>), P(k, Calm))
    BY <2>1, <2>2, <2>3, LeadsOn
  <2> HIDE DEF print
  <2>7. Leads(c, P(k, Calm), Either(print, <<>>), P(k, Told))
    BY <2>5, <2>6, LeadsWithin
  <2> QED
    BY <2>2, <2>4, <2>7
<1>4. Leads(c, P("free", Calm), do_get_backup_tree, Q)
  BY HookedTree
<1>5. P("free", Calm) \subseteq Q
  BY <1>1, <1>2, HookedWithin
<1>6. \A p, q : Leads(c, P("free", Calm), p, Q) /\ Leads(c, P("free", Calm), q, Q)
                  => Leads(c, P("free", Calm), Either(p, q), Q) /\ Leads(c, P("free", Calm), FindVm(p, q), Q)
  <2>1. \A p, q : Leads(c, P("free", Calm), p, Q) /\ Leads(c, P("free", Calm), q, Q) => Leads(c, P("free", Calm), Either(p, q), Q)
    BY <1>1, HookedChoice
  <2>2. \A p, q : Leads(c, P("free", Calm), p, Q) /\ Leads(c, P("free", Calm), q, Q) => Leads(c, P("free", Calm), FindVm(p, q), Q)
    BY <1>1, <1>5, HookedFind
  <2> QED
    BY <2>1, <2>2
<1> HIDE DEF P, Q, print
<1>7. Leads(c, Q, If({"ok"}, Either(print, <<>>), <<>>), Q)
  BY <1>2, <1>3, LeadsEither
<1>8. Leads(c, P("free", Calm), tree, Q)
  BY <1>4, <1>7, LeadsOn
<1>9. backup_list = Either(tree, FindVm(tree, tree))
  BY DEF backup_list, print
<1> HIDE DEF tree
<1>10. Leads(c, P("free", Calm), backup_list, Q)
  BY <1>6, <1>8, <1>9
<1> QED
  BY <1>10 DEF P, Q

(* set of a backup: as set, and the hook of the tree may be left as well. *)
LEMMA SetBackupLeads ==
  ASSUME NEW c \in LeavesDeadCallback, c \in LeavesDeadHook
  PROVE  Leads(c, Hooked(c, "hTree", "free", {}, Buffers, Calm), set_backup, TreeLeft(c, Commits))
<1> DEFINE P(k, r, w) == Hooked(c, "hTree", k, r, Buffers, w)
           Q == TreeLeft(c, Commits)
           p == do_get_backup_tree \o If({"ok"}, Either(save, <<>>), <<>>)
<1>1. /\ "hTree" \in Job /\ "hEdit" \in Job \ {"hTree"} /\ Calls(c, {}, Buffers) /\ Calls(c, Commits, Buffers)
      /\ {} \subseteq Commits /\ {"free", "dead"} \subseteq Phase
  BY DEF Job, Calls, Phase, Commits, Fn, Buf
<1>2. /\ Q = P("free", Commits, Told) \cup P("dead", Commits, Told)
      /\ TreeLeft(c, {}) = P("free", {}, Told) \cup P("dead", {}, Told)
  BY DEF TreeLeft
<1>3. P("free", {}, Calm) \subseteq Q
  BY <1>1, <1>2, HookedWithin
<1>4. \A k \in {"free", "dead"} : Leads(c, P(k, Commits, Told), Free("hEdit"), P(k, Commits, Told))
  BY <1>1, OtherMoves
<1>5. \A k \in {"free", "dead"} : Leads(c, P(k, {}, Told), If({"ok"}, Either(save, <<>>), <<>>), P(k, Commits, Told))
  BY ThenSave
<1>6. Leads(c, P("free", {}, Calm), do_get_backup_tree, TreeLeft(c, {}))
  BY HookedTree
<1>7. Leads(c, Q, Free("hEdit"), Q) /\ Leads(c, P("free", {}, Calm), p, Q) => Leads(c, P("free", {}, Calm), edit(p), Q)
  BY <1>1, <1>3, EditLeads
<1> HIDE DEF P, Q
<1>8. Leads(c, Q, Free("hEdit"), Q)
  BY <1>2, <1>4, LeadsEither
<1>9. Leads(c, TreeLeft(c, {}), If({"ok"}, Either(save, <<>>), <<>>), Q)
  BY <1>2, <1>5, LeadsEither
<1>10. Leads(c, P("free", {}, Calm), p, Q)
  BY <1>6, <1>9, LeadsOn
<1>11. Leads(c, P("free", {}, Calm), set_backup, Q)
  BY <1>7, <1>8, <1>10 DEF set_backup
<1> QED
  BY <1>11 DEF P, Q

(* restore and backup-delete: the job itself, over what is left of another. *)
Backups == {<<"backup", "vm_id">>}

(* The job of a backup, with its callback that stays registered. *)
LEMMA BackupJobLeads ==
  ASSUME NEW c \in LeavesDeadCallback, NEW g, NEW j \in Job, NEW m, Ends(g, Cancel(j)) \subseteq m,
         Over(c, g, Cancel(j)), NEW w,
         w = Calm \/ (c = "restore" /\ j = "hRestore")
  PROVE  Leads(c, State(c, g, "free", Cancel(j), {}, Buffers, m, w), BackupJob(j), State(c, g, "free", Cancel(j), Backups, Buffers, m, Any))
<1> DEFINE x == Cancel(j)
           P(k, r, v) == State(c, g, k, x, r, Buffers, m, v)
<1>1. /\ x \in CommandHook /\ x.data = j /\ CancelledBy(x) = {j} /\ "backup" \in Fn
      /\ {"NULL", "vm_id"} \subseteq Buf
  BY CancelledIs DEF Fn, Buf
<1>2. \A k \in {"free", "begun", "kept"}, r \in {{}, Backups} : Fine(c, g, k, x, r, Buffers, m)
  BY <1>1 DEF Fine, Phase, Backups
<1>3. x = [fn |-> "cancel_job", data |-> j]
  BY DEF Cancel
<1>4. {} \cup {<<"backup", "vm_id">>} = Backups /\ Backups \ {<<"backup", "NULL">>} \subseteq Backups
  BY DEF Backups
<1> HIDE DEF x
<1>5. Leads(c, P("free", {}, w), Start(j), P("begun", {}, w))
  <2>1. w \subseteq Calm \/ j = "hLogout" \/ (c = "restore" /\ j = "hRestore")
    OBVIOUS
  <2> QED
    BY <1>1, <1>2, <2>1, StateStart
<1>6. Leads(c, P("begun", {}, w), Reg("backup", "vm_id"), P("begun", Backups, w))
  BY <1>1, <1>2, <1>4, StateData
<1>7. Leads(c, P("begun", Backups, w), KeepHook("cancel_job", j), P("kept", Backups, w))
  BY <1>2, <1>3, StateHook
<1>8. Leads(c, P("kept", Backups, w), Wait(j), P("kept", Backups, Any))
  BY <1>2, StateWait
<1>9. Leads(c, P("kept", Backups, Any), CancelLate(j), P("kept", Backups, Any))
  BY <1>1, <1>2, StateLate
<1>10. Leads(c, P("kept", Backups, Any), Unreg("backup", "NULL"), P("kept", Backups, Any))
  <2>1. Leads(c, P("kept", Backups, Any), Unreg("backup", "NULL"), P("kept", Backups \ {<<"backup", "NULL">>}, Any))
    BY <1>1, <1>2, StateData
  <2>2. P("kept", Backups \ {<<"backup", "NULL">>}, Any) \subseteq P("kept", Backups, Any)
    BY <1>4, StateWithin
  <2> HIDE DEF P
  <2> QED
    BY <2>1, <2>2, LeadsWithin
<1>11. Leads(c, P("kept", Backups, Any), Unhook, P("begun", Backups, Any))
  BY <1>2, StateUnhook
<1>12. P("begun", Backups, Any) \subseteq P("free", Backups, Any)
  BY <1>1, PhaseWithin
<1> HIDE DEF P
<1>13. Leads(c, P("free", {}, w), BackupJob(j), P("begun", Backups, Any))
  BY <1>5, <1>6, <1>7, <1>8, <1>9, <1>10, <1>11, LeadsOn DEF BackupJob
<1>14. Leads(c, P("free", {}, w), BackupJob(j), P("free", Backups, Any))
  BY <1>12, <1>13, LeadsWithin
<1> QED
  BY <1>14 DEF P, x

(* restore and backup-delete: of a VM, or of a backup.                     *)
LEMMA BufferHere ==
  ASSUME NEW c, NEW g, NEW x, NEW r, NEW m, NEW w, Fine(c, g, "free", x, r, Buffers, m)
  PROVE  /\ Leads(c, State(c, g, "free", x, r, Buffers, m, w), Buffer("vm_id"), State(c, g, "free", x, r, Buffers, m, w))
         /\ Leads(c, State(c, g, "free", x, r, Buffers, m, w), Drop("vm_id"), State(c, g, "free", x, r, Buffers, m, w))
<1> DEFINE P(b) == State(c, g, "free", x, r, b, m, w)
<1>1. "vm_id" \in Buf /\ "start" \in Fn
  BY DEF Buf, Fn
<1>2. /\ Leads(c, P(Buffers), Buffer("vm_id"), P(Buffers \cup {"vm_id"}))
      /\ Leads(c, P(Buffers), Drop("vm_id"), P(Buffers \ {"vm_id"}))
  BY <1>1, StateData
<1>3. P(Buffers \cup {"vm_id"}) \subseteq P(Buffers)
  BY StateWithin
<1>4. Buffers \ {"vm_id"} = Buffers
  BY DEF Buffers
<1> HIDE DEF P
<1>5. /\ Leads(c, P(Buffers), Buffer("vm_id"), P(Buffers))
      /\ Leads(c, P(Buffers), Drop("vm_id"), P(Buffers))
  BY <1>2, <1>3, <1>4, LeadsWithin
<1> QED
  BY <1>5 DEF P

(* backup-delete leaves that callback. *)
LEMMA BackupDeleteLeads ==
  ASSUME NEW c \in LeavesDeadCallback
  PROVE  Leads(c, State(c, <<>>, "free", Cancel("hRemove"), {}, Buffers, {"hRemove"}, Calm), backup_delete,
                  State(c, <<>>, "free", Cancel("hRemove"), Backups, Buffers, {"hRemove"}, Any))
<1> DEFINE x == Cancel("hRemove")
           P(r, w) == State(c, <<>>, "free", x, r, Buffers, {"hRemove"}, w)
<1>1. /\ "hRemove" \in Job /\ "hConfig" \in Job /\ "hConfig" \notin {"hRemove"} /\ "hConfig" # "hRemove"
      /\ x \in CommandHook /\ x.data = "hRemove" /\ Ends(<<>>, x) = {"hRemove"} /\ Over(c, <<>>, x)
  BY CancelledIs DEF Job, Over
<1>2. /\ Fine(c, <<>>, "free", x, {}, Buffers, {"hRemove"})
      /\ Fine(c, <<>>, "free", x, Backups, Buffers, {"hRemove"})
  BY <1>1 DEF Fine, Phase, Backups, Fn, Buf
<1>3. /\ Leads(c, P({}, Calm), Buffer("vm_id"), P({}, Calm))
      /\ Leads(c, P(Backups, Any), Drop("vm_id"), P(Backups, Any))
  BY <1>2, BufferHere
<1>4. Leads(c, P({}, Calm), BackupJob("hRemove"), P(Backups, Any))
  BY <1>1, BackupJobLeads
<1>6. P({}, Calm) \subseteq P(Backups, Any)
  <2>1. {} \subseteq Backups /\ Calm \subseteq Any
    BY DEF Calm, Any
  <2> QED
    BY <2>1, StateWithin
<1>7. \A p, q : Leads(c, P({}, Calm), p, P(Backups, Any)) /\ Leads(c, P({}, Calm), q, P(Backups, Any))
                  => Leads(c, P({}, Calm), Either(p, q), P(Backups, Any))
  BY <1>2, StateEither
<1>9. Leads(c, P({}, Calm), FindVm(BackupJob("hRemove"), BackupJob("hRemove")), P(Backups, Any))
  BY <1>1, <1>2, <1>4, <1>6, FindLeads
<1> HIDE DEF P, x
<1>10. Leads(c, P({}, Calm), Either(FindVm(BackupJob("hRemove"), BackupJob("hRemove")), BackupJob("hRemove")), P(Backups, Any))
  BY <1>4, <1>7, <1>9
<1>11. Leads(c, P({}, Calm), backup_delete, P(Backups, Any))
  BY <1>3, <1>10, LeadsOn DEF backup_delete
<1> QED
  BY <1>11 DEF P, x

(* restore may go on over the hook of the backup tree.                     *)
RestoreStops == {"hTree", "hRestore"}
Restored(c) ==
  UNION {State(c, g, "free", Cancel("hRestore"), Backups, Buffers, RestoreStops, Any) : g \in {<<>>, <<Cancel("hTree")>>}}

(* restore: the tree first, and then the job, over the hook that the tree  *)
(* may have left.                                                          *)
LEMMA RestoreLeads ==
  ASSUME NEW c, c = "restore"
  PROVE  Leads(c, State(c, <<>>, "free", Cancel("hRestore"), {}, Buffers, RestoreStops, Calm), restore, Restored(c))
<1> DEFINE x == Cancel("hRestore")
           y == Cancel("hTree")
           P(g, r, w) == State(c, g, "free", x, r, Buffers, RestoreStops, w)
           Q == P(<<>>, Backups, Any) \cup P(<<y>>, Backups, Any)
<1>1. /\ {"hRestore", "hTree", "hConfig"} \subseteq Job /\ "hConfig" \notin RestoreStops
      /\ x \in CommandHook /\ y \in CommandHook /\ x # y /\ x.data = "hRestore" /\ y.data = "hTree"
      /\ CancelledBy(x) = {"hRestore"} /\ CancelledBy(y) = {"hTree"} /\ Ends(<<>>, x) = {"hRestore"}
      /\ c \in LeavesDeadHook /\ c \in LeavesDeadCallback /\ "hTree" \in RestoreStops
  BY CancelledIs DEF Job, RestoreStops, LeavesDeadHook, LeavesDeadCallback
<1>2. Cancellable(<<y>>) = {"hTree"}
  <2>1. Len(<<y>>) = 1 /\ <<y>>[1] = y
    OBVIOUS
  <2> QED
    BY <1>1, <2>1 DEF Cancellable
<1>3. \A g \in {<<>>, <<y>>} : Over(c, g, x) /\ Ends(g, x) \subseteq RestoreStops
  BY <1>1, <1>2 DEF Over, Ends, RestoreStops
<1> HIDE DEF x, y
<1>4. \A g \in {<<>>, <<y>>}, r \in {{}, Backups} : Fine(c, g, "free", x, r, Buffers, RestoreStops)
  BY <1>1, <1>3 DEF Fine, Phase, Backups, Fn, Buf
<1>5. \A g \in {<<>>, <<y>>}, r \in {{}, Backups}, w \in {Calm, Told, Any} :
        Leads(c, P(g, r, w), Buffer("vm_id"), P(g, r, w)) /\ Leads(c, P(g, r, w), Drop("vm_id"), P(g, r, w))
  BY <1>4, BufferHere
<1>6. \A g \in {<<>>, <<y>>}, w \in {Calm, Told} : Leads(c, P(g, {}, w), BackupJob("hRestore"), P(g, Backups, Any))
  BY <1>1, <1>3, BackupJobLeads DEF x
<1>7. P(<<>>, {}, Calm) \subseteq P(<<>>, Backups, Any)
  <2>1. {} \subseteq Backups /\ Calm \subseteq Any
    BY DEF Calm, Any
  <2> QED
    BY <2>1, StateWithin
<1>8. \A Z : P(<<>>, {}, Calm) \subseteq Z /\ Leads(c, P(<<>>, {}, Calm), BackupJob("hRestore"), Z)
              => Leads(c, P(<<>>, {}, Calm), FindVm(BackupJob("hRestore"), BackupJob("hRestore")), Z)
  BY <1>1, <1>4, FindLeads
<1>9. Leads(c, P(<<>>, {}, Calm), do_get_backup_tree, P(<<>>, {}, Told) \cup P(<<y>>, {}, Told))
  <2>1. /\ State(c, <<>>, "free", y, {}, Buffers, RestoreStops, Calm) = P(<<>>, {}, Calm)
        /\ State(c, <<>>, "free", y, {}, Buffers, RestoreStops, Told) = P(<<>>, {}, Told)
    BY DEF State, Hooks, Owned, Valid
  <2>2. State(c, <<>>, "dead", y, {}, Buffers, RestoreStops, Told) = P(<<y>>, {}, Told)
    <3>1. Append(<<>>, y) = <<y>>
      OBVIOUS
    <3> QED
      BY <3>1 DEF State, Hooks, Owned, Valid
  <2> QED
    BY <1>1, <2>1, <2>2, TreeLeads DEF y
<1>10. \A p, q : Leads(c, P(<<>>, {}, Calm), p, Q) /\ Leads(c, P(<<>>, {}, Calm), q, Q)
                   => Leads(c, P(<<>>, {}, Calm), Either(p, q), Q)
  BY <1>4, StateEither
<1> HIDE DEF P
<1>11. Leads(c, P(<<>>, {}, Calm), BackupJob("hRestore"), Q) /\ P(<<>>, {}, Calm) \subseteq Q
  BY <1>6, <1>7, LeadsWithin
<1>12. Leads(c, P(<<>>, {}, Told) \cup P(<<y>>, {}, Told), BackupJob("hRestore"), Q)
  BY <1>6, LeadsEither
<1>13. Leads(c, Q, Drop("vm_id"), Q)
  BY <1>5, LeadsEither
<1>14. Leads(c, P(<<>>, {}, Calm), Buffer("vm_id"), P(<<>>, {}, Calm))
  BY <1>5
<1> HIDE DEF Q
<1>15. Leads(c, P(<<>>, {}, Calm), FindVm(BackupJob("hRestore"), BackupJob("hRestore")), Q)
  BY <1>8, <1>11
<1>16. Leads(c, P(<<>>, {}, Calm), do_get_backup_tree \o BackupJob("hRestore"), Q)
  BY <1>9, <1>12, LeadsOn
<1>17. Leads(c, P(<<>>, {}, Calm), restore, Q)
  BY <1>10, <1>13, <1>14, <1>15, <1>16, LeadsOn DEF restore
<1>18. Q = Restored(c)
  BY DEF Q, P, Restored, x, y
<1> QED
  BY <1>17, <1>18 DEF P, x

-----------------------------------------------------------------------------
(* exec: the session's hook is taken away, and the program's is left; or,  *)
(* if the connection fails, the session's.                                 *)
Program == Cancel("hExecJob")

Executed(c, h, o, w) == In(c, h, o, {}, Buffers, {"hVm"}, {"hExecJob"}, w)

Both == Append(<<Session>>, Program)

ExecHooks == {<<>>, <<Session>>, <<Program>>}
Done(c)   == UNION {Executed(c, h, Seq(CommandHook), Any) : h \in ExecHooks}

(* The rules hold with every list of hooks that exec may have. *)
LEMMA ExecSound ==
  ASSUME NEW c \in LeavesDeadHook
  PROVE  /\ \A h \in ExecHooks \cup {Both} : Sound(c, h, {}, Buffers, {"hVm"}, {"hExecJob"})
         /\ Without(Both, 1) = <<Program>>
         /\ Len(Both) = 2 /\ Both[1] = Session
<1>1. /\ Session \in CommandHook /\ Program \in CommandHook /\ Session # Program
      /\ Ends(<<>>, Session) = {} /\ Ends(<<>>, Program) = {"hExecJob"} /\ "hExecJob" \in Job
      /\ CancelledBy(Session) = {} /\ CancelledBy(Program) = {"hExecJob"}
  <2>1. "hExecJob" \in Job
    BY DEF Job
  <2>2. Session # Program
    BY DEF Session, Program, Cancel
  <2> QED
    BY <2>1, <2>2, CancelledIs DEF Program
<1> DEFINE m == {"hExecJob"}
<1> HIDE DEF m
<1>2. Cancellable(<<Session>>) = {}
  <2>1. Len(<<Session>>) = 1 /\ <<Session>>[1] = Session
    OBVIOUS
  <2> QED
    BY <1>1, <2>1 DEF Cancellable
<1>3. /\ Over(c, <<Session>>, Program) /\ Ends(<<Session>>, Program) = {"hExecJob"}
      /\ Over(c, <<>>, Program)
  BY <1>1, <1>2 DEF Over, Ends
<1>4. Append(<<>>, Program) = <<Program>>
  OBVIOUS
<1>5. /\ Fine(c, <<>>, "free", Program, {}, Buffers, m) /\ Fine(c, <<>>, "dead", Program, {}, Buffers, m)
      /\ Fine(c, <<Session>>, "free", Program, {}, Buffers, m) /\ Fine(c, <<Session>>, "dead", Program, {}, Buffers, m)
  BY <1>1, <1>3 DEF Fine, Phase, m
<1>6. /\ Hooks(<<>>, "free", Program) = <<>> /\ Hooks(<<>>, "dead", Program) = <<Program>>
      /\ Hooks(<<Session>>, "free", Program) = <<Session>> /\ Hooks(<<Session>>, "dead", Program) = Both
      /\ Valid("free", Program) = {"hVm"} /\ Valid("dead", Program) = {"hVm"}
  BY <1>4 DEF Hooks, Valid, Both
<1>7. /\ Sound(c, <<>>, {}, Buffers, {"hVm"}, m) /\ Sound(c, <<Program>>, {}, Buffers, {"hVm"}, m)
      /\ Sound(c, <<Session>>, {}, Buffers, {"hVm"}, m) /\ Sound(c, Both, {}, Buffers, {"hVm"}, m)
  <2>1. /\ Sound(c, Hooks(<<>>, "free", Program), {}, Buffers, Valid("free", Program), m)
        /\ Sound(c, Hooks(<<>>, "dead", Program), {}, Buffers, Valid("dead", Program), m)
        /\ Sound(c, Hooks(<<Session>>, "free", Program), {}, Buffers, Valid("free", Program), m)
        /\ Sound(c, Hooks(<<Session>>, "dead", Program), {}, Buffers, Valid("dead", Program), m)
    BY <1>5, StateSound
  <2> QED
    BY <1>6, <2>1
<1>8. Both \in Seq(CommandHook) /\ Len(Both) = 2 /\ Both[1] = Session /\ Both[2] = Program
  <2>1. <<Session>> \in Seq(CommandHook) /\ Len(<<Session>>) = 1 /\ <<Session>>[1] = Session
    BY <1>1
  <2>2. /\ Both \in Seq(CommandHook) /\ Len(Both) = Len(<<Session>>) + 1
        /\ \A i \in 1..Len(<<Session>>) : Both[i] = <<Session>>[i]
        /\ Both[Len(<<Session>>) + 1] = Program
    BY <1>1, <2>1, AppendProperties DEF Both
  <2> QED
    BY <2>1, <2>2
<1>9. Without(Both, 1) = <<Program>>
  <2>1. SubSeq(Both, 1, 0) = <<>>
    BY SubSeqEmpty
  <2>2. /\ SubSeq(Both, 2, 2) \in Seq(CommandHook) /\ Len(SubSeq(Both, 2, 2)) = 1
        /\ SubSeq(Both, 2, 2)[1] = Both[2]
    <3>1. \A i \in 2..2 : Both[i] \in CommandHook
      BY <1>1, <1>8
    <3> QED
      BY <3>1, SubSeqProperties
  <2>3. <<Program>> \in Seq(CommandHook) /\ Len(<<Program>>) = 1 /\ <<Program>>[1] = Program
    BY <1>1
  <2>4. SubSeq(Both, 2, 2) = <<Program>>
    <3> DEFINE u == SubSeq(Both, 2, 2)
               v == <<Program>>
    <3>1. /\ u \in Seq(CommandHook) /\ v \in Seq(CommandHook) /\ Len(u) = 1 /\ Len(v) = 1
          /\ u[1] = Program /\ v[1] = Program
      BY <1>8, <2>2, <2>3
    <3> HIDE DEF u, v
    <3>2. Len(u) = Len(v) /\ \A i \in 1..Len(u) : u[i] = v[i]
      BY <3>1
    <3>3. u = v
      BY <3>1, <3>2, SeqEqual
    <3> QED
      BY <3>3 DEF u, v
  <2>5. <<>> \o <<Program>> = <<Program>>
    BY <2>3, ConcatEmptySeq
  <2>6. Without(Both, 1) = SubSeq(Both, 1, 0) \o SubSeq(Both, 2, 2)
    <3>1. 1 - 1 = 0 /\ 1 + 1 = 2 /\ Len(Both) = 2
      BY <1>8
    <3> QED
      BY <3>1 DEF Without
  <2> QED
    BY <2>1, <2>4, <2>5, <2>6
<1> QED
  BY <1>4, <1>7, <1>8, <1>9 DEF ExecHooks, m

(* The program in the guest: its hook is added over that of the session,   *)
(* and it is the session's that h points to and that is taken away.        *)
LEMMA ProgramLeads ==
  ASSUME NEW c \in LeavesDeadHook, NEW enter \in BOOLEAN, enter => c = "enter"
  PROVE  Leads(c, Executed(c, <<Session>>, {<<Session>>}, Calm), ExecProgram(enter), Executed(c, <<Program>>, {<<Session>>}, Any))
<1> DEFINE P(h, w) == Executed(c, h, {<<Session>>}, w)
           m == {"hExecJob"}
           l == {"hVm"}
<1>1. /\ Sound(c, <<Session>>, {}, Buffers, l, m) /\ Sound(c, Both, {}, Buffers, l, m) /\ Sound(c, <<Program>>, {}, Buffers, l, m)
      /\ Append(<<Session>>, Program) = Both /\ Without(Both, 1) = <<Program>> /\ Len(Both) = 2 /\ Both[1] = Session
  BY ExecSound DEF ExecHooks, Both
<1>2. /\ {"hExecJob", "hLogout"} \subseteq Job /\ Program \in CommandHook /\ CancelledBy(Program) = {"hExecJob"}
      /\ Program = [fn |-> "cancel_job", data |-> "hExecJob"]
  <2>1. {"hExecJob", "hLogout"} \subseteq Job
    BY DEF Job
  <2> QED
    BY <2>1, CancelledIs DEF Program, Cancel
<1>3. /\ l \subseteq l \cup {"hExecJob"} /\ l \subseteq l \cup {"hLogout"}
      /\ l \ {"hExecJob"} = l /\ l \ {"hLogout"} = l /\ m \cup {"hExecJob"} = m
  OBVIOUS
<1>4. Told # Calm /\ Waited("hExecJob", m, Calm) = Told /\ Waited("hLogout", m, Told) = Any
  <2>1. <<"canceled", "yes">> \notin Calm
    BY DEF Calm
  <2>2. Told # Calm
    BY <2>1 DEF Told
  <2> QED
    BY <2>2 DEF Waited
<1> HIDE DEF m, l
<1>5. \A h, w : P(h, w) = In(c, h, {<<Session>>}, {}, Buffers, l, m, w)
  BY DEF Executed, m, l
<1>6. Leads(c, P(<<Session>>, Calm), IF enter THEN Handler("terminal") ELSE <<>>, P(<<Session>>, Calm))
  <2>1. Leads(c, P(<<Session>>, Calm), Handler("terminal"), P(<<Session>>, Calm))
    BY <1>1, <1>5, HandlerIs
  <2>2. Leads(c, P(<<Session>>, Calm), <<>>, P(<<Session>>, Calm))
    BY LeadsNowhere
  <2> QED
    BY <2>1, <2>2
<1>7. Leads(c, P(<<Session>>, Calm), Start("hExecJob"), P(<<Session>>, Calm))
  <2>1. Leads(c, P(<<Session>>, Calm), Start("hExecJob"), In(c, <<Session>>, {<<Session>>}, {}, Buffers, l \cup {"hExecJob"}, m, Calm))
    BY <1>1, <1>2, <1>5, StartIs
  <2>2. In(c, <<Session>>, {<<Session>>}, {}, Buffers, l \cup {"hExecJob"}, m, Calm) \subseteq P(<<Session>>, Calm)
    BY <1>3, <1>5, InWithin
  <2> HIDE DEF P
  <2> QED
    BY <2>1, <2>2, LeadsWithin
<1>8. Leads(c, P(<<Session>>, Calm), AddHook("cancel_job", "hExecJob"), P(Both, Calm))
  <2>1. Leads(c, In(c, <<Session>>, {<<Session>>}, {}, Buffers, l, m, Calm), AddHook("cancel_job", "hExecJob"),
                 In(c, Append(<<Session>>, Program), {<<Session>>}, {}, Buffers, l, m \cup CancelledBy(Program), Calm))
    BY <1>1, <1>2, HookIs
  <2>2. m \cup CancelledBy(Program) = m
    BY <1>2, <1>3
  <2> QED
    BY <1>1, <1>5, <2>1, <2>2
<1>9. Leads(c, P(Both, Calm), Wait("hExecJob"), P(Both, Told))
  BY <1>1, <1>2, <1>4, <1>5, WaitIs
<1>10. Leads(c, P(Both, Told), CancelLate("hExecJob"), P(Both, Told))
  <2>1. Leads(c, In(c, Both, {<<Session>>}, {}, Buffers, l, m, Told), CancelLate("hExecJob"),
                 In(c, Both, {<<Session>>}, {}, Buffers, l, m \cup {"hExecJob"}, Told))
    BY <1>1, <1>2, CancelLateIs
  <2> QED
    BY <1>3, <1>5, <2>1
<1>11. Leads(c, P(Both, Told), Free("hExecJob"), P(Both, Told))
  BY <1>1, <1>3, <1>5, FreeIs
<1>12. Leads(c, P(Both, Told), IF enter THEN Handler("default") ELSE <<>>, P(Both, Told))
  <2>1. CASE enter
    <3>1. Leads(c, P(Both, Told), Handler("default"), P(Both, Told))
      BY <1>1, <1>5, <2>1, HandlerIs
    <3> QED
      BY <2>1, <3>1
  <2>2. CASE ~enter
    BY <2>2, LeadsNowhere
  <2> QED
    BY <2>1, <2>2
<1>13. Leads(c, P(Both, Told), Unhook, P(<<Program>>, Told))
  <2>1. 1 \in 1..Len(Both)
    BY <1>1
  <2>2. Leads(c, In(c, Both, {<<Session>>}, {}, Buffers, l, m, Told), Unhook, In(c, Without(Both, 1), {<<Session>>}, {}, Buffers, l, m, Told))
    BY <1>1, <2>1, UnhookIs
  <2> QED
    BY <1>1, <1>5, <2>2
<1>14. Leads(c, P(<<Program>>, Told), Start("hLogout"), P(<<Program>>, Told))
  <2>1. Leads(c, P(<<Program>>, Told), Start("hLogout"), In(c, <<Program>>, {<<Session>>}, {}, Buffers, l \cup {"hLogout"}, m, Told))
    <3>1. Leads(c, In(c, <<Program>>, {<<Session>>}, {}, Buffers, l, m, Told), Start("hLogout"),
                   In(c, <<Program>>, {<<Session>>}, {}, Buffers, l \cup {"hLogout"}, m, Told))
      BY <1>1, <1>2, StartIs
    <3> QED
      BY <1>5, <3>1
  <2>2. In(c, <<Program>>, {<<Session>>}, {}, Buffers, l \cup {"hLogout"}, m, Told) \subseteq P(<<Program>>, Told)
    BY <1>3, <1>5, InWithin
  <2> HIDE DEF P
  <2> QED
    BY <2>1, <2>2, LeadsWithin
<1>15. Leads(c, P(<<Program>>, Told), Wait("hLogout"), P(<<Program>>, Any))
  BY <1>1, <1>2, <1>4, <1>5, WaitIs
<1>16. Leads(c, P(<<Program>>, Any), Free("hLogout"), P(<<Program>>, Any))
  BY <1>1, <1>3, <1>5, FreeIs
<1> HIDE DEF P
<1>17. Leads(c, P(<<Program>>, Told), RunJob("hLogout"), P(<<Program>>, Any))
  BY <1>14, <1>15, <1>16, LeadsOn DEF RunJob
<1> DEFINE first == IF enter THEN Handler("terminal") ELSE <<>>
           last  == IF enter THEN Handler("default") ELSE <<>>
<1>18. ExecProgram(enter) = first \o Start("hExecJob") \o AddHook("cancel_job", "hExecJob") \o Wait("hExecJob")
                              \o CancelLate("hExecJob") \o Free("hExecJob") \o last \o Unhook \o RunJob("hLogout")
  BY DEF ExecProgram
<1>19. /\ Leads(c, P(<<Session>>, Calm), first, P(<<Session>>, Calm))
       /\ Leads(c, P(Both, Told), last, P(Both, Told))
  BY <1>6, <1>12
<1> HIDE DEF first, last
<1>20. Leads(c, P(<<Session>>, Calm), first \o Start("hExecJob") \o AddHook("cancel_job", "hExecJob") \o Wait("hExecJob"), P(Both, Told))
  BY <1>7, <1>8, <1>9, <1>19, LeadsOn
<1>21. Leads(c, P(<<Session>>, Calm), ExecProgram(enter), P(<<Program>>, Any))
  BY <1>10, <1>11, <1>13, <1>17, <1>18, <1>19, <1>20, LeadsOn
<1> QED
  BY <1>21 DEF P

(* exec and enter as a whole. *)
LEMMA ExecLeads ==
  ASSUME NEW c \in LeavesDeadHook, NEW enter \in BOOLEAN, enter => c = "enter"
  PROVE  Leads(c, State(c, <<>>, "free", Session, {}, Buffers, {"hExecJob"}, Calm), exec(enter), Done(c))
<1> DEFINE P(k) == State(c, <<>>, k, Session, {}, Buffers, {"hExecJob"}, Calm)
           Q == Done(c)
<1>1. /\ Session \in CommandHook /\ Session.data = "hVmGuest" /\ Ends(<<>>, Session) = {}
      /\ {"hLoginJob", "hIoJob"} \subseteq Job /\ "hVmGuest" \in Handle
  BY CancelledIs DEF Job, Handle
<1>2. \A k \in {"free", "begun", "kept"} : Fine(c, <<>>, k, Session, {}, Buffers, {"hExecJob"})
  BY <1>1 DEF Fine, Over, Phase
<1>3. /\ Leads(c, P("free"), Start("hLoginJob"), P("free"))
      /\ Leads(c, P("free"), Wait("hLoginJob"), P("free"))
  BY <1>1, <1>2, StateStart, StateWait
<1>4. Leads(c, P("free"), Obtain("hVmGuest"), P("begun"))
  BY <1>1, <1>2, StateObtain
<1>5. Leads(c, P("begun"), KeepHook("cancel_session", "hVmGuest"), P("kept"))
  BY <1>2, StateHook DEF Session
<1>6. /\ Leads(c, P("kept"), Start("hIoJob"), P("kept"))
      /\ Leads(c, P("kept"), WaitAtMost("hIoJob"), P("kept"))
  BY <1>1, <1>2, StateStart, StateWait
<1>7. \A k \in {"free", "kept"} : \A p, q : Leads(c, P(k), p, Q) /\ Leads(c, P(k), q, Q)
        => Leads(c, P(k), Either(p, q), Q) /\ Leads(c, P(k), If({"ok"}, p, q), Q)
  BY <1>2, StateIf, StateEither
<1>8. \A z : z # "hVm" => Leads(c, Q, Free(z), Q)
  <2> SUFFICES ASSUME NEW z, z # "hVm" PROVE Leads(c, Q, Free(z), Q)
    OBVIOUS
  <2> DEFINE A(h) == Executed(c, h, Seq(CommandHook), Any)
  <2>1. {"hVm"} \ {z} = {"hVm"}
    OBVIOUS
  <2>2. \A h \in ExecHooks : Leads(c, A(h), Free(z), A(h))
    BY <2>1, ExecSound, FreeIs DEF Executed
  <2>3. Q = A(<<>>) \cup A(<<Session>>) \cup A(<<Program>>)
    BY DEF Done, ExecHooks
  <2> HIDE DEF A, Q
  <2>4. /\ Leads(c, A(<<>>), Free(z), A(<<>>))
        /\ Leads(c, A(<<Session>>), Free(z), A(<<Session>>))
        /\ Leads(c, A(<<Program>>), Free(z), A(<<Program>>))
    BY <2>2 DEF ExecHooks
  <2>5. Leads(c, A(<<>>) \cup A(<<Session>>), Free(z), A(<<>>) \cup A(<<Session>>))
    BY <2>4, LeadsEither
  <2> QED
    BY <2>3, <2>4, <2>5, LeadsEither
<1>9. /\ Calm \subseteq Any /\ {<<Session>>} \subseteq Seq(CommandHook)
      /\ <<Session>> \in ExecHooks /\ <<Program>> \in ExecHooks /\ <<>> \in ExecHooks
  BY <1>1 DEF Calm, Any, ExecHooks
<1>10. P("kept") \subseteq Executed(c, <<Session>>, {<<Session>>}, Calm)
  <2>1. Append(<<>>, Session) = <<Session>>
    OBVIOUS
  <2>2. /\ Hooks(<<>>, "kept", Session) = <<Session>> /\ Owned("kept", Session) = {<<Session>>}
        /\ {"hVm"} \subseteq Valid("kept", Session)
    BY <2>1 DEF Hooks, Owned, Valid
  <2> QED
    BY <2>2, InWithin DEF State, Executed
<1>11. /\ Executed(c, <<Session>>, {<<Session>>}, Calm) \subseteq Q
       /\ Executed(c, <<Program>>, {<<Session>>}, Any) \subseteq Q
  <2>1. Executed(c, <<Session>>, {<<Session>>}, Calm) \subseteq Executed(c, <<Session>>, Seq(CommandHook), Any)
    <3> DEFINE o == {<<Session>>}
    <3>1. o \subseteq Seq(CommandHook)
      BY <1>9
    <3> HIDE DEF o
    <3>2. Executed(c, <<Session>>, o, Calm) \subseteq Executed(c, <<Session>>, Seq(CommandHook), Any)
      BY <1>9, <3>1, InWithin DEF Executed
    <3> QED
      BY <3>2 DEF o
  <2>2. Executed(c, <<Program>>, {<<Session>>}, Any) \subseteq Executed(c, <<Program>>, Seq(CommandHook), Any)
    BY <1>9, InWithin DEF Executed
  <2> QED
    BY <1>9, <2>1, <2>2 DEF Done
<1>12. P("free") \subseteq Q
  <2>1. P("free") \subseteq Executed(c, <<>>, Seq(CommandHook), Any)
    <3>1. /\ Hooks(<<>>, "free", Session) = <<>> /\ Owned("free", Session) = Seq(CommandHook)
          /\ Valid("free", Session) = {"hVm"}
      BY DEF Hooks, Owned, Valid
    <3> QED
      BY <1>9, <3>1, InWithin DEF State, Executed
  <2> QED
    BY <1>9, <2>1 DEF Done
<1>13. \A T : Leads(c, T, <<>>, T)
  BY LeadsNowhere
<1>14. Leads(c, Executed(c, <<Session>>, {<<Session>>}, Calm), ExecProgram(enter), Executed(c, <<Program>>, {<<Session>>}, Any))
  BY ProgramLeads
<1> HIDE DEF P, Q
<1>15. Leads(c, P("kept"), ExecProgram(enter), Q)
  BY <1>10, <1>11, <1>14, LeadsWithin
<1>16. Leads(c, P("kept"), <<>>, Q) /\ Leads(c, P("free"), <<>>, Q)
  <2>1. P("kept") \subseteq Q
    BY <1>10, <1>11
  <2> QED
    BY <1>12, <1>13, <2>1, LeadsWithin
<1>17. Leads(c, P("kept"), If({"ok"}, ExecProgram(enter), <<>>), Q)
  BY <1>7, <1>15, <1>16
<1> DEFINE session == Obtain("hVmGuest") \o KeepHook("cancel_session", "hVmGuest") \o Start("hIoJob") \o WaitAtMost("hIoJob")
                        \o If({"ok"}, ExecProgram(enter), <<>>) \o Free("hIoJob") \o Free("hVmGuest")
<1>18. exec(enter) = Start("hLoginJob") \o Wait("hLoginJob") \o If({"ok"}, Either(session, <<>>), <<>>) \o Free("hLoginJob")
  BY DEF exec
<1>19. /\ Leads(c, Q, Free("hIoJob"), Q) /\ Leads(c, Q, Free("hVmGuest"), Q)
       /\ Leads(c, Q, Free("hLoginJob"), Q)
  BY <1>8
<1>20. Leads(c, P("free"), session, Q)
  BY <1>4, <1>5, <1>6, <1>17, <1>19, LeadsOn
<1> HIDE DEF session
<1>21. Leads(c, P("free"), If({"ok"}, Either(session, <<>>), <<>>), Q)
  BY <1>7, <1>16, <1>20
<1>22. Leads(c, P("free"), exec(enter), Q)
  BY <1>3, <1>18, <1>19, <1>21, LeadsOn
<1> QED
  BY <1>22 DEF P, Q

-----------------------------------------------------------------------------
(* The end of a command, and its beginning.                                *)
LEMMA InEnds ==
  ASSUME NEW c, NEW h, NEW o, NEW r, NEW b, NEW l, NEW m, NEW w, Sound(c, h, r, b, l, m),
         c \in LeavesHook \/ h = <<>>, c \in LeavesCallback \/ r = {}
  PROVE  \A s \in In(c, h, o, r, b, l, m, w) : Obeys(c, <<>>, s)
BY DEF In, Sound, Obeys

(* The same of a hook and its phase. *)
LEMMA StateEnds ==
  ASSUME NEW c, NEW g, NEW k, NEW x, NEW r, NEW b, NEW m, NEW w, Fine(c, g, k, x, r, b, m),
         c \in LeavesHook \/ (g = <<>> /\ k \in {"free", "begun"}), c \in LeavesCallback \/ r = {}
  PROVE  \A s \in State(c, g, k, x, r, b, m, w) : Obeys(c, <<>>, s)
<1>1. Sound(c, Hooks(g, k, x), r, b, Valid(k, x), m)
  BY StateSound
<1>2. c \in LeavesHook \/ Hooks(g, k, x) = <<>>
  BY DEF Hooks
<1> QED
  BY <1>1, <1>2, InEnds DEF State

First == [hooks |-> <<>>, own |-> <<>>, live |-> {"hVm"}, bufs |-> {"NULL", "batch", "this"}, regs |-> {},
          handler |-> "cleanup", may |-> {}, rc |-> "none", cut |-> "no"]

(* The command begins with nothing registered, the VM's handle, and        *)
(* buffers that outlive it. migrate has the handle of its hook from the    *)
(* start.                                                                  *)
LEMMA FirstIs ==
  ASSUME NEW c, NEW x, NEW m
  PROVE  /\ First \in State(c, <<>>, "free", x, {}, Buffers, m, Calm)
         /\ First \in State(c, <<>>, "begun", Migration, {}, Buffers, m, Calm)
<1>1. First \in Sees
  <2>1. <<>> \in Seq(CommandHook)
    BY EmptySeq
  <2> QED
    BY <2>1 DEF First, Sees, Handle, Buf, Result
<1>2. /\ First.hooks = <<>> /\ First.own \in Seq(CommandHook) /\ First.regs = {} /\ First.bufs = Buffers /\ First.live = {"hVm"}
      /\ First.may = {} /\ First.rc = "none" /\ First.cut = "no" /\ First.handler = "cleanup"
  BY <1>1 DEF First, Buffers, Sees
<1>3. <<"none", "no">> \in Calm
  BY DEF Calm, Result
<1>4. Hooks(<<>>, "free", x) = <<>> /\ Owned("free", x) = Seq(CommandHook) /\ Valid("free", x) = {"hVm"}
  BY DEF Hooks, Owned, Valid
<1>5. /\ Hooks(<<>>, "begun", Migration) = <<>> /\ Owned("begun", Migration) = Seq(CommandHook)
      /\ Valid("begun", Migration) = {"hVm"}
  BY CancelledIs DEF Hooks, Owned, Valid
<1> HIDE DEF First
<1>6. First \in State(c, <<>>, "free", x, {}, Buffers, m, Calm)
  BY <1>1, <1>2, <1>3, <1>4 DEF State, In
<1>7. First \in State(c, <<>>, "begun", Migration, {}, Buffers, m, Calm)
  BY <1>1, <1>2, <1>3, <1>5 DEF State, In
<1> QED
  BY <1>6, <1>7

(* A script that leads from there to states it may end in is good.         *)
LEMMA StaysGood ==
  ASSUME NEW c, NEW r, NEW p, Stays(c, Session, r, Buffers, p), Calls(c, r, Buffers),
         c \in LeavesCallback \/ r = {}
  PROVE  Good(c, p, First)
<1> DEFINE P(t) == State(c, <<>>, "free", Session, t, Buffers, Ends(<<>>, Session), Calm)
<1>1. Fine(c, <<>>, "free", Session, r, Buffers, Ends(<<>>, Session))
  BY CancelledIs, FineFrom DEF Phase
<1>2. \A s \in P(r) : Obeys(c, <<>>, s)
  BY <1>1, StateEnds
<1>3. Leads(c, P(r), p, P(r))
  BY DEF Stays, Rest
<1>4. First \in P(r)
  <2>1. First \in P({})
    BY FirstIs
  <2>2. P({}) \subseteq P(r)
    BY StateWithin
  <2> HIDE DEF P
  <2> QED
    BY <2>1, <2>2
<1> HIDE DEF P
<1> QED
  BY <1>2, <1>3, <1>4, LeadsToEnd

(* Where the scripts with one hook of a job may end, ... *)
LEMMA HookedEnds ==
  ASSUME NEW c, NEW j \in Job, NEW k \in Phase, k = "dead" => c \in LeavesDeadHook, NEW r, Calls(c, r,
         Buffers),
         c \in LeavesHook \/ k = "free", c \in LeavesCallback \/ r = {}
  PROVE  \A w : \A s \in Hooked(c, j, k, r, Buffers, w) : Obeys(c, <<>>, s)
<1>1. Fine(c, <<>>, k, Cancel(j), r, Buffers, Ends(<<>>, Cancel(j)))
  BY CancelledIs, FineFrom
<1> QED
  BY <1>1, StateEnds DEF Hooked

(* ... and where they begin. *)
LEMMA HookedGood ==
  ASSUME NEW c, NEW j, NEW p, NEW Q, Leads(c, Hooked(c, j, "free", {}, Buffers, Calm), p, Q),
         \A s \in Q : Obeys(c, <<>>, s)
  PROVE  Good(c, p, First)
<1>1. First \in Hooked(c, j, "free", {}, Buffers, Calm)
  BY FirstIs DEF Hooked
<1> QED
  BY <1>1, LeadsToEnd

(* The commands that leave nothing and need no hook, ... *)
LEMMA QuietGood ==
  ASSUME NEW c \in {"suspend", "mount", "unregister", "snapshot_delete", "capture", "install_tools",
         "update", "internal", "reinstall",
                    "register", "install_license", "restart_shaping", "convert_ct", "ct_templates", "destroy", "user_set", "usb",
                    "status", "list", "start", "monitor"}
  PROVE  Good(c, Script[c], First)
<1>1. Stays(c, Session, {}, Buffers, Script[c])
  <2>1. CASE c \in {"suspend", "mount", "unregister", "snapshot_delete", "capture", "install_tools", "update", "internal", "reinstall",
                    "register", "install_license", "restart_shaping"}
    <3>1. Script[c] = RunJob("hJob")
      BY <2>1 DEF Script, mount, unreg, snapshot_delete, screenshot, install_tools, update,
         internal_cmd, reinstall, register_vm,
                  install_license, restart_shaping
    <3> QED
      BY <3>1, QuietScripts
  <2>2. CASE c \in {"convert_ct", "ct_templates", "destroy", "user_set", "usb", "status", "list"}
    <3>1. Script[c] \in {convertCT, ct_templates, destroy, set_user, usbassign, status_vm, list_vm}
      BY <2>2 DEF Script
    <3> QED
      BY <3>1, QuietScripts
  <2>3. CASE c \in {"start", "monitor"}
    <3>1. Script[c] \in {start, monitor_events}
      BY <2>3 DEF Script
    <3> QED
      BY <3>1, StartLeads
  <2> QED
    BY <2>1, <2>2, <2>3
<1>2. Calls(c, {}, Buffers)
  BY DEF Calls
<1> QED
  BY <1>1, <1>2, StaysGood

(* ... those that leave the callback of the server, ... *)
LEMMA ServerGood ==
  ASSUME NEW c \in {"shutdown", "vnetwork", "privnet"}
  PROVE  Good(c, Script[c], First)
<1>1. Script[c] \in {shutdown, vnetwork, priv_network}
  BY DEF Script
<1>2. Calls(c, Server, Buffers) /\ c \in LeavesCallback
  BY DEF Calls, Server, Buffers, Fn, Buf, LeavesCallback
<1> QED
  BY <1>1, <1>2, ServerStays, StaysGood

(* ... the three kinds of set, ... *)
LEMMA SetGood ==
  ASSUME NEW c \in {"set", "set_hdd", "set_backup"}
  PROVE  Good(c, Script[c], First)
<1>1. c \in LeavesDeadCallback /\ c \in LeavesCallback
  BY DEF LeavesDeadCallback, LeavesCallback
<1>2. Calls(c, Commits, Buffers) /\ {"hImage", "hTree"} \subseteq Job /\ {"free", "dead"} \subseteq Phase
  BY <1>1 DEF Calls, Commits, Fn, Buf, Job, Phase
<1>3. \A j \in {"hImage", "hTree"} : \A s \in Hooked(c, j, "free", Commits, Buffers, Told) : Obeys(c, <<>>, s)
  BY <1>1, <1>2, HookedEnds
<1>4. CASE c \in {"set", "set_hdd"}
  <2>1. Script[c] \in {set, set_hdd}
    BY <1>4 DEF Script
  <2>2. Leads(c, Hooked(c, "hImage", "free", {}, Buffers, Calm), Script[c], Hooked(c, "hImage", "free", Commits, Buffers, Told))
    BY <1>1, <2>1, SetLeads
  <2> QED
    BY <1>3, <2>2, HookedGood
<1>5. CASE c = "set_backup"
  <2>1. Script[c] = set_backup /\ c \in LeavesDeadHook /\ c \in LeavesHook
    BY <1>5 DEF Script, LeavesDeadHook, LeavesHook
  <2>2. \A s \in Hooked(c, "hTree", "dead", Commits, Buffers, Told) : Obeys(c, <<>>, s)
    BY <1>1, <1>2, <2>1, HookedEnds
  <2>3. \A s \in TreeLeft(c, Commits) : Obeys(c, <<>>, s)
    BY <1>3, <2>2 DEF TreeLeft
  <2> QED
    BY <1>1, <2>1, <2>3, SetBackupLeads, HookedGood
<1> QED
  BY <1>4, <1>5

(* ... those that take away each hook they register, ... *)
LEMMA HookedAllGood ==
  ASSUME NEW c \in {"clone", "convert", "problem_report", "node_report", "backup", "backup_node",
         "appliance_install"}
  PROVE  Good(c, Script[c], First)
<1>1. {"hJob", "hBackup"} \subseteq Job /\ "free" \in Phase /\ "free" # "dead" /\ Calls(c, {}, Buffers)
  BY DEF Job, Phase, Calls
<1>2. \A j \in {"hJob", "hBackup"} : \A s \in Hooked(c, j, "free", {}, Buffers, Told) : Obeys(c, <<>>, s)
  BY <1>1, HookedEnds
<1>3. CASE c \in {"clone", "convert", "problem_report", "node_report"}
  <2>1. Script[c] \in {clone, convert_vm, vm_problem_report, srv_problem_report}
    BY <1>3 DEF Script
  <2>2. Leads(c, Hooked(c, "hJob", "free", {}, Buffers, Calm), Script[c], Hooked(c, "hJob", "free", {}, Buffers, Told))
    BY <2>1, CloneLeads, ConvertLeads, ReportsLead
  <2> QED
    BY <1>2, <2>2, HookedGood
<1>4. CASE c \in {"backup", "backup_node"}
  <2>1. Script[c] \in {backup, backup_node(2)}
    BY <1>4 DEF Script
  <2>2. Leads(c, Hooked(c, "hBackup", "free", {}, Buffers, Calm), Script[c], Hooked(c, "hBackup", "free", {}, Buffers, Told))
    BY <2>1, BackupsLead
  <2> QED
    BY <1>2, <2>2, HookedGood
<1>5. CASE c = "appliance_install"
  <2>1. Script[c] = appliance_install
    BY <1>5 DEF Script
  <2>2. Calls(c, {<<"server", "batch">>}, Buffers) /\ c \in LeavesCallback
    BY <1>5 DEF Calls, Buffers, Fn, Buf, LeavesCallback
  <2>3. \A s \in Hooked(c, "hJob", "free", {<<"server", "batch">>}, Buffers, Told) : Obeys(c, <<>>, s)
    BY <1>1, <2>2, HookedEnds
  <2> QED
    BY <2>1, <2>3, ApplianceLeads, HookedGood
<1> QED
  BY <1>3, <1>4, <1>5

(* ... and those that leave the hook of a job. *)
LEMMA LeavingGood ==
  ASSUME NEW c \in {"create", "create_ct", "copy_ct_template", "backup_list"}
  PROVE  Good(c, Script[c], First)
<1>1. /\ {"hJob", "hTree"} \subseteq Job /\ {"free", "dead", "kept"} \subseteq Phase
      /\ Calls(c, {}, Buffers) /\ c \in LeavesHook
  BY DEF Job, Phase, Calls, LeavesHook, LeavesDeadHook
<1>2. \A j \in {"hJob", "hTree"}, k \in {"free", "kept"} : \A s \in Hooked(c, j, k, {}, Buffers, Told) : Obeys(c, <<>>, s)
  BY <1>1, HookedEnds
<1>3. CASE c \in LeavesDeadHook
  <2>1. \A j \in {"hJob", "hTree"} : \A s \in Hooked(c, j, "dead", {}, Buffers, Told) : Obeys(c, <<>>, s)
    BY <1>1, <1>3, HookedEnds
  <2>2. CASE c \in {"create", "create_ct"}
    <3>1. Script[c] \in {create_vm, create_ct}
      BY <2>2 DEF Script
    <3>2. Leads(c, Hooked(c, "hJob", "free", {}, Buffers, Calm), Script[c], Registered(c))
      BY <1>3, <3>1, CreateLeads
    <3>3. \A s \in Registered(c) : Obeys(c, <<>>, s)
      BY <1>2, <2>1 DEF Registered
    <3> QED
      BY <3>2, <3>3, HookedGood
  <2>3. CASE c = "backup_list"
    <3>1. Script[c] = backup_list
      BY <2>3 DEF Script
    <3>2. \A s \in TreeLeft(c, {}) : Obeys(c, <<>>, s)
      BY <1>2, <2>1 DEF TreeLeft
    <3> QED
      BY <1>3, <3>1, <3>2, BackupListLeads, HookedGood
  <2> QED
    BY <1>3, <2>2, <2>3 DEF LeavesDeadHook
<1>4. CASE c = "copy_ct_template"
  <2>1. Script[c] = copy_ct_template
    BY <1>4 DEF Script
  <2> DEFINE Q == Hooked(c, "hJob", "free", {}, Buffers, Told) \cup Hooked(c, "hJob", "kept", {}, Buffers, Told)
  <2>2. \A s \in Q : Obeys(c, <<>>, s)
    BY <1>2
  <2>3. Leads(c, Hooked(c, "hJob", "free", {}, Buffers, Calm), Script[c], Q)
    BY <2>1, TemplateLeads
  <2> HIDE DEF Q
  <2> QED
    BY <2>2, <2>3, HookedGood
<1> QED
  BY <1>3, <1>4 DEF LeavesDeadHook

(* migrate leaves the hook of the VM. *)
LEMMA MigrateGood == Good("migrate", Script["migrate"], First)
<1> DEFINE c == "migrate"
           P(k) == State(c, <<>>, k, Migration, {}, Buffers, {"hJob"}, Told)
<1>1. Script[c] = migrate /\ c \in LeavesHook
  BY DEF Script, LeavesHook
<1>2. \A k \in {"begun", "kept"} : Fine(c, <<>>, k, Migration, {}, Buffers, {"hJob"})
  BY CancelledIs DEF Fine, Over, Phase
<1>3. \A k \in {"begun", "kept"} : \A s \in P(k) : Obeys(c, <<>>, s)
  BY <1>1, <1>2, StateEnds
<1>4. \A s \in Migrated(c) : Obeys(c, <<>>, s)
  BY <1>3 DEF Migrated
<1>5. First \in State(c, <<>>, "begun", Migration, {}, Buffers, {"hJob"}, Calm)
  BY FirstIs
<1> QED
  BY <1>1, <1>4, <1>5, MigrateLeads, LeadsToEnd

(* backup-delete leaves a callback. *)
LEMMA BackupDeleteGood == Good("backup_delete", Script["backup_delete"], First)
<1> DEFINE c == "backup_delete"
           x == Cancel("hRemove")
<1>1. Script[c] = backup_delete /\ c \in LeavesDeadCallback /\ c \in LeavesCallback
  BY DEF Script, LeavesDeadCallback, LeavesCallback
<1>2. Fine(c, <<>>, "free", x, Backups, Buffers, {"hRemove"})
  <2>1. "hRemove" \in Job
    BY DEF Job
  <2> QED
    BY <1>1, <2>1, CancelledIs DEF Fine, Over, Phase, Backups, Fn, Buf
<1>3. \A s \in State(c, <<>>, "free", x, Backups, Buffers, {"hRemove"}, Any) : Obeys(c, <<>>, s)
  BY <1>1, <1>2, StateEnds
<1>4. First \in State(c, <<>>, "free", x, {}, Buffers, {"hRemove"}, Calm)
  BY FirstIs
<1> QED
  BY <1>1, <1>3, <1>4, BackupDeleteLeads, LeadsToEnd

(* restore leaves hooks and a callback, and it alone goes on after a       *)
(* cancel.                                                                 *)
LEMMA RestoreGood == Good("restore", Script["restore"], First)
<1> DEFINE c == "restore"
           x == Cancel("hRestore")
<1>1. /\ Script[c] = restore /\ c \in LeavesDeadCallback /\ c \in LeavesCallback
      /\ c \in LeavesHook /\ c \in LeavesDeadHook
  BY DEF Script, LeavesDeadCallback, LeavesCallback, LeavesHook, LeavesDeadHook
<1>2. {"hRestore", "hTree"} \subseteq Job
  BY DEF Job
<1>3. \A g \in {<<>>, <<Cancel("hTree")>>} : Over(c, g, x) /\ Ends(g, x) \subseteq RestoreStops
  <2>1. /\ Cancel("hTree") \in CommandHook /\ CancelledBy(Cancel("hTree")) = {"hTree"}
        /\ CancelledBy(x) = {"hRestore"} /\ Ends(<<>>, x) = {"hRestore"}
    BY <1>2, CancelledIs
  <2>2. Cancel("hTree") # x
    BY DEF Cancel
  <2>3. Len(<<Cancel("hTree")>>) = 1 /\ <<Cancel("hTree")>>[1] = Cancel("hTree")
    OBVIOUS
  <2>4. Cancellable(<<Cancel("hTree")>>) = {"hTree"}
    BY <2>1, <2>3 DEF Cancellable
  <2> HIDE DEF x
  <2> QED
    BY <1>1, <2>1, <2>2, <2>4 DEF Over, Ends, RestoreStops
<1>4. \A g \in {<<>>, <<Cancel("hTree")>>} : Fine(c, g, "free", x, Backups, Buffers, RestoreStops)
  BY <1>1, <1>2, <1>3, CancelledIs DEF Fine, Phase, Backups, Fn, Buf
<1>5. \A s \in Restored(c) : Obeys(c, <<>>, s)
  BY <1>1, <1>4, StateEnds DEF Restored
<1>6. First \in State(c, <<>>, "free", x, {}, Buffers, RestoreStops, Calm)
  BY FirstIs
<1> QED
  BY <1>1, <1>5, <1>6, RestoreLeads, LeadsToEnd

(* exec and enter leave a hook; enter alone sets the signals to their      *)
(* default.                                                                *)
LEMMA ExecGood ==
  ASSUME NEW c \in {"exec", "enter"}
  PROVE  Good(c, Script[c], First)
<1>1. c \in LeavesHook /\ c \in LeavesDeadHook
  BY DEF LeavesHook, LeavesDeadHook
<1>2. PICK enter \in BOOLEAN : Script[c] = exec(enter) /\ (enter => c = "enter")
  <2>1. CASE c = "exec"
    <3>1. Script[c] = exec(FALSE)
      BY <2>1 DEF Script
    <3> QED
      BY <3>1
  <2>2. CASE c = "enter"
    <3>1. Script[c] = exec(TRUE)
      BY <2>2 DEF Script
    <3> QED
      BY <2>2, <3>1
  <2> QED
    BY <2>1, <2>2
<1>3. \A s \in Done(c) : Obeys(c, <<>>, s)
  <2>1. \A h \in ExecHooks : Sound(c, h, {}, Buffers, {"hVm"}, {"hExecJob"})
    BY <1>1, ExecSound
  <2>2. \A h \in ExecHooks : \A s \in Executed(c, h, Seq(CommandHook), Any) : Obeys(c, <<>>, s)
    BY <1>1, <2>1, InEnds DEF Executed
  <2> QED
    BY <2>2 DEF Done
<1>4. First \in State(c, <<>>, "free", Session, {}, Buffers, {"hExecJob"}, Calm)
  BY FirstIs
<1> QED
  BY <1>1, <1>2, <1>3, <1>4, ExecLeads, LeadsToEnd

(* Every command that JobScripts gives obeys the rules, in all the orders  *)
(* its steps may come in: whichever job fails, is late or is cancelled,    *)
(* and whichever branch is taken.                                          *)
LEMMA ScriptsGood == \A c \in Command : Good(c, Script[c], First)
<1>1. Command = {"suspend", "mount", "unregister", "snapshot_delete", "capture", "install_tools", "update", "internal", "reinstall",
                 "convert_ct", "register", "install_license", "restart_shaping", "ct_templates", "start", "destroy", "create_ct", "create",
                 "clone", "migrate", "set", "set_hdd", "set_backup", "exec", "enter", "backup", "backup_node", "backup_list", "restore", "backup_delete",
                 "convert", "appliance_install", "copy_ct_template", "shutdown", "vnetwork", "privnet", "monitor", "problem_report",
                 "node_report", "user_set", "usb", "status", "list"}
  BY DEF Command, Script
<1> QED
  BY <1>1, QuietGood, ServerGood, SetGood, HookedAllGood, LeavingGood, MigrateGood,
     BackupDeleteGood, RestoreGood, ExecGood

-----------------------------------------------------------------------------
(* The program: what a script sees of its state.  Before the handlers are  *)
(* installed the script need not know of them.                             *)
Now == [hooks |-> hooks, own |-> own, live |-> live, bufs |-> bufs, regs |-> regs,
        handler |-> IF main = "install" THEN "cleanup" ELSE handler,
        may |-> asked \cup Cancellable(hooks), rc |-> rc, cut |-> IF canceled THEN "yes" ELSE "no"]

(* The types, with the list of hooks of PrlCleanup. *)
JobTyped ==
  /\ Typed
  /\ cmd \in Commands
  /\ rc \in {"none", "ok", "failed", "canceled", "timeout"}
  /\ job \in [Job -> {"none", "running", "ok", "failed", "canceled"}]
  /\ asked \subseteq Job /\ canceled \in BOOLEAN

(* Signals kill only where they do in PrlCleanup, or with the handlers that *)
(* the command has set.                                                    *)
JobWindows ==
  /\ SurvivesWork
  /\ writeEnd /\ ~readEnd => main = "close1"
  /\ main \in {"install", "pipe"} => ~writeEnd

JobInv ==
  /\ JobTyped
  /\ \A j \in Job : job[j] = "canceled" => j \in asked
  /\ Good(cmd, todo, Now)
  /\ JobWindows

(* A step that changes nothing the script sees. *)
LEMMA AsideKeepsGood ==
  ASSUME JobInv, UNCHANGED command, UNCHANGED hooks, Now' = Now
  PROVE  Good(cmd, todo, Now)'
BY DEF JobInv, command

(* What concerns it: the step that was next is done. *)
LEMMA MainKeepsGood ==
  ASSUME JobInv, todo # <<>>, cmd' = cmd, <<todo', Now'>> \in Then(todo, Now)
  PROVE  Good(cmd, todo, Now)'
<1>1. Good(cmd, todo', Now')
  BY GoodNext DEF JobInv
<1> QED
  BY <1>1

(* The monitor thread, and the dispatcher. *)
LEMMA MonitorKeepsInv ==
  ASSUME JobInv, MonitorStep
  PROVE  JobInv'
<1> USE DEF JobInv, JobTyped
<1>1. /\ [Next]_vars /\ UNCHANGED <<main, life, handler, readEnd, writeEnd, sent, hooks>>
      /\ UNCHANGED <<command, job>>
  BY DEF MonitorStep, RunHook, Next, Monitor, EnterRead, ReadSignal, ReadEof, LockHooks, CallHook,
     UnlockHooks, startup, queue
<1>2. /\ asked' \subseteq Job /\ asked \subseteq asked'
      /\ asked' \cup Cancellable(hooks) = asked \cup Cancellable(hooks)
  <2>1. CASE RunHook
    <3>1. left \in 1..Len(hooks) /\ hooks[left] \in CommandHook
      BY <2>1, CommandsAssumption, ElementOfSeq DEF RunHook, CallHook, Typed, TypeOK
    <3>2. JobsOf(hooks[left]) \subseteq CancelledBy(hooks[left])
      <4>1. hooks[left].fn \in {"cancel_job", "migrate_cancel_job", "cancel_session"}
        BY <3>1 DEF CommandHook
      <4> QED
        BY <4>1 DEF JobsOf, CancelledBy
    <3>3. CancelledBy(hooks[left]) \subseteq Job
      BY <3>1 DEF CancelledBy, CommandHook, Job
    <3>4. CancelledBy(hooks[left]) \subseteq Cancellable(hooks)
      BY <3>1 DEF Cancellable
    <3> QED
      BY <2>1, <3>2, <3>3, <3>4 DEF RunHook
  <2>2. CASE UNCHANGED asked
    BY <2>2
  <2> QED
    BY <2>1, <2>2 DEF MonitorStep
<1>3. Now' = Now
  BY <1>1, <1>2 DEF Now, command
<1>4. Good(cmd, todo, Now)'
  BY <1>1, <1>3, AsideKeepsGood
<1>5. JobTyped'
  BY <1>1, <1>2, NextTyped DEF command
<1>6. JobWindows'
  BY <1>1 DEF JobWindows, SurvivesWork, command
<1> QED
  BY <1>1, <1>2, <1>4, <1>5, <1>6

(* The dispatcher: it ends a job as canceled only when it was asked to. *)
LEMMA DispatcherKeepsInv ==
  ASSUME JobInv, NEW j \in Job, JobEnds(j)
  PROVE  JobInv'
<1> USE DEF JobInv, JobTyped
<1>1. UNCHANGED <<vars, command, asked>>
  BY DEF JobEnds
<1>2. PICK r \in {"ok", "failed", "canceled"} : job' = [job EXCEPT ![j] = r] /\ (r = "canceled" => j \in asked)
  BY DEF JobEnds
<1>3. Now' = Now /\ hooks' = hooks
  BY <1>1 DEF Now, command, vars, startup, cleanup
<1>4. Good(cmd, todo, Now)'
  BY <1>1, <1>3, AsideKeepsGood
<1>5. JobTyped'
  BY <1>1, <1>2, NextTyped DEF command
<1>6. JobWindows'
  BY <1>1 DEF JobWindows, SurvivesWork, command, vars, startup
<1> QED
  BY <1>1, <1>2, <1>4, <1>5, <1>6

(* The start and the end of the program, and the signals. *)
LEMMA OtherKeepsInv ==
  ASSUME JobInv, Finish \/ OtherStep
  PROVE  JobInv'
<1> USE DEF JobInv, JobTyped
<1>1. [Next]_vars /\ UNCHANGED <<command, job, asked>> /\ UNCHANGED hooks
  BY DEF Finish, OtherStep, Next, StartJoin, Startup, InstallHandlers, OpenPipe, PipeFails,
     StartMonitor, StartWork,
         InitFails, Ending, CloseRead, CloseWrite, Join, Exit, MainGoes, Signal, SignalKills, SignalIgnored,
         SignalQueued, cleanup
<1>2. JobTyped'
  BY <1>1, NextTyped DEF command
<1>3. Obeys(cmd, todo, Now)
  BY GoodNow
<1>4. Now.handler = IF main = "install" THEN "cleanup" ELSE handler
  BY DEF Now
<1>5. handler = "default" => main = "install" \/ cmd = "enter"
  BY <1>3, <1>4 DEF Obeys
<1>6. Now' = Now
  <2>1. (IF main = "install" THEN "cleanup" ELSE handler)' = IF main = "install" THEN "cleanup" ELSE handler
    BY DEF Finish, OtherStep, Next, StartJoin, Startup, InstallHandlers, OpenPipe, PipeFails,
       StartMonitor, StartWork,
         InitFails, Ending, CloseRead, CloseWrite, Join, Exit, MainGoes, Signal, SignalKills, SignalIgnored,
         SignalQueued, startup
  <2> QED
    BY <1>1, <2>1 DEF Now, command
<1>7. Good(cmd, todo, Now)'
  BY <1>1, <1>6, AsideKeepsGood
<1>8. JobWindows'
  <2> USE DEF JobWindows, SurvivesWork
  <2>1. cmd' = cmd
    BY <1>1 DEF command
  <2>2. CASE Finish
    BY <2>2, <2>1 DEF Finish, StartJoin, MainGoes, startup
  <2>3. CASE Startup
    BY <2>3, <2>1 DEF Startup, InstallHandlers, OpenPipe, PipeFails, StartMonitor, StartWork,
                InitFails, MainGoes, startup
  <2>4. CASE CloseRead \/ CloseWrite \/ Join \/ Exit
    BY <2>4, <2>1 DEF CloseRead, CloseWrite, Join, Exit, MainGoes, startup
  <2>5. CASE SignalKills
    BY <2>5, <2>1, <1>5 DEF SignalKills, Delivered, Readable, startup
  <2>6. CASE SignalIgnored \/ \E t \in Receiver : SignalQueued(t)
    BY <2>6, <2>1 DEF SignalIgnored, SignalQueued, Delivered, startup
  <2> QED
    BY <2>2, <2>3, <2>4, <2>5, <2>6 DEF OtherStep, Ending, Signal
<1> QED
  BY <1>1, <1>2, <1>7, <1>8

-----------------------------------------------------------------------------
(* The main thread: each action is the step of the script, which is        *)
(* allowed.                                                                *)
LEMMA AtStep ==
  ASSUME JobInv, NEW op, At(op)
  PROVE  /\ todo # <<>> /\ Step.op = op /\ main = "work" /\ Now.handler = handler
         /\ Allowed(cmd, Step, Now)
BY GoodNow DEF At, Step, JobInv, Now

(* A step that changes what the script sees as After says leaves a good    *)
(* command.                                                                *)
LEMMA StepGoesOn ==
  ASSUME JobInv, todo # <<>>, Goes, cmd' = cmd, Now' \in After(Step, Now)
  PROVE  Good(cmd, todo, Now)'
BY MainKeepsGood DEF Then, Goes, Step

(* What a step changes of Now: the one field. *)
LEMMA NowChanges ==
  ASSUME UNCHANGED <<hooks, own, main>>
  PROVE  /\ UNCHANGED <<bufs, regs, handler, rc, canceled, asked>> => Now' = [Now EXCEPT !.live = live']
         /\ UNCHANGED <<live, regs, handler, rc, canceled, asked>> => Now' = [Now EXCEPT !.bufs = bufs']
         /\ UNCHANGED <<live, bufs, handler, rc, canceled, asked>> => Now' = [Now EXCEPT !.regs = regs']
         /\ UNCHANGED <<live, bufs, regs, rc, canceled, asked>> /\ main = "work" => Now' = [Now EXCEPT !.handler = handler']
         /\ UNCHANGED <<live, bufs, regs, handler, rc, canceled>> => Now' = [Now EXCEPT !.may = asked' \cup Cancellable(hooks)]
         /\ UNCHANGED <<bufs, regs, handler, rc, canceled>>
              => Now' = [Now EXCEPT !.live = live', !.may = asked' \cup Cancellable(hooks)]
         /\ UNCHANGED <<live, bufs, regs, handler, asked>> => Now' = [Now EXCEPT !.rc = rc', !.cut = Now.cut']
<1>1. UNCHANGED <<Now.hooks, Now.own>> /\ (UNCHANGED handler => UNCHANGED Now.handler) /\ Now.may' = asked' \cup Cancellable(hooks)
  BY DEF Now
<1>2. UNCHANGED <<rc, canceled>> => UNCHANGED <<Now.rc, Now.cut>>
  BY DEF Now
<1>3. UNCHANGED asked => UNCHANGED Now.may
  BY <1>1 DEF Now
<1>4. Now.live' = live' /\ Now.bufs' = bufs' /\ Now.regs' = regs' /\ Now.rc' = rc' /\ (main = "work" => Now.handler' = handler')
  BY DEF Now
<1>5. Now.live = live /\ Now.bufs = bufs /\ Now.regs = regs /\ Now.rc = rc
  BY DEF Now
<1> DEFINE Fields == {"hooks", "own", "live", "bufs", "regs", "handler", "may", "rc", "cut"}
<1>6. Now = [f \in Fields |-> Now[f]] /\ Now' = [f \in Fields |-> Now'[f]]
  BY DEF Now
<1>7. UNCHANGED <<bufs, regs, handler, rc, canceled, asked>> => Now' = [Now EXCEPT !.live = live']
  BY <1>1, <1>2, <1>3, <1>4, <1>5, <1>6
<1>8. UNCHANGED <<live, regs, handler, rc, canceled, asked>> => Now' = [Now EXCEPT !.bufs = bufs']
  BY <1>1, <1>2, <1>3, <1>4, <1>5, <1>6
<1>9. UNCHANGED <<live, bufs, handler, rc, canceled, asked>> => Now' = [Now EXCEPT !.regs = regs']
  BY <1>1, <1>2, <1>3, <1>4, <1>5, <1>6
<1>10. UNCHANGED <<live, bufs, regs, rc, canceled, asked>> /\ main = "work" => Now' = [Now EXCEPT !.handler = handler']
  BY <1>1, <1>2, <1>3, <1>4, <1>5, <1>6
<1>11. UNCHANGED <<live, bufs, regs, handler, rc, canceled>> => Now' = [Now EXCEPT !.may = asked' \cup Cancellable(hooks)]
  BY <1>1, <1>2, <1>3, <1>4, <1>5, <1>6
<1>12. UNCHANGED <<bufs, regs, handler, rc, canceled>>
          => Now' = [Now EXCEPT !.live = live', !.may = asked' \cup Cancellable(hooks)]
  BY <1>1, <1>2, <1>3, <1>4, <1>5, <1>6
<1>13. UNCHANGED <<live, bufs, regs, handler, asked>> => Now' = [Now EXCEPT !.rc = rc', !.cut = Now.cut']
  BY <1>1, <1>2, <1>3, <1>4, <1>5, <1>6
<1> QED
  BY <1>7, <1>8, <1>9, <1>10, <1>11, <1>12, <1>13

(* StartJob, JobDone, WaitTimesOut and CancelLateJob. *)
LEMMA JobStepsKeepInv ==
  ASSUME JobInv, StartJob \/ JobDone \/ WaitTimesOut \/ CancelLateJob
  PROVE  JobInv'
<1> USE DEF JobTyped
<1>1. UNCHANGED <<vars, cmd, own, bufs, regs>> /\ todo # <<>> /\ Goes
  BY DEF StartJob, JobDone, WaitTimesOut, CancelLateJob, At
<1>2. UNCHANGED <<hooks, main, life, handler, readEnd, writeEnd>>
  BY <1>1 DEF vars, startup, cleanup
<1>3. JobWindows'
  BY <1>1, <1>2 DEF JobInv, JobWindows, SurvivesWork
<1>4. Typed'
  BY <1>1, NextTyped DEF JobInv
<1>5. CASE StartJob
  <2>1. Step.op = "start" /\ Step.h \in Job
    BY <1>5, AtStep DEF StartJob, Allowed
  <2>2. Now' \in After(Step, Now)
    <3>1. /\ live' = Now.live \cup {Step.h} /\ UNCHANGED <<rc, canceled>>
          /\ asked' \cup Cancellable(hooks) = (Now.may \ {Step.h}) \cup Cancellable(Now.hooks)
      BY <1>2, <1>5 DEF StartJob, Now
    <3>2. Now' = [Now EXCEPT !.live = @ \cup {Step.h}, !.may = (@ \ {Step.h}) \cup Cancellable(Now.hooks)]
      BY <1>1, <1>2, <3>1, NowChanges
    <3>3. After(Step, Now) = {[Now EXCEPT !.live = @ \cup {Step.h}, !.may = (@ \ {Step.h}) \cup Cancellable(Now.hooks)]}
      BY <2>1 DEF After
    <3> QED
      BY <3>2, <3>3
  <2>3. Good(cmd, todo, Now)'
    BY <1>1, <2>2, StepGoesOn
  <2> QED
    BY <1>1, <1>3, <1>4, <1>5, <2>1, <2>3 DEF StartJob, JobInv
<1>6. CASE JobDone \/ WaitTimesOut
  <2>1. Step.op = "wait" /\ Step.h \in Job
    BY <1>6, AtStep DEF JobDone, WaitTimesOut, Allowed
  <2>2. rc' \in {"ok", "failed", "timeout", "canceled"} /\ (rc' = "canceled" => Step.h \in Now.may)
    BY <1>6, <2>1 DEF JobDone, WaitTimesOut, Now, JobInv
  <2>3. UNCHANGED <<live, job, asked>> /\ canceled' \in BOOLEAN
    BY <1>6 DEF JobDone, WaitTimesOut, JobInv
  <2>4. Now.cut' = IF rc' = "canceled" THEN "yes" ELSE Now.cut
    <3>1. CASE JobDone
      BY <3>1 DEF JobDone, Now
    <3>2. CASE WaitTimesOut
      BY <3>2 DEF WaitTimesOut, Now
    <3> QED
      BY <1>6, <3>1, <3>2
  <2>5. Now' = [Now EXCEPT !.rc = rc', !.cut = IF rc' = "canceled" THEN "yes" ELSE @]
    <3>1. Now' = [Now EXCEPT !.rc = rc', !.cut = Now.cut']
      BY <1>1, <1>2, <2>3, NowChanges
    <3> QED
      BY <2>4, <3>1
  <2>6. Now' \in After(Step, Now)
    <3>1. rc' \in IF Step.h \in Now.may THEN {"ok", "failed", "timeout", "canceled"} ELSE {"ok", "failed", "timeout"}
      BY <2>2
    <3>2. After(Step, Now) =
            {[Now EXCEPT !.rc = r, !.cut = IF r = "canceled" THEN "yes" ELSE @] :
               r \in IF Step.h \in Now.may THEN {"ok", "failed", "timeout", "canceled"} ELSE {"ok", "failed", "timeout"}}
      BY <2>1 DEF After
    <3> QED
      BY <2>5, <3>1, <3>2
  <2>7. Good(cmd, todo, Now)'
    BY <1>1, <2>6, StepGoesOn
  <2> QED
    BY <1>1, <1>3, <1>4, <2>2, <2>3, <2>7 DEF JobInv
<1>7. CASE CancelLateJob
  <2>1. Step.op = "cancel_late" /\ Step.h \in Job
    BY <1>7, AtStep DEF CancelLateJob, Allowed
  <2>2. Now' \in After(Step, Now)
    <3>1. /\ UNCHANGED <<rc, live, canceled>>
          /\ asked' = IF rc = "timeout" THEN asked \cup {Step.h} ELSE asked
      BY <1>7 DEF CancelLateJob
    <3>2. asked' \cup Cancellable(hooks) = IF Now.rc = "timeout" THEN Now.may \cup {Step.h} ELSE Now.may
      BY <3>1 DEF Now
    <3>3. Now' = [Now EXCEPT !.may = asked' \cup Cancellable(hooks)]
      BY <1>1, <1>2, <3>1, NowChanges
    <3>4. After(Step, Now) = {[Now EXCEPT !.may = IF Now.rc = "timeout" THEN @ \cup {Step.h} ELSE @]}
      BY <2>1 DEF After
    <3> QED
      BY <3>2, <3>3, <3>4
  <2>3. Good(cmd, todo, Now)'
    BY <1>1, <2>2, StepGoesOn
  <2> QED
    BY <1>1, <1>3, <1>4, <1>7, <2>1, <2>3 DEF CancelLateJob, JobInv
<1> QED
  BY <1>5, <1>6, <1>7

(* ChangeHandles, ChangeBuffers and ChangeCallbacks. *)
LEMMA DataStepsKeepInv ==
  ASSUME JobInv, ChangeHandles \/ ChangeBuffers \/ ChangeCallbacks
  PROVE  JobInv'
<1> USE DEF JobTyped
<1>1. UNCHANGED <<vars, cmd, rc, own, job, asked, canceled>> /\ todo # <<>> /\ Goes
  BY DEF ChangeHandles, ChangeBuffers, ChangeCallbacks, At
<1>2. UNCHANGED <<hooks, main, life, handler, readEnd, writeEnd>>
  BY <1>1 DEF vars, startup, cleanup
<1>3. Now' \in After(Step, Now)
  <2>1. CASE ChangeHandles
    <3>1. CASE At("obtain") /\ live' = live \cup {Step.h}
      <4>0. Now.live = live /\ live' = live \cup {Step.h} /\ UNCHANGED <<bufs, regs>>
        BY <2>1, <3>1 DEF ChangeHandles, Now
      <4>1. Step.op = "obtain"
        BY <3>1 DEF At, Step
      <4>2. After(Step, Now) = {[Now EXCEPT !.live = @ \cup {Step.h}]}
        BY <4>1 DEF After
      <4>3. Now' = [Now EXCEPT !.live = @ \cup {Step.h}]
        BY <1>1, <1>2, <4>0, NowChanges
      <4> QED
        BY <4>2, <4>3
    <3>2. CASE At("free") /\ live' = live \ {Step.h}
      <4>0. Now.live = live /\ live' = live \ {Step.h} /\ UNCHANGED <<bufs, regs>>
        BY <2>1, <3>2 DEF ChangeHandles, Now
      <4>1. Step.op = "free"
        BY <3>2 DEF At, Step
      <4>2. After(Step, Now) = {[Now EXCEPT !.live = @ \ {Step.h}]}
        BY <4>1 DEF After
      <4>3. Now' = [Now EXCEPT !.live = @ \ {Step.h}]
        BY <1>1, <1>2, <4>0, NowChanges
      <4> QED
        BY <4>2, <4>3
    <3> QED
      BY <2>1, <3>1, <3>2 DEF ChangeHandles
  <2>2. CASE ChangeBuffers
    <3>1. CASE At("buffer") /\ bufs' = bufs \cup {Step.b}
      <4>0. Now.bufs = bufs /\ bufs' = bufs \cup {Step.b} /\ UNCHANGED <<live, regs>>
        BY <2>2, <3>1 DEF ChangeBuffers, Now
      <4>1. Step.op = "buffer"
        BY <3>1 DEF At, Step
      <4>2. After(Step, Now) = {[Now EXCEPT !.bufs = @ \cup {Step.b}]}
        BY <4>1 DEF After
      <4>3. Now' = [Now EXCEPT !.bufs = @ \cup {Step.b}]
        BY <1>1, <1>2, <4>0, NowChanges
      <4> QED
        BY <4>2, <4>3
    <3>2. CASE At("drop") /\ bufs' = bufs \ {Step.b}
      <4>0. Now.bufs = bufs /\ bufs' = bufs \ {Step.b} /\ UNCHANGED <<live, regs>>
        BY <2>2, <3>2 DEF ChangeBuffers, Now
      <4>1. Step.op = "drop"
        BY <3>2 DEF At, Step
      <4>2. After(Step, Now) = {[Now EXCEPT !.bufs = @ \ {Step.b}]}
        BY <4>1 DEF After
      <4>3. Now' = [Now EXCEPT !.bufs = @ \ {Step.b}]
        BY <1>1, <1>2, <4>0, NowChanges
      <4> QED
        BY <4>2, <4>3
    <3> QED
      BY <2>2, <3>1, <3>2 DEF ChangeBuffers
  <2>3. CASE ChangeCallbacks
    <3>1. CASE At("reg") /\ regs' = regs \cup {Step.cb}
      <4>0. Now.regs = regs /\ regs' = regs \cup {Step.cb} /\ UNCHANGED <<live, bufs>>
        BY <2>3, <3>1 DEF ChangeCallbacks, Now
      <4>1. Step.op = "reg"
        BY <3>1 DEF At, Step
      <4>2. After(Step, Now) = {[Now EXCEPT !.regs = @ \cup {Step.cb}]}
        BY <4>1 DEF After
      <4>3. Now' = [Now EXCEPT !.regs = @ \cup {Step.cb}]
        BY <1>1, <1>2, <4>0, NowChanges
      <4> QED
        BY <4>2, <4>3
    <3>2. CASE At("unreg") /\ regs' = regs \ {Step.cb}
      <4>0. Now.regs = regs /\ regs' = regs \ {Step.cb} /\ UNCHANGED <<live, bufs>>
        BY <2>3, <3>2 DEF ChangeCallbacks, Now
      <4>1. Step.op = "unreg"
        BY <3>2 DEF At, Step
      <4>2. After(Step, Now) = {[Now EXCEPT !.regs = @ \ {Step.cb}]}
        BY <4>1 DEF After
      <4>3. Now' = [Now EXCEPT !.regs = @ \ {Step.cb}]
        BY <1>1, <1>2, <4>0, NowChanges
      <4> QED
        BY <4>2, <4>3
    <3> QED
      BY <2>3, <3>1, <3>2 DEF ChangeCallbacks
  <2> QED
    BY <2>1, <2>2, <2>3
<1>4. Good(cmd, todo, Now)'
  BY <1>1, <1>3, StepGoesOn
<1>5. JobWindows'
  BY <1>1, <1>2 DEF JobInv, JobWindows, SurvivesWork
<1>6. Typed'
  BY <1>1, NextTyped DEF JobInv
<1> QED
  BY <1>1, <1>4, <1>5, <1>6 DEF JobInv

(* What the hooks of a list, and of one that was made of it, can cancel. *)
LEMMA CancellableIs ==
  ASSUME NEW s \in Seq(CommandHook)
  PROVE  /\ \A h \in CommandHook : Cancellable(Append(s, h)) = Cancellable(s) \cup CancelledBy(h)
         /\ \A i \in 1..Len(s) : Cancellable(Without(s, i)) \subseteq Cancellable(s)
         /\ s # <<>> => Cancellable(SubSeq(s, 1, Len(s) - 1)) \subseteq Cancellable(s)
<1>1. ASSUME NEW h \in CommandHook PROVE Cancellable(Append(s, h)) = Cancellable(s) \cup CancelledBy(h)
  <2>1. /\ Len(Append(s, h)) = Len(s) + 1 /\ Append(s, h)[Len(s) + 1] = h /\ Len(s) \in Nat
        /\ \A i \in 1..Len(s) : Append(s, h)[i] = s[i]
    BY AppendProperties, LenProperties
  <2>2. 1..Len(s) + 1 = 1..Len(s) \cup {Len(s) + 1}
    BY <2>1
  <2> QED
    BY <2>1, <2>2 DEF Cancellable
<1>2. ASSUME NEW t, \A i \in 1..Len(t) : \E k \in 1..Len(s) : t[i] = s[k]
      PROVE  Cancellable(t) \subseteq Cancellable(s)
  BY <1>2 DEF Cancellable
<1>3. ASSUME NEW i \in 1..Len(s) PROVE Cancellable(Without(s, i)) \subseteq Cancellable(s)
  <2>1. Without(s, i) = SubSeq(s, 1, i - 1) \o SubSeq(s, i + 1, Len(s))
    BY DEF Without
  <2>2. \A k \in 1..Len(Without(s, i)) : \E m \in 1..Len(s) : Without(s, i)[k] = s[m]
    <3> DEFINE a == SubSeq(s, 1, i - 1)
               b == SubSeq(s, i + 1, Len(s))
    <3>1. Len(s) \in Nat
      BY LenProperties
    <3>a. Len(a) = i - 1 /\ (\A k \in 1..i - 1 : a[k] = s[k]) /\ a \in Seq(CommandHook)
      BY <3>1
    <3>b. Len(b) = Len(s) - i /\ (\A k \in 1..Len(s) - i : b[k] = s[i + k]) /\ b \in Seq(CommandHook)
      BY <3>1
    <3>2. ASSUME NEW k \in 1..Len(Without(s, i)) PROVE \E m \in 1..Len(s) : Without(s, i)[k] = s[m]
      <4> HIDE DEF a, b
      <4>0. Len(a \o b) = Len(a) + Len(b) /\ \A n \in 1..Len(a) + Len(b) : (a \o b)[n] = IF n <= Len(a) THEN a[n] ELSE b[n - Len(a)]
        BY <3>a, <3>b, ConcatProperties
      <4>3. Without(s, i) = a \o b
        BY <2>1 DEF a, b
      <4>1. CASE k < i
        BY <3>1, <3>a, <3>b, <4>0, <4>1, <4>3
      <4>2. CASE k >= i
        <5>1. k - (i - 1) \in 1..Len(s) - i /\ i + (k - (i - 1)) \in 1..Len(s)
          BY <3>1, <3>a, <3>b, <4>0, <4>2, <4>3
        <5>2. ~(k <= Len(a)) /\ k \in 1..Len(a) + Len(b) /\ k - Len(a) = k - (i - 1)
          BY <3>1, <3>a, <3>b, <4>0, <4>2, <4>3
        <5>3. (a \o b)[k] = b[k - (i - 1)]
          BY <4>0, <5>2
        <5>4. b[k - (i - 1)] = s[i + (k - (i - 1))]
          BY <3>b, <5>1
        <5> QED
          BY <4>3, <5>1, <5>3, <5>4
      <4> QED
        BY <3>1, <4>1, <4>2
    <3> QED
      BY <3>2
  <2> QED
    BY <1>2, <2>2
<1>4. ASSUME s # <<>> PROVE Cancellable(SubSeq(s, 1, Len(s) - 1)) \subseteq Cancellable(s)
  <2>1. Len(s) \in Nat
    BY LenProperties
  <2>2. \A k \in 1..Len(SubSeq(s, 1, Len(s) - 1)) : k \in 1..Len(s) /\ SubSeq(s, 1, Len(s) - 1)[k] = s[k]
    BY <2>1
  <2> QED
    BY <1>2, <2>2
<1> QED
  BY <1>1, <1>3, <1>4

(* SetHook and ClearHook: with a hook its jobs become cancellable, and     *)
(* without it those that were not asked for are so no more.                *)
LEMMA HookStepsKeepInv ==
  ASSUME JobInv, SetHook \/ ClearHook
  PROVE  JobInv'
<1> USE DEF JobTyped
<1>1. /\ UNCHANGED <<main, life, startup, queue, monitor, left>>
      /\ UNCHANGED <<cmd, rc, live, bufs, regs, job, asked, canceled>> /\ todo # <<>> /\ Goes
  BY DEF SetHook, ClearHook, At, RegisterHook, UnregisterHook, UnregisterLast
<1>2. UNCHANGED <<handler, readEnd, writeEnd>>
  BY <1>1 DEF startup
<1>3. hooks \in Seq(CommandHook)
  BY CommandsAssumption DEF JobInv, Typed, TypeOK
<1>4. [Next]_vars
  <2>1. CASE SetHook
    <3>1. Step.hook \in Hook
      BY <2>1, AtStep, CommandsAssumption DEF SetHook, Allowed
    <3> QED
      BY <2>1, <3>1 DEF SetHook, Next, Work
  <2>2. CASE ClearHook
    BY <2>2 DEF ClearHook, Next, Work
  <2> QED
    BY <2>1, <2>2
<1>5. Now' \in After(Step, Now)
  <2> DEFINE Moved(h, o, m) == [Now EXCEPT !.hooks = h, !.own = o, !.may = m]
  <2>0. Now' = Moved(hooks', own', asked \cup Cancellable(hooks'))
    <3>1. UNCHANGED <<Now.live, Now.bufs, Now.regs, Now.handler, Now.rc, Now.cut>>
      BY <1>1, <1>2 DEF Now
    <3>2. Now.hooks' = hooks' /\ Now.own' = own' /\ Now.may' = asked \cup Cancellable(hooks')
      BY <1>1 DEF Now
    <3>3. LET Fields == {"hooks", "own", "live", "bufs", "regs", "handler", "may", "rc", "cut"}
          IN  Now = [f \in Fields |-> Now[f]] /\ Now' = [f \in Fields |-> Now'[f]]
      BY DEF Now
    <3> QED
      BY <3>1, <3>2, <3>3
  <2>1. Now.hooks = hooks /\ Now.own = own /\ Now.may = asked \cup Cancellable(hooks)
    BY DEF Now
  <2>2. CASE SetHook
    <3>1. Step.op = "hook" /\ Step.hook \in CommandHook
      BY <2>2, AtStep DEF SetHook, Allowed
    <3>2. hooks' = Append(hooks, Step.hook) /\ own' = IF Step.keep THEN <<Step.hook>> ELSE own
      BY <2>2 DEF SetHook, RegisterHook
    <3>3. asked \cup Cancellable(hooks') = Now.may \cup CancelledBy(Step.hook)
      BY <1>3, <2>1, <3>1, <3>2, CancellableIs
    <3>4. After(Step, Now) = {[Now EXCEPT !.hooks = Append(@, Step.hook), !.own = IF Step.keep THEN <<Step.hook>> ELSE @,
                                          !.may = @ \cup CancelledBy(Step.hook)]}
      BY <3>1 DEF After
    <3> QED
      BY <2>0, <2>1, <3>2, <3>3, <3>4
  <2>3. ASSUME At("unhook"), NEW i \in 1..Len(hooks), own = <<hooks[i]>>, UnregisterHook(i), own' = own
        PROVE  Now' \in After(Step, Now)
    <3>1. Step.op = "unhook"
      BY <2>3 DEF At, Step
    <3>2. hooks' = Without(hooks, i)
      BY <2>3 DEF UnregisterHook
    <3>3. asked \cup Cancellable(hooks') \in SUBSET Now.may
      BY <1>3, <2>1, <3>2, CancellableIs
    <3> DEFINE I == {k \in 1..Len(Now.hooks) : Now.own = <<Now.hooks[k]>>}
               f(n, m) == [Now EXCEPT !.hooks = Without(@, n), !.may = m]
    <3>4. After(Step, Now) = {f(n, m) : n \in I, m \in SUBSET Now.may}
      BY <3>1 DEF After
    <3>5. Now' = f(i, asked \cup Cancellable(hooks'))
      BY <2>0, <2>1, <2>3, <3>2
    <3>6. i \in I
      BY <2>1, <2>3
    <3> HIDE DEF I, f
    <3> QED
      BY <3>3, <3>4, <3>5, <3>6
  <2>4. ASSUME At("unhook_last"), UnregisterLast, own' = own
        PROVE  Now' \in After(Step, Now)
    <3>1. Step.op = "unhook_last"
      BY <2>4 DEF At, Step
    <3>2. hooks' = IF hooks = <<>> THEN hooks ELSE SubSeq(hooks, 1, Len(hooks) - 1)
      BY <2>4 DEF UnregisterLast
    <3>3. asked \cup Cancellable(hooks') \in SUBSET Now.may
      BY <1>3, <2>1, <3>2, CancellableIs
    <3>4. After(Step, Now) = {[Now EXCEPT !.hooks = IF @ = <<>> THEN @ ELSE SubSeq(@, 1, Len(@) - 1), !.may = m] :
                                m \in SUBSET Now.may}
      BY <3>1 DEF After
    <3>5. Now' = [Now EXCEPT !.hooks = IF @ = <<>> THEN @ ELSE SubSeq(@, 1, Len(@) - 1), !.may = asked \cup Cancellable(hooks')]
      BY <2>0, <2>1, <2>4, <3>2
    <3> QED
      BY <3>3, <3>4, <3>5
  <2> QED
    BY <2>2, <2>3, <2>4 DEF ClearHook
<1>6. Good(cmd, todo, Now)'
  BY <1>1, <1>5, StepGoesOn
<1>7. JobWindows'
  BY <1>1, <1>2 DEF JobInv, JobWindows, SurvivesWork
<1>8. Typed'
  BY <1>4, NextTyped DEF JobInv
<1> QED
  BY <1>1, <1>6, <1>7, <1>8 DEF JobInv

(* ChangeHandler, and the choice of a branch. *)
LEMMA ControlStepsKeepInv ==
  ASSUME JobInv, ChangeHandler \/ Choose
  PROVE  JobInv'
<1> USE DEF JobTyped
<1>1. CASE ChangeHandler
  <2>1. /\ UNCHANGED <<main, life, readEnd, writeEnd, queue, cleanup>>
        /\ UNCHANGED <<cmd, rc, own, live, bufs, regs, job, asked, canceled>>
        /\ handler' = Step.to /\ todo # <<>> /\ Goes
    BY <1>1 DEF ChangeHandler, At
  <2>2. /\ main = "work" /\ Step.op = "handler"
        /\ Step.to \in {"default", "cleanup", "terminal"} /\ UNCHANGED hooks
    BY <1>1, <2>1, AtStep DEF ChangeHandler, Allowed, cleanup
  <2>3. Typed'
    BY <2>1, <2>2 DEF JobInv, Typed, TypeOK, queue, cleanup
  <2>4. Now' = [Now EXCEPT !.handler = Step.to]
    BY <2>1, <2>2, NowChanges
  <2>5. After(Step, Now) = {[Now EXCEPT !.handler = Step.to]}
    BY <2>2 DEF After
  <2>6. Good(cmd, todo, Now)'
    BY <2>1, <2>4, <2>5, StepGoesOn
  <2>7. JobWindows'
    BY <2>1, <2>2 DEF JobInv, JobWindows, SurvivesWork
  <2> QED
    BY <2>1, <2>3, <2>6, <2>7 DEF JobInv
<1>2. CASE Choose
  <2>1. UNCHANGED <<vars, cmd, rc, own, live, bufs, regs, job, asked, canceled>> /\ todo # <<>>
    BY <1>2 DEF Choose, At
  <2>2. UNCHANGED <<main, life, handler, readEnd, writeEnd, hooks>>
    BY <2>1 DEF vars, startup, cleanup
  <2>3. Now' = Now
    BY <2>1, <2>2 DEF Now
  <2>4. \E p \in Branches(Step, Now) : todo' = p \o Tail(todo)
    <3>1. CASE At("if") /\ todo' = (IF rc \in Step.in THEN Step.yes ELSE Step.no) \o Tail(todo)
      <4>1. Step.op = "if" /\ Now.rc = rc
        BY <3>1 DEF At, Step, Now
      <4>2. Branches(Step, Now) = IF rc \in Step.in THEN {Step.yes} ELSE {Step.no}
        BY <4>1 DEF Branches
      <4> QED
        BY <3>1, <4>2
    <3>2. CASE At("either") /\ \E p \in {Step.yes, Step.no} : todo' = p \o Tail(todo)
      <4>1. Step.op = "either"
        BY <3>2 DEF At, Step
      <4>2. Branches(Step, Now) = {Step.yes, Step.no}
        BY <4>1 DEF Branches
      <4> QED
        BY <3>2, <4>2
    <3> QED
      BY <1>2, <3>1, <3>2 DEF Choose
  <2>5. <<todo', Now'>> \in Then(todo, Now)
    BY <2>3, <2>4 DEF Then, Step
  <2>6. Good(cmd, todo, Now)'
    BY <2>1, <2>5, MainKeepsGood
  <2>7. Typed'
    BY <2>1, NextTyped DEF JobInv
  <2>8. JobWindows'
    BY <2>1, <2>2 DEF JobInv, JobWindows, SurvivesWork
  <2> QED
    BY <2>1, <2>6, <2>7, <2>8 DEF JobInv
<1> QED
  BY <1>1, <1>2

(* Every step of the program keeps the invariant. *)
LEMMA JobNextKeepsInv ==
  ASSUME JobInv, [JobNext]_allvars
  PROVE  JobInv'
<1>1. CASE UNCHANGED allvars
  <2>1. /\ UNCHANGED <<vars, command, job, asked>>
        /\ UNCHANGED <<main, life, handler, readEnd, writeEnd, hooks>>
    BY <1>1 DEF allvars, vars, startup, cleanup
  <2>2. Now' = Now
    BY <2>1 DEF Now, command
  <2>3. Good(cmd, todo, Now)'
    BY <2>1, <2>2, AsideKeepsGood
  <2>4. Typed'
    BY <2>1, NextTyped DEF JobInv, JobTyped
  <2> QED
    BY <2>1, <2>3, <2>4 DEF JobInv, JobTyped, JobWindows, SurvivesWork, command
<1> QED
  BY <1>1, MonitorKeepsInv, DispatcherKeepsInv, OtherKeepsInv, JobStepsKeepInv, DataStepsKeepInv,
     HookStepsKeepInv,
     ControlStepsKeepInv DEF JobNext, Command_

(* Every command starts with nothing registered, so the lemma ScriptsGood  *)
(* makes its script good; no handler is set and no job was asked for.      *)
LEMMA StartsGood ==
  ASSUME JobInit
  PROVE  JobInv
<1>1. Typed
  BY InitTyped DEF JobInit
<1>2. JobTyped
  BY <1>1 DEF JobTyped, JobInit
<1>3. Now = First
  <2>1. Cancellable(hooks) = {}
    <3>1. hooks = <<>> /\ Len(hooks) = 0
      BY DEF JobInit, Init
    <3> QED
      BY <3>1 DEF Cancellable
  <2> QED
    BY <2>1 DEF Now, First, JobInit, Init
<1>4. Good(cmd, todo, Now)
  BY <1>3, ScriptsGood, CommandsAssumption DEF JobInit
<1>5. \A j \in Job : job[j] = "none"
  BY DEF JobInit
<1>6. JobWindows
  BY DEF JobWindows, SurvivesWork, JobInit, Init
<1> QED
  BY <1>2, <1>4, <1>5, <1>6 DEF JobInv

(* What the rules of a script say of the program's variables. *)
LEMMA RulesHold ==
  ASSUME JobInv
  PROVE  /\ \A i, k \in 1..Len(hooks) : hooks[i] = hooks[k] => i = k
         /\ HookDataLive /\ CallbackDataLive /\ NothingLeftBehind
<1>1. Obeys(cmd, todo, Now)
  BY GoodNow DEF JobInv
<1>2. Now.hooks = hooks /\ Now.live = live /\ Now.bufs = bufs /\ Now.regs = regs
  BY DEF Now
<1> QED
  BY <1>1, <1>2 DEF Obeys, HookDataLive, CallbackDataLive, NothingLeftBehind

(* The state is well formed, and no hook is registered twice, so that it   *)
(* is known by its contents; for any set of commands.                      *)
THEOREM JobTypes == JobSpec => []JobTypeOK
<1>1. JobInv => JobTypeOK
  BY RulesHold DEF JobInv, JobTyped, Typed, JobTypeOK
<1> QED
  BY <1>1, StartsGood, JobNextKeepsInv, PTL DEF JobSpec

(* Whatever Ctrl-C interrupts, no registered hook has a handle that the    *)
(* command has freed, but in the commands of LeavesDeadHook.               *)
THEOREM HooksCancelLiveHandles == JobSpec => []HookDataLive
<1>1. JobInv => HookDataLive
  BY RulesHold
<1> QED
  BY <1>1, StartsGood, JobNextKeepsInv, PTL DEF JobSpec

(* No callback is registered with data that is gone, but in the commands   *)
(* of LeavesDeadCallback.                                                  *)
THEOREM CallbacksHaveTheirData == JobSpec => []CallbackDataLive
<1>1. JobInv => CallbackDataLive
  BY RulesHold
<1> QED
  BY <1>1, StartsGood, JobNextKeepsInv, PTL DEF JobSpec

(* A command that is over has left neither hook nor callback, whichever of *)
(* its jobs failed, was late or was cancelled, but for those named.        *)
THEOREM CommandsCleanUp == JobSpec => []NothingLeftBehind
<1>1. JobInv => NothingLeftBehind
  BY RulesHold
<1> QED
  BY <1>1, StartsGood, JobNextKeepsInv, PTL DEF JobSpec

(* A signal kills no command at work, except enter after its program. *)
THEOREM WorkSurvivesSignals == JobSpec => []SurvivesWork
<1>1. JobInv => SurvivesWork
  BY DEF JobInv, JobWindows
<1> QED
  BY <1>1, StartsGood, JobNextKeepsInv, PTL DEF JobSpec

(* After a wait that returned "canceled" no job is started, but for the    *)
(* logout of exec and the second job of restore.                           *)
THEOREM CancelEndsCommands == JobSpec => CancelIsFinal
<1>1. JobInv => \A j \in Job : (StartJob /\ Step.h = j /\ canceled)
                                  => j = "hLogout" \/ (cmd = "restore" /\ j = "hRestore")
  <2> SUFFICES ASSUME JobInv, NEW j \in Job, StartJob, Step.h = j, canceled
               PROVE  j = "hLogout" \/ (cmd = "restore" /\ j = "hRestore")
    OBVIOUS
  <2>1. todo # <<>> /\ Step.op = "start"
    BY DEF StartJob, At, Step
  <2>2. Allowed(cmd, Step, Now)
    BY <2>1, GoodNow DEF JobInv, Step
  <2>3. Now.cut = "yes"
    BY DEF Now
  <2> QED
    BY <2>1, <2>2, <2>3 DEF Allowed
<1> QED
  BY <1>1, StartsGood, JobNextKeepsInv, PTL DEF JobSpec, CancelIsFinal
=============================================================================

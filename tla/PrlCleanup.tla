------------------------------ MODULE PrlCleanup ------------------------------
(***************************************************************************)
(* What Ctrl-C does to prlctl and prlsrvctl (PrlCleanup.cpp, PrlSignal.cpp *)
(* and the two main functions).  INT, HUP and TERM are caught by run(),    *)
(* which writes the signal's number into a pipe; a monitor thread reads    *)
(* the pipe and, for each number, calls every registered hook, newest      *)
(* first, with m_mutex held.  The main thread registers a hook for the job *)
(* it waits for and removes it afterwards, and before the program ends     *)
(* join() closes the pipe and waits for the monitor.                       *)
(*                                                                         *)
(* A critical section of the main thread never blocks, so it is one        *)
(* action; the monitor's holds the mutex over the calls of the hooks.      *)
(***************************************************************************)
EXTENDS Naturals, Sequences

CONSTANTS
  Hook,        \* the hooks (a function and its argument) a command may register
  MaxHooks,    \* bound: hooks registered at the same time
  MaxSignals,  \* bound: signals in one run; the pipe has room for all of them
  Receiver     \* the threads the kernel may deliver a signal to

ASSUME CleanupAssumption ==
  /\ MaxHooks \in Nat /\ MaxSignals \in Nat
  /\ Receiver \subseteq {"main", "monitor"}

VARIABLES
  main,        \* where the main thread is
  life,        \* "running", "exited", or "killed" by a signal
  handler,     \* what a signal does: "default", "cleanup" (it calls run()), or
               \* "terminal" while prlctl enter has the terminal
  readEnd,     \* m_fd[0] is open
  writeEnd,    \* m_fd[1] is open
  pipe,        \* the numbers written to the pipe and not yet read
  sent,        \* signals so far
  monitor,     \* where the monitor thread is
  hooks,       \* m_hooks, the newest last
  left         \* the hooks do_cleanup has still to call: hooks[1..left]

startup == <<handler, readEnd, writeEnd>>
queue   == <<pipe, sent>>
cleanup == <<monitor, hooks, left>>
vars    == <<main, life, startup, queue, cleanup>>

MainAt    == {"install", "pipe", "thread", "init", "work", "close0", "close1", "join", "done"}
MonitorAt == {"unborn", "loop", "reading", "locking", "calling", "gone"}

(* Types; the iterator of do_cleanup stays inside the list. *)
TypeOK ==
  /\ main \in MainAt
  /\ life \in {"running", "exited", "killed"}
  /\ handler \in {"default", "cleanup", "terminal"}
  /\ readEnd \in BOOLEAN /\ writeEnd \in BOOLEAN
  /\ pipe \in Nat /\ sent \in Nat
  /\ monitor \in MonitorAt
  /\ hooks \in Seq(Hook)
  /\ left \in 0..Len(hooks)
  /\ monitor # "calling" => left = 0

Init ==
  /\ main = "install" /\ life = "running"
  /\ handler = "default" /\ readEnd = FALSE /\ writeEnd = FALSE
  /\ pipe = 0 /\ sent = 0
  /\ monitor = "unborn" /\ hooks = <<>> /\ left = 0

(* m_mutex is held across steps by nobody but do_cleanup. *)
MutexFree == monitor # "calling"

-----------------------------------------------------------------------------
(* Mistakes the properties are there to catch: the signals keep their      *)
(* default action; a change of the hooks does not take the mutex; join()   *)
(* closes the same end twice; do_cleanup starts behind the newest hook, or *)
(* does not advance its iterator.                                          *)
InstallNothing ==
  /\ life = "running" /\ main = "install"
  /\ main' = "pipe"
  /\ UNCHANGED <<life, startup, queue, cleanup>>

WorkingUnlocked == life = "running" /\ main = "work"

CloseReadAgain ==
  /\ life = "running" /\ main = "close1"
  /\ main' = "join"
  /\ readEnd' = FALSE
  /\ UNCHANGED <<life, handler, writeEnd, queue, cleanup>>

LockSkipsNewest ==
  /\ life = "running" /\ monitor = "locking"
  /\ monitor' = "calling"
  /\ left' = IF hooks = <<>> THEN 0 ELSE Len(hooks) - 1
  /\ UNCHANGED <<main, life, startup, queue, hooks>>

CallSameHook ==
  /\ life = "running" /\ monitor = "calling" /\ left > 0
  /\ UNCHANGED vars

-----------------------------------------------------------------------------
(* set_cleanup_handler, whose result main ignores: the handlers come first *)
(* and the pipe they write to comes second.                                *)
MainGoes(from, to) ==
  /\ life = "running" /\ main = from
  /\ main' = to
  /\ UNCHANGED life

InstallHandlers ==
  /\ MainGoes("install", "pipe")
  /\ handler' = "cleanup"
  /\ UNCHANGED <<readEnd, writeEnd, queue, cleanup>>

OpenPipe ==
  /\ MainGoes("pipe", "thread")
  /\ readEnd' = TRUE /\ writeEnd' = TRUE
  /\ UNCHANGED <<handler, queue, cleanup>>

PipeFails == MainGoes("pipe", "init") /\ UNCHANGED <<startup, queue, cleanup>>

StartMonitor ==
  /\ MainGoes("thread", "init")
  /\ monitor' \in {"loop", "unborn"}     \* pthread_create may fail
  /\ UNCHANGED <<startup, queue, hooks, left>>

(* main: the command starts, or init_sdk_lib fails and main returns. *)
StartWork == MainGoes("init", "work") /\ UNCHANGED <<startup, queue, cleanup>>

InitFails ==
  /\ life = "running" /\ main = "init"
  /\ life' = "exited"
  /\ UNCHANGED <<main, startup, queue, cleanup>>

-----------------------------------------------------------------------------
(* The main thread at work. *)
Working == life = "running" /\ main = "work" /\ MutexFree

RegisterHook(h) ==
  /\ Working
  /\ Len(hooks) < MaxHooks
  /\ hooks' = Append(hooks, h)
  /\ UNCHANGED <<main, life, startup, queue, monitor, left>>

Without(s, i) == SubSeq(s, 1, i - 1) \o SubSeq(s, i + 1, Len(s))

(* unregister_hook: the hook is found by the address of its list node. *)
UnregisterHook(i) ==
  /\ Working
  /\ i \in 1..Len(hooks)
  /\ hooks' = Without(hooks, i)
  /\ UNCHANGED <<main, life, startup, queue, monitor, left>>

UnregisterLast ==
  /\ Working
  /\ hooks' = IF hooks = <<>> THEN hooks ELSE SubSeq(hooks, 1, Len(hooks) - 1)
  /\ UNCHANGED <<main, life, startup, queue, monitor, left>>

-----------------------------------------------------------------------------
(* join: it closes the read end, then the write end, then waits for the    *)
(* monitor.  The monitor's copy of the descriptor is the same read end.    *)
StartJoin == MainGoes("work", "close0") /\ UNCHANGED <<startup, queue, cleanup>>

CloseRead ==
  /\ MainGoes("close0", "close1")
  /\ readEnd' = FALSE
  /\ UNCHANGED <<handler, writeEnd, queue, cleanup>>

CloseWrite ==
  /\ MainGoes("close1", "join")
  /\ writeEnd' = FALSE
  /\ UNCHANGED <<handler, readEnd, queue, cleanup>>

Join ==
  /\ monitor \in {"unborn", "gone"}
  /\ MainGoes("join", "done")
  /\ UNCHANGED <<startup, queue, cleanup>>

(* main returns: the process ends. *)
Exit ==
  /\ life = "running" /\ main = "done"
  /\ life' = "exited"
  /\ UNCHANGED <<main, startup, queue, cleanup>>

-----------------------------------------------------------------------------
(* do_cleanup and the monitor's loop around read(). *)
EnterRead ==
  /\ life = "running" /\ monitor = "loop"
  /\ monitor' = IF readEnd THEN "reading" ELSE "gone"
  /\ UNCHANGED <<main, life, startup, queue, hooks, left>>

ReadSignal ==
  /\ life = "running" /\ monitor = "reading" /\ pipe > 0
  /\ pipe' = pipe - 1
  /\ monitor' = "locking"
  /\ UNCHANGED <<main, life, startup, sent, hooks, left>>

ReadEof ==
  /\ life = "running" /\ monitor = "reading" /\ pipe = 0 /\ ~writeEnd
  /\ monitor' = "gone"
  /\ UNCHANGED <<main, life, startup, queue, hooks, left>>

LockHooks ==
  /\ life = "running" /\ monitor = "locking"
  /\ monitor' = "calling"
  /\ left' = Len(hooks)
  /\ UNCHANGED <<main, life, startup, queue, hooks>>

CallHook ==
  /\ life = "running" /\ monitor = "calling" /\ left > 0
  /\ left' = left - 1
  /\ UNCHANGED <<main, life, startup, queue, monitor, hooks>>

UnlockHooks ==
  /\ life = "running" /\ monitor = "calling" /\ left = 0
  /\ monitor' = "loop"
  /\ UNCHANGED <<main, life, startup, queue, hooks, left>>

-----------------------------------------------------------------------------
(* A signal arrives in thread t.  A read() under way holds the read end of *)
(* the pipe open; a signal that arrives in the thread blocked in that      *)
(* read() ends it with EINTR, since the handlers are installed without     *)
(* SA_RESTART, and any result but a whole number ends the monitor.         *)
Readable == readEnd \/ monitor = "reading"

Delivered ==
  /\ life = "running" /\ sent < MaxSignals
  /\ sent' = sent + 1

SignalKills ==
  /\ Delivered
  /\ handler = "default" \/ (writeEnd /\ ~Readable)    \* no handler yet; SIGPIPE
  /\ life' = "killed"
  /\ UNCHANGED <<main, startup, pipe, cleanup>>

SignalIgnored ==
  /\ Delivered
  /\ \/ handler = "terminal"
     \/ handler = "cleanup" /\ ~writeEnd               \* write() fails
  /\ UNCHANGED <<main, life, startup, pipe, cleanup>>

SignalQueued(t) ==
  /\ Delivered
  /\ handler = "cleanup" /\ writeEnd /\ Readable
  /\ pipe' = pipe + 1
  /\ monitor' = IF t = "monitor" /\ monitor = "reading" /\ pipe = 0
                THEN "gone" ELSE monitor
  /\ UNCHANGED <<main, life, startup, hooks, left>>

Signal == SignalKills \/ SignalIgnored \/ \E t \in Receiver : SignalQueued(t)

-----------------------------------------------------------------------------
Startup == InstallHandlers \/ OpenPipe \/ PipeFails \/ StartMonitor \/ StartWork \/ InitFails
Work    == \/ \E h \in Hook : RegisterHook(h)
           \/ \E i \in 1..Len(hooks) : UnregisterHook(i)
           \/ UnregisterLast
Ending  == CloseRead \/ CloseWrite \/ Join \/ Exit
Monitor == EnterRead \/ ReadSignal \/ ReadEof \/ LockHooks \/ CallHook \/ UnlockHooks

Next == Startup \/ Work \/ StartJoin \/ Ending \/ Monitor \/ Signal

Spec == Init /\ [][Next]_vars

(* Both threads run; nothing makes a command end or the user press Ctrl-C. *)
FairSpec == Spec /\ WF_vars(Startup) /\ WF_vars(Ending) /\ WF_vars(Monitor)

-----------------------------------------------------------------------------
(* While the monitor walks the list of hooks nobody changes the list, so   *)
(* its iterator stays valid and each hook it calls is still registered.    *)
HooksFrozen == [][monitor = "calling" => hooks' = hooks]_vars

(* Once the handlers are in place no signal kills the program while it     *)
(* works: it can die only before they are, and in join() after the read    *)
(* end is closed and before the write end is.                              *)
SurvivesSignals == life = "killed" => main \in {"install", "close1"}

(* Every signal that reaches the pipe is served, by a pass over the hooks  *)
(* of that moment, unless the monitor is not there any more to read it.    *)
SignalsServed ==
  (pipe > 0 /\ monitor # "unborn") ~> (pipe = 0 \/ monitor = "gone" \/ life # "running")

(* join() returns: the monitor leaves its loop whatever it was doing, also *)
(* when signals keep arriving while the pipe is being closed.              *)
JoinReturns == (main = "close0") ~> (main = "done" \/ life = "killed")
=============================================================================

----------------------------- MODULE JobCommands -----------------------------
(***************************************************************************)
(* prlctl or prlsrvctl running one command from main() to the end, with    *)
(* the jobs it starts in the dispatcher, the callbacks the SDK's threads   *)
(* may call, and Ctrl-C at any moment.  The main thread executes the steps *)
(* of its command (JobScripts), the monitor thread is that of PrlCleanup,  *)
(* and the dispatcher ends a job whenever it likes.                        *)
(***************************************************************************)
EXTENDS PrlCleanup, JobScripts, FiniteSets

CONSTANTS
  Commands,       \* the commands to run, a subset of Command
  TimeoutGiven    \* was --timeout on the command line (g_nJobTimeout)?

(* The hooks the commands register: Hook of PrlCleanup. *)
CommandHook ==
  [fn : {"cancel_job"}, data : Job]
    \cup {[fn |-> "migrate_cancel_job", data |-> "hVm"],
          [fn |-> "cancel_session", data |-> "hVmGuest"]}

ASSUME CommandsAssumption ==
  Hook = CommandHook /\ Commands \subseteq Command /\ TimeoutGiven \in BOOLEAN

VARIABLES
  cmd,            \* the command
  todo,           \* the steps it has still to do
  rc,             \* what the last wait returned
  own,            \* the hook its variable h points to
  live,           \* the handles that are not freed
  bufs,           \* the buffers that exist
  regs,           \* the callbacks registered, with their data
  job,            \* the jobs, in the dispatcher
  asked,          \* the jobs it was asked to cancel
  canceled        \* a wait told the command that its job was cancelled

command == <<cmd, todo, rc, own, live, bufs, regs, canceled>>
allvars == <<vars, command, job, asked>>

(* Types, and no hook is registered twice: it is known by its contents. *)
JobTypeOK ==
  /\ TypeOK
  /\ cmd \in Commands
  /\ rc \in {"none", "ok", "failed", "canceled", "timeout"}
  /\ job \in [Job -> {"none", "running", "ok", "failed", "canceled"}]
  /\ asked \subseteq Job
  /\ \A i, k \in 1..Len(hooks) : hooks[i] = hooks[k] => i = k   \* a hook is known by its contents

JobInit ==
  /\ Init
  /\ cmd \in Commands
  /\ todo = Script[cmd]
  /\ rc = "none" /\ own = <<>>
  /\ live = {"hVm"} /\ bufs = {"NULL", "batch", "this"} /\ regs = {}
  /\ job = [j \in Job |-> "none"] /\ asked = {} /\ canceled = FALSE

-----------------------------------------------------------------------------
(* The steps of the main thread.  At(op) is its next step. *)
At(op) == life = "running" /\ main = "work" /\ todo # <<>> /\ Head(todo).op = op
Step   == Head(todo)
Goes   == todo' = Tail(todo)

StartJob ==
  /\ At("start") /\ Goes
  /\ job' = [job EXCEPT ![Step.h] = "running"]
  /\ asked' = asked \ {Step.h}
  /\ live' = live \cup {Step.h}
  /\ UNCHANGED <<vars, cmd, rc, own, bufs, regs, canceled>>

(* PrlJob_Wait and PrlJob_GetRetCode. *)
JobDone ==
  /\ At("wait") /\ Goes
  /\ job[Step.h] \in {"ok", "failed", "canceled"}
  /\ rc' = job[Step.h]
  /\ canceled' = (canceled \/ rc' = "canceled")
  /\ UNCHANGED <<vars, cmd, own, live, bufs, regs, job, asked>>

WaitTimesOut ==
  /\ At("wait") /\ Goes
  /\ TimeoutGiven \/ Step.own
  /\ job[Step.h] = "running"
  /\ rc' = "timeout"
  /\ UNCHANGED <<vars, cmd, own, live, bufs, regs, job, asked, canceled>>

(* handle_job_err: only a timeout cancels, and the cancel is waited for. *)
CancelLateJob ==
  /\ At("cancel_late") /\ Goes
  /\ asked' = IF rc = "timeout" THEN asked \cup {Step.h} ELSE asked
  /\ UNCHANGED <<vars, cmd, rc, own, live, bufs, regs, job, canceled>>

ChangeHandles ==
  /\ \/ At("obtain") /\ live' = live \cup {Step.h}
     \/ At("free")   /\ live' = live \ {Step.h}
  /\ Goes
  /\ UNCHANGED <<vars, cmd, rc, own, bufs, regs, job, asked, canceled>>

ChangeBuffers ==
  /\ \/ At("buffer") /\ bufs' = bufs \cup {Step.b}
     \/ At("drop")   /\ bufs' = bufs \ {Step.b}
  /\ Goes
  /\ UNCHANGED <<vars, cmd, rc, own, live, regs, job, asked, canceled>>

(* The SDK removes a callback registered with the same function and data.  *)
ChangeCallbacks ==
  /\ \/ At("reg")   /\ regs' = regs \cup {Step.cb}
     \/ At("unreg") /\ regs' = regs \ {Step.cb}
  /\ Goes
  /\ UNCHANGED <<vars, cmd, rc, own, live, bufs, job, asked, canceled>>

SetHook ==
  /\ At("hook") /\ Goes
  /\ RegisterHook(Step.hook)
  /\ own' = IF Step.keep THEN <<Step.hook>> ELSE own
  /\ UNCHANGED <<cmd, rc, live, bufs, regs, job, asked, canceled>>

ClearHook ==
  /\ \/ At("unhook") /\ \E i \in 1..Len(hooks) : own = <<hooks[i]>> /\ UnregisterHook(i)
     \/ At("unhook_last") /\ UnregisterLast
  /\ Goes
  /\ UNCHANGED <<cmd, rc, own, live, bufs, regs, job, asked, canceled>>

ChangeHandler ==
  /\ At("handler") /\ Goes
  /\ handler' = Step.to
  /\ UNCHANGED <<main, life, readEnd, writeEnd, queue, cleanup>>
  /\ UNCHANGED <<cmd, rc, own, live, bufs, regs, job, asked, canceled>>

Choose ==
  /\ \/ At("if") /\ todo' = (IF rc \in Step.in THEN Step.yes ELSE Step.no) \o Tail(todo)
     \/ At("either") /\ \E p \in {Step.yes, Step.no} : todo' = p \o Tail(todo)
  /\ UNCHANGED <<vars, cmd, rc, own, live, bufs, regs, job, asked, canceled>>

Command_ == \/ StartJob \/ JobDone \/ CancelLateJob
            \/ ChangeHandles \/ ChangeBuffers \/ ChangeCallbacks
            \/ SetHook \/ ClearHook \/ ChangeHandler \/ Choose

(* The command is over, and main goes on to PrlCleanup::join(). *)
Finish == todo = <<>> /\ StartJoin /\ UNCHANGED <<command, job, asked>>

-----------------------------------------------------------------------------
(* cancel_job, migrate_cancel_job and cancel_session, as the monitor calls *)
(* them: a freed handle makes the SDK's function fail.                     *)
JobsOf(h) ==
  IF h.data \notin live THEN {}
  ELSE CASE h.fn = "cancel_job"         -> {h.data}
         [] h.fn = "migrate_cancel_job" -> {"hJob"}
         [] h.fn = "cancel_session"     -> {}

RunHook == CallHook /\ asked' = asked \cup JobsOf(hooks[left]) /\ UNCHANGED <<command, job>>

MonitorStep ==
  \/ RunHook
  \/ (EnterRead \/ ReadSignal \/ ReadEof \/ LockHooks \/ UnlockHooks)
       /\ UNCHANGED <<command, job, asked>>

(* The dispatcher ends a job; one it was asked to cancel may also succeed. *)
JobEnds(j) ==
  /\ life = "running" /\ job[j] = "running"
  /\ \E r \in {"ok", "failed"} \cup (IF j \in asked THEN {"canceled"} ELSE {}) :
       job' = [job EXCEPT ![j] = r]
  /\ UNCHANGED <<vars, command, asked>>

OtherStep == (Startup \/ Ending \/ Signal) /\ UNCHANGED <<command, job, asked>>

JobNext == Command_ \/ WaitTimesOut \/ Finish \/ MonitorStep \/ (\E j \in Job : JobEnds(j)) \/ OtherStep

JobSpec == JobInit /\ [][JobNext]_allvars

(* The program's threads run, and a job that is asked to stop stops; a job *)
(* may otherwise take forever, and a timeout may be as long.               *)
JobFairSpec ==
  /\ JobSpec
  /\ WF_allvars(Command_) /\ WF_allvars(Finish) /\ WF_allvars(MonitorStep)
  /\ WF_allvars((Startup \/ Ending) /\ UNCHANGED <<command, job, asked>>)
  /\ WF_allvars(\E j \in asked : JobEnds(j))

-----------------------------------------------------------------------------
(* The commands whose functions are known to break a rule below, each at   *)
(* the lines JobScripts gives it.  The rule holds of every other command.  *)

(* They free a job and leave its hook behind: do_get_backup_tree (in       *)
(* set_backup, restore and backup_list) on its error return, reg and exec  *)
(* (the program's hook, and the session's when PrlVm_Connect fails)        *)
(* always.                                                                 *)
LeavesDeadHook ==
  {"set_backup", "restore", "backup_list", "create", "create_ct", "exec", "enter"}

(* They leave a hook behind whose handle is still valid. *)
LeavesHook == LeavesDeadHook \cup {"migrate", "copy_ct_template"}

(* They leave a callback registered whose data is gone: commit on its      *)
(* early returns, restore and backup-delete because they unregister other  *)
(* data than they registered.                                              *)
LeavesDeadCallback == {"restore", "backup_delete", "set", "set_hdd", "set_backup"}

LeavesCallback == LeavesDeadCallback \cup {"appliance_install", "shutdown", "vnetwork", "privnet"}

(* Whenever the monitor walks the list, every hook it may call cancels a   *)
(* handle that is not freed.                                               *)
HookDataLive ==
  cmd \notin LeavesDeadHook => \A i \in 1..Len(hooks) : hooks[i].data \in live

(* Whenever an SDK thread calls a callback, the data registered with it    *)
(* (a buffer on the stack, a string) still exists.                         *)
CallbackDataLive ==
  cmd \notin LeavesDeadCallback => \A cb \in regs : cb[2] \in bufs

(* When the command is over nothing of it is left: neither hook nor        *)
(* callback, whichever of its jobs failed, timed out or was cancelled.     *)
NothingLeftBehind ==
  todo = <<>> => /\ cmd \notin LeavesHook => hooks = <<>>
                 /\ cmd \notin LeavesCallback => regs = {}

(* While a command works a signal never kills the program, except after    *)
(* the program of prlctl enter: it sets the signals to their default, and  *)
(* not back to the cleanup handler, so a signal then skips join().         *)
SurvivesWork == life = "killed" /\ main = "work" => cmd = "enter"

(* A cancelled job ends the command: once a wait has returned "cancelled"  *)
(* no further job is started, except the logout of exec; and restore goes  *)
(* on when the user cancels the reading of the backup tree.                *)
CancelIsFinal ==
  [][\A j \in Job :
       (StartJob /\ Step.h = j /\ canceled)
         => j = "hLogout" \/ (cmd = "restore" /\ j = "hRestore")]_allvars

(* Ctrl-C ends the wait for a job whose hook is registered: if the signal  *)
(* is in the pipe and the monitor is there to read it, the wait returns    *)
(* however long the job would have taken, or the monitor was lost.         *)
Interrupted ==
  /\ At("wait")
  /\ pipe > 0 /\ monitor \notin {"unborn", "gone"}
  /\ \E i \in 1..Len(hooks) : hooks[i] = [fn |-> "cancel_job", data |-> Step.h]

(* A wait is never the step after a wait. *)
InterruptEndsWait == Interrupted ~> (~At("wait") \/ monitor = "gone")

-----------------------------------------------------------------------------
(* PrlVm.cpp, where commit_configuration unregisters its callback: "data   *)
(* pointer must be the same as in reg_event_callback".                     *)
UnregisterSameData == [][At("unreg") /\ Goes => Step.cb \in regs]_allvars

(* prlctl(8): "By default, timeouts for all operation are unlimited."      *)
DefaultIsUnlimited == [][~TimeoutGiven => ~WaitTimesOut]_allvars
=============================================================================

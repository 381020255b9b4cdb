---------------------------- MODULE ServerSession ----------------------------
(***************************************************************************)
(* A run of prlctl or prlsrvctl between the start of main and its exit     *)
(* status: the login to the dispatcher, the action, the login to a second  *)
(* server that some actions need, and the logoffs (PrlSrv.cpp, PrlCtl.cpp, *)
(* PrlSrvCtl.cpp).  The action is a job, or one of the two that have a     *)
(* module of their own: PerfStats and AgentBackup.                         *)
(***************************************************************************)
EXTENDS AgentBackup, FiniteSets

CONSTANTS
  Vms, MaxEvents,           \* PerfStats
  TimeoutGiven              \* was --timeout on the command line (g_nJobTimeout)?

VARIABLES
  command,   \* the action, by what it does with the servers
  phase,     \* where the main thread is
  server,    \* the PrlSrv whose login it is in
  awaited,   \* the login job that hJob holds
  hSrv,      \* m_hSrv of each PrlSrv
  logged,    \* m_logged
  login,     \* the login jobs, in the dispatcher
  entered,   \* what login() returned
  session,   \* the sessions, in the dispatcher
  ended,     \* did the job of the logoff succeed?
  job,       \* the job of the action, in the dispatcher
  gaveUp,    \* the wait timed out and the job was not seen to end
  ret,       \* what the action returned
  status     \* the exit status

VARIABLES options, line, cur, registered, subscribed, accepted, refused, sent, pending,
          handling, printed, unprinted, waited, stray, returned, signalled, pc, result

Stats == INSTANCE PerfStats

ASSUME ServerAssumption == Stats!Parameters /\ BackupParameters /\ TimeoutGiven \in BOOLEAN

logins == <<server, awaited, hSrv, logged, login, entered, session, ended>>
work   == <<job, gaveUp>>
outer  == <<command, phase, logins, work, ret, status>>
statistics == <<options, line, cur, registered, subscribed, accepted, refused, sent, pending,
                handling, printed, unprinted, waited, stray, returned, signalled, pc, result>>
inner  == <<statistics, backupvars>>
vars   == <<outer, inner>>

Server  == {"own", "peer"}
Attempt == {"key", "other"}      \* the public key; the password or the local login

(* "stop" may find the VM stopped; "restore" and "migrate" use the session *)
(* of a second server, and only the first cancels its job after a timeout. *)
Command == {"list", "stop", "restore", "migrate", "statistics", "abackup"}
PeerCommand == {"restore", "migrate"}
PerVm   == {"stop", "migrate", "statistics", "abackup"}
Inner   == {"statistics", "abackup"}

(* Types of the run of main() and of the actions it may do. *)
SrvTypeOK ==
  /\ command \in Command
  /\ phase \in {"create", "key", "ask", "attempt", "session", "dispatch", "run", "wait",
                "cancel", "leave", "join", "logoff", "exit", "crashed"}
  /\ server \in Server /\ awaited \in Attempt
  /\ {hSrv, logged} \subseteq [Server -> BOOLEAN]
  /\ login \in [Server -> [Attempt -> {"none", "running", "ok", "failed"}]]
  /\ {entered, ended} \subseteq [Server -> {"none", "ok", "failed"}]
  /\ session \in [Server -> {"none", "open", "closed"}]
  /\ job \in {"none", "running", "ok", "failed", "notstarted"}
  /\ ret \in {"none", "ok", "failed", "notstarted"} /\ status \in {"none", "zero", "error"}
  /\ gaveUp \in BOOLEAN
  /\ \A s \in Server : logged[s] => hSrv[s] /\ session[s] = "open"
  /\ Stats!TypeOK /\ BackupTypeOK

Init ==
  /\ command \in Command /\ phase = "create" /\ server = "own" /\ awaited = "key"
  /\ hSrv = [s \in Server |-> FALSE] /\ logged = [s \in Server |-> FALSE]
  /\ login = [s \in Server |-> [a \in Attempt |-> "none"]]
  /\ entered = [s \in Server |-> "none"] /\ ended = [s \in Server |-> "none"]
  /\ session = [s \in Server |-> "none"]
  /\ job = "none" /\ gaveUp = FALSE /\ ret = "none" /\ status = "none"
  /\ Stats!Init /\ (command # "statistics" => options = {})
  /\ BackupInit

Step(from, to) == phase = from /\ phase' = to /\ UNCHANGED <<command, status, inner>>

-----------------------------------------------------------------------------
(* PrlSrv::login.  What it returns decides whether the action goes on.     *)
LoginReturns(from, value) ==
  /\ entered' = [entered EXCEPT ![server] = value]
  /\ \/ value = "ok" /\ Step(from, IF server = "own" THEN "dispatch" ELSE "run") /\ UNCHANGED ret
     \/ value = "failed" /\ Step(from, "leave") /\ ret' = "failed"

Try(attempt) ==
  /\ login' = [login EXCEPT ![server][attempt] = "running"]
  /\ awaited' = attempt

(* PrlSrv_Create, and then: the local login; the public key, if no         *)
(* password was given and there is a key; else the password.               *)
Create ==
  \/ /\ LoginReturns("create", "failed")
     /\ UNCHANGED <<server, awaited, hSrv, logged, login, session, ended, work>>
  \/ /\ hSrv' = [hSrv EXCEPT ![server] = TRUE]
     /\ \/ Step("create", "key") /\ Try("key")
        \/ Step("create", "attempt") /\ Try("other")
        \/ Step("create", "ask") /\ UNCHANGED <<login, awaited>>
     /\ UNCHANGED <<server, logged, entered, session, ended, work, ret>>

TimedOut(status_) == TimeoutGiven /\ status_ = "running"

(* The key is accepted, or the password is asked for. *)
KeyAnswered ==
  /\ \/ login[server]["key"] = "ok" /\ Step("key", "attempt")
     \/ login[server]["key"] = "failed" /\ Step("key", "ask")
     \/ TimedOut(login[server]["key"]) /\ Step("key", "ask")
  /\ UNCHANGED <<logins, work, ret>>

(* Without a terminal, or after Ctrl-C, there is no password. *)
AskPassword ==
  \/ /\ Step("ask", "attempt") /\ Try("other")
     /\ UNCHANGED <<server, hSrv, logged, entered, session, ended, work, ret>>
  \/ /\ LoginReturns("ask", "failed")
     /\ UNCHANGED <<server, awaited, hSrv, logged, login, session, ended, work>>

(* A mistake: the login job that timed out is not told from one that ended. *)
LoginAnsweredLate ==
  /\ login[server][awaited] = "ok" \/ TimedOut(login[server][awaited])
  /\ Step("attempt", "session") /\ UNCHANGED <<logins, work, ret>>

LoginAnswered ==
  \/ /\ login[server][awaited] = "ok" /\ Step("attempt", "session")
     /\ UNCHANGED <<logins, work, ret>>
  \/ /\ login[server][awaited] = "failed" \/ TimedOut(login[server][awaited])
     /\ LoginReturns("attempt", "failed")
     /\ UNCHANGED <<server, awaited, hSrv, logged, login, session, ended, work>>

(* The session is made noninteractive and its ids are read.  If one of     *)
(* these calls fails, the session is there and m_logged is not set.        *)
ReadSession ==
  /\ \/ logged' = [logged EXCEPT ![server] = TRUE] /\ LoginReturns("session", "ok")
     \/ UNCHANGED logged /\ LoginReturns("session", "failed")
  /\ UNCHANGED <<server, awaited, hSrv, login, session, ended, work>>

-----------------------------------------------------------------------------
(* run_action and run_disp_action: the VM is looked for, twice, and its    *)
(* state is read; a result that cannot be read leaves a null pointer.      *)
NeedsVm == command \in PerVm /\ ~(command = "statistics" /\ options \cap {"all", "srv"} # {})

Dispatch ==
  /\ \/ NeedsVm /\ Step("dispatch", "leave") /\ ret' = "failed" /\ UNCHANGED server
     \/ NeedsVm /\ Step("dispatch", "crashed") /\ UNCHANGED <<ret, server>>
     \/ Step("dispatch", "run") /\ UNCHANGED <<ret, server>>
     \/ command \in PeerCommand /\ Step("dispatch", "create") /\ server' = "peer" /\ UNCHANGED ret
  /\ UNCHANGED <<awaited, hSrv, logged, login, entered, session, ended, work>>

(* A mistake: the PrlSrv of the second server ends with the block it is    *)
(* logged in in.                                                           *)
RunAfterLeave ==
  /\ command \notin Inner /\ Step("run", "wait")
  /\ job' = "running"
  /\ logged' = [logged EXCEPT !["peer"] = FALSE]
  /\ session' = [session EXCEPT !["peer"] = IF logged["peer"] THEN "closed" ELSE @]
  /\ UNCHANGED <<server, awaited, hSrv, login, entered, ended, gaveUp, ret>>

Run ==
  /\ command \notin Inner /\ Step("run", "wait")
  /\ job' = "running"
  /\ UNCHANGED <<logins, gaveUp, ret>>

Wait ==
  /\ \/ /\ job # "running" /\ Step("wait", "leave")
        /\ ret' = job /\ UNCHANGED gaveUp
     \/ /\ TimedOut(job) /\ command = "restore" /\ Step("wait", "cancel")
        /\ ret' = "failed" /\ UNCHANGED gaveUp
     \/ /\ TimedOut(job) /\ command # "restore" /\ Step("wait", "leave")
        /\ ret' = "failed" /\ gaveUp' = TRUE
  /\ UNCHANGED <<logins, job>>

(* handle_job_err waits one minute for the job to be cancelled. *)
Cancelled ==
  /\ Step("cancel", "leave")
  /\ gaveUp' = (job = "running")
  /\ UNCHANGED <<logins, job, ret>>

(* The two actions that are modules. *)
InnerStep ==
  /\ phase = "run"
  /\ \/ command = "statistics" /\ Stats!Next /\ UNCHANGED backupvars
     \/ command = "abackup" /\ BackupNext /\ UNCHANGED statistics
  /\ UNCHANGED outer

InnerReturns ==
  /\ \/ command = "statistics" /\ line = "done" /\ ret' = (IF returned = "ok" THEN "ok" ELSE "failed")
     \/ command = "abackup" /\ at = "done" /\ ret' = (IF failed THEN "failed" ELSE "ok")
  /\ Step("run", "leave")
  /\ UNCHANGED <<logins, work>>

InnerCrashes ==
  /\ command = "statistics" /\ line = "crashed"
  /\ Step("run", "crashed")
  /\ UNCHANGED <<logins, work, ret>>

-----------------------------------------------------------------------------
(* A mistake: the destructor frees the handle only. *)
LogoffForgotten(s) ==
  /\ hSrv' = [hSrv EXCEPT ![s] = FALSE] /\ logged' = [logged EXCEPT ![s] = FALSE]
  /\ UNCHANGED <<server, awaited, login, entered, session, ended>>

(* PrlSrv::logoff, and clear(), of the second server when the action       *)
(* returns and of the first in main.  Only a PrlSrv that is logged in is   *)
(* logged off, and whatever the job says it is not logged in any more.     *)
Logoff(s) ==
  IF logged[s]
  THEN /\ logged' = [logged EXCEPT ![s] = FALSE]
       /\ hSrv' = [hSrv EXCEPT ![s] = FALSE]
       /\ \/ session' = [session EXCEPT ![s] = "closed"] /\ ended' = [ended EXCEPT ![s] = "ok"]
          \/ UNCHANGED session /\ ended' = [ended EXCEPT ![s] = "failed"]
       /\ UNCHANGED <<server, awaited, login, entered>>
  ELSE UNCHANGED logins

Leave  == Step("leave", "join") /\ Logoff("peer") /\ UNCHANGED <<work, ret>>
Join   == Step("join", "logoff") /\ UNCHANGED <<logins, work, ret>>

(* To stop a VM that is not started is no error. *)
get_error(action, r) == IF action = "stop" /\ r = "notstarted" THEN "ok" ELSE r

Exit ==
  /\ phase = "logoff" /\ phase' = "exit"
  /\ Logoff("own")
  /\ status' = IF get_error(command, ret) = "ok" THEN "zero" ELSE "error"
  /\ UNCHANGED <<command, work, ret, inner>>

Main ==
  \/ Create \/ KeyAnswered \/ AskPassword \/ LoginAnswered \/ ReadSession \/ Dispatch
  \/ Run \/ Wait \/ Cancelled \/ InnerReturns \/ InnerCrashes \/ Leave \/ Join \/ Exit

-----------------------------------------------------------------------------
(* The dispatcher: jobs end when they like, also after prlctl gave up, and *)
(* a login that succeeds while the connection is there opens a session.    *)
LoginEnds(s, a) ==
  /\ hSrv[s] /\ login[s][a] = "running"
  /\ \/ /\ login' = [login EXCEPT ![s][a] = "ok"]
        /\ session' = [session EXCEPT ![s] = "open"]
     \/ login' = [login EXCEPT ![s][a] = "failed"] /\ UNCHANGED session
  /\ UNCHANGED <<command, phase, server, awaited, hSrv, logged, entered, ended, work, ret, status, inner>>

JobEnds ==
  /\ job = "running"
  /\ job' \in {"ok", "failed"} \cup (IF command = "stop" THEN {"notstarted"} ELSE {})
  /\ UNCHANGED <<command, phase, logins, gaveUp, ret, status, inner>>

Next ==
  /\ phase \notin {"exit", "crashed"}
  /\ Main \/ InnerStep \/ JobEnds \/ \E s \in Server, a \in Attempt : LoginEnds(s, a)

Spec == Init /\ [][Next]_vars

(* The main thread and the callback run, and a wait with a timeout ends.   *)
(* So do the jobs of PerfStats, which have a timeout of their own; but the *)
(* list of the VMs is waited for without a limit unless --timeout is given.*)
StatsRun == phase = "run" /\ command = "statistics" /\ UNCHANGED <<outer, backupvars>>
ListEnds == TimeoutGiven \/ ~Stats!Has("all")
Runs     == line \notin {"done", "crashed"} /\ (line = "list" => ListEnds)

FairSpec ==
  /\ Spec
  /\ WF_vars(StatsRun /\ Runs /\ Stats!Main)
  /\ WF_vars(StatsRun /\ Runs /\ Stats!TimeOut)
  /\ WF_vars(StatsRun /\ Runs /\ Stats!Signal)

-----------------------------------------------------------------------------
(* print_statistics waits for the statistics of the VM it asked, as        *)
(* PerfStats has it.                                                       *)
WaitsForItsVm == Stats!WaitsForItsVm

(* Without --loop print_statistics ends, whether or not statistics come    *)
(* and whichever of its calls fail, if the list of the VMs does.           *)
StatisticsEnd ==
  (phase = "run" /\ command = "statistics" /\ ~Stats!Has("loop") /\ ListEnds)
    ~> (line \in {"done", "crashed"})

(* Every session that was opened is closed at exit, of both servers and on *)
(* every path, unless login() returned an error although (or before) one   *)
(* was opened, or the job of the logoff failed.                            *)
SessionsEnded ==
  phase = "exit" =>
    \A s \in Server : session[s] = "open" => entered[s] = "failed" \/ ended[s] = "failed"

(* The session of the second server, which the job uses, is not closed     *)
(* while the job runs, unless the wait timed out and the job was not seen  *)
(* to be cancelled.                                                        *)
PeerOutlivesJob == job = "running" /\ session["peer"] = "closed" => gaveUp

(* What "successfully" means for each command: every source of statistics  *)
(* has been subscribed; the backup is committed; the job has succeeded.    *)
Succeeded ==
  CASE command = "statistics" -> line = "done" /\ Stats!Due \subseteq accepted
    [] command = "abackup"    -> backup = "committed"
    [] command = "stop"       -> job \in {"ok", "notstarted"}
    [] OTHER                  -> job = "ok"

(* Exit status 0 is given only to a command that succeeded, except when    *)
(* the job of a subscription to statistics, or the commit of a backup that *)
(* was copied without an error, was tried and failed.                      *)
SuccessIsReal ==
  status = "zero" =>
    \/ Succeeded
    \/ command = "statistics" /\ refused # {}
    \/ command = "abackup" /\ ~failed /\ closeFailed

(* man/prlctl.8 and man/prlsrvctl.8: "If a command fails, it returns the   *)
(* appropriate error code."                                                *)
ExitStatusTells == status = "zero" => Succeeded
=============================================================================

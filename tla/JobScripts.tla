------------------------------ MODULE JobScripts ------------------------------
(***************************************************************************)
(* What each command does with its SDK jobs, with the hooks that cancel    *)
(* them and with the event callbacks, as the sequence of steps of its      *)
(* function (PrlBackup.cpp, PrlVm.cpp, PrlDev.cpp, PrlSrv.cpp, Utils.cpp). *)
(* JobCommands executes the steps.  Handles and buffers carry the names of *)
(* the variables that hold them; a PrlHandle frees its handle, and a       *)
(* buffer ends, where the function returns.                                *)
(***************************************************************************)
EXTENDS Naturals, Sequences

Start(j)        == <<[op |-> "start", h |-> j]>>
Wait(j)         == <<[op |-> "wait", h |-> j, own |-> FALSE]>>
WaitAtMost(j)   == <<[op |-> "wait", h |-> j, own |-> TRUE]>>   \* a limit of its own
CancelLate(j)   == <<[op |-> "cancel_late", h |-> j]>>          \* handle_job_err
Obtain(h)       == <<[op |-> "obtain", h |-> h]>>               \* a handle that is no job
Free(h)         == <<[op |-> "free", h |-> h]>>
Buffer(b)       == <<[op |-> "buffer", b |-> b]>>
Drop(b)         == <<[op |-> "drop", b |-> b]>>
Reg(fn, b)      == <<[op |-> "reg", cb |-> <<fn, b>>]>>
Unreg(fn, b)    == <<[op |-> "unreg", cb |-> <<fn, b>>]>>
AddHook(fn, h)  == <<[op |-> "hook", hook |-> [fn |-> fn, data |-> h], keep |-> FALSE]>>
KeepHook(fn, h) == <<[op |-> "hook", hook |-> [fn |-> fn, data |-> h], keep |-> TRUE]>>
Unhook          == <<[op |-> "unhook"]>>                        \* the hook kept last
UnhookLast      == <<[op |-> "unhook_last"]>>
Handler(x)      == <<[op |-> "handler", to |-> x]>>
(* The result of the last wait decides; something else decides. *)
If(S, p, q)     == <<[op |-> "if", in |-> S, yes |-> p, no |-> q]>>
Either(p, q)    == <<[op |-> "either", yes |-> p, no |-> q]>>

-----------------------------------------------------------------------------
(* A job and no hook: suspend and the like. *)
RunJob(j) == Start(j) \o Wait(j) \o Free(j)

(* get_vm_config by one identifier: what to do with the VM, and what if    *)
(* there is none, which is one of the failures of the job.  The result of  *)
(* a job may also be unreadable.                                           *)
Config(found, missing) ==
  RunJob("hConfig") \o If({"ok"}, Either(found, <<>>),
                          If({"failed"}, Either(missing, <<>>), <<>>))

(* By the identifier first, by the name if there is none. *)
FindVm(found, missing) == Config(found, Config(found, missing))

mount           == RunJob("hJob")
unreg           == RunJob("hJob")
snapshot_delete == RunJob("hJob")
screenshot      == RunJob("hJob")
install_tools   == RunJob("hJob")
update          == RunJob("hJob")
internal_cmd    == RunJob("hJob")
reinstall       == RunJob("hJob")
convertCT       == Either(RunJob("hJob"), <<>>)   \* not of a VM
register_vm     == RunJob("hJob")
install_license == RunJob("hJob")
restart_shaping == RunJob("hJob")
ct_templates    == Either(RunJob("hList"), RunJob("hJob"))   \* List, Remove

start == Reg("start", "NULL") \o Start("hJob") \o Wait("hJob")
           \o Unreg("start", "NULL") \o Free("hJob")

(* With force a VM that may be running is stopped first; if that fails the *)
(* VM is removed only if its state is unknown.                             *)
destroy == LET delete == RunJob("hDelete")
           IN  Either(RunJob("hStop") \o If({"ok"}, delete, Either(delete, <<>>)), delete)

reg == Reg("progress", "NULL") \o Start("hJob") \o AddHook("cancel_job", "hJob")
         \o Wait("hJob") \o Unreg("progress", "NULL") \o Free("hJob")

(* A mistake: the job is freed before its hook is taken away. *)
CloneFreesFirst == Reg("progress", "NULL") \o Start("hJob") \o KeepHook("cancel_job", "hJob")
                     \o Wait("hJob") \o Free("hJob") \o Unreg("progress", "NULL") \o Unhook

clone == Reg("progress", "NULL") \o Start("hJob") \o KeepHook("cancel_job", "hJob")
           \o Wait("hJob") \o Unreg("progress", "NULL") \o Unhook \o Free("hJob")

(* create_ct goes on without the default configuration if only the result *)
(* of its job cannot be read; what fails then is a call of the SDK.        *)
create_ct == Start("hConfig") \o Wait("hConfig")
               \o If({"ok"}, Either(reg, <<>>), <<>>) \o Free("hConfig")

(* From a template, which is looked up and cloned, or with the default     *)
(* configuration for the node, whose failure is only printed.              *)
create_vm == Either(Config(clone, <<>>),
                    Either(RunJob("hSrvConf"), <<>>) \o Either(reg, <<>>))

(* The callback is registered with the VM and the hook cancels by the VM's *)
(* handle.  After an error the function may return before the end.         *)
migrate == LET end == Unhook \o Free("hJob")
           IN  Start("hJob") \o Reg("migrate", "NULL")
                 \o KeepHook("migrate_cancel_job", "hVm") \o Wait("hJob")
                 \o Unreg("migrate", "NULL") \o If({"ok"}, end, Either(end, <<>>))

(* commit_configuration returns at once when the wait fails or when the    *)
(* result of the job cannot be read; then follows a commit that succeeded. *)
commit(then) ==
  LET end == Free("hJob") \o Drop("vm_uuid")
  IN  Buffer("vm_uuid") \o Reg("commit", "vm_uuid") \o Reg("progress", "NULL")
        \o Start("hJob") \o Wait("hJob")
        \o If({"timeout"}, end,
              Either(Unreg("commit", "vm_uuid") \o Unreg("progress", "NULL") \o end
                       \o If({"ok"}, then, <<>>), end))

(* PrlVm::set begins with jobs that only some options ask for (a device    *)
(* connected, a password), and with the edit session, whose handle is      *)
(* there until set returns; any setting may fail.                          *)
edit(settings) ==
  Either(RunJob("hConnect"), <<>>)
    \o If({"none", "ok"},
          Either(RunJob("hPasswd"), <<>>)
            \o If({"none", "ok"},
                  Start("hEdit") \o Wait("hEdit") \o If({"ok"}, Either(settings, <<>>), <<>>)
                    \o Free("hEdit"),
                  <<>>),
          <<>>)

(* It ends with the NVRAM and a check of the processors, if asked, with    *)
(* the commit, if a setting has changed something, or with that of the     *)
(* encryption, and with the configuration read again.                      *)
save ==
  LET refresh == RunJob("hRefresh")
      send    == Either(commit(refresh), RunJob("hEncrypt") \o If({"ok"}, refresh, <<>>))
  IN  Either(RunJob("hNvram"), <<>>)
        \o If({"ok"}, Either(Either(RunJob("hValidate"), <<>>) \o send, <<>>), <<>>)

(* A floppy's image is made by a job without a hook. *)
set == edit(Either(save, RunJob("hFloppy") \o If({"ok"}, Either(save, <<>>), <<>>)))

(* The image of a disk that is added, or that is set to another size. *)
create_image == Start("hImage") \o AddHook("cancel_job", "hImage") \o Wait("hImage")
                  \o UnhookLast \o Free("hImage")

(* prlctl set --device-add hdd: the image first, then the configuration. *)
set_hdd == edit(create_image \o If({"ok"}, Either(save, <<>>), <<>>))

-----------------------------------------------------------------------------
(* A mistake: exec resets the signals although it has not changed them. *)
ExecResetsSignals(enter) ==
  (IF enter THEN Handler("terminal") ELSE <<>>)
    \o Start("hExecJob") \o AddHook("cancel_job", "hExecJob") \o Wait("hExecJob")
    \o CancelLate("hExecJob") \o Free("hExecJob") \o Handler("default")
    \o Unhook \o RunJob("hLogout")

(* exec: a session in the guest, a console connection with a timeout of    *)
(* its own, the program, and the logout.  With enter, signals go to the    *)
(* terminal's handler, and after it to the default action.                 *)
ExecProgram(enter) ==
  (IF enter THEN Handler("terminal") ELSE <<>>)
    \o Start("hExecJob") \o AddHook("cancel_job", "hExecJob") \o Wait("hExecJob")
    \o CancelLate("hExecJob") \o Free("hExecJob")
    \o (IF enter THEN Handler("default") ELSE <<>>)
    \o Unhook \o RunJob("hLogout")

exec(enter) ==
  LET session ==
        Obtain("hVmGuest") \o KeepHook("cancel_session", "hVmGuest")
          \o Start("hIoJob") \o WaitAtMost("hIoJob")
          \o If({"ok"}, ExecProgram(enter), <<>>)
          \o Free("hIoJob") \o Free("hVmGuest")
  IN  Start("hLoginJob") \o Wait("hLoginJob")
        \o If({"ok"}, Either(session, <<>>), <<>>)
        \o Free("hLoginJob")

-----------------------------------------------------------------------------
(* Mistakes: the hook stays in the list; other data is unregistered than   *)
(* was registered.                                                         *)
BackupKeepsHook ==
  Buffer("vm_uuid") \o Start("hBackup") \o Reg("backup", "vm_uuid")
    \o KeepHook("cancel_job", "hBackup") \o Wait("hBackup") \o CancelLate("hBackup")
    \o Free("hBackup") \o Unreg("backup", "vm_uuid") \o Drop("vm_uuid")

BackupUnregistersNull ==
  Buffer("vm_uuid") \o Start("hBackup") \o Reg("backup", "vm_uuid")
    \o KeepHook("cancel_job", "hBackup") \o Wait("hBackup") \o CancelLate("hBackup")
    \o Unhook \o Free("hBackup") \o Unreg("backup", "NULL") \o Drop("vm_uuid")

do_vm_backup ==
  Buffer("vm_uuid") \o Start("hBackup") \o Reg("backup", "vm_uuid")
    \o KeepHook("cancel_job", "hBackup") \o Wait("hBackup") \o CancelLate("hBackup")
    \o Unhook \o Free("hBackup") \o Unreg("backup", "vm_uuid") \o Drop("vm_uuid")

backup == FindVm(do_vm_backup, <<>>)

(* A mistake: the loop goes on after a backup that was cancelled. *)
BackupNodeGoesOn(vms) ==
  LET rest[n \in 0..vms] ==
        IF n = 0 THEN <<>>
        ELSE RunJob("hConfig") \o If({"ok"}, Either(do_vm_backup, <<>>), <<>>) \o rest[n - 1]
  IN  RunJob("hList") \o If({"ok"}, Either(rest[vms], <<>>), <<>>)

(* The VMs of the node, one after the other; one whose configuration       *)
(* cannot be had is left out, and a backup that was cancelled ends the     *)
(* loop.                                                                   *)
backup_node(vms) ==
  LET rest[n \in 0..vms] ==
        IF n = 0 THEN <<>>
        ELSE RunJob("hConfig")
               \o If({"ok"},
                     Either(do_vm_backup \o If({"canceled"}, <<>>, rest[n - 1]), rest[n - 1]),
                     rest[n - 1])
  IN  RunJob("hList") \o If({"ok"}, Either(rest[vms], <<>>), <<>>)

(* The error return leaves the hook of the job, which is then freed. *)
do_get_backup_tree ==
  Start("hTree") \o KeepHook("cancel_job", "hTree") \o Wait("hTree")
    \o If({"ok"}, Unhook, <<>>) \o Free("hTree")

(* prlctl set --backup-add without --disk: the disks of the backup are     *)
(* those its tree names.                                                   *)
set_backup == edit(do_get_backup_tree \o If({"ok"}, Either(save, <<>>), <<>>))

(* Of all VMs, or of one, which need not exist any more: then what was     *)
(* given is taken for its uuid.  What is here is asked for if the list     *)
(* shows it.                                                               *)
backup_list ==
  LET print == Either(RunJob("hList") \o Either(RunJob("hConfig"), <<>>), <<>>)
      tree  == do_get_backup_tree \o If({"ok"}, Either(print, <<>>), <<>>)
  IN  Either(tree, FindVm(tree, tree))

(* restore and backup-delete register vm_id.c_str() and unregister NULL,   *)
(* and do not free the job.                                                *)
BackupJob(j) ==
  Start(j) \o Reg("backup", "vm_id") \o KeepHook("cancel_job", j) \o Wait(j)
    \o CancelLate(j) \o Unreg("backup", "NULL") \o Unhook

(* By VM, which need not exist any more, or by backup, whose VM the backup *)
(* tree tells; a tree that cannot be had does not stop the restore.        *)
restore == Buffer("vm_id")
             \o Either(FindVm(BackupJob("hRestore"), BackupJob("hRestore")),
                       do_get_backup_tree \o BackupJob("hRestore"))
             \o Drop("vm_id")

backup_delete == Buffer("vm_id")
                   \o Either(FindVm(BackupJob("hRemove"), BackupJob("hRemove")),
                             BackupJob("hRemove"))
                   \o Drop("vm_id")

-----------------------------------------------------------------------------
(* A mistake: after an error convert returns with its hook in the list. *)
ConvertReturnsEarly ==
  Start("hJob") \o KeepHook("cancel_job", "hJob") \o Reg("server", "NULL")
    \o Wait("hJob") \o Unreg("server", "NULL") \o If({"ok"}, Unhook, <<>>) \o Free("hJob")

convert_vm == Start("hJob") \o KeepHook("cancel_job", "hJob") \o Reg("server", "NULL")
                \o Wait("hJob") \o Unreg("server", "NULL") \o Unhook \o Free("hJob")

(* The callback's data is a member of the parameters in main. *)
appliance_install ==
  Reg("server", "batch") \o Start("hJob") \o KeepHook("cancel_job", "hJob")
    \o Wait("hJob") \o Unreg("server", "NULL") \o Unhook \o Free("hJob")

copy_ct_template ==
  LET end == Unhook \o Free("hJob")
  IN  Start("hJob") \o KeepHook("cancel_job", "hJob") \o Wait("hJob")
        \o If({"ok"}, end, Either(end, <<>>))

shutdown == Reg("server", "NULL") \o Start("hJob") \o Wait("hJob")
              \o If({"ok"}, Unreg("server", "NULL"), <<>>) \o Free("hJob")

(* A change of the lists of networks, with the callback of the server,     *)
(* which stays after an error.                                             *)
ChangeNetwork == RunJob("hJob") \o If({"ok"}, Unreg("server", "NULL"), <<>>)

(* find_vnetwork_handle and fill_vnetwork_handle: a list, a search in it   *)
(* and calls of the SDK, each of which may fail.                           *)
FindNetwork(then) ==
  Either(RunJob("hList") \o If({"ok"}, Either(then, <<>>), <<>>), <<>>)

(* A bridged network is complete when it is added; another is changed as   *)
(* Set does.                                                               *)
vnetwork ==
  LET add  == RunJob("hAdd") \o If({"ok"}, Either(<<>>, FindNetwork(ChangeNetwork)), <<>>)
      info == Unreg("server", "NULL")
  IN  Either(RunJob("hList"),
             Reg("server", "NULL")
               \o Either(FindNetwork(Either(ChangeNetwork, info)), Either(add, <<>>)))

(* Set and Del look the network up, and go on with a new one when it is    *)
(* not there: prl_err returns the result of the last call, a success.      *)
priv_network ==
  LET change == Reg("server", "NULL") \o ChangeNetwork
      list   == RunJob("hList") \o If({"ok"}, Unreg("server", "NULL"), <<>>)
  IN  Either(FindNetwork(change), Either(change, list))

(* prlctl monitor, until the end of the input. *)
monitor_events == Reg("monitor", "this") \o Unreg("monitor", "this")

-----------------------------------------------------------------------------
send_problem_report ==
  Start("hJob") \o KeepHook("cancel_job", "hJob") \o WaitAtMost("hJob")
    \o Unhook \o Free("hJob")

(* Assembled by a job, and sent or put on the standard output. *)
Deliver == RunJob("hAssembly") \o If({"ok"}, Either(send_problem_report, <<>>), <<>>)

(* The report in the packed form; a server that does not know the request  *)
(* is an old one, with a job of its own.                                   *)
ReportJob(old) == Start("hReport") \o Wait("hReport")
                    \o If({"ok"}, Either(Deliver, <<>>), If({"failed"}, Either(old, <<>>), <<>>))
                    \o Free("hReport")

(* PrlVm::problem_report takes the success of the second job for an error, *)
(* and after a failure there is no result: nothing is delivered from an    *)
(* old server.                                                             *)
vm_problem_report == ReportJob(RunJob("hOldReport"))

srv_problem_report ==
  Either(ReportJob(RunJob("hOldReport") \o If({"ok"}, Either(Deliver, <<>>), <<>>)),
         Either(Deliver, <<>>))   \* stand-alone

-----------------------------------------------------------------------------
(* Each step of the change of a profile only after the one before. *)
set_user ==
  Start("j1") \o Wait("j1")
    \o If({"ok"}, Start("j2") \o Wait("j2")
                    \o If({"ok"}, Either(RunJob("j3"), <<>>), <<>>) \o Free("j2"),
          <<>>)
    \o Free("j1")

(* Preferences of the server under an edit session; List does not edit.    *)
(* The VM of Set is looked up in the list of all of them.                  *)
usbassign ==
  LET change == RunJob("hJob")
                  \o If({"ok"}, RunJob("hPrefs") \o If({"ok"}, Either(RunJob("hJob"), <<>>), <<>>),
                        <<>>)
  IN  Either(RunJob("hPrefs"),
             Either(RunJob("hList") \o If({"ok"}, Either(change, <<>>), <<>>), change))

(* The state is in the configuration. *)
status_vm == FindVm(<<>>, <<>>)

(* prlctl list with the addresses of a VM: a session in the guest, each of *)
(* whose waits but the logout's is limited to a minute.                    *)
get_real_ip ==
  Start("hLoginJob") \o WaitAtMost("hLoginJob")
    \o If({"ok"}, Either(Start("hIoJob") \o WaitAtMost("hIoJob") \o Free("hIoJob")
                           \o RunJob("hLogout"), <<>>), <<>>)
    \o Free("hLoginJob")

(* All VMs or one; of each, with -i, the state of its tools. *)
list_vm ==
  LET row == Either(RunJob("hTools"), Either(get_real_ip, <<>>))
  IN  Either(RunJob("hList") \o If({"ok"}, Either(row, <<>>), <<>>), FindVm(row, <<>>))

-----------------------------------------------------------------------------
Script == [
  suspend           |-> RunJob("hJob"),
  mount             |-> mount,
  unregister        |-> unreg,
  snapshot_delete   |-> snapshot_delete,
  capture           |-> screenshot,
  install_tools     |-> install_tools,
  update            |-> update,
  internal          |-> internal_cmd,
  reinstall         |-> reinstall,
  convert_ct        |-> convertCT,
  register          |-> register_vm,
  install_license   |-> install_license,
  restart_shaping   |-> restart_shaping,
  ct_templates      |-> ct_templates,
  start             |-> start,
  destroy           |-> destroy,
  create_ct         |-> create_ct,
  create            |-> create_vm,
  clone             |-> clone,
  migrate           |-> migrate,
  set               |-> set,
  set_hdd           |-> set_hdd,
  set_backup        |-> set_backup,
  exec              |-> exec(FALSE),
  enter             |-> exec(TRUE),
  backup            |-> backup,
  backup_node       |-> backup_node(2),
  backup_list       |-> backup_list,
  restore           |-> restore,
  backup_delete     |-> backup_delete,
  convert           |-> convert_vm,
  appliance_install |-> appliance_install,
  copy_ct_template  |-> copy_ct_template,
  shutdown          |-> shutdown,
  vnetwork          |-> vnetwork,
  privnet           |-> priv_network,
  monitor           |-> monitor_events,
  problem_report    |-> vm_problem_report,
  node_report       |-> srv_problem_report,
  user_set          |-> set_user,
  usb               |-> usbassign,
  status            |-> status_vm,
  list              |-> list_vm ]

Command == DOMAIN Script

Job == {"hJob", "hDelete", "hStop", "hImage", "hLoginJob", "hIoJob", "hExecJob",
        "hLogout", "hConfig", "hBackup", "hTree", "hRestore", "hRemove", "hAdd",
        "hSrvConf", "hList", "hPrefs", "hReport", "hOldReport", "hAssembly", "hTools",
        "hConnect", "hPasswd", "hEdit", "hNvram", "hValidate", "hEncrypt", "hRefresh",
        "hFloppy", "j1", "j2", "j3"}
=============================================================================

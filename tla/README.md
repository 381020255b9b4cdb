# Verification of prlctl

TLA+ models of `prlctl` and `prlsrvctl`, the command line clients of the
Virtuozzo dispatcher (`src/src/*.cpp`), the TLC configurations that check them
and theorems about them checked by TLAPS. Paths below are relative to the
repository.

## 1. The system

A run of `prlctl` is one process with three kinds of threads:

* the **main thread** parses the command line, logs in to the dispatcher
  through the SDK, runs one action (`PrlSrv::run_action`), and logs off. Nearly
  every action starts one or more asynchronous *jobs* in the dispatcher and waits
  for each (`get_job_retcode`);
* the **monitor thread** (`PrlCleanup::monitor`) reads signal numbers from a
  pipe and calls the *hooks*, which cancel the job the main thread waits for;
* the **threads of the SDK** call event handlers that the main thread has
  registered with a server or a VM, each with a data pointer.

### Inventory

| component | files | state | operations | what is hard | what makes it correct |
|---|---|---|---|---|---|
| Event object | `EventSyncObject*` | flag, mutex, condition | Signal, Reset, Wait | interleaving, spurious wakeup, timeout racing a signal | no lost wakeup; the result of Wait is true |
| Ctrl-C | `PrlCleanup*`, `PrlSignal*`, the two mains | hooks, pipe, handlers, monitor | register, unregister, run, do_cleanup, join | signals at any instruction, two threads on one list, shutdown | list not changed under the iterator; signals served; join returns |
| Commands and jobs | `PrlVm.cpp`, `PrlBackup.cpp`, `PrlSrv.cpp`, `PrlDev.cpp`, `Utils.cpp` | handles, hooks, registered callbacks, buffers | start, wait, cancel, early returns | each failure path must undo what was registered; cancel racing success; timeouts | hooks and callbacks have live data; nothing left behind; cancel is final |
| Snapshot with `--wait` | `PrlVm.cpp:572-732` | event, m_wait, m_VmState | snapshot_create, snapshot_switch_to, handle | stale VM state, event before the wait, lost registration | success announced only when memory is written; the wait ends |
| Performance statistics | `PrlStat.cpp` | one event for all VMs | print_statistics, perfstats_callback | late event of one VM ends the wait for the next | every VM that answers is printed |
| Login and sessions | `PrlSrv.cpp:161-302`, `504-720` | m_hSrv, m_logged, m_sessionid, VM list | login, logoff, run_action | two authentication attempts, partial failure | a session that was opened is closed |
| Backup by changed blocks | `PrlBackup.cpp:218-494` | bitmap, backup handle, files | begin, store, commit, rollback | failure of one disk, of commit | committed only if all disks are stored; every changed block is copied |
| VM configuration | `PrlVm.cpp` (`set` and its helpers) | m_updated, edit session, devices | begin edit, one change per option, commit | a change that fails in the middle; stale configuration | no change without commit, no commit without change |
| Devices, shared folders, boot list | `PrlDev*`, `PrlSharedFolder*`, `PrlVm.cpp:1467-1640` | device lists and indexes | add, set, delete, connect | indexes after deletion, order of boot devices | indexes unique, boot order total |
| Server settings | `PrlDisp*` | preferences, edit session | set, networks, assignment modes | partial failure | as for VM configuration |
| Snapshot tree | `PrlSnapshot*` | tree | parse, print | depth, siblings | print shows each snapshot once |
| Command line | `CmdParam*`, `GetOpt*` | CmdParamData | getopt, parsers | arithmetic, short/long options, missing values | value ranges, no option is skipped |
| Lists and output | `PrlList*`, `PrlOutFormatter*` | rows, nesting | list, open/close objects | sorting, nesting | well-nested output |
| Types, conversions, logging | `PrlTypes.h`, `Utils*`, `Logger*` | log level, timeout | names, UUIDs, URLs, exit codes | boundaries | exit code is not 0 after an error |
| Console, Windows, build | `PrlEnter.cpp`, `EventSyncObject_win.cpp`, `Makefile` | - | - | - | - |

How they interact: a command *registers* a hook (shared list, `m_mutex`) and
callbacks (in the SDK), *calls* the dispatcher (jobs), and *is told* by events
(SDK threads, which signal a `CEventSyncObject`). The shared state is the list of
hooks, the event objects and the job handles; everything else belongs to the main
thread.

## 2. Modules

| module | models | extends / instantiates |
|---|---|---|
| `AutoResetEvent` | the contract in `EventSyncObject.h`: an abstract specification | - |
| `EventSync` | `EventSyncObject_unix.cpp` | instantiates `AutoResetEvent` (refinement) |
| `PrlCleanup` | hooks, signals, pipe, monitor, join, the two mains | - |
| `JobScripts` | what each command does, as the sequence of its steps (constants only) | - |
| `JobCommands` | the whole program: one command, its jobs, callbacks and Ctrl-C | `PrlCleanup`, `JobScripts` |
| `Snapshot` | the wait for a snapshot's memory, with the SDK thread | instantiates `EventSync` |
| `AgentBackup` | `do_vm_abackup` and `store` | - |
| `PerfStats` | `print_statistics` and its callback | instantiates `EventSync` |
| `ServerSession` | a run between the start of main and the exit status: login, action, second server, logoff | `AgentBackup`; instantiates `PerfStats` |
| `SetTransaction` | what `set` promises: an abstract specification | - |
| `SetSession` | the editing session of `PrlVm::set` and `PrlDisp::set` | instantiates `SetTransaction` (refinement) |
| `SetOptions` | the calls that each option makes, in their order (constants only) | `Lists` |
| `DeviceOptions` | the same for the options of devices (`PrlDev.cpp`) | `SetOptions` |
| `CommandLine` | the parsers of the two `set` commands (`CmdParam.cpp`) | `DeviceOptions` |
| `SetCommand` | a command line from its first option to the end of `set` | `CommandLine`; instantiates `SetSession` |
| `Lists` | what the code does with its lists: keep what belongs to a set, delete the first that does | - |
| `BootList` | the boot order of a VM | `Lists` |
| `NetworkLists` | network classes and shaping entries of the server | `Lists` |
| `ConfigLists` | the two kinds of lists side by side | `BootList`, `NetworkLists` |
| `EventSyncProofs`, `SnapshotProofs`, `SetSessionProofs` | theorems | the module of that name |
| `JobCommandsProofs` | theorems: of the hooks and signals, of every script, of the program | `JobCommands` |
| `ServerSessionProofs` | theorems, first of `AgentBackup`, then of the whole | `ServerSession` |
| `ListsProofs` | what `Keep` and `DropFirst` do to every list | `Lists` |
| `ConfigListsProofs` | theorems of the two kinds of lists | `ConfigLists`, `ListsProofs` |
| `SetCommandProofs` | theorems: of every plan, of every line, of the two together | `SetCommand`, `ListsProofs`; instantiates `SetSessionProofs` |

### EventSync

A critical section contains no blocking call except `pthread_cond_wait`, so each
section is one action and the section of a waiter that blocks is two:
`WaitBlock` (up to the wait, which releases the mutex) and `WaitReturn` (from the
moment the mutex is owned again). `pc[t]` says where thread `t` is: `idle`,
`blocked` in the condition, `woken` or `timedout` and waiting for the mutex.
`WaitReturn` does what lines 111-115 do: it clears the flag whatever it was, and
returns true unless the wait timed out. `Timed` is the set of threads with
`msecsWaitTime >= 0`.

### PrlCleanup

`main` walks through `set_cleanup_handler` (handlers, then pipe, then thread, each
able to fail), the work, and the three steps of `join`. `handler` is the
disposition of INT, HUP and TERM. The numbers in the pipe are all alike, so the
pipe is a counter. `hooks` is `m_hooks` with the newest last and `left` is the
position of the reverse iterator. Only `do_cleanup` holds `m_mutex` over several
steps, so the mutex is the predicate `MutexFree`. A signal is delivered to one of
the two threads (`Receiver`): it kills if there is no handler or if the pipe has no
reader (SIGPIPE), is ignored if the pipe is closed, and is otherwise written to the
pipe; one that interrupts the monitor's `read` ends the monitor, because the handlers
are installed without `SA_RESTART` and the loop ends on any result but a whole
number. When the read end is closed while the monitor is inside `read`, the call
under way keeps the pipe open, as Linux does.

### JobScripts and JobCommands

The commands differ in the order in which they start jobs, register hooks and
callbacks, wait, unregister and free, and in their early returns. `JobScripts`
gives each function as a sequence of such steps, with `If` (the result of the last
wait decides) and `Either` (something else decides: a parameter, or a call that
fails). A handle or buffer has the name of the variable that holds it, and is
freed where the code frees it or where the variable goes out of scope.
`JobCommands` executes a script: `At(op)` is the step the main thread is at.
`JobDone` and `WaitTimesOut` are the two outcomes of `PrlJob_Wait`; `CancelLateJob`
is `handle_job_err`; `RunHook` is `CallHook` of `PrlCleanup` with what the hook does.
The dispatcher's side is `JobEnds`: a job ends at any time with success or
failure, or, once it was asked to cancel, as cancelled (it may also succeed all
the same). The login at the beginning, the look-up of the VM and the logoff at the end
are in `ServerSession` and left out here, as are the contents of parameters and
results. Commands of one plain job differ in nothing the model sees; each has an
entry all the same, so that a hook or a callback that is added to it is checked.
A look-up inside a command is there: `get_vm_config` asks by the identifier, and by the
name if there is no such VM (`FindVm`, which says what comes after a VM that was found and
after one that was not). `prlctl set` has three entries, because some of its options run
jobs with hooks before the configuration is edited: `set_hdd` (the image of a disk),
`set_backup` (`--backup-add`, which reads the backup tree), and `set`, which is all the rest,
the image of a floppy included, whose job has no hook. A problem report is assembled by a job
before it is delivered (`Deliver`).

`JobCommands` names the commands that break its rules (`LeavesDeadHook`,
`LeavesHook`, `LeavesDeadCallback`, `LeavesCallback`). Each command on one of them breaks
its rule when it is taken off, and the rules are checked of all other scripts. They document
what the code does:

* `reg` (`create`, also of containers) and `exec` never remove the hook of their job, `exec` returns
  with the session's hook when the console connection fails, and
  `do_get_backup_tree` with its hook when the tree cannot be read (`PrlBackup.cpp:768`),
  which ends the list of backups and `set --backup-add`, and after which `restore` goes
  on. The next Ctrl-C then calls `PrlJob_Cancel` with a freed handle;
* `migrate` and `copy_ct_template` return early after an error with their hook in
  the list;
* `commit_configuration` returns after a timeout with its callback registered,
  whose data is a buffer on the stack; `restore` and `backup-delete` unregister NULL
  and had registered a string;
* `appliance_install`, `shutdown`, `vnetwork` and `priv_network` leave a callback
  behind whose data remains valid.

Two things the scripts have and no property is about: `PrlVm::problem_report`
takes the success of the second job, with which it asks an old server, for an error
(`PrlVm.cpp:813`), so that such a report is never delivered, unlike that of
`PrlSrv::problem_report`; and `find_priv_network_handle` returns the result of its last
call, a success, when the network is not there (`PrlSrv.cpp:2896`), so that Set and Del
go on with a new one.

A signal that arrives between the start of a job and the registration of its hook
is consumed by a pass over a list without the hook: the wait that follows is not
interrupted. `InterruptEndsWait` therefore speaks of signals that are in the pipe
while the hook is registered.

### Snapshot

The main thread of `snapshot --wait` and the SDK thread share an event (an instance
of `EventSync` with two threads) and `m_wait`. Events come in order through `inbox`,
and are handled at any later moment, before or after the job has returned. Others
start and stop the VM (`MaxChanges`). Three things are part of the code's behaviour
and excluded from `WaitEnds`, since the wait then never ends: a VM that stopped
after its state was read, a handler that could not be registered (the error is only
printed), and a timeout, whose expiry is not assumed. A VM that starts after its state
was read may not be waited for, which is why `AnnouncedWhenWritten` asks that prlctl
knew the VM to run, or did wait. A question of the VM ends the wait on purpose. The
swapping that another client's snapshot or suspend ends (`OthersSwap`) sends the same event,
and the handler cannot tell whose it was: such a wait may end early, and is excused by
`foreign`. Without `--id`, `snapshot-switch` looks the current snapshot up by a job of its own,
before the handler is registered (`FindCurrent`).
Spurious wakeups are left out of this module; what they do is shown in `EventSync`.

### AgentBackup

The dispatcher freezes the disks, prlctl copies each block by block, and the backup is
committed or rolled back. `full` and `delta` are what the two files of a disk say: the
first holds every block, the second what the changed block map names. Blocks hold a
member of `Content`, of which 0 is the block of zeros that is not written (the file has
a hole there). Any call may fail; `failed` is `ret`. The commit's own failure does not
reach `ret` (`PrlBackup.cpp:471`), and an error before the first disk returns with the
backup open (`:433`); `BackupIsClosed` names both. `closeFailed` says that the job of the commit
or of the rollback failed or was given up: it is neither implied by `failed` nor by how the
backup ended, since a job that was given up may still succeed.

### PerfStats

`line` is the place in `print_statistics`: the node's subscription, then one VM after the
other, with `Reset`, the job, the wait of at most ten seconds and the removal of the
callback. The callback is a thread of its own that prints (`PrintStatistics`) and then
signals, so an event can be between the two when the main thread goes on: the next wait
then returns at once. It signals whatever `print_perfstats` returned (`PrlStat.cpp:136-139`), also
when the event had no parameters or could not be read (`unprinted`), and does not signal for
an event of another type or whose type cannot be read (dropped). So a wait that succeeds
says that an event of this VM was *handled*, not that its statistics were printed, or that the
event was another's; that is what `WaitsForItsVm` says. With `--loop` there is no event and
every VM stays subscribed. `accepted` and `refused` are the sources whose subscription succeeded
and failed. A VM whose data cannot be read ends `update_vm_list` with a pointer that nobody
has set (`PrlSrv.cpp:362-366`), which is used at once: the program crashes (`crashed`). That
the stack still holds a pointer from before is left out.

### ServerSession

`phase` walks through `login` (key, then password, each a job; an error after the job
leaves `m_logged` false), the dispatch with the look-up of the VM, the action, and the
logoff that the destructor of `PrlSrv` does. `command` is the action by what it does
with servers: `stop` (a job), `statistics` (PerfStats), `abackup` (AgentBackup), and those
that log in to a second server, which is logged off when the function returns. A wait
that times out cancels the job only where the code calls `handle_job_err`. The phase
`crashed` is `get_vm_config` when `vm_from_result` fails (`PrlSrv.cpp:488`), or the crash of
`update_vm_list`. `SuccessIsReal` allows exit status 0 to a command that has succeeded
(`Succeeded`: every source of statistics subscribed, the backup committed, the job ended well)
and in two more cases, which are what the code does and which `server_exit` shows: the job of
a subscription was refused (`PrlStat.cpp:173`, `188`), or the commit of a backup that had been
copied without an error failed (`PrlBackup.cpp:471`). A `print_statistics` that returned success
without having subscribed a VM, or a backup that was not copied, is not excused.

### SetCommand

`CommandLine` reads the line option after option: what is refused at once, what replaces
what was read before, and what the end of the line changes or refuses. Only `--device-add`
and `--device-set` look whether a device command was given already
(`CmdParam.cpp:1746`); the others replace it, where `man/prlctl.8:527` says that only one
can be specified, and keep the members of `DevInfo` that came with the first. `SetCommand` then turns `given` into a *plan*, the sequence of the calls in
the order of `PrlVm::set` or `PrlDisp::set`. Each call is of a kind (`Outcome` in
`SetSession`), which says what it may do: fail, change the client's copy with or without
`set_updated`, be a job of its own, end `set`. `SetSession` executes the plan, commits if
`m_updated` is set, and lets a job that was given up after a timeout take effect later
(`Late`), also after `set` has returned.

What the plans show, and the properties name as their exceptions: `--distribution list`
ends `set` in the middle with success and drops what was changed before it; `--fw-rule`
without a device is accepted and forgotten (`NetParam::is_updated`); network options
after another device command turn it into `--device-set` of a device that does not
look at them; several calls' results are not looked at (`Silent`). Two device commands
share one set of members: `--device-set hdd0 --autocompact on --device-bootorder "hdd0"` is
accepted, the boot order is set and `--autocompact` is forgotten. `Promised` therefore
counts an option of a device only if the command that is executed takes it, and in the
class of the device that it names.

### ConfigLists

A list is fetched as a whole, changed and sent back. `BootList` does a command in one
step, because it is sent or not (`SetSession`), and keeps what a user would remember:
what the last `--device-bootorder` named, what was added since, and what was ever named
twice. It begins with any two entries, which is why `BootAssumption` asks for two indexes
at least. Entries of deleted devices may stay or go, as the SDK has it.
`NetworkLists` separates the fetch from the send, so that two commands overlap: one
update is then lost (`overwritten`). The loop over the networks of a class keeps the
count from before the removal, so that only the last network of a class can be moved
(`ClassChanged`); the deletion of what is not in the list adds it (`stray`).

## 3. Runs

| run | what it checks | bounds and why they are enough |
|---|---|---|
| `event_sync` | `NoLostWakeup`, `NoWaiterStarves`, `TimedWaitReturns` | 3 threads: a signaller, a waiter and a third that takes or resets the signal between them; one of them timed; spurious wakeups on |
| `event_contract` | `EventSync` implements `AutoResetEvent` | 3 threads, no timeouts, no spurious wakeups (with either it does not: see `event_header`) |
| `event_header` | *violation*: "return true if event is signalled, false on timeout" (`EventSyncObject.h:54`) | 2 threads |
| `cleanup` | `SurvivesSignals`, `HooksFrozen`, `SignalsServed`, `JoinReturns` | 2 hooks (an iterator with a neighbour), 3 signals (one in each phase of a pass and one more), both receivers |
| `job_commands` | `HookDataLive`, `CallbackDataLive`, `NothingLeftBehind`, `SurvivesWork`, `CancelIsFinal`, `InterruptEndsWait` | each of the 43 scripts; no command has more than 3 hooks; 2 signals, the second during the pass or the exit caused by the first; a node with 2 VMs, so that the loop goes round |
| `job_unregister` | *violation*: "data pointer must be the same as in reg_event_callback" (`PrlVm.cpp:3611`) | `backup-delete` alone, no signals |
| `job_timeouts` | *violation*: "By default, timeouts for all operation are unlimited." (`man/prlctl.8:155`) | `exec` without `--timeout` |
| `snapshot_wait` | `AnnouncedWhenWritten`, `WaitEnds` | both commands; two starts, stops or ends of swapping by others; one question |
| `server_session` | `CommittedIsComplete`, `BackupIsClosed`, `WaitsForItsVm`, `StatisticsEnd`, `SessionsEnded`, `PeerOutlivesJob`, `SuccessIsReal` | 2 VMs (an event can be late for the next one) and 3 events; 2 disks of 2 blocks (each loop goes round, a block that changed and one that did not); each call fails or not |
| `server_exit` | *violation*: "If a command fails, it returns the appropriate error code." (the two manual pages) | the same |
| `set_command` | `ImplementsTransaction`, `NoEditIsDropped`, `SuccessTells` | every line of 3 options or commands, for VMs, containers and the server: what hides or replaces an option is another one, and a device command takes one place; values right or wrong; 3 classes of devices are deleted or connected, all nine are added and set; the theorems of `SetCommandProofs` are for lines of any length and any classes |
| `config_lists` | `EveryDeviceListed`, `ListedOnce`, `IndexesGrow`, `OrderIsAsAsked`, `ListIsAsAsked`, `NetworkOnce` | 3 devices, indexes to 4, 3 names (one more than there are devices at first, and a name twice); 2 commands that overlap, one class, 3 networks (first, middle, last) |

Deadlock is checked in `event_sync`. Elsewhere the program ends (exits, is
killed, or legitimately waits forever), so it is not an error that nothing more
happens, and the liveness properties say what must happen. In `event_contract`
all threads may sit in an untimed Wait with nobody left to signal.

### Fairness

* Threads that can run do run: weak fairness of the program's own steps.
* A timeout that was set expires (`EventSync`), but where a property says that
  something ends because of a signal or an event (`InterruptEndsWait`, `WaitEnds`)
  no fairness is put on the timeout, which would make it hold for another reason.
* A job ends only if it was asked to cancel; otherwise it may take forever. `JobCommands`
  puts one fairness condition on all jobs that were asked (some of them ends).
* `server_session`: in `print_statistics` the main thread, the callback that has begun
  and the timeout of each wait (ten seconds, always given) are weakly fair. Nobody has
  to send statistics. The subscriptions wait for their jobs with a limit of their own, but
  `update_vm_list` only with that of `--timeout`: its end is fair, and `StatisticsEnd` promises
  something, only with `--timeout` or without `--all` (`ListEnds`).
* `snapshot_wait`: the look-up of the current snapshot is a job that may take forever, and
  is not fair.
* Swapping ends. The user never has to press Ctrl-C, nobody has to call Signal.

## 4. Theorems

All theorems are for every value of the constants that satisfies the named
assumptions of the modules (`EventSyncAssumption`, `CleanupAssumption`, and so on; in
`AgentBackup` and `SetSession`, which other modules extend or instantiate, the
assumptions are definitions, `BackupParameters` and `Parameters`, and hypotheses of the
theorems).

* `EventSyncProofs!TypeCorrect`, `NoWakeupIsLost`: `NoLostWakeup` is inductive given
  the types. The flag goes up only in `Signal`, which wakes every sleeper if it was
  down; if it was up, the invariant says that there is no sleeper; and a thread
  falls asleep only while it is down.
* `EventSyncProofs!ContractKept`: with `Timed = {}` and no spurious wakeups every step
  of `EventSync` is a step of `AutoResetEvent`, under the mapping "a Signal came for
  the woken threads". The step that needs `NoLostWakeup` is the Signal that finds the
  flag up and wakes nobody.
* `JobCommandsProofs!CleanupTypes` (`TypeOK` of `PrlCleanup`): the iterator of `do_cleanup` stays inside the list.
  The inductive invariant `Typed` adds that there is no monitor before
  `pthread_create`; without it a state in which the monitor is started in the middle
  of a pass satisfies the types. The other steps that matter are those that shorten
  the list, which need the mutex.
* `JobCommandsProofs!ListIsFrozen`: `HooksFrozen`, which needs no invariant: each change of
  the list has `MutexFree` in its guard.
* `JobCommandsProofs!OnlyTwoWindows`: `SurvivesSignals`, by the inductive invariant
  `SafeWindows`, which ties the handler and the two ends of the pipe to the place of
  the main thread.
* `JobCommandsProofs`: `JobTypes` (`JobTypeOK`), `HooksCancelLiveHandles` (`HookDataLive`),
  `CallbacksHaveTheirData` (`CallbackDataLive`), `CommandsCleanUp` (`NothingLeftBehind`),
  `WorkSurvivesSignals` (`SurvivesWork`) and `CancelEndsCommands` (`CancelIsFinal`), for any
  set of the 43 scripts, with and without `--timeout`, any number of signals and any order
  of the steps of the two threads and the dispatcher. None of the rules is inductive: what
  a command may do next is in `todo`, of which the rules say nothing. The inductive
  invariant `JobInv` says that `todo` is *good* in the state `Now` that the script sees. A
  script is good in a state (`Good`) if the pair belongs to a set of
  such pairs that is closed under every outcome of the next step, and in which each pair
  obeys the rules. So a step of the main thread leads to a good pair by the definition, and
  a step of another thread does not change `Now`: it holds, instead of the jobs that were
  asked to cancel, those that a registered hook may ask for (`may`), so that `RunHook` is
  covered wherever it comes in. `JobInv` adds that a job ended as cancelled was asked to,
  and, for the signals, `JobWindows`, which is `SafeWindows` with the
  handlers that a command sets itself.
* `JobCommandsProofs!ScriptsGood`: each of the 43 scripts is good from the state in which it
  starts. A set that is closed is a coinductive argument: it needs no induction over the
  script. `Leads(c, P, p, Q)` says that whatever is good in the states of `Q` is good after
  `p` in those of `P`; it composes along `\o`, `If` and `Either` as the scripts do, so that
  each function of `JobScripts` has one lemma (`CloneLeads`, `BackupsLead`, `MigrateLeads`,
  `ExecLeads`, ...) that says in which state it leaves the hooks, the callbacks, the handles
  and the buffers. The states are those of one hook (`Phase`: not there, its handle valid,
  registered and kept, registered only, or registered with a freed handle), and where the
  code breaks a rule the lemma says so: `reg` ends in the phase `dead`, `migrate` in
  `kept`, and the sets `LeavesHook` and so on are used only there. `backup_node`, a loop
  over the VMs of the node, is unrolled (`BackupNodeIs`) for the two VMs of the model.
* `SnapshotProofs!TypeCorrect`: only the main thread waits for the event, and only at
  the wait. The event's own steps are used through `EventSteps`, the queue of events
  through lemmas on what a queue holds after `Tail` and `\o`.
* `SnapshotProofs!NotAnnouncedEarly`: `AnnouncedWhenWritten`, for any number of starts and
  stops by others, with a timeout or without. It is not inductive: it says nothing of
  an event that is still in the queue. `WaitInv` adds what a queued or delivered
  "finished" means: unless the VM asked a question or another client's swapping ended,
  the job is over and the memory is written, and it stays so, because a job runs once and
  only a job starts the writing;
  and that a client that knew the VM to run passes through the wait.

* `ServerSessionProofs!BackupTypes`, `CommittedComplete`: `CommittedIsComplete`, for any number
  of disks and blocks. The invariant `Progress` is the loop invariant of two nested
  loops: the disks before the one at hand have both files complete, and of that one the
  blocks before the one at hand are in them; a disk that failed sets `failed`, after which
  there is no commit.
* `ServerSessionProofs!BackupCloses`: `BackupIsClosed`, an action property that follows from the
  types and the places at which `do_vm_abackup` ends.
* `SetSessionProofs!SessionInvariant`: until `set` returns only what is done by jobs of their
  own is in effect, and something may come into effect later only if the command failed.
* `SetSessionProofs!SessionIsTransaction`: with that, every step of the editing session
  is a step of `SetTransaction` or a stutter, for any options, any plans and any failures.
  The step that needs the invariant is `Late`: a commit that was given up is the whole
  change at once, after a failure, and nothing else was changed before it.
* `SetCommandProofs!SuccessIsTold` (`SuccessTells`), for lines of any number of options: what
  the line promises is in effect when success is reported. The proof has three parts.
  *Of a plan*: `Makes(g, p, O)` says that the calls of `p` are admissible on a line with the
  options `g` and that each option of `O` has a call that does it or fails; `Answers` that
  the plan does so or has a call that refuses. Both compose along `\o`, `If`, `Asked` and
  `Do` as `SetOptions` and `DeviceOptions` compose the plans, so that each group of
  setters and each class of devices has one lemma, up to `VmPlanAnswers` and
  `ServerPlanMakes`: the plan answers for `VmDone(class)`, `ServerDone(own)`.
  *Of a line*: what it promises (`Due`) is part of that (`VmDueIsDone`, `ServerDueIsDone`).
  This is false of an arbitrary set of options and depends on what the parser refuses and
  rewrites, which `LineInv` records: a disk is not both on a device and in an image, an
  adapter has one mode, a command that needs a class of devices has one, and an accepted
  line has its devices' options in `stored`, none without a command. `LineInv` was checked
  with TLC on the bounds of `set_command` before it was proved.
  *Of the two together*: `SetInv` says that until `set` returns, what is due is in the copy, in
  effect, or done by a call that is still to come (`Answering`); a call that succeeds moves
  its option from the last to the first, and the commit from the first to the second.
* `SetCommandProofs!EditsAreSent` (`NoEditIsDropped`), by the part `Sends` of `SetInv`: `m_updated`
  is set, or a call that sets it is still to come. It holds because both functions end
  with settings that call `set_updated()` whether they were asked for or not
  (`Confirmations`), so that the setters that do not call it (`quiet`) are sent nevertheless.
  It follows too that the branch without a commit (`Unchanged`) is never taken.
* `SetCommandProofs!SetTypes` (`SetTypeOK`) and `SetIsTransaction` (`ImplementsTransaction`): every plan
  of a line is one of the plans of `SetSession` (`AllowedIsPlan`), so the invariant and the
  steps of `SetSessionProofs`, which are for any plans, carry over.

* `ServerSessionProofs`: a run of the program changes the state of a backup or of the
  statistics only by their own steps, so that `Spec => BackupSpec` and
  `Spec => Stats!Spec`; `CommittedInSession` and `ClosedInSession` are then the theorems of
  a backup by itself, carried over. `WaitIsForItsVm` (`WaitsForItsVm`) needs `StatsProgress`:
  a signal that is not stray was made by the callback of the VM at hand, after the last
  `Reset`; the step that matters is `Reset` itself, after which only an event that was
  already sent can signal for a VM that is not at hand, and is counted as stray.
* `ServerSessionProofs!StatisticsAreDue`: when `print_statistics` has returned success it has
  subscribed the node and every VM it was asked for, or a subscription was refused. The
  invariant `StatsDue` is that of its loop: the node and the VMs before the one at hand are
  subscribed.
* `ServerSessionProofs!NoSessionIsLeft` (`SessionsEnded`): not inductive, because it speaks of
  the end only. `LoginInv` ties a session to its `PrlSrv`: a handle that is there and not
  logged in is still in `login()`, or `login()` has failed; only a logoff closes a session,
  and clears the handle with it; after `leave` the second server is not logged in, after
  `logoff` the own one is not.
* `ServerSessionProofs!PeerIsThereForItsJob` (`PeerOutlivesJob`) and `SuccessIsEarned`
  (`SuccessIsReal`), by `JobInv` (a job that runs is waited for or was given up; the peer's
  session is closed only after that) and `ReturnInv` (what was returned is what the job, or
  the inner module, came to): for statistics with `StatisticsAreDue`, for a backup with what
  its invariant says of `Close`, that a backup without an error is committed or `closeFailed`.
* `ListsProofs!KeepEmbeds`: what `Keep` leaves is the list's own elements of the set, each
  once and in their order, for every list. `Keep` is a recursive function, because
  `SelectSeq` and the folds have no definition in the provers; and since a theorem with an
  operator for a parameter cannot be used, the induction is over a *set* of numbers, or of
  lists: one that has the first and with each one the next has them all, which follows from
  the well-foundedness of `<`. That a recursive function has its values (`KeepPrefixes`) is
  proved the same way. `KeepConcat`, `KeepAll`, `KeepNone`, `KeepKeep` and `DropFirstIs` are
  what the modules of lists and of plans use.
* `ConfigListsProofs`, of `BootList`: `DevicesAreListed`, `DevicesAreListedOnce`,
  `IndexesAreInOrder` and `BootOrderIsAsAsked`, for any devices and any number of commands.
  The induction is one step per command, with what a list keeps of one device (`Has`,
  `Twice`) under each of its operations. The step that matters is `--device-bootorder`: an
  entry is taken out of the old list for each name, so a named device that is still in the
  rest was in the list twice, which is what `ListedOnce` excuses.
* `ConfigListsProofs`, of `NetworkLists`: `NetworksAreAsAsked` (`ListIsAsAsked`) and
  `NetworksAreOnce` (`NetworkOnce`), for any classes, any networks and any number of
  commands that overlap. The invariant adds what the copies of the commands under way are:
  a copy that is not stale is the server's list, and each copy has a network once.

Only model-checked: liveness (`NoWaiterStarves`, `TimedWaitReturns`, `SignalsServed`,
`JoinReturns`, `InterruptEndsWait`, `WaitEnds`, `StatisticsEnd`), which TLAPS cannot prove
under fairness. Every invariant, every action property and both refinements that the
runs check are theorems as well.

## 5. Not modelled, and the plan

Out of scope: wording and layout of output (`info`, the columns of lists, the formatter),
logging, terminal modes, the Windows variant, and the inside of the dispatcher, of which
only what the client can observe is modelled. In `BootList` the calls of the SDK that
take an entry out of the list are assumed not to fail.

Not modelled yet, in the order in which they are worth it:

1. values: sizes, rates and timeouts with their arithmetic in 32 bits
   (`CmdParam.cpp:1327`), UUID and URL syntax, each as an operator against a reference
   definition over bounded inputs; the scanner of `GetOpt.cpp`;
2. the command lines of the other actions, in the form of `CommandLine`;
3. the snapshot tree: parsing and printing as operators on bounded trees;
4. shared folders, whose list `set` changes by name, and what `vnetwork` and
   `priv_network` put into a network (addresses, NAT rules);
5. selection and order of `prlctl list`, the nesting of the output formatter.

The theorem worth stating next joins `SetSession` and `BootList`: that a boot order which was
committed is the one that the last successful command asked for, also when two commands
overlap, as `NetworkLists` has it for the networks.

## 6. Running it

    tlc -config JobCommands.cfg JobCommands
    tlapm EventSyncProofs.tla

Each module that has runs is the module TLC is given; the `.cfg` files with another
name than their module are further instances of it. Small operators named for a
mistake (`SignalWakesOne`, `CloseReadAgain`, `CloneFreesFirst`, ...) stand before the
definition they would replace: with the mistake in place, the property it is listed
with in `PROJECT.json` fails.

------------------------------ MODULE SetOptions ------------------------------
(***************************************************************************)
(* What PrlVm::set and PrlDisp::set do with each option that is no device  *)
(* option: the calls of the setters, in the order of the two functions.    *)
(* A group is a sequence of calls [do, opt]; SetSession says what a call   *)
(* of each kind may do.  Only the calls whose option was given are made.   *)
(***************************************************************************)
EXTENDS Naturals, Sequences, Functions, Lists

Do(kind, opts) == [i \in DOMAIN opts |-> [do |-> kind, opt |-> opts[i]]]
If(condition, calls) == IF condition THEN calls ELSE <<>>
Asked(given, calls)  == Keep(calls, {c \in Range(calls) : c.opt \in given})

Read   == Do("read", <<"none">>)
Refuse == Do("refuse", <<"none">>)

-----------------------------------------------------------------------------
(* PrlVm: the setters return the error of the SDK, or set m_updated. *)
ApplyConfiguration == Do("edit", <<"applyconfig">>)

(* A list of the distributions is printed, and set() is over. *)
Distribution(given) ==
  IF "distribution list" \in given THEN Do("stop", <<"none">>)
  ELSE Asked(given, Do("edit", <<"distribution">>))

CpuSetters ==
  Do("edit", <<"cpus", "cpu-sockets", "numa-nodes", "cpu-hotplug", "cpuunits",
               "cpumask", "nodemask", "cpulimit">>)

IoSetters == Do("edit", <<"ioprio", "iolimit", "iopslimit">>)

MemorySetters ==
  Do("edit", <<"memsize", "videosize", "3d-accelerate", "vertical-sync",
               "high-resolution", "mem-hotplug", "memguarantee">>)

StartSetters == Do("edit", <<"description", "autostart", "autostart-delay", "autostop">>)

ViewSetters ==
  Do("edit", <<"autocompact", "startup-view", "on-crash", "on-shutdown", "on-window-close",
               "system-flags", "name">>)

(* The features of the other kind are refused; the results of the calls    *)
(* for a VM are not looked at.                                             *)
Features(kind) ==
  Do("read", <<"features">>)
  \o IF kind = "ct" THEN Do("edit", <<"features">>) ELSE Do("blind", <<"features">>)

(* Only of a container that is stopped and runs Linux. *)
Capability(kind) ==
  IF kind = "ct" THEN Do("edit", <<"capability">>) ELSE Do("refuse", <<"capability">>)

ResourceSetters == Do("edit", <<"swappages", "swap", "quotaugidlimit">>)

NetSetters ==
  Do("edit", <<"hostname", "nameserver", "searchdomain", "offline-service",
               "offline-management", "apply-iponly">>)

(* The mode needs a password, and by hand a port, when it changes. *)
Vnc(given) ==
  Asked(given, Do("edit", <<"vnc-mode", "vnc-port", "vnc-address">>))
  \o IF "vnc-passwd" \in given THEN Do("edit", <<"vnc-passwd">>)
     ELSE Asked(given, Do("edit", <<"vnc-nopasswd">>))

RateSetters == Do("edit", <<"rate", "ratebound">>)

(* The NVRAM is updated by a job, and marked in the copy. *)
BootSetters ==
  Do("job", <<"update-nvram">>)
  \o Do("edit", <<"update-nvram", "efi-boot", "select-boot-device", "external-boot-device",
                  "apptemplate", "ha-enable", "ha-prio">>)

(* A mistake: m_updated is left alone when no confirmation was asked for. *)
ConfirmationsIfAsked(given) ==
  IF "require-pwd" \in given THEN Do("edit", <<"require-pwd">>) ELSE Do("quiet", <<"require-pwd">>)

(* set_confirmations_list is always called, and always sets m_updated. *)
Confirmations(given) == Do("edit", <<"require-pwd">>)

GuardSetters ==
  Do("edit", <<"lock-on-suspend", "isolate-vm", "smart-guard", "sg-notify-before-create",
               "sg-interval", "sg-max-snapshots", "faster-vm", "adaptive-hypervisor",
               "auto-compress", "nested-virt", "pmu-virt", "longer-battery-life",
               "battery-status", "template", "backup-path">>)

Password(given) == Asked(given, Do("job", <<"userpasswd">>))

(* The flags of PrlVm_CommitEx, which the commit of an encryption has not. *)
CommitFlags(encryption) ==
  If(~encryption, Do("flag", <<"rename-ext-disks", "destroy-image", "destroy-image-force",
                               "detach-only">>))

-----------------------------------------------------------------------------
(* set() before and after its device commands. *)
FirstSettings(given) ==
  Password(given) \o Read \o Asked(given, ApplyConfiguration) \o Distribution(given)

Settings(given, kind) ==
  Asked(given,
    CpuSetters \o IoSetters \o MemorySetters \o StartSetters \o ViewSetters
    \o Features(kind) \o Capability(kind) \o ResourceSetters \o NetSetters)

LaterSettings(given) ==
  Vnc(given)
  \o Asked(given, Do("edit", <<"usedefanswers", "tools-autoupdate", "smart-mount">>)
                  \o RateSetters \o Do("edit", <<"keyboard-optimize">>) \o BootSetters)
  \o Confirmations(given)
  \o Asked(given, GuardSetters)

-----------------------------------------------------------------------------
(* PrlDisp.  Adding and deleting are one option to set(): the name given   *)
(* last, and delete if one of the two was.                                 *)
Last(given, add, del) == IF del \in given THEN <<del>> ELSE IF add \in given THEN <<add>> ELSE <<>>

OfflineService(given) == Do("job", Last(given, "add-offsrv", "del-offsrv"))

(* The list is read, changed and sent by a job. *)
NetworkClass(given) ==
  LET class == Last(given, "add-network-class", "del-network-class") IN
  If(class # <<>>, Read \o Do("job", class))

(* The switch and both lists are read, changed and sent together. *)
Shaping(given) ==
  LET entry == Last(given, "add-shaping-entry", "del-shaping-entry")
      asked == Do("job", Keep(<<"shaping", "add-bandwidth-entry">>, given) \o entry)
  IN  If(asked # <<>>, Read \o asked)

VncEncryption == Do("job", <<"vnc-ssl-certificate">>)

SecuritySetters == Do("edit", <<"min-security-level">>)

LimitSetters == Do("edit", <<"mem-limit">>) \o Do("job", <<"vcmmd-policy">>)

LogSetters == Do("edit", <<"mng-settings", "cep", "verbose-log">>)

(* ConfigureGenericPci: done, and still an error if the host has to be     *)
(* rebooted.                                                               *)
Assignment == Do("reboot", <<"assignment">>)

BackupSetters ==
  Do("edit", <<"backup-path", "backup-mode", "backup-compression", "backup-tunnel",
               "backup-timeout", "backup-storage", "backup-tmpdir">>)

CpuMask == Do("edit", <<"cpu-features-mask">>)

LimitType == Do("edit", <<"vm-cpulimit-type">>)

ServerPlan(given) ==
  OfflineService(given) \o Shaping(given) \o NetworkClass(given)
  \o Asked(given, VncEncryption) \o Read
  \o Asked(given, LimitSetters \o LogSetters \o SecuritySetters \o Assignment
                  \o BackupSetters \o Do("edit", <<"log-rotation">>))
  \o Confirmations(given)
  \o Asked(given, CpuMask \o LimitType)
=============================================================================

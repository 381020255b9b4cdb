----------------------------- MODULE CommandLine -----------------------------
(***************************************************************************)
(* The command lines of prlctl set and prlsrvctl set, as                   *)
(* cmdParam::get_param and get_disp_param read them (CmdParam.cpp): option *)
(* after option, with what is refused at once, what later options replace, *)
(* and what is changed and refused at the end of the line.                 *)
(*   A value is only right or wrong, and never empty or zero, which the    *)
(* code takes for an option that was not given.                            *)
(***************************************************************************)
EXTENDS DeviceOptions, FiniteSets

CONSTANTS
  Reader,      \* whose lines: a part of {"vm", "ct", "srv"}
  MaxOptions,  \* bound: how many options and commands are on a line
  Named        \* bound: the classes of the devices that are deleted, connected, ...

VARIABLES
  kind,     \* of a VM, of a container, or of the server
  given,    \* the options that were read and kept
  dev,      \* param.dev: its command, its type, the class of the device it names
  stored,   \* the options that went to param.dev
  line      \* "reading", "refused" or "accepted"

cmdline == <<kind, given, dev, stored, line>>

ASSUME LineAssumption ==
  Reader \subseteq {"vm", "ct", "srv"} /\ Named \subseteq Class /\ MaxOptions \in Nat

-----------------------------------------------------------------------------
(* The options.  What is in checked is refused when its value is wrong;    *)
(* text takes any value, or none; dead is read and used by nothing.        *)
Values(checked, text, dead) == [checked |-> checked, text |-> text, dead |-> dead]

DiskValues == Values(
  {"size", "encrypt", "decrypt"},
  {"encryption-keyid", "reencrypt", "no-wipe", "device", "image", "mnt", "recreate", "offline",
   "no-fs-resize", "split", "enable", "disable", "connect", "disconnect", "serial"}, {})

PortValues == Values(
  {"autostart", "autostart-delay", "autostop", "type routed", "type bridge", "type bridged",
   "adapter-type", "socket-tcp", "socket-mode"},
  {"on-crash", "startup-view", "on-shutdown", "on-window-close", "iface", "subtype", "network",
   "passthr", "position", "output", "socket", "socket-udp", "mixer"}, {"type expand"})

ResourceValues == Values(
  {"cpus", "cpu-sockets", "numa-nodes", "cpu-hotplug", "cpuunits", "cpulimit", "ioprio", "iolimit",
   "iopslimit", "memsize", "videosize", "3d-accelerate", "vertical-sync", "high-resolution",
   "memguarantee", "mem-hotplug"},
  {"cpumask", "nodemask"}, {})

NameValues == Values(
  {"template", "mac"},
  {"description", "name", "backup-path", "rename-ext-disks", "system-flags"}, {})

FeatureValues == Values(
  {"faster-vm", "adaptive-hypervisor", "auto-compress", "nested-virt", "pmu-virt",
   "longer-battery-life", "battery-status", "require-pwd"}, {},
  {"winsystray-in-macmenu", "auto-switch-fullscreen", "disable-aero", "hide-min-windows"})

GuardValues == Values(
  {"lock-on-suspend", "isolate-vm", "smart-guard", "sg-notify-before-create", "sg-interval",
   "sg-max-snapshots", "vnc-mode", "vnc-port"}, {},
  {"expiration", "lock-edit-settings"})

NetValues == Values(
  {"features", "rate", "ratebound"},
  {"vnc-passwd", "vnc-nopasswd", "vnc-address", "searchdomain", "hostname", "nameserver", "ipset",
   "ipadd", "ipdel"}, {})

DesktopValues == Values(
  {"keyboard-optimize", "efi-boot", "select-boot-device"},
  {"update-nvram", "external-boot-device"},
  {"smart-mouse-optimize", "sticky-mouse", "sync-host-printers", "sync-default-printer",
   "auto-share-camera", "auto-share-bluetooth", "support-usb30", "password-to-edit"})

AddressValues == Values(
  {"dhcp", "dhcp6", "fw", "fw-policy", "fw-direction", "fw-rule", "configure", "apply-iponly",
   "ipfilter", "macfilter", "preventpromisc", "offline-management"},
  {"gw", "gw6"}, {})

OtherValues == Values(
  {"userpasswd", "usedefanswers", "tools-autoupdate", "smart-mount", "swap", "quotaugidlimit",
   "capability", "autocompact", "ha-enable", "ha-prio"},
  {"offline-service", "crypted", "apptemplate", "swappages", "hdd-block-size", "destroy-image",
   "destroy-image-force", "detach-only", "backup-add", "backup-del", "disk", "applyconfig",
   "distribution", "distribution list"}, {"host-admin"})

ServerValues == Values(
  {"mem-limit", "vcmmd-policy", "mng-settings", "cep", "verbose-log", "backup-mode", "backup-timeout",
   "vm-cpulimit-type", "backup-storage", "add-offsrv", "add-network-class", "del-network-class",
   "add-bandwidth-entry", "add-shaping-entry", "del-shaping-entry", "shaping"},
  {"backup-path", "backup-tmpdir", "del-offsrv"}, {})

SecurityValues == Values(
  {"assignment", "log-rotation", "require-pwd", "vnc-ssl-certificate", "vnc-ssl-key",
   "backup-compression", "backup-tunnel"},
  {"min-security-level", "device", "cpu-features-mask"},
  {"allow-attach-screenshots", "lock-edit-settings", "advanced-security-mode"})

All(v) == v.checked \cup v.text \cup v.dead

SetTable == {DiskValues, PortValues, ResourceValues, NameValues, FeatureValues, GuardValues,
             NetValues, DesktopValues, AddressValues, OtherValues}
SetOption    == UNION {All(v) : v \in SetTable}
ServerOption == UNION {All(v) : v \in {ServerValues, SecurityValues}}
Checked == UNION {v.checked : v \in SetTable \cup {ServerValues, SecurityValues}}
Dead    == UNION {v.dead : v \in SetTable \cup {ServerValues, SecurityValues}}

Options(k) == IF k = "srv" THEN ServerOption ELSE SetOption

(* The members of DevInfo and of its NetParam. *)
DevOption ==
  All(DiskValues) \cup {"disk", "type routed", "type bridge", "type bridged", "type expand",
    "socket-tcp", "socket-mode", "iface", "subtype", "network", "passthr", "position", "output",
    "socket", "socket-udp", "mixer", "mac"}
NetOption ==
  {"adapter-type", "searchdomain", "nameserver", "ipset", "ipadd", "ipdel", "gw", "gw6", "dhcp",
   "dhcp6", "fw", "fw-policy", "fw-direction", "fw-rule", "configure", "ipfilter", "macfilter",
   "preventpromisc"}

-----------------------------------------------------------------------------
DeviceCommand ==
  {"device-add", "netif_add", "ifname", "device-set", "device-del", "netif_del", "device-connect",
   "device-disconnect", "device-bootorder"}
NoDevice == [cmd |-> "none", type |-> "none", class |-> "none"]

(* Types of a command line and of what is parsed of it. *)
LineTypeOK ==
  /\ kind \in {"vm", "ct", "srv"} /\ line \in {"reading", "refused", "accepted"}
  /\ given \subseteq Options(kind) \cup DeviceCommand
  /\ dev \in [cmd : {"none", "add", "set", "del", "connect", "disconnect", "bootorder"},
              type : Class \cup {"none"}, class : Class \cup {"none"}]
  /\ stored \subseteq given

LineInit == kind \in Reader /\ given = {} /\ dev = NoDevice /\ stored = {} /\ line = "reading"

-----------------------------------------------------------------------------
(* CHECK_SYMUL(dev.disconnect, "--disconnect", "--connect") looks at the   *)
(* wrong member: --connect and then --disconnect is accepted.              *)
Conflicting(o) ==
  CASE o = "device" -> {"image"}                 [] o = "image" -> {"device"}
    [] o = "enable" -> {"disable"}               [] o = "disable" -> {"enable"}
    [] o = "connect" -> {"disconnect"}           [] o = "disconnect" -> {"disconnect"}
    [] o \in {"encrypt", "decrypt"} -> {"encrypt", "decrypt"}
    [] o \in {"backup-add", "backup-del"} -> {"backup-add", "backup-del"}
    [] OTHER -> {}

(* The option that is replaced when this one comes later. *)
Modes == {"type routed", "type bridge", "type bridged", "type expand"}
Replaced(o) == IF o \in Modes THEN Modes ELSE {}

RefuseLine ==
  /\ line' = "refused" /\ given' = {} /\ dev' = NoDevice /\ UNCHANGED <<kind, stored>>

(* Bound: an option of the VM that is no device's counts for two. *)
VmOption  == SetOption \ (DevOption \cup NetOption)
Weight(o) == IF kind # "srv" /\ o \in VmOption THEN 2 ELSE 1
Room      == MaxOptions - Cardinality(given) -
             (IF kind = "srv" THEN 0 ELSE Cardinality(given \cap VmOption))

(* A mistake: the options of every table are taken. *)
TakeAny(o) ==
  /\ line = "reading" /\ Weight(o) <= Room
  /\ \E other \in (SetOption \cup ServerOption) \ given : given' = given \cup {other}
  /\ UNCHANGED <<kind, dev, stored, line>>

Take(o) ==
  /\ line = "reading" /\ Weight(o) <= Room
  /\ o \in Options(kind) \ given \/ Conflicting(o) \cap given # {}
  /\ IF kind # "srv" /\ Conflicting(o) \cap given # {} THEN RefuseLine
     ELSE given' = (given \ Replaced(o)) \cup {o} /\ UNCHANGED <<kind, dev, stored, line>>

(* A wrong value of an option that is checked, or an option that is in the *)
(* tables and always refused (memquota, undo-disks, del-bandwidth-entry).  *)
BadValue ==
  /\ line = "reading" /\ (Checked \cap Options(kind)) \ given # {}
  /\ RefuseLine

Becomes(c, d) ==
  /\ given' = given \cup {c} /\ dev' = d /\ UNCHANGED <<kind, stored, line>>

(* Only --device-add and --device-set look whether there is a command yet; *)
(* the others replace it.  Two of them, and the options they came with,    *)
(* share one set of members.                                               *)
Command(c, class) ==
  /\ line = "reading" /\ kind # "srv" /\ c \notin given /\ Room > 0
  /\ CASE c \in {"device-add", "device-set"} /\ dev.cmd # "none" -> RefuseLine
       [] c = "device-add" /\ dev.cmd = "none" -> Becomes(c, [dev EXCEPT !.cmd = "add", !.type = class])
       [] c = "device-set" /\ dev.cmd = "none" -> Becomes(c, [cmd |-> "set", type |-> class, class |-> class])
       [] c = "netif_add" -> class = "net" /\ Becomes(c, [dev EXCEPT !.cmd = "add", !.type = "net"])
       [] c = "ifname" -> class = "net" /\ Becomes(c, [cmd |-> "set", type |-> "net", class |-> "net"])
       [] c = "netif_del" -> class = "net" /\ Becomes(c, [cmd |-> "del", type |-> "net", class |-> "net"])
       [] c = "device-del" -> class \in Named /\ Becomes(c, [dev EXCEPT !.cmd = "del", !.class = class])
       [] c = "device-connect" -> class \in Named /\ Becomes(c, [dev EXCEPT !.cmd = "connect", !.class = class])
       [] c = "device-disconnect" -> class \in Named /\ Becomes(c, [dev EXCEPT !.cmd = "disconnect", !.class = class])
       [] c = "device-bootorder" -> class \in Named /\ Becomes(c, [dev EXCEPT !.cmd = "bootorder", !.class = class])

-----------------------------------------------------------------------------
(* The end of the line.                                                    *)
Has(o) == o \in given
AnyOf(os) == os \cap given # {}

TwoDelFlags == Cardinality(given \cap {"destroy-image", "destroy-image-force", "detach-only"}) > 1

(* "set --diskspace": a size without a device is that of the first disk. *)
Sized == IF Has("size") /\ dev.type = "none" THEN [cmd |-> "set", type |-> "hdd", class |-> "hdd"] ELSE dev

(* The name servers are the VM's if the device is no adapter, and so are   *)
(* the options that are the VM's and the disk's (hdd-block-size,           *)
(* autocompact) if it is no disk.                                          *)
Owned ==
  ((DevOption \cup NetOption) \ (IF Sized.type = "net" THEN {} ELSE {"nameserver", "searchdomain"}))
    \cup (IF dev.type = "hdd" THEN {"hdd-block-size", "autocompact"} ELSE {})

(* A mistake: a member that was added to NetParam is not looked at. *)
NetUpdatedForgetsOne ==
  (NetOption \ {"fw-direction", "fw-rule", "preventpromisc"}) \cap given \cap Owned # {}
  \/ AnyOf({"ifname", "netif_add"})

NetUpdated ==
  (NetOption \ {"fw-direction", "fw-rule"}) \cap given \cap Owned # {} \/ AnyOf({"ifname", "netif_add"})

(* set_net_param: network options alone are the first adapter's, and the   *)
(* command becomes --device-set whatever it was.                           *)
Defaulted ==
  IF NetUpdated /\ Sized.type = "none" THEN [Sized EXCEPT !.cmd = "set", !.type = "net"] ELSE Sized

DevUpdated ==
  AnyOf({"connect", "disconnect", "recreate", "split", "passthr", "size", "position", "image", "iface",
         "mac", "network", "output", "socket", "mixer", "serial"} \cup Modes)
  \/ "autocompact" \in given \cap Owned

(* is_dev_valid. *)
DeviceValid(d) ==
  /\ AnyOf(Modes) =>
       \/ d.type = "hdd" /\ Has("type expand")
       \/ d.type = "net" /\ ~Has("network") /\ AnyOf({"type routed", "type bridge"})
  /\ Has("output") => d.type \in {"serial", "parallel", "sound"}
  /\ Has("socket") => d.type = "serial"
  /\ Has("mixer")  => d.type = "sound"

BackupCommand == AnyOf({"backup-add", "backup-del"})

(* is_valid. *)
Valid(d) ==
  /\ Has("recreate") => d.type \in {"fdd", "hdd"}
  /\ d.cmd = "none" => ~NetUpdated /\ (DevUpdated => Has("backup-add"))
  /\ Has("network") => ~Has("iface") /\ (AnyOf(Modes) => Has("type bridge"))
  /\ Has("fw-direction") => AnyOf({"fw-policy", "fw-rule"})
  /\ Has("fw-rule") => Has("fw-direction")
  /\ BackupCommand => d.cmd = "none"
  /\ Has("disk") => BackupCommand
  /\ Has("backup-add") /\ ~Has("disk") => ~DevUpdated
  /\ (d.cmd = "add" \/ Has("backup-add")) /\ Has("position") => Has("iface")

(* validate_encryption. *)
EncryptionValid(d) ==
  AnyOf({"encryption-keyid", "encrypt", "decrypt", "reencrypt", "no-wipe"}) =>
    /\ AnyOf({"encryption-keyid", "encrypt", "decrypt"}) /\ d.cmd \in {"add", "set"}
    /\ d.cmd = "add" => ~AnyOf({"encrypt", "decrypt", "reencrypt", "no-wipe"})
    /\ Has("encrypt") => Has("encryption-keyid") /\ ~Has("reencrypt")
    /\ Has("decrypt") => ~AnyOf({"encryption-keyid", "reencrypt"})

ServerValid ==
  /\ Has("device") <=> Has("assignment")
  /\ Has("vnc-ssl-certificate") <=> Has("vnc-ssl-key")

End ==
  /\ line = "reading" /\ given # {}
  /\ IF kind = "srv"
     THEN IF ServerValid THEN line' = "accepted" /\ UNCHANGED <<kind, given, dev, stored>> ELSE RefuseLine
     ELSE IF TwoDelFlags \/ ~DeviceValid(Defaulted) \/ ~Valid(Defaulted) \/ ~EncryptionValid(Defaulted)
          THEN RefuseLine
          ELSE /\ line' = "accepted" /\ dev' = Defaulted
               /\ stored' = given \cap Owned
               /\ UNCHANGED <<kind, given>>

ReadLine ==
  \/ \E o \in Options(kind) : Take(o)
  \/ \E c \in DeviceCommand, class \in Class : Command(c, class)
  \/ BadValue
  \/ End
=============================================================================

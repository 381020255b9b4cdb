----------------------------- MODULE SetCommand -----------------------------
(***************************************************************************)
(* prlctl set and prlsrvctl set from the command line (CommandLine) to the *)
(* editing session (SetSession) that its options (SetOptions,              *)
(* DeviceOptions) ask for, in the order of PrlVm::set and PrlDisp::set.    *)
(***************************************************************************)
EXTENDS CommandLine

VARIABLES plan, at, copy, updated, effect, late, result        \* SetSession

(* What set() does beside what was asked for. *)
Pseudo == {"none", "boot-order", "new-image", "venet"}

Option == SetOption \cup ServerOption \cup DeviceCommand \cup Pseudo

(* What is done by a job of its own, before the commit. *)
Immediate ==
  {"device-connect", "device-disconnect", "userpasswd", "size", "recreate", "new-image",
   "update-nvram", "add-offsrv", "del-offsrv", "add-network-class", "del-network-class",
   "add-shaping-entry", "del-shaping-entry", "add-bandwidth-entry", "shaping",
   "vnc-ssl-certificate", "vcmmd-policy", "assignment"}

Session == INSTANCE SetSession

session == <<plan, at, copy, updated, effect, late, result>>
vars    == <<cmdline, session>>

ASSUME CommandAssumption == Session!Parameters

(* Types; only an accepted command line is executed. *)
SetTypeOK ==
  /\ LineTypeOK
  /\ Session!TypeOK
  /\ at # "idle" => line = "accepted"

Init == LineInit /\ Session!Init

-----------------------------------------------------------------------------
Encrypts == dev.cmd = "set" /\ given \cap {"encrypt", "decrypt", "encryption-keyid"} # {}

(* The device command; a PCI device that is a network adapter becomes one. *)
DeviceCalls(class) ==
  CASE dev.cmd = "add" -> AddDevice(class, stored, kind)
    [] dev.cmd = "set" /\ kind = "ct" /\ dev.class = "none" -> SetVenet(stored)
    [] dev.cmd = "set" /\ ~(kind = "ct" /\ dev.class = "none") -> SetDevice(class, stored, kind)
    [] dev.cmd = "del" -> DeleteDevice("device-del")
    [] dev.cmd = "bootorder" -> BootOrder
    [] dev.cmd \in {"none", "connect", "disconnect"} -> <<>>

Classes ==
  IF dev.cmd = "add"
  THEN IF dev.type = "pci" /\ "device" \in given THEN {"pci", "net"} ELSE {dev.type}
  ELSE IF dev.class # "none" THEN {dev.class} ELSE {dev.type}

(* PrlVm::set. *)
VmPlan(class) ==
  LET own == given \ stored IN
  If(dev.cmd = "connect", Connection("device-connect"))
  \o If(dev.cmd = "disconnect", Connection("device-disconnect"))
  \o FirstSettings(own) \o Settings(own, kind)
  \o DeviceCalls(class)
  \o If(given \cap {"backup-add", "backup-del"} # {}, BackupDisks(given, kind))
  \o LaterSettings(own) \o Asked(given, CommitFlags(Encrypts))

Start ==
  /\ line = "accepted" /\ UNCHANGED cmdline
  /\ IF kind = "srv" THEN Session!Start(ServerPlan(given))
     ELSE \E class \in Classes : Session!Start(VmPlan(class))

Next ==
  \/ ReadLine /\ UNCHANGED session
  \/ Start
  \/ Session!Step /\ UNCHANGED cmdline

Spec == Init /\ [][Next]_vars

-----------------------------------------------------------------------------
(* Whatever is asked for, set is a transaction (SetTransaction): what is   *)
(* not a job of its own takes effect at once or never, and nothing changes *)
(* after success was reported.                                             *)
ImplementsTransaction == Session!ImplementsTransaction

(* Every change of the client's copy of the configuration is in effect     *)
(* when success is reported, also those whose call does not set m_updated; *)
(* except that --distribution list ends set() and drops what was changed.  *)
NoEditIsDropped ==
  result = "ok" => copy \subseteq effect \/ "distribution list" \in given

-----------------------------------------------------------------------------
(* What the manual page says that a device command takes. *)
Switch == {"enable", "disable", "connect", "disconnect"}
Place  == {"device", "image", "iface", "subtype", "position"}
Documented ==
  [hdd    |-> Place \cup {"recreate", "size", "no-fs-resize", "mnt", "encryption-keyid", "autocompact"},
   cdrom  |-> Place,
   fdd    |-> {"device"},
   net    |-> (NetOption \cup {"type routed", "network", "mac"}),
   serial |-> {"device", "output", "socket", "socket-tcp", "socket-udp", "socket-mode"},
   usb    |-> {}, sound |-> {}, parallel |-> {},
   pci    |-> {"device"}]

DeviceDocumented ==
  CASE dev.cmd = "add" -> Documented[dev.type]
    [] dev.cmd = "set" -> Documented[dev.type] \cup Switch
         \cup (IF dev.type = "hdd" THEN {"encrypt", "decrypt", "no-wipe", "reencrypt"} ELSE {})
    [] dev.cmd = "none" -> NetOption       \* those of the first adapter
    [] OTHER -> {}

(* What a disk took over is promised as the disk's.  A device that is added *)
(* has the type, another is the one that is named: a command that network   *)
(* options, --size or a second command made one of another type promises    *)
(* nothing to it.                                                           *)
Promised ==
  IF kind = "srv" THEN given
  ELSE given \cap ((VmOption \ stored) \cup
         IF dev.cmd = "add" \/ dev.class \in {"none", dev.type} THEN DeviceDocumented ELSE {})

(* What a command may be silent about: options that nothing reads, options *)
(* that say how another one is done, calls whose result is not looked at,  *)
(* and those that find nothing to do;                                      *)
Silent ==
  Dead \cup Switch \cup
  {"hdd-block-size", "crypted", "no-fs-resize", "no-wipe", "reencrypt", "fw-direction",
   "socket-mode", "vnc-ssl-key", "backup-add", "backup-del", "destroy-image",
   "destroy-image-force", "detach-only"}
  \cup (IF kind = "srv" THEN {"device"} ELSE {})
  \cup (IF kind = "vm" THEN {"features"} ELSE {})
  \cup (IF dev.cmd = "add" THEN {"size"} ELSE {})
  \cup (IF dev.cmd = "none" THEN {"fw-rule"} ELSE {})   \* NetParam::is_updated forgets it
  \cup (IF "image" \in given THEN {} ELSE {"recreate"})

(* ... and those that another option hides. *)
HiddenBy(o) ==
  CASE o \in {"mac", "network", "type routed"}               -> {"device"}
    [] o = "output"                                          -> {"device"}
    [] o = "socket"                                          -> {"device", "output"}
    [] o = "socket-tcp"                                      -> {"device", "output", "socket"}
    [] o = "socket-udp"                                      -> {"device", "output", "socket", "socket-tcp"}
    [] o = "size"                                            -> {"device", "image"}
    [] o \in {"encrypt", "decrypt", "encryption-keyid"}      -> {"device", "image", "size"}
    [] o = "ipdel"                                           -> {"ipset"}
    [] o = "vnc-nopasswd"                                    -> {"vnc-passwd"}
    [] o = "rename-ext-disks"                                -> {"encrypt", "decrypt", "encryption-keyid"}
    [] o = "add-offsrv"                                      -> {"del-offsrv"}
    [] o = "add-network-class"                               -> {"del-network-class"}
    [] o = "add-shaping-entry"                               -> {"del-shaping-entry"}
    [] OTHER                                                 -> {}

(* When prlctl reports success, what the options of the line promise is in *)
(* effect, with no exceptions but the above: no option falls between the   *)
(* command line, the device command and the setters.                       *)
SuccessTells ==
  result = "ok" =>
    \A o \in Promised :
      o \in effect \/ o \in Silent \/ HiddenBy(o) \cap given # {} \/ "distribution list" \in given
=============================================================================

---------------------------- MODULE DeviceOptions ----------------------------
(***************************************************************************)
(* What set() does with the options of a device: create() and configure()  *)
(* of the class of the device (PrlDev.cpp) and the device commands of      *)
(* PrlVm::set.  An option that the class does not look at is not here; the *)
(* first of several options that a class looks at hides the others.        *)
(*   "device-add", "boot-order", "new-image" and "venet" are what set()    *)
(* does beside what was asked for.                                         *)
(***************************************************************************)
EXTENDS SetOptions

Class == {"hdd", "cdrom", "net", "usb", "fdd", "serial", "parallel", "sound", "pci"}

First(given, opts) ==
  LET asked == Keep(opts, given) IN
  IF asked = <<>> THEN "none" ELSE Head(asked)

(* The results of these calls are not looked at. *)
Switches == Do("switch", <<"enable", "disable", "connect", "disconnect">>)

BootDevice == Do("quiet", <<"boot-order">>)

-----------------------------------------------------------------------------
(* PrlDevHdd. *)
HddImage(given) ==
  Do("edit", <<"new-image">>)
  \o Asked(given, Do("try", <<"split">>) \o Do("quiet", <<"hdd-block-size", "encryption-keyid">>)
                  \o Do("try", <<"size">>))
  \o Do("image", IF "recreate" \in given THEN <<"recreate">> ELSE <<"new-image">>)

Encryption(given) == Asked(given, Do("quiet", <<"encrypt", "decrypt", "encryption-keyid">>))

(* Where the disk is: the first of these, a new image or, on --device-set, *)
(* where it was.  Then no image is created, and a size is that of an image *)
(* that is resized, by a job and nothing else.                             *)
HddDevice(given, cmd) ==
  LET place == First(given, <<"device", "image", "backup-add">>) IN
  IF place # "none"
  THEN Do("edit", <<place>>) \o If(place = "image" /\ "recreate" \in given, HddImage(given)) \o Read
  ELSE IF cmd = "set"
  THEN IF "size" \in given THEN Do("job", <<"size">>) ELSE Encryption(given)
  ELSE Read \o HddImage(given) \o Read

HddConfigure(given, cmd, kind) ==
  Asked(given,
    Switches \o Do("edit", <<"iface", "subtype", "position">>) \o Do("quiet", <<"passthr">>)
    \o (IF kind = "ct" THEN Do("edit", <<"mnt">>) ELSE Do("refuse", <<"mnt">>))
    \o Do("edit", <<"autocompact">>) \o Do("quiet", <<"serial">>))
  \o HddDevice(given, cmd)

HddCreate(given, kind) == HddConfigure(given, "add", kind) \o If(kind = "vm", BootDevice)

-----------------------------------------------------------------------------
(* PrlDevCdrom. *)
CdromConfigure(given) ==
  Asked(given,
    Switches \o Do("edit", <<"iface", "subtype", "position">>) \o Do("quiet", <<"passthr">>)
    \o Do("edit", <<"device", "image">>))

CdromCreate(given) ==
  IF {"device", "image"} \cap given = {} THEN Refuse ELSE CdromConfigure(given) \o BootDevice

-----------------------------------------------------------------------------
(* PrlDevNet.  The adapter that is assigned has no mac and no network. *)
NetDevice(given) ==
  Asked(given,
    IF "device" \in given THEN Do("edit", <<"device">>)
    ELSE IF "type bridge" \in given THEN Do("try", <<"iface">>) \o Do("edit", <<"type bridge", "mac">>)
    ELSE IF "type routed" \in given THEN Do("edit", <<"type routed", "mac">>)
    ELSE Do("edit", <<"network", "mac">>))

(* A routed adapter has no DHCP and no gateway, whether it is made so now  *)
(* or was before.                                                          *)
NetAddresses(given) ==
  LET unrouted == {"dhcp", "dhcp6", "gw", "gw6"} IN
  If(unrouted \cap given # {}, IF "type routed" \in given /\ "device" \notin given THEN Refuse ELSE Read)
  \o Asked(given, Do("edit", <<"nameserver", "searchdomain">>)
                  \o Do("edit", IF "ipset" \in given THEN <<"ipset", "ipadd">> ELSE <<"ipadd", "ipdel">>)
                  \o Do("edit", <<"dhcp", "dhcp6", "gw", "gw6", "configure", "macfilter",
                                  "preventpromisc", "ipfilter">>))

Firewall(given) ==
  Asked(given, Do("edit", <<"fw", "fw-policy", "fw-rule">>))

NetConfigure(given) ==
  Asked(given, Switches \o Do("edit", <<"adapter-type">>))
  \o NetDevice(given) \o NetAddresses(given) \o Firewall(given)

(* The network is "Bridged" if nothing else is asked for. *)
NetCreate(given, kind) ==
  If("disable" \notin given, Do("switch", <<"enable">>))
  \o If({"type bridge", "type routed", "device"} \cap given = {},
        Do("edit", <<"network">>) \o Asked(given, Do("edit", <<"mac">>)))
  \o If(kind = "ct", Asked(given, Do("quiet", <<"netif_add">>)))
  \o NetConfigure(given) \o BootDevice

-----------------------------------------------------------------------------
(* PrlDevUsb, PrlDevFdd, PrlDevSound: there is one of each. *)
Single(given) == Read \o If("disable" \notin given, Do("switch", <<"enable">>))

UsbConfigure(given) == Asked(given, Do("switch", <<"enable", "disable">>))

(* An image is created only on demand. *)
FddDevice(given, cmd) ==
  LET place == First(given, <<"device", "image">>)
      image == If("recreate" \in given, Do("image", <<"recreate">>))
  IN  CASE place = "device" -> Do("edit", <<"device">>)
        [] place = "image"  -> Do("edit", <<"image">>) \o image
        [] place = "none"   -> If(cmd = "add", Do("edit", <<"new-image">>) \o image)

FddConfigure(given, cmd) == Asked(given, Switches) \o FddDevice(given, cmd) \o BootDevice

SoundConfigure(given) ==
  Asked(given, Switches \o Do("edit", <<"output", "mixer">>))

(* PrlDevSerial: the first of these is where the port goes, and the mode   *)
(* is of a socket.                                                         *)
SerialPort(given) ==
  LET port == First(given, <<"device", "output", "socket", "socket-tcp", "socket-udp">>) IN
  Asked(given, Do("edit", <<port>>)
               \o If(port \in {"socket", "socket-tcp", "none"}, Do("edit", <<"socket-mode">>)))

SerialConfigure(given) == Asked(given, Switches) \o SerialPort(given)

SerialCreate(given) ==
  IF {"device", "output", "socket", "socket-tcp", "socket-udp"} \cap given = {} THEN Refuse
  ELSE If("disable" \notin given, Do("switch", <<"enable">>)) \o SerialConfigure(given)

(* PrlDevParallel. *)
ParallelConfigure(given) ==
  LET port == First(given, <<"device", "output">>) IN
  Asked(given, Switches \o Do("edit", <<port>>))

ParallelCreate(given) ==
  IF {"device", "output"} \cap given = {} THEN Refuse
  ELSE If("disable" \notin given, Do("switch", <<"enable">>)) \o ParallelConfigure(given)

(* PrlDevGenericPci. *)
PciConfigure(given) ==
  Asked(given, Do("switch", <<"enable", "disable">>) \o Do("edit", <<"device">>))

PciCreate(given) ==
  IF "device" \notin given THEN Refuse
  ELSE If("disable" \notin given, Do("switch", <<"enable">>)) \o PciConfigure(given)

-----------------------------------------------------------------------------
Configure(class, given, kind) ==
  CASE class = "hdd" -> HddConfigure(given, "set", kind) [] class = "cdrom" -> CdromConfigure(given)
    [] class = "net" -> NetConfigure(given)              [] class = "usb" -> UsbConfigure(given)
    [] class = "fdd" -> FddConfigure(given, "set")       [] class = "serial" -> SerialConfigure(given)
    [] class = "sound" -> SoundConfigure(given)          [] class = "pci" -> PciConfigure(given)
    [] class = "parallel" -> ParallelConfigure(given)

Create(class, given, kind) ==
  CASE class = "hdd" -> HddCreate(given, kind)           [] class = "cdrom" -> CdromCreate(given)
    [] class = "net" -> NetCreate(given, kind)           [] class = "serial" -> SerialCreate(given)
    [] class = "usb" -> Single(given) \o UsbConfigure(given)
    [] class = "fdd" -> Single(given) \o FddConfigure(given, "add") \o BootDevice
    [] class = "sound" -> Single(given) \o SoundConfigure(given)
    [] class = "pci" -> PciCreate(given)                 [] class = "parallel" -> ParallelCreate(given)

(* A device is found or created (create_dev), and then configured. *)
AddDevice(class, given, kind) ==
  Read \o Do("quiet", <<"device-add">>) \o Create(class, given, kind)

(* The network options of a container are those of venet0, which is        *)
(* created if there is none, if no device is named.                        *)
SetDevice(class, given, kind) == Read \o Configure(class, given, kind)

SetVenet(given) == Read \o Do("maybe", <<"venet">>) \o NetConfigure(given)

DeleteDevice(o) == Read \o Do("edit", <<o>>)

(* Before the edit session: a job. *)
Connection(o) == Read \o Do("job", <<o>>)

(* attach_backup_disks and detach_backup_disks.  The disks of a backup may *)
(* be attached already, and none may be found to detach.                   *)
BackupDisks(given, kind) ==
  Read
  \o (IF "backup-del" \in given THEN Do("maybe", <<"backup-del">>)
      ELSE IF "disk" \in given THEN Do("quiet", <<"device-add", "disk">>) \o HddConfigure(given, "backup", kind)
      ELSE Do("maybe", <<"backup-add">>))

BootOrder == Read \o Do("edit", <<"device-bootorder">>)
=============================================================================

------------------------------ MODULE BootList ------------------------------
(***************************************************************************)
(* The boot order of a VM, as the device commands of prlctl set change it  *)
(* (PrlVm::set_boot_dev, PrlVm::set_boot_list).  A command works on the    *)
(* client's copy, which is sent as a whole or not at all (SetSession), so  *)
(* that one that succeeds is one step here and one that fails is none.     *)
(*   An entry names its device by type and index.  The devices are these   *)
(* names: a device that is added may get the name of one that was deleted. *)
(***************************************************************************)
EXTENDS Naturals, Sequences, FiniteSets, FiniteSetsExt, Functions, Lists

CONSTANTS
  Device,      \* the bootable devices, by type and index
  MaxIndex,    \* bound: the sequence indexes
  MaxNames     \* bound: how many names --device-bootorder takes

(* The list starts with two entries. *)
ASSUME BootAssumption == MaxIndex \in Nat /\ MaxIndex >= 2 /\ MaxNames \in Nat

VARIABLES
  devices,   \* the devices of the VM
  backups,   \* those of them that are disks of a backup
  boot,      \* the list: what an entry is for, its sequence index, "in use"
  asked,     \* the names of the last --device-bootorder, without the deleted
  later,     \* the devices that were added since
  twice      \* the devices that were ever named twice in one command

bootvars == <<devices, backups, boot, asked, later, twice>>

EntryOf(ds) == [dev : ds, index : 1..MaxIndex, inuse : BOOLEAN]
Entry == EntryOf(Device)

(* Types; a disk of a backup is a device of the VM. *)
BootTypeOK ==
  /\ devices \subseteq Device /\ backups \subseteq devices
  /\ boot \in Seq(Entry)
  /\ asked \in Seq(Device) /\ later \subseteq Device /\ twice \subseteq Device

At(d, index, inuse) == [dev |-> d, index |-> index, inuse |-> inuse]

BootInit ==
  /\ \E first, second \in Device :
       /\ first # second /\ devices = {first, second}
       /\ boot = <<At(first, 1, TRUE), At(second, 2, TRUE)>> /\ asked = <<first, second>>
  /\ backups = {} /\ later = {} /\ twice = {}

-----------------------------------------------------------------------------
(* get_boot_list: the entries whose device is found, and the highest index *)
(* of all of them.                                                         *)
Found    == Keep(boot, EntryOf(devices))
Listed(d) == \E i \in DOMAIN boot : boot[i].dev = d

(* A mistake: the index of an entry without a device is not counted. *)
MaxIndexFound == Max({0} \cup {e.index : e \in Range(Found)})

MaxIndexUsed == Max({0} \cup {e.index : e \in Range(boot)})

(* A mistake: set_boot_dev does not look whether there is an entry. *)
WithAlways(d) == Append(boot, At(d, MaxIndexUsed + 1, TRUE))

(* set_boot_dev: a new entry at the end, unless there is one.  The new     *)
(* device is in m_DevList already, so that an entry that was left by a     *)
(* deleted device of its name is taken for its own.                        *)
With(d) == IF Listed(d) THEN boot ELSE Append(boot, At(d, MaxIndexUsed + 1, TRUE))

(* del_boot_entry: the first entry of the device. *)
WithoutFirst(list, d) == DropFirst(list, EntryOf({d}))

Rest(names) ==
  LET rest[i \in 0..Len(names)] ==
        IF i = 0 THEN Found ELSE WithoutFirst(rest[i - 1], names[i])
  IN  rest[Len(names)]

Named(names) == [i \in DOMAIN names |-> At(names[i], i, TRUE)]
(* enabled: whether those that were in use stay so. *)
Behind(names, enabled) ==
  [i \in DOMAIN Rest(names) |-> At(Rest(names)[i].dev, Len(names) + i,
                                   enabled /\ Rest(names)[i].inuse)]

(* Mistakes: the devices that are not named are dropped, or stay in use. *)
OrderedOnly(names)  == Named(names)
OrderedInUse(names) == Named(names) \o Behind(names, TRUE)

(* set_boot_list: the list is deleted, the devices that are named come     *)
(* first, the others keep their order and are disabled.                    *)
Ordered(names) == Named(names) \o Behind(names, FALSE)

-----------------------------------------------------------------------------
(* --device-add: create_dev and create() of a disk, a drive or an adapter. *)
Add(d) ==
  /\ d \notin devices /\ MaxIndexUsed < MaxIndex
  /\ devices' = devices \cup {d} /\ later' = later \cup {d}
  /\ boot' = With(d)
  /\ UNCHANGED <<backups, asked, twice>>

(* --backup-add: the disk of a backup gets no entry. *)
Attach(d) ==
  /\ d \notin devices
  /\ devices' = devices \cup {d} /\ backups' = backups \cup {d} /\ later' = later \cup {d}
  /\ UNCHANGED <<boot, asked, twice>>

(* A mistake: a disk of a backup is still taken for one. *)
DeleteForgets(d) ==
  /\ d \in devices
  /\ devices' = devices \ {d} /\ UNCHANGED <<backups, boot, asked, later, twice>>

(* --device-del, --backup-del: the entry stays or goes with its device, as *)
(* the SDK has it.                                                         *)
Delete(d) ==
  /\ d \in devices
  /\ devices' = devices \ {d} /\ backups' = backups \ {d} /\ later' = later \ {d}
  /\ asked' = Keep(asked, Device \ {d})
  /\ boot' \in {boot, Keep(boot, EntryOf(Device \ {d}))}
  /\ UNCHANGED twice

(* --device-bootorder. *)
Reorder(names) ==
  /\ Len(Ordered(names)) <= MaxIndex
  /\ boot' = Ordered(names) /\ asked' = names /\ later' = {}
  /\ twice' = twice \cup {d \in Device : \E i, j \in DOMAIN names : i # j /\ names[i] = d /\ names[j] = d}
  /\ UNCHANGED <<devices, backups>>

BootNext ==
  \/ \E d \in Device : Add(d) \/ Attach(d) \/ Delete(d)
  \/ \E n \in 1..MaxNames : \E names \in [1..n -> devices] : Reorder(names)

-----------------------------------------------------------------------------
(* "Every device in hardware list with suitable for booting type is        *)
(* present in boot order list _always_" (PrlVm.cpp): but for the disks of  *)
(* backups, and whatever entries deleted devices leave.                    *)
EveryDeviceListed == \A d \in devices \ backups : Listed(d)

(* ... and once, unless it was ever named twice in one --device-bootorder: *)
(* both entries stay, whatever is ordered later.                           *)
ListedOnce ==
  \A i, j \in DOMAIN boot : boot[i].dev = boot[j].dev /\ i # j => boot[i].dev \in twice

(* The order of the indexes is that of the list, also while entries of     *)
(* deleted devices are in it.                                              *)
IndexesGrow == \A i, j \in DOMAIN boot : i < j => boot[i].index < boot[j].index

(* The VM boots from what --device-bootorder named, in that order, and     *)
(* from nothing else but what was added later.                             *)
OrderIsAsAsked ==
  LET enabled == Keep(boot, [dev : devices \ later, index : 1..MaxIndex, inuse : {TRUE}]) IN
  [i \in DOMAIN enabled |-> enabled[i].dev] = asked
=============================================================================

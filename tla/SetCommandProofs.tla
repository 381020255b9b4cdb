--------------------------- MODULE SetCommandProofs ---------------------------
(***************************************************************************)
(* What holds of every command line of prlctl set and prlsrvctl set, with  *)
(* any number of options.                                                  *)
(***************************************************************************)
EXTENDS SetCommand, ListsProofs

-----------------------------------------------------------------------------
(* Plans.  A call is admissible if it is a stage of SetSession, if it has  *)
(* an option of Immediate where it starts a job, and if it ends set() only *)
(* where --distribution list was given (g: the options of the line).       *)
Allowed(g) ==
  {c \in Session!Stage :
     /\ c.do \in {"job", "image", "reboot"} => c.opt \in Immediate
     /\ c.do = "stop" => "distribution list" \in g}

(* The calls that either fail or do what their option asks for. *)
Sure == {"refuse", "edit", "quiet", "flag", "job", "image", "reboot"}

Does(p, o) == \E i \in 1..Len(p) : p[i].opt = o /\ p[i].do \in Sure

(* p is a plan of admissible calls that does the options of O. *)
Makes(g, p, O) == p \in Seq(Allowed(g)) /\ \A o \in O : Does(p, o)

(* Or it fails in any case. *)
Refuses(p)       == \E i \in 1..Len(p) : p[i].do = "refuse"
Answers(g, p, O) == p \in Seq(Allowed(g)) /\ (Refuses(p) \/ Makes(g, p, O))

(* opts lists the options of O, and no others. *)
ListOf(opts, O) == opts \in Seq(O) /\ O \subseteq Range(opts)

(* The elements of a list are its values. *)
LEMMA InRange ==
  ASSUME NEW A, NEW p \in Seq(A), NEW c
  PROVE  (c \in Range(p) <=> \E i \in 1..Len(p) : c = p[i]) /\ (c \in Range(p) => c \in A)
  BY DEF Range

(* A plan that does more. *)
LEMMA MakesLess ==
  ASSUME NEW g, NEW p, NEW O, NEW Q \in SUBSET O, Makes(g, p, O)
  PROVE  Makes(g, p, Q)
  BY DEF Makes

(* The empty plan. *)
LEMMA MakesNothing ==
  ASSUME NEW g
  PROVE  Makes(g, <<>>, {})
  BY DEF Makes

(* Each call of two plans is one of the two together. *)
LEMMA CallsOfBoth ==
  ASSUME NEW A, NEW p \in Seq(A), NEW q \in Seq(A)
  PROVE  /\ p \o q \in Seq(A)
         /\ \A i \in 1..Len(p) : \E k \in 1..Len(p \o q) : (p \o q)[k] = p[i]
         /\ \A i \in 1..Len(q) : \E k \in 1..Len(p \o q) : (p \o q)[k] = q[i]
<1>1. p \o q \in Seq(A) /\ Len(p \o q) = Len(p) + Len(q) /\ Len(p) \in Nat /\ Len(q) \in Nat
  OBVIOUS
<1>2. ASSUME NEW i \in 1..Len(p) PROVE i \in 1..Len(p \o q) /\ (p \o q)[i] = p[i]
  BY <1>1
<1>3. ASSUME NEW i \in 1..Len(q) PROVE Len(p) + i \in 1..Len(p \o q) /\ (p \o q)[Len(p) + i] = q[i]
  BY <1>1
<1> QED
  BY <1>1, <1>2, <1>3

(* Two plans one after the other. *)
LEMMA MakesBoth ==
  ASSUME NEW g, NEW p, NEW q, NEW O, NEW Q, Makes(g, p, O), Makes(g, q, Q)
  PROVE  Makes(g, p \o q, O \cup Q)
<1>1. p \in Seq(Allowed(g)) /\ q \in Seq(Allowed(g))
  BY DEF Makes
<1>2. /\ p \o q \in Seq(Allowed(g))
      /\ \A i \in 1..Len(p) : \E k \in 1..Len(p \o q) : (p \o q)[k] = p[i]
      /\ \A i \in 1..Len(q) : \E k \in 1..Len(p \o q) : (p \o q)[k] = q[i]
  BY <1>1, CallsOfBoth
<1>3. ASSUME NEW o \in O PROVE Does(p \o q, o)
  BY <1>2 DEF Makes, Does
<1>4. ASSUME NEW o \in Q PROVE Does(p \o q, o)
  <2>1. PICK i \in 1..Len(q) : q[i].opt = o /\ q[i].do \in Sure
    BY DEF Makes, Does
  <2> QED
    BY <1>2, <2>1 DEF Does
<1> QED
  BY <1>2, <1>3, <1>4 DEF Makes

(* The same if one of the two fails in any case. *)
LEMMA AnswersBoth ==
  ASSUME NEW g, NEW p, NEW q, NEW O, NEW Q, Answers(g, p, O), Answers(g, q, Q)
  PROVE  Answers(g, p \o q, O \cup Q)
<1>1. p \in Seq(Allowed(g)) /\ q \in Seq(Allowed(g))
  BY DEF Answers
<1>2. /\ p \o q \in Seq(Allowed(g))
      /\ \A i \in 1..Len(p) : \E k \in 1..Len(p \o q) : (p \o q)[k] = p[i]
      /\ \A i \in 1..Len(q) : \E k \in 1..Len(p \o q) : (p \o q)[k] = q[i]
  BY <1>1, CallsOfBoth
<1>3. CASE Refuses(p) \/ Refuses(q)
  BY <1>2, <1>3 DEF Answers, Refuses
<1>4. CASE Makes(g, p, O) /\ Makes(g, q, Q)
  BY <1>2, <1>4, MakesBoth DEF Answers
<1> QED
  BY <1>3, <1>4 DEF Answers

(* A plan that does what it is to do answers. *)
LEMMA MakesAnswers ==
  ASSUME NEW g, NEW p, NEW O, Makes(g, p, O)
  PROVE  Answers(g, p, O)
  BY DEF Answers, Makes

(* Calls that are made on a condition. *)
LEMMA MakesIf ==
  ASSUME NEW g, NEW p, NEW O, NEW b \in BOOLEAN, b => Makes(g, p, O)
  PROVE  Makes(g, If(b, p), IF b THEN O ELSE {})
  BY MakesNothing DEF If

(* Calls that are made if their option was given. *)
LEMMA MakesAsked ==
  ASSUME NEW g, NEW h, NEW p, NEW O, Makes(g, p, O)
  PROVE  Makes(g, Asked(h, p), O \cap h)
<1> DEFINE A == Allowed(g)
           good == {c \in Range(p) : c.opt \in h}
           k == Keep(p, good)
<1>1. p \in Seq(A)
  BY DEF Makes
<1> HIDE DEF A
<1>2. k \in Seq(A \cap good)
  BY <1>1, KeepType
<1>3. PICK e : Embeds(e, k, p) /\ \A i \in 1..Len(p) : p[i] \in good => \E j \in 1..Len(k) : e[j] = i
  BY <1>1, KeepEmbeds
<1> HIDE DEF k
<1>4. ASSUME NEW o \in O, o \in h PROVE Does(k, o)
  <2>1. PICK i \in 1..Len(p) : p[i].opt = o /\ p[i].do \in Sure
    BY DEF Makes, Does
  <2>2. p[i] \in good
    BY <1>1, <1>4, <2>1, InRange
  <2>3. PICK j \in 1..Len(k) : e[j] = i
    BY <1>3, <2>2
  <2>4. k[j] = p[i]
    BY <1>3, <2>3 DEF Embeds
  <2> QED
    BY <2>1, <2>4 DEF Does
<1>5. k \in Seq(A)
  BY <1>2
<1>6. Asked(h, p) = k
  BY DEF Asked, k
<1> QED
  BY <1>4, <1>5, <1>6 DEF Makes, A

(* The calls of one kind. *)
LEMMA DoIs ==
  ASSUME NEW A, NEW do, NEW O, NEW opts \in Seq(O), \A o \in O : [do |-> do, opt |-> o] \in A
  PROVE  Do(do, opts) \in Seq(A) /\ (do \in Sure => \A o \in Range(opts) : Does(Do(do, opts), o))
<1> DEFINE p == Do(do, opts)
<1>1. DOMAIN opts = 1..Len(opts) /\ Len(opts) \in Nat
  OBVIOUS
<1>2. p = [i \in 1..Len(opts) |-> [do |-> do, opt |-> opts[i]]]
  BY <1>1 DEF Do
<1>3. p \in Seq(A) /\ Len(p) = Len(opts)
  BY <1>1, <1>2
<1>4. ASSUME NEW o \in Range(opts), do \in Sure PROVE Does(p, o)
  <2>1. PICK i \in 1..Len(opts) : opts[i] = o
    BY <1>1 DEF Range
  <2> QED
    BY <1>2, <1>3, <1>4, <2>1 DEF Does
<1> QED
  BY <1>3, <1>4

(* The kinds of calls. *)
LEMMA KindsAre ==
  Session!Kind = {"read", "refuse", "edit", "quiet", "maybe", "flag", "switch", "try", "blind", "stop",
                  "job", "image", "reboot"}
  BY DEF Session!Kind, Session!Outcome

(* Calls that change the copy, or fail. *)
LEMMA MakesSure ==
  ASSUME NEW g, NEW do \in {"refuse", "edit", "quiet", "flag"}, NEW opts, NEW O \in SUBSET Option,
         ListOf(opts, O)
  PROVE  Makes(g, Do(do, opts), O)
<1>1. ASSUME NEW o \in O PROVE [do |-> do, opt |-> o] \in Allowed(g)
  <2>1. do \in Session!Kind /\ do \notin {"job", "image", "reboot", "stop"}
    BY KindsAre
  <2> QED
    BY <2>1 DEF Allowed, Session!Stage
<1>2. do \in Sure
  BY DEF Sure
<1> QED
  BY <1>1, <1>2, DoIs DEF Makes, ListOf

(* Calls that may do nothing. *)
LEMMA MakesMay ==
  ASSUME NEW g, NEW do \in {"read", "maybe", "switch", "try", "blind"}, NEW opts \in Seq(Option)
  PROVE  Makes(g, Do(do, opts), {})
<1>1. ASSUME NEW o \in Option PROVE [do |-> do, opt |-> o] \in Allowed(g)
  <2>1. do \in Session!Kind /\ do \notin {"job", "image", "reboot", "stop"}
    BY KindsAre
  <2> QED
    BY <2>1 DEF Allowed, Session!Stage
<1> QED
  BY <1>1, DoIs DEF Makes

(* Jobs. *)
LEMMA MakesJob ==
  ASSUME NEW g, NEW do \in {"job", "image", "reboot"}, NEW opts, NEW O \in SUBSET Immediate, ListOf(opts, O)
  PROVE  Makes(g, Do(do, opts), O)
<1>1. ASSUME NEW o \in O PROVE [do |-> do, opt |-> o] \in Allowed(g)
  <2>1. do \in Session!Kind /\ do # "stop" /\ o \in Option
    BY KindsAre, CommandAssumption DEF Session!Parameters
  <2> QED
    BY <2>1 DEF Allowed, Session!Stage
<1>2. do \in Sure
  BY DEF Sure
<1> QED
  BY <1>1, <1>2, DoIs DEF Makes, ListOf

-----------------------------------------------------------------------------
(* The options are those of the tables. *)
LEMMA TablesAre ==
  /\ SetOption = All(DiskValues) \cup All(PortValues) \cup All(ResourceValues) \cup All(NameValues)
       \cup All(FeatureValues) \cup All(GuardValues) \cup All(NetValues) \cup All(DesktopValues)
       \cup All(AddressValues) \cup All(OtherValues)
  /\ ServerOption = All(ServerValues) \cup All(SecurityValues)
  BY DEF SetOption, ServerOption, SetTable

(* A call without an option. *)
LEMMA ReadMakes ==
  ASSUME NEW g
  PROVE  Makes(g, Read, {})
<1>1. <<"none">> \in Seq(Option)
  BY DEF Option, Pseudo
<1> QED
  BY <1>1, MakesMay DEF Read

(* One that is an error. *)
LEMMA RefuseAnswers ==
  ASSUME NEW g, NEW O
  PROVE  Answers(g, Refuse, O)
<1>1. {"none"} \subseteq Option
  BY DEF Option, Pseudo
<1>2. ListOf(<<"none">>, {"none"})
  BY DEF ListOf, Range
<1>3. Makes(g, Refuse, {"none"})
  BY <1>1, <1>2, MakesSure DEF Refuse
<1>4. Refuse = <<[do |-> "refuse", opt |-> "none"]>>
  BY DEF Refuse, Do
<1>5. Refuses(Refuse)
  BY <1>4 DEF Refuses
<1> QED
  BY <1>3, <1>5 DEF Answers, Makes

-----------------------------------------------------------------------------
(* The setters of PrlVm, group by group.  Of the processors. *)
CpuOption ==
  {"cpus", "cpu-sockets", "numa-nodes", "cpu-hotplug", "cpuunits", "cpumask", "nodemask",
   "cpulimit"}

(* CpuSetters sets each of them that was given, or set() fails. *)
LEMMA CpuSettersMake ==
  ASSUME NEW g
  PROVE  Makes(g, CpuSetters, CpuOption)
<1>1. CpuOption \subseteq Option
  BY TablesAre DEF CpuOption, Option, All, Values, ResourceValues
<1>2. ListOf(<<"cpus", "cpu-sockets", "numa-nodes", "cpu-hotplug", "cpuunits", "cpumask",
              "nodemask", "cpulimit">>, CpuOption)
  BY DEF CpuOption, ListOf, Range
<1> QED
  BY <1>1, <1>2, MakesSure DEF CpuSetters

(* Of the priorities and limits of I/O. *)
IoOption ==
  {"ioprio", "iolimit", "iopslimit"}

(* IoSetters sets each of them that was given, or set() fails. *)
LEMMA IoSettersMake ==
  ASSUME NEW g
  PROVE  Makes(g, IoSetters, IoOption)
<1>1. IoOption \subseteq Option
  BY TablesAre DEF IoOption, Option, All, Values, ResourceValues
<1>2. ListOf(<<"ioprio", "iolimit", "iopslimit">>, IoOption)
  BY DEF IoOption, ListOf, Range
<1> QED
  BY <1>1, <1>2, MakesSure DEF IoSetters

(* Of the memory and the video memory. *)
MemoryOption ==
  {"memsize", "videosize", "3d-accelerate", "vertical-sync", "high-resolution",
   "mem-hotplug", "memguarantee"}

(* MemorySetters sets each of them that was given, or set() fails. *)
LEMMA MemorySettersMake ==
  ASSUME NEW g
  PROVE  Makes(g, MemorySetters, MemoryOption)
<1>1. MemoryOption \subseteq Option
  BY TablesAre DEF MemoryOption, Option, All, Values, ResourceValues
<1>2. ListOf(<<"memsize", "videosize", "3d-accelerate", "vertical-sync", "high-resolution",
              "mem-hotplug", "memguarantee">>, MemoryOption)
  BY DEF MemoryOption, ListOf, Range
<1> QED
  BY <1>1, <1>2, MakesSure DEF MemorySetters

(* Of the start. *)
StartOption ==
  {"description", "autostart", "autostart-delay", "autostop"}

(* StartSetters sets each of them that was given, or set() fails. *)
LEMMA StartSettersMake ==
  ASSUME NEW g
  PROVE  Makes(g, StartSetters, StartOption)
<1>1. StartOption \subseteq Option
  BY TablesAre DEF StartOption, Option, All, Values, PortValues, NameValues
<1>2. ListOf(<<"description", "autostart", "autostart-delay", "autostop">>, StartOption)
  BY DEF StartOption, ListOf, Range
<1> QED
  BY <1>1, <1>2, MakesSure DEF StartSetters

(* Of the view and of what happens on a crash. *)
ViewOption ==
  {"autocompact", "startup-view", "on-crash", "on-shutdown", "on-window-close",
   "system-flags", "name"}

(* ViewSetters sets each of them that was given, or set() fails. *)
LEMMA ViewSettersMake ==
  ASSUME NEW g
  PROVE  Makes(g, ViewSetters, ViewOption)
<1>1. ViewOption \subseteq Option
  BY TablesAre DEF ViewOption, Option, All, Values, PortValues, NameValues, OtherValues
<1>2. ListOf(<<"autocompact", "startup-view", "on-crash", "on-shutdown", "on-window-close",
              "system-flags", "name">>, ViewOption)
  BY DEF ViewOption, ListOf, Range
<1> QED
  BY <1>1, <1>2, MakesSure DEF ViewSetters

(* Of the resources of a container. *)
ResourceOption ==
  {"swappages", "swap", "quotaugidlimit"}

(* ResourceSetters sets each of them that was given, or set() fails. *)
LEMMA ResourceSettersMake ==
  ASSUME NEW g
  PROVE  Makes(g, ResourceSetters, ResourceOption)
<1>1. ResourceOption \subseteq Option
  BY TablesAre DEF ResourceOption, Option, All, Values, OtherValues
<1>2. ListOf(<<"swappages", "swap", "quotaugidlimit">>, ResourceOption)
  BY DEF ResourceOption, ListOf, Range
<1> QED
  BY <1>1, <1>2, MakesSure DEF ResourceSetters

(* Of the network options of the VM. *)
VmNetOption ==
  {"hostname", "nameserver", "searchdomain", "offline-service", "offline-management",
   "apply-iponly"}

(* NetSetters sets each of them that was given, or set() fails. *)
LEMMA NetSettersMake ==
  ASSUME NEW g
  PROVE  Makes(g, NetSetters, VmNetOption)
<1>1. VmNetOption \subseteq Option
  BY TablesAre DEF VmNetOption, Option, All, Values, NetValues, AddressValues, OtherValues
<1>2. ListOf(<<"hostname", "nameserver", "searchdomain", "offline-service",
              "offline-management", "apply-iponly">>, VmNetOption)
  BY DEF VmNetOption, ListOf, Range
<1> QED
  BY <1>1, <1>2, MakesSure DEF NetSetters

(* Of the rates. *)
RateOption ==
  {"rate", "ratebound"}

(* RateSetters sets each of them that was given, or set() fails. *)
LEMMA RateSettersMake ==
  ASSUME NEW g
  PROVE  Makes(g, RateSetters, RateOption)
<1>1. RateOption \subseteq Option
  BY TablesAre DEF RateOption, Option, All, Values, NetValues
<1>2. ListOf(<<"rate", "ratebound">>, RateOption)
  BY DEF RateOption, ListOf, Range
<1> QED
  BY <1>1, <1>2, MakesSure DEF RateSetters

(* Of the protection and the optimization. *)
GuardOption ==
  {"lock-on-suspend", "isolate-vm", "smart-guard", "sg-notify-before-create",
   "sg-interval", "sg-max-snapshots", "faster-vm", "adaptive-hypervisor", "auto-compress",
   "nested-virt", "pmu-virt", "longer-battery-life", "battery-status", "template",
   "backup-path"}

(* GuardSetters sets each of them that was given, or set() fails. *)
LEMMA GuardSettersMake ==
  ASSUME NEW g
  PROVE  Makes(g, GuardSetters, GuardOption)
<1>1. GuardOption \subseteq Option
  BY TablesAre DEF GuardOption, Option, All, Values, NameValues, FeatureValues, GuardValues, ServerValues
<1>2. ListOf(<<"lock-on-suspend", "isolate-vm", "smart-guard", "sg-notify-before-create",
              "sg-interval", "sg-max-snapshots", "faster-vm", "adaptive-hypervisor",
              "auto-compress", "nested-virt", "pmu-virt", "longer-battery-life",
              "battery-status", "template", "backup-path">>, GuardOption)
  BY DEF GuardOption, ListOf, Range
<1> QED
  BY <1>1, <1>2, MakesSure DEF GuardSetters

(* Of the logs of the server. *)
LogOption ==
  {"mng-settings", "cep", "verbose-log"}

(* LogSetters sets each of them that was given, or set() fails. *)
LEMMA LogSettersMake ==
  ASSUME NEW g
  PROVE  Makes(g, LogSetters, LogOption)
<1>1. LogOption \subseteq Option
  BY TablesAre DEF LogOption, Option, All, Values, ServerValues
<1>2. ListOf(<<"mng-settings", "cep", "verbose-log">>, LogOption)
  BY DEF LogOption, ListOf, Range
<1> QED
  BY <1>1, <1>2, MakesSure DEF LogSetters

(* Of its backups. *)
BackupOption ==
  {"backup-path", "backup-mode", "backup-compression", "backup-tunnel", "backup-timeout",
   "backup-storage", "backup-tmpdir"}

(* BackupSetters sets each of them that was given, or set() fails. *)
LEMMA BackupSettersMake ==
  ASSUME NEW g
  PROVE  Makes(g, BackupSetters, BackupOption)
<1>1. BackupOption \subseteq Option
  BY TablesAre DEF BackupOption, Option, All, Values, NameValues, ServerValues, SecurityValues
<1>2. ListOf(<<"backup-path", "backup-mode", "backup-compression", "backup-tunnel",
              "backup-timeout", "backup-storage", "backup-tmpdir">>, BackupOption)
  BY DEF BackupOption, ListOf, Range
<1> QED
  BY <1>1, <1>2, MakesSure DEF BackupSetters

-----------------------------------------------------------------------------
(* A list of one option. *)
LEMMA ListOfOne ==
  ASSUME NEW o
  PROVE  ListOf(<<o>>, {o})
  BY DEF ListOf, Range

(* A list of two. *)
LEMMA ListOfTwo ==
  ASSUME NEW o, NEW q
  PROVE  ListOf(<<o, q>>, {o, q})
  BY DEF ListOf, Range

(* The features of a container are set, those of a VM are not looked at. *)
LEMMA FeaturesMake ==
  ASSUME NEW g, NEW k
  PROVE  Makes(g, Features(k), IF k = "ct" THEN {"features"} ELSE {})
<1>1. "features" \in Option
  BY TablesAre DEF Option, All, Values, NetValues
<1>2. <<"features">> \in Seq(Option)
  BY <1>1
<1>3. Makes(g, Do("read", <<"features">>), {})
  BY <1>2, MakesMay
<1>4. Makes(g, Do("blind", <<"features">>), {})
  BY <1>2, MakesMay
<1>5. Makes(g, Do("edit", <<"features">>), {"features"})
  BY <1>1, ListOfOne, MakesSure
<1>6. Makes(g, IF k = "ct" THEN Do("edit", <<"features">>) ELSE Do("blind", <<"features">>),
               IF k = "ct" THEN {"features"} ELSE {})
  BY <1>4, <1>5
<1>7. Makes(g, Features(k), {} \cup IF k = "ct" THEN {"features"} ELSE {})
  BY <1>3, <1>6, MakesBoth DEF Features
<1> QED
  BY <1>7

(* A capability is set or refused. *)
LEMMA CapabilityMakes ==
  ASSUME NEW g, NEW k
  PROVE  Makes(g, Capability(k), {"capability"})
<1>1. "capability" \in Option
  BY TablesAre DEF Option, All, Values, OtherValues
<1> QED
  BY <1>1, ListOfOne, MakesSure DEF Capability

(* Settings does what was given of all these. *)
SettingOption(k) ==
  CpuOption \cup IoOption \cup MemoryOption \cup StartOption \cup ViewOption
  \cup (IF k = "ct" THEN {"features"} ELSE {}) \cup {"capability"} \cup ResourceOption \cup VmNetOption

(* The first long part of set() makes the calls of these options. *)
LEMMA SettingsMake ==
  ASSUME NEW g, NEW own, NEW k
  PROVE  Makes(g, Settings(own, k), SettingOption(k) \cap own)
<1> DEFINE p == CpuSetters \o IoSetters \o MemorySetters \o StartSetters \o ViewSetters
           O == CpuOption \cup IoOption \cup MemoryOption \cup StartOption \cup ViewOption
<1>1. Makes(g, p, O)
  BY CpuSettersMake, IoSettersMake, MemorySettersMake, StartSettersMake, ViewSettersMake, MakesBoth
<1> HIDE DEF p, O
<1>2. Makes(g, p \o Features(k) \o Capability(k) \o ResourceSetters \o NetSetters,
               O \cup (IF k = "ct" THEN {"features"} ELSE {}) \cup {"capability"} \cup ResourceOption \cup VmNetOption)
  BY <1>1, FeaturesMake, CapabilityMakes, ResourceSettersMake, NetSettersMake, MakesBoth
<1> QED
  BY <1>2, MakesAsked DEF Settings, SettingOption, p, O

-----------------------------------------------------------------------------
(* What comes before and after the settings. *)

(* The password of a user, by a job. *)
LEMMA PasswordMakes ==
  ASSUME NEW g, NEW own
  PROVE  Makes(g, Password(own), {"userpasswd"} \cap own)
<1>1. Makes(g, Do("job", <<"userpasswd">>), {"userpasswd"})
  BY ListOfOne, MakesJob DEF Immediate
<1> QED
  BY <1>1, MakesAsked DEF Password

(* The list of distributions is the only call that ends set(). *)
LEMMA DistributionMakes ==
  ASSUME NEW g, NEW own \in SUBSET g
  PROVE  Makes(g, Distribution(own), IF "distribution list" \in own THEN {} ELSE {"distribution"} \cap own)
<1>1. CASE "distribution list" \in own
  <2>1. "none" \in Option
    BY DEF Option, Pseudo
  <2>2. \A o \in {"none"} : [do |-> "stop", opt |-> o] \in Allowed(g)
    BY <1>1, <2>1, KindsAre DEF Allowed, Session!Stage
  <2>3. Do("stop", <<"none">>) \in Seq(Allowed(g))
    <3>1. Do("stop", <<"none">>) = <<[do |-> "stop", opt |-> "none"]>>
      BY DEF Do
    <3>2. [do |-> "stop", opt |-> "none"] \in Allowed(g)
      BY <2>2
    <3> DEFINE A == Allowed(g)
    <3>3. ASSUME NEW c \in A PROVE <<c>> \in Seq(A)
      OBVIOUS
    <3> HIDE DEF A
    <3>4. <<[do |-> "stop", opt |-> "none"]>> \in Seq(A)
      BY <3>2, <3>3, Zenon DEF A
    <3> QED
      BY <3>1, <3>4, Zenon DEF A
  <2> QED
    BY <1>1, <2>3 DEF Distribution, Makes
<1>2. CASE "distribution list" \notin own
  <2>1. "distribution" \in Option
    BY TablesAre DEF Option, All, Values, OtherValues
  <2>2. Makes(g, Do("edit", <<"distribution">>), {"distribution"})
    BY <2>1, ListOfOne, MakesSure
  <2> QED
    BY <1>2, <2>2, MakesAsked DEF Distribution
<1> QED
  BY <1>1, <1>2

(* So the first part of set() does what it is to do. *)
FirstOption(own) == {"userpasswd", "applyconfig"} \cup IF "distribution list" \in own THEN {} ELSE {"distribution"}

(* FirstSettings makes their calls. *)
LEMMA FirstSettingsMake ==
  ASSUME NEW g, NEW own \in SUBSET g
  PROVE  Makes(g, FirstSettings(own), FirstOption(own) \cap own)
<1>1. "applyconfig" \in Option
  BY TablesAre DEF Option, All, Values, OtherValues
<1>2. Makes(g, ApplyConfiguration, {"applyconfig"})
  BY <1>1, ListOfOne, MakesSure DEF ApplyConfiguration
<1>3. Makes(g, Asked(own, ApplyConfiguration), {"applyconfig"} \cap own)
  BY <1>2, MakesAsked
<1> DEFINE O == IF "distribution list" \in own THEN {} ELSE {"distribution"} \cap own
<1>4. Makes(g, Distribution(own), O)
  BY DistributionMakes
<1>5. Makes(g, FirstSettings(own), ({"userpasswd"} \cap own) \cup {} \cup ({"applyconfig"} \cap own) \cup O)
  <2> HIDE DEF O
  <2> QED
    BY <1>3, <1>4, PasswordMakes, ReadMakes, MakesBoth DEF FirstSettings
<1>6. FirstOption(own) \cap own \subseteq ({"userpasswd"} \cap own) \cup {} \cup ({"applyconfig"} \cap own) \cup O
  BY DEF FirstOption
<1> QED
  BY <1>5, <1>6, MakesLess

(* The options of VNC; a password hides that there is to be none. *)
VncOption(own) ==
  {"vnc-mode", "vnc-port", "vnc-address", "vnc-passwd"} \cup IF "vnc-passwd" \in own THEN {} ELSE {"vnc-nopasswd"}

(* They are done by Vnc. *)
LEMMA VncMakes ==
  ASSUME NEW g, NEW own
  PROVE  Makes(g, Vnc(own), VncOption(own) \cap own)
<1> DEFINE first == {"vnc-mode", "vnc-port", "vnc-address"}
<1>1. first \subseteq Option /\ "vnc-passwd" \in Option /\ "vnc-nopasswd" \in Option
  BY TablesAre DEF Option, All, Values, GuardValues, NetValues
<1>2. ListOf(<<"vnc-mode", "vnc-port", "vnc-address">>, first)
  BY DEF ListOf, Range
<1>3. Makes(g, Asked(own, Do("edit", <<"vnc-mode", "vnc-port", "vnc-address">>)), first \cap own)
  BY <1>1, <1>2, MakesSure, MakesAsked
<1>4. Makes(g, Do("edit", <<"vnc-passwd">>), {"vnc-passwd"})
  BY <1>1, ListOfOne, MakesSure
<1>5. Makes(g, Asked(own, Do("edit", <<"vnc-nopasswd">>)), {"vnc-nopasswd"} \cap own)
  BY <1>1, ListOfOne, MakesSure, MakesAsked
<1>6. CASE "vnc-passwd" \in own
  <2>1. Makes(g, Vnc(own), (first \cap own) \cup {"vnc-passwd"})
    BY <1>3, <1>4, <1>6, MakesBoth DEF Vnc
  <2>2. VncOption(own) \cap own \subseteq (first \cap own) \cup {"vnc-passwd"}
    BY <1>6 DEF VncOption
  <2> QED
    BY <2>1, <2>2, MakesLess
<1>7. CASE "vnc-passwd" \notin own
  <2>1. Makes(g, Vnc(own), (first \cap own) \cup ({"vnc-nopasswd"} \cap own))
    BY <1>3, <1>5, <1>7, MakesBoth DEF Vnc
  <2>2. VncOption(own) \cap own \subseteq (first \cap own) \cup ({"vnc-nopasswd"} \cap own)
    BY <1>7 DEF VncOption
  <2> QED
    BY <2>1, <2>2, MakesLess
<1> QED
  BY <1>6, <1>7

(* The NVRAM is updated by a job, and the copy changed. *)
BootOption == {"update-nvram", "efi-boot", "select-boot-device", "external-boot-device", "apptemplate",
               "ha-enable", "ha-prio"}

(* All of them are done. *)
LEMMA BootSettersMake ==
  ASSUME NEW g
  PROVE  Makes(g, BootSetters, BootOption)
<1>1. BootOption \subseteq Option
  BY TablesAre DEF BootOption, Option, All, Values, DesktopValues, OtherValues
<1>2. ListOf(<<"update-nvram", "efi-boot", "select-boot-device", "external-boot-device",
               "apptemplate", "ha-enable", "ha-prio">>, BootOption)
  BY DEF BootOption, ListOf, Range
<1>3. Makes(g, Do("job", <<"update-nvram">>), {"update-nvram"})
  BY ListOfOne, MakesJob DEF Immediate
<1>4. Makes(g, BootSetters, {"update-nvram"} \cup BootOption)
  BY <1>1, <1>2, <1>3, MakesSure, MakesBoth DEF BootSetters
<1> QED
  BY <1>4, MakesLess

(* The confirmations are set whatever was given. *)
LEMMA ConfirmationsMake ==
  ASSUME NEW g, NEW own
  PROVE  Makes(g, Confirmations(own), {"require-pwd"})
<1>1. "require-pwd" \in Option
  BY TablesAre DEF Option, All, Values, FeatureValues
<1> QED
  BY <1>1, ListOfOne, MakesSure DEF Confirmations

(* A plan in which m_updated is set if no call fails, *)
Sends(p) == \E i \in 1..Len(p) : p[i].do = "edit"

(* because a part of it does, *)
LEMMA SendsBoth ==
  ASSUME NEW A, NEW p \in Seq(A), NEW q \in Seq(A), Sends(p) \/ Sends(q)
  PROVE  Sends(p \o q) /\ p \o q \in Seq(A)
<1>1. p \o q \in Seq(A) /\ Len(p \o q) = Len(p) + Len(q) /\ Len(p) \in Nat /\ Len(q) \in Nat
  OBVIOUS
<1>2. CASE Sends(p)
  <2>1. PICK i \in 1..Len(p) : p[i].do = "edit"
    BY <1>2 DEF Sends
  <2>2. i \in 1..Len(p \o q) /\ (p \o q)[i] = p[i]
    BY <1>1
  <2> QED
    BY <1>1, <2>1, <2>2 DEF Sends
<1>3. CASE Sends(q)
  <2>1. PICK i \in 1..Len(q) : q[i].do = "edit"
    BY <1>3 DEF Sends
  <2>2. Len(p) + i \in 1..Len(p \o q) /\ (p \o q)[Len(p) + i] = q[i]
    BY <1>1
  <2> QED
    BY <1>1, <2>1, <2>2 DEF Sends
<1> QED
  BY <1>1, <1>2, <1>3

(* the confirmations. *)
LEMMA ConfirmationsSend ==
  ASSUME NEW own
  PROVE  Sends(Confirmations(own))
<1>1. Confirmations(own) = <<[do |-> "edit", opt |-> "require-pwd"]>>
  BY DEF Confirmations, Do
<1> QED
  BY <1>1 DEF Sends

(* The last part of set(). *)
AnswerOption == {"usedefanswers", "tools-autoupdate", "smart-mount"}
LaterOption(own) ==
  VncOption(own) \cup AnswerOption \cup RateOption \cup {"keyboard-optimize"} \cup BootOption
  \cup {"require-pwd"} \cup GuardOption

(* LaterSettings makes their calls, and the one that sets m_updated. *)
LEMMA LaterSettingsMake ==
  ASSUME NEW g, NEW own
  PROVE  Makes(g, LaterSettings(own), LaterOption(own) \cap own) /\ Sends(LaterSettings(own))
<1>1. AnswerOption \subseteq Option /\ "keyboard-optimize" \in Option
  BY TablesAre DEF AnswerOption, Option, All, Values, DesktopValues, OtherValues
<1>2. ListOf(<<"usedefanswers", "tools-autoupdate", "smart-mount">>, AnswerOption)
  BY DEF AnswerOption, ListOf, Range
<1> DEFINE p == Do("edit", <<"usedefanswers", "tools-autoupdate", "smart-mount">>)
                \o RateSetters \o Do("edit", <<"keyboard-optimize">>) \o BootSetters
           O == AnswerOption \cup RateOption \cup {"keyboard-optimize"} \cup BootOption
<1>3. Makes(g, Do("edit", <<"usedefanswers", "tools-autoupdate", "smart-mount">>), AnswerOption)
  BY <1>1, <1>2, MakesSure
<1>4. Makes(g, Do("edit", <<"keyboard-optimize">>), {"keyboard-optimize"})
  BY <1>1, ListOfOne, MakesSure
<1>5. Makes(g, p, O)
  BY <1>3, <1>4, RateSettersMake, BootSettersMake, MakesBoth
<1>6. Makes(g, Asked(own, p), O \cap own) /\ Makes(g, Asked(own, GuardSetters), GuardOption \cap own)
  BY <1>5, GuardSettersMake, MakesAsked
<1> HIDE DEF p, O
<1>7. Makes(g, Vnc(own) \o Asked(own, p) \o Confirmations(own) \o Asked(own, GuardSetters),
            (VncOption(own) \cap own) \cup (O \cap own) \cup {"require-pwd"} \cup (GuardOption \cap own))
  BY <1>6, VncMakes, ConfirmationsMake, MakesBoth
<1>8. LaterOption(own) \cap own \subseteq
        (VncOption(own) \cap own) \cup (O \cap own) \cup {"require-pwd"} \cup (GuardOption \cap own)
  BY DEF LaterOption, O
<1>9. LaterSettings(own) = Vnc(own) \o Asked(own, p) \o Confirmations(own) \o Asked(own, GuardSetters)
  BY DEF LaterSettings, p
<1>10. Sends(LaterSettings(own))
  <2> DEFINE A == Allowed(g)
  <2>1. /\ Vnc(own) \in Seq(A) /\ Asked(own, p) \in Seq(A)
        /\ Confirmations(own) \in Seq(A) /\ Asked(own, GuardSetters) \in Seq(A)
    BY <1>6, VncMakes, ConfirmationsMake DEF Makes
  <2> HIDE DEF A
  <2>2. Vnc(own) \o Asked(own, p) \in Seq(A)
    BY <2>1
  <2>3. Sends(Vnc(own) \o Asked(own, p) \o Confirmations(own)) /\ Vnc(own) \o Asked(own, p) \o Confirmations(own) \in Seq(A)
    BY <2>1, <2>2, ConfirmationsSend, SendsBoth
  <2> QED
    BY <1>9, <2>1, <2>3, SendsBoth
<1> QED
  BY <1>7, <1>8, <1>9, <1>10, MakesLess

(* The flags of the commit, which the commit of an encryption has not. *)
FlagOption == {"rename-ext-disks", "destroy-image", "destroy-image-force", "detach-only"}

(* They are done unless an encryption is committed. *)
LEMMA CommitFlagsMake ==
  ASSUME NEW g, NEW own, NEW b \in BOOLEAN
  PROVE  Makes(g, Asked(own, CommitFlags(b)), (IF b THEN {} ELSE FlagOption) \cap own)
<1>1. FlagOption \subseteq Option
  BY TablesAre DEF FlagOption, Option, All, Values, NameValues, OtherValues
<1>2. ListOf(<<"rename-ext-disks", "destroy-image", "destroy-image-force", "detach-only">>, FlagOption)
  BY DEF FlagOption, ListOf, Range
<1>3. Makes(g, CommitFlags(b), IF ~b THEN FlagOption ELSE {})
  BY <1>1, <1>2, MakesSure, MakesIf DEF CommitFlags
<1> QED
  BY <1>3, MakesAsked

-----------------------------------------------------------------------------
(* The server.  A list of options, with those that were given; and two.    *)
LEMMA ListOfKept ==
  ASSUME NEW opts, NEW O, NEW h, ListOf(opts, O)
  PROVE  ListOf(Keep(opts, h), O \cap h)
<1> DEFINE k == Keep(opts, h)
<1>1. opts \in Seq(O) /\ k \in Seq(O \cap h)
  BY KeepType DEF ListOf
<1>2. PICK e : Embeds(e, k, opts) /\ \A i \in 1..Len(opts) : opts[i] \in h => \E j \in 1..Len(k) : e[j] = i
  BY <1>1, KeepEmbeds
<1> HIDE DEF k
<1>3. ASSUME NEW o \in O \cap h PROVE o \in Range(k)
  <2>1. PICK i \in 1..Len(opts) : o = opts[i]
    BY <1>1, InRange DEF ListOf
  <2>2. PICK j \in 1..Len(k) : e[j] = i
    BY <1>2, <2>1
  <2>3. k[j] = o
    BY <1>2, <2>1, <2>2 DEF Embeds
  <2> QED
    BY <1>1, <2>3, InRange
<1> QED
  BY <1>1, <1>3 DEF ListOf, k

(* Two lists. *)
LEMMA ListOfBoth ==
  ASSUME NEW a, NEW b, NEW A, NEW B, ListOf(a, A), ListOf(b, B)
  PROVE  ListOf(a \o b, A \cup B)
<1>1. a \in Seq(A) /\ b \in Seq(B) /\ a \in Seq(A \cup B) /\ b \in Seq(A \cup B)
  BY SeqOfMore DEF ListOf
<1>2. /\ a \o b \in Seq(A \cup B)
      /\ \A i \in 1..Len(a) : \E k \in 1..Len(a \o b) : (a \o b)[k] = a[i]
      /\ \A i \in 1..Len(b) : \E k \in 1..Len(a \o b) : (a \o b)[k] = b[i]
  BY <1>1, CallsOfBoth
<1>3. ASSUME NEW o \in A PROVE o \in Range(a \o b)
  <2>1. PICK i \in 1..Len(a) : o = a[i]
    BY <1>1, InRange DEF ListOf
  <2> QED
    BY <1>2, <2>1, InRange
<1>4. ASSUME NEW o \in B PROVE o \in Range(a \o b)
  <2>1. PICK i \in 1..Len(b) : o = b[i]
    BY <1>1, InRange DEF ListOf
  <2> QED
    BY <1>2, <2>1, InRange
<1> QED
  BY <1>2, <1>3, <1>4 DEF ListOf

(* Of adding and deleting, one is done. *)
LastOption(own, add, del) == IF del \in own THEN {del} ELSE {add} \cap own

(* Last lists it. *)
LEMMA LastIs ==
  ASSUME NEW own, NEW add, NEW del
  PROVE  ListOf(Last(own, add, del), LastOption(own, add, del))
<1>1. ListOf(<<>>, {})
  BY DEF ListOf
<1> QED
  BY <1>1, ListOfOne DEF Last, LastOption

(* Calls that read first, if there are any. *)
LEMMA MakesIfAny ==
  ASSUME NEW g, NEW p, NEW O, Makes(g, p, O)
  PROVE  Makes(g, If(p # <<>>, Read \o p), O)
<1>1. CASE p = <<>>
  BY <1>1 DEF If
<1>2. CASE p # <<>>
  <2>1. Makes(g, Read \o p, {} \cup O)
    BY ReadMakes, MakesBoth
  <2> QED
    BY <1>2, <2>1 DEF If
<1> QED
  BY <1>1, <1>2

(* The three lists of the server that are changed by a job. *)
LEMMA ServerListsMake ==
  ASSUME NEW g, NEW own
  PROVE  /\ Makes(g, OfflineService(own), LastOption(own, "add-offsrv", "del-offsrv"))
         /\ Makes(g, NetworkClass(own), LastOption(own, "add-network-class", "del-network-class"))
         /\ Makes(g, Shaping(own), ({"shaping", "add-bandwidth-entry"} \cap own)
                                   \cup LastOption(own, "add-shaping-entry", "del-shaping-entry"))
<1>1. Makes(g, OfflineService(own), LastOption(own, "add-offsrv", "del-offsrv"))
  <2>1. LastOption(own, "add-offsrv", "del-offsrv") \subseteq Immediate
    BY DEF LastOption, Immediate
  <2> QED
    BY <2>1, LastIs, MakesJob DEF OfflineService
<1>2. Makes(g, NetworkClass(own), LastOption(own, "add-network-class", "del-network-class"))
  <2> DEFINE class == Last(own, "add-network-class", "del-network-class")
             O == LastOption(own, "add-network-class", "del-network-class")
  <2>1. O \subseteq Immediate
    BY DEF LastOption, Immediate
  <2>2. Makes(g, Do("job", class), O)
    BY <2>1, LastIs, MakesJob
  <2>3. CASE class = <<>>
    <3>1. O = {}
      BY <2>3 DEF Last, LastOption
    <3> QED
      BY <2>3, <3>1, MakesNothing DEF NetworkClass, If
  <2>4. CASE class # <<>>
    <3>1. Makes(g, Read \o Do("job", class), {} \cup O)
      BY <2>2, ReadMakes, MakesBoth
    <3> QED
      BY <2>4, <3>1 DEF NetworkClass, If
  <2> QED
    BY <2>3, <2>4
<1>3. Makes(g, Shaping(own), ({"shaping", "add-bandwidth-entry"} \cap own)
                             \cup LastOption(own, "add-shaping-entry", "del-shaping-entry"))
  <2> DEFINE entry == Last(own, "add-shaping-entry", "del-shaping-entry")
             opts == Keep(<<"shaping", "add-bandwidth-entry">>, own) \o entry
             O == ({"shaping", "add-bandwidth-entry"} \cap own)
                  \cup LastOption(own, "add-shaping-entry", "del-shaping-entry")
  <2>1. ListOf(Keep(<<"shaping", "add-bandwidth-entry">>, own), {"shaping", "add-bandwidth-entry"} \cap own)
    BY ListOfTwo, ListOfKept
  <2>2. ListOf(opts, O)
    BY <2>1, LastIs, ListOfBoth
  <2>3. O \subseteq Immediate
    BY DEF LastOption, Immediate
  <2> HIDE DEF O, opts
  <2>4. Makes(g, Do("job", opts), O)
    BY <2>2, <2>3, MakesJob
  <2> QED
    BY <2>4, MakesIfAny DEF Shaping, opts, O
<1> QED
  BY <1>1, <1>2, <1>3

(* PrlDisp::set does every option that was given, but for what another one *)
(* hides.                                                                  *)
ServerEdited ==
  {"mem-limit", "vcmmd-policy"} \cup LogOption \cup {"min-security-level", "assignment"} \cup BackupOption
  \cup {"log-rotation"}

ServerDone(own) ==
  LastOption(own, "add-offsrv", "del-offsrv")
  \cup (({"shaping", "add-bandwidth-entry"} \cap own) \cup LastOption(own, "add-shaping-entry", "del-shaping-entry"))
  \cup LastOption(own, "add-network-class", "del-network-class")
  \cup ({"vnc-ssl-certificate"} \cap own) \cup {} \cup (ServerEdited \cap own)
  \cup {"require-pwd"} \cup ({"cpu-features-mask", "vm-cpulimit-type"} \cap own)

(* PrlDisp::set makes these calls, and the one that sets m_updated. *)
LEMMA ServerPlanMakes ==
  ASSUME NEW g, NEW own
  PROVE  Makes(g, ServerPlan(own), ServerDone(own)) /\ Sends(ServerPlan(own))
<1>1. {"mem-limit", "min-security-level", "log-rotation", "cpu-features-mask", "vm-cpulimit-type"} \subseteq Option
  BY TablesAre DEF Option, All, Values, ServerValues, SecurityValues
<1>2. Makes(g, Asked(own, VncEncryption), {"vnc-ssl-certificate"} \cap own)
  <2>1. Makes(g, VncEncryption, {"vnc-ssl-certificate"})
    BY ListOfOne, MakesJob DEF VncEncryption, Immediate
  <2> QED
    BY <2>1, MakesAsked
<1> DEFINE p == LimitSetters \o LogSetters \o SecuritySetters \o Assignment \o BackupSetters
                \o Do("edit", <<"log-rotation">>)
<1>3. Makes(g, p, ServerEdited)
  <2>1. Makes(g, Do("edit", <<"mem-limit">>), {"mem-limit"})
    BY <1>1, ListOfOne, MakesSure
  <2>2. Makes(g, Do("job", <<"vcmmd-policy">>), {"vcmmd-policy"})
    BY ListOfOne, MakesJob DEF Immediate
  <2>3. Makes(g, LimitSetters, {"mem-limit"} \cup {"vcmmd-policy"})
    BY <2>1, <2>2, MakesBoth DEF LimitSetters
  <2>4. Makes(g, SecuritySetters, {"min-security-level"})
    BY <1>1, ListOfOne, MakesSure DEF SecuritySetters
  <2>5. Makes(g, Assignment, {"assignment"})
    BY ListOfOne, MakesJob DEF Assignment, Immediate
  <2>6. Makes(g, Do("edit", <<"log-rotation">>), {"log-rotation"})
    BY <1>1, ListOfOne, MakesSure
  <2>7. Makes(g, p, {"mem-limit"} \cup {"vcmmd-policy"} \cup LogOption \cup {"min-security-level"} \cup {"assignment"}
                    \cup BackupOption \cup {"log-rotation"})
    BY <2>3, <2>4, <2>5, <2>6, LogSettersMake, BackupSettersMake, MakesBoth
  <2>8. ServerEdited = {"mem-limit"} \cup {"vcmmd-policy"} \cup LogOption \cup {"min-security-level"} \cup {"assignment"}
                       \cup BackupOption \cup {"log-rotation"}
    BY DEF ServerEdited
  <2> QED
    BY <2>7, <2>8
<1>4. Makes(g, CpuMask \o LimitType, {"cpu-features-mask"} \cup {"vm-cpulimit-type"})
  <2>1. Makes(g, CpuMask, {"cpu-features-mask"}) /\ Makes(g, LimitType, {"vm-cpulimit-type"})
    BY <1>1, ListOfOne, MakesSure DEF CpuMask, LimitType
  <2> QED
    BY <2>1, MakesBoth
<1> HIDE DEF p
<1>5. Makes(g, Asked(own, p), ServerEdited \cap own)
  BY <1>3, MakesAsked
<1>6. Makes(g, Asked(own, CpuMask \o LimitType), {"cpu-features-mask", "vm-cpulimit-type"} \cap own)
  <2>1. {"cpu-features-mask", "vm-cpulimit-type"} = {"cpu-features-mask"} \cup {"vm-cpulimit-type"}
    OBVIOUS
  <2> QED
    BY <1>4, <2>1, MakesAsked
<1>7. ServerPlan(own) = OfflineService(own) \o Shaping(own) \o NetworkClass(own) \o Asked(own, VncEncryption) \o Read
                        \o Asked(own, p) \o Confirmations(own) \o Asked(own, CpuMask \o LimitType)
  BY DEF ServerPlan, p
<1>8. Makes(g, ServerPlan(own), ServerDone(own))
  BY <1>2, <1>5, <1>6, ServerListsMake, ReadMakes, ConfirmationsMake, MakesBoth DEF ServerPlan, ServerDone, p
<1>9. Sends(ServerPlan(own))
  <2> DEFINE A == Allowed(g)
             q == OfflineService(own) \o Shaping(own) \o NetworkClass(own) \o Asked(own, VncEncryption) \o Read
                  \o Asked(own, p)
             r == Asked(own, CpuMask \o LimitType)
  <2>1. /\ OfflineService(own) \in Seq(A) /\ Shaping(own) \in Seq(A) /\ NetworkClass(own) \in Seq(A)
        /\ Asked(own, VncEncryption) \in Seq(A) /\ Read \in Seq(A) /\ Asked(own, p) \in Seq(A)
        /\ Confirmations(own) \in Seq(A) /\ r \in Seq(A)
    BY <1>2, <1>5, <1>6, ServerListsMake, ReadMakes, ConfirmationsMake DEF Makes
  <2> HIDE DEF A, r
  <2>2. q \in Seq(A)
    BY <2>1
  <2>3. ServerPlan(own) = q \o Confirmations(own) \o r
    BY <1>7 DEF r
  <2> HIDE DEF q
  <2>4. Sends(q \o Confirmations(own)) /\ q \o Confirmations(own) \in Seq(A)
    BY <2>1, <2>2, ConfirmationsSend, SendsBoth
  <2> QED
    BY <2>1, <2>3, <2>4, SendsBoth
<1> QED
  BY <1>8, <1>9

-----------------------------------------------------------------------------
(* Devices.  Of several options a class looks at the first that is given.  *)
LEMMA FirstIs ==
  ASSUME NEW h, NEW O, NEW opts \in Seq(O), "none" \notin O
  PROVE  \/ First(h, opts) = "none" /\ \A i \in 1..Len(opts) : opts[i] \notin h
         \/ \E i \in 1..Len(opts) : /\ First(h, opts) = opts[i] /\ opts[i] \in h
                                    /\ \A j \in 1..Len(opts) : j < i => opts[j] \notin h
<1> DEFINE k == Keep(opts, h)
<1>1. k \in Seq(O \cap h)
  BY KeepType
<1>2. PICK e : Embeds(e, k, opts) /\ \A i \in 1..Len(opts) : opts[i] \in h => \E j \in 1..Len(k) : e[j] = i
  BY KeepEmbeds
<1>3. First(h, opts) = IF k = <<>> THEN "none" ELSE Head(k)
  BY DEF First
<1> HIDE DEF k
<1>4. CASE k = <<>>
  <2>1. \A i \in 1..Len(opts) : opts[i] \notin h
    BY <1>2, <1>4
  <2> QED
    BY <1>3, <1>4, <2>1
<1>5. CASE k # <<>>
  <2>1. Len(k) \in Nat /\ 1 \in 1..Len(k) /\ Head(k) = k[1] /\ k[1] \in O \cap h
    BY <1>1, <1>5
  <2>2. e[1] \in 1..Len(opts) /\ opts[e[1]] = k[1]
    BY <1>2, <2>1 DEF Embeds
  <2>3. ASSUME NEW j \in 1..Len(opts), j < e[1] PROVE opts[j] \notin h
    <3> SUFFICES ASSUME opts[j] \in h PROVE FALSE
      OBVIOUS
    <3>1. PICK m \in 1..Len(k) : e[m] = j
      BY <1>2
    <3>2. m # 1 /\ m \in Nat /\ 1 < m
      BY <2>1, <2>3, <3>1, <2>2
    <3>3. e[1] < e[m]
      BY <1>2, <2>1, <3>2 DEF Embeds
    <3> QED
      BY <2>2, <2>3, <3>1, <3>3
  <2> QED
    BY <1>3, <1>5, <2>1, <2>2, <2>3
<1> QED
  BY <1>4, <1>5

(* Of two, *)
LEMMA FirstOfTwo ==
  ASSUME NEW h, NEW a, NEW b, "none" \notin {a, b}
  PROVE  First(h, <<a, b>>) = IF a \in h THEN a ELSE IF b \in h THEN b ELSE "none"
<1> DEFINE opts == <<a, b>>
<1>1. opts \in Seq({a, b}) /\ 1..Len(opts) = 1..2 /\ opts[1] = a /\ opts[2] = b
  OBVIOUS
<1> HIDE DEF opts
<1>2. \/ First(h, opts) = "none" /\ \A i \in 1..2 : opts[i] \notin h
      \/ \E i \in 1..2 : /\ First(h, opts) = opts[i] /\ opts[i] \in h
                         /\ \A j \in 1..2 : j < i => opts[j] \notin h
  BY <1>1, FirstIs
<1>3. 1..2 = {1, 2}
  OBVIOUS
<1>4. First(h, opts) = IF a \in h THEN a ELSE IF b \in h THEN b ELSE "none"
  BY <1>1, <1>2, <1>3
<1> QED
  BY <1>4 DEF opts

(* of three, *)
LEMMA FirstOfThree ==
  ASSUME NEW h, NEW a, NEW b, NEW c, "none" \notin {a, b, c}
  PROVE  First(h, <<a, b, c>>) = IF a \in h THEN a ELSE IF b \in h THEN b ELSE IF c \in h THEN c ELSE "none"
<1> DEFINE opts == <<a, b, c>>
<1>1. opts \in Seq({a, b, c}) /\ 1..Len(opts) = 1..3 /\ opts[1] = a /\ opts[2] = b /\ opts[3] = c
  OBVIOUS
<1> HIDE DEF opts
<1>2. \/ First(h, opts) = "none" /\ \A i \in 1..3 : opts[i] \notin h
      \/ \E i \in 1..3 : /\ First(h, opts) = opts[i] /\ opts[i] \in h
                         /\ \A j \in 1..3 : j < i => opts[j] \notin h
  BY <1>1, FirstIs
<1>3. 1..3 = {1, 2, 3}
  OBVIOUS
<1>4. First(h, opts) = IF a \in h THEN a ELSE IF b \in h THEN b ELSE IF c \in h THEN c ELSE "none"
  BY <1>1, <1>2, <1>3
<1> QED
  BY <1>4 DEF opts

(* and of five. *)
LEMMA FirstOfFive ==
  ASSUME NEW h, NEW a, NEW b, NEW c, NEW d, NEW e, "none" \notin {a, b, c, d, e}
  PROVE  First(h, <<a, b, c, d, e>>) =
           IF a \in h THEN a ELSE IF b \in h THEN b ELSE IF c \in h THEN c
           ELSE IF d \in h THEN d ELSE IF e \in h THEN e ELSE "none"
<1> DEFINE opts == <<a, b, c, d, e>>
<1>1. opts \in Seq({a, b, c, d, e}) /\ 1..Len(opts) = 1..5 /\ opts[1] = a /\ opts[2] = b /\ opts[3] = c /\ opts[4] = d /\ opts[5] = e
  OBVIOUS
<1> HIDE DEF opts
<1>2. \/ First(h, opts) = "none" /\ \A i \in 1..5 : opts[i] \notin h
      \/ \E i \in 1..5 : /\ First(h, opts) = opts[i] /\ opts[i] \in h
                         /\ \A j \in 1..5 : j < i => opts[j] \notin h
  BY <1>1, FirstIs
<1>3. 1..5 = {1, 2, 3, 4, 5}
  OBVIOUS
<1>4. First(h, opts) = IF a \in h THEN a ELSE IF b \in h THEN b ELSE IF c \in h THEN c ELSE IF d \in h THEN d ELSE IF e \in h THEN e ELSE "none"
  BY <1>1, <1>2, <1>3
<1> QED
  BY <1>4 DEF opts

(* The options of the devices, and what set() does beside, are options. *)
LEMMA DeviceOptionsAre ==
  /\ DevOption \subseteq Option /\ NetOption \subseteq Option /\ Pseudo \subseteq Option
  /\ DeviceCommand \subseteq Option /\ {"hdd-block-size", "autocompact", "backup-add", "backup-del"} \subseteq Option
<1>1. DevOption \subseteq Option
  BY TablesAre DEF Option, DevOption, All, Values, DiskValues, PortValues, NameValues, OtherValues
<1>2. NetOption \subseteq Option
  BY TablesAre DEF Option, NetOption, All, Values, PortValues, NetValues, AddressValues
<1>3. {"hdd-block-size", "autocompact", "backup-add", "backup-del"} \subseteq Option
  BY TablesAre DEF Option, All, Values, OtherValues
<1> QED
  BY <1>1, <1>2, <1>3 DEF Option

(* The switches promise nothing; the boot order is the client's. *)
LEMMA SwitchesMake ==
  ASSUME NEW g
  PROVE  Makes(g, Switches, {}) /\ Makes(g, BootDevice, {})
<1>1. {"enable", "disable", "connect", "disconnect"} \subseteq Option
  BY DeviceOptionsAre DEF DevOption, All, Values, DiskValues
<1>2. Makes(g, Switches, {})
  <2>1. <<"enable", "disable", "connect", "disconnect">> \in Seq({"enable", "disable", "connect", "disconnect"})
    OBVIOUS
  <2>2. <<"enable", "disable", "connect", "disconnect">> \in Seq(Option)
    BY <1>1, <2>1, SeqOfMore
  <2> QED
    BY <2>2, MakesMay DEF Switches
<1>3. "boot-order" \in Option
  BY DeviceOptionsAre DEF Pseudo
<1>4. Makes(g, BootDevice, {"boot-order"})
  BY <1>3, ListOfOne, MakesSure DEF BootDevice
<1> QED
  BY <1>2, <1>4, MakesLess

-----------------------------------------------------------------------------
(* Disks. *)
DiskOption == {"iface", "subtype", "position", "passthr", "mnt", "autocompact", "serial"}
ImageOption == {"encryption-keyid", "recreate"}

(* A new image is created, with the key that is given, and over an old one *)
(* if that is asked for.                                                   *)
LEMMA HddImageMakes ==
  ASSUME NEW g, NEW s
  PROVE  Makes(g, HddImage(s), ImageOption \cap s)
<1>1. {"new-image", "split", "size", "hdd-block-size", "encryption-keyid"} \subseteq Option
  BY DeviceOptionsAre DEF Pseudo, DevOption, All, Values, DiskValues
<1>2. Makes(g, Do("edit", <<"new-image">>), {"new-image"})
  BY <1>1, ListOfOne, MakesSure
<1> DEFINE p == Do("try", <<"split">>) \o Do("quiet", <<"hdd-block-size", "encryption-keyid">>) \o Do("try", <<"size">>)
<1>3. Makes(g, p, {} \cup {"hdd-block-size", "encryption-keyid"} \cup {})
  <2>1. <<"split">> \in Seq(Option) /\ <<"size">> \in Seq(Option)
    BY <1>1
  <2>2. Makes(g, Do("try", <<"split">>), {}) /\ Makes(g, Do("try", <<"size">>), {})
    BY <2>1, MakesMay
  <2>3. Makes(g, Do("quiet", <<"hdd-block-size", "encryption-keyid">>), {"hdd-block-size", "encryption-keyid"})
    BY <1>1, ListOfTwo, MakesSure
  <2> QED
    BY <2>2, <2>3, MakesBoth
<1> HIDE DEF p
<1>4. Makes(g, Asked(s, p), ({} \cup {"hdd-block-size", "encryption-keyid"} \cup {}) \cap s)
  BY <1>3, MakesAsked
<1> DEFINE image == Do("image", IF "recreate" \in s THEN <<"recreate">> ELSE <<"new-image">>)
<1>5. Makes(g, image, {"recreate"} \cap s)
  <2>1. CASE "recreate" \in s
    <3>1. Makes(g, Do("image", <<"recreate">>), {"recreate"})
      BY ListOfOne, MakesJob DEF Immediate
    <3> QED
      BY <2>1, <3>1, MakesLess
  <2>2. CASE "recreate" \notin s
    <3>1. Makes(g, Do("image", <<"new-image">>), {"new-image"})
      BY ListOfOne, MakesJob DEF Immediate
    <3>2. Makes(g, Do("image", <<"new-image">>), {})
      BY <3>1, MakesLess
    <3> QED
      BY <2>2, <3>2
  <2> QED
    BY <2>1, <2>2
<1> HIDE DEF image
<1>6. Makes(g, Do("edit", <<"new-image">>) \o Asked(s, p) \o image,
            {"new-image"} \cup (({} \cup {"hdd-block-size", "encryption-keyid"} \cup {}) \cap s) \cup ({"recreate"} \cap s))
  BY <1>2, <1>4, <1>5, MakesBoth
<1>7. ImageOption \cap s \subseteq
        {"new-image"} \cup (({} \cup {"hdd-block-size", "encryption-keyid"} \cup {}) \cap s) \cup ({"recreate"} \cap s)
  BY DEF ImageOption
<1> QED
  BY <1>6, <1>7, MakesLess DEF HddImage, p, image

(* Where the disk is, and what that hides. *)
PlaceOption(s, cmd) ==
  IF "device" \in s THEN {"device"}
  ELSE IF "image" \in s THEN {"image", "recreate"}
  ELSE IF "backup-add" \in s THEN {}
  ELSE IF cmd = "set" THEN IF "size" \in s THEN {"size"} ELSE {"encrypt", "decrypt", "encryption-keyid"}
  ELSE {"encryption-keyid"}

(* The disk is put there. *)
LEMMA HddDeviceMakes ==
  ASSUME NEW g, NEW s, NEW cmd
  PROVE  Makes(g, HddDevice(s, cmd), PlaceOption(s, cmd) \cap s)
<1> DEFINE place == First(s, <<"device", "image", "backup-add">>)
           image == If(place = "image" /\ "recreate" \in s, HddImage(s))
<1>1. place = IF "device" \in s THEN "device" ELSE IF "image" \in s THEN "image"
              ELSE IF "backup-add" \in s THEN "backup-add" ELSE "none"
  BY FirstOfThree
<1>2. {"device", "image", "backup-add", "encrypt", "decrypt", "encryption-keyid"} \subseteq Option
  BY DeviceOptionsAre DEF DevOption, All, Values, DiskValues
<1> HIDE DEF place
<1>3. Makes(g, Read, {})
  BY ReadMakes
<1>4. CASE place # "none"
  <2>1. {place} \in SUBSET Option
    <3>1. place \in {"device", "image", "backup-add"}
      BY <1>1, <1>4
    <3> QED
      BY <1>2, <3>1
  <2>2. Makes(g, Do("edit", <<place>>), {place})
    BY <2>1, ListOfOne, MakesSure
  <2>3. Makes(g, image, IF place = "image" /\ "recreate" \in s THEN ImageOption \cap s ELSE {})
    BY HddImageMakes, MakesIf
  <2> HIDE DEF image
  <2>4. Makes(g, Do("edit", <<place>>) \o image \o Read,
              {place} \cup (IF place = "image" /\ "recreate" \in s THEN ImageOption \cap s ELSE {}) \cup {})
    BY <1>3, <2>2, <2>3, MakesBoth
  <2>5. PlaceOption(s, cmd) \cap s \subseteq
          {place} \cup (IF place = "image" /\ "recreate" \in s THEN ImageOption \cap s ELSE {}) \cup {}
    BY <1>1, <1>4 DEF PlaceOption, ImageOption
  <2>6. Makes(g, Do("edit", <<place>>) \o image \o Read, PlaceOption(s, cmd) \cap s)
    BY <2>4, <2>5, MakesLess
  <2> QED
    BY <1>4, <2>6 DEF HddDevice, place, image
<1>5. CASE place = "none" /\ cmd = "set" /\ "size" \in s
  <2>1. Makes(g, Do("job", <<"size">>), {"size"})
    BY ListOfOne, MakesJob DEF Immediate
  <2>2. PlaceOption(s, cmd) \cap s \subseteq {"size"}
    BY <1>1, <1>5 DEF PlaceOption
  <2>3. Makes(g, Do("job", <<"size">>), PlaceOption(s, cmd) \cap s)
    BY <2>1, <2>2, MakesLess
  <2> QED
    BY <1>5, <2>3 DEF HddDevice, place
<1>6. CASE place = "none" /\ cmd = "set" /\ "size" \notin s
  <2> DEFINE O == {"encrypt", "decrypt", "encryption-keyid"}
  <2>1. ListOf(<<"encrypt", "decrypt", "encryption-keyid">>, O)
    BY DEF ListOf, Range
  <2>2. Makes(g, Do("quiet", <<"encrypt", "decrypt", "encryption-keyid">>), O)
    BY <1>2, <2>1, MakesSure
  <2>3. Makes(g, Encryption(s), O \cap s)
    BY <2>2, MakesAsked DEF Encryption
  <2>4. PlaceOption(s, cmd) = O
    BY <1>1, <1>6 DEF PlaceOption
  <2> QED
    BY <1>6, <2>3, <2>4 DEF HddDevice, place
<1>7. CASE place = "none" /\ cmd # "set"
  <2>1. Makes(g, Read \o HddImage(s) \o Read, {} \cup (ImageOption \cap s) \cup {})
    BY <1>3, HddImageMakes, MakesBoth
  <2>2. PlaceOption(s, cmd) \cap s \subseteq {} \cup (ImageOption \cap s) \cup {}
    BY <1>1, <1>7 DEF PlaceOption, ImageOption
  <2>3. Makes(g, Read \o HddImage(s) \o Read, PlaceOption(s, cmd) \cap s)
    BY <2>1, <2>2, MakesLess
  <2> QED
    BY <1>7, <2>3 DEF HddDevice, place
<1> QED
  BY <1>4, <1>5, <1>6, <1>7

(* Disks are configured. *)
LEMMA HddConfigureMakes ==
  ASSUME NEW g, NEW s, NEW cmd, NEW k
  PROVE  Makes(g, HddConfigure(s, cmd, k), (DiskOption \cup PlaceOption(s, cmd)) \cap s)
<1>1. DiskOption \subseteq Option
  BY DeviceOptionsAre DEF DiskOption, DevOption, All, Values, DiskValues
<1> DEFINE mount == IF k = "ct" THEN Do("edit", <<"mnt">>) ELSE Do("refuse", <<"mnt">>)
           p == Switches \o Do("edit", <<"iface", "subtype", "position">>) \o Do("quiet", <<"passthr">>)
                \o mount \o Do("edit", <<"autocompact">>) \o Do("quiet", <<"serial">>)
           O == {} \cup {"iface", "subtype", "position"} \cup {"passthr"} \cup {"mnt"} \cup {"autocompact"} \cup {"serial"}
<1>2. ListOf(<<"iface", "subtype", "position">>, {"iface", "subtype", "position"})
  BY DEF ListOf, Range
<1>3. Makes(g, Do("edit", <<"iface", "subtype", "position">>), {"iface", "subtype", "position"})
  BY <1>1, <1>2, MakesSure DEF DiskOption
<1>4. /\ Makes(g, Do("quiet", <<"passthr">>), {"passthr"}) /\ Makes(g, Do("quiet", <<"serial">>), {"serial"})
      /\ Makes(g, Do("edit", <<"autocompact">>), {"autocompact"})
  BY <1>1, ListOfOne, MakesSure DEF DiskOption
<1>5. Makes(g, mount, {"mnt"})
  BY <1>1, ListOfOne, MakesSure DEF DiskOption
<1> HIDE DEF mount
<1>6. Makes(g, p, O)
  BY <1>3, <1>4, <1>5, SwitchesMake, MakesBoth
<1>7. O = DiskOption
  BY DEF DiskOption
<1> HIDE DEF p, O
<1>8. Makes(g, Asked(s, p), DiskOption \cap s)
  BY <1>6, <1>7, MakesAsked
<1>9. Makes(g, Asked(s, p) \o HddDevice(s, cmd), (DiskOption \cap s) \cup (PlaceOption(s, cmd) \cap s))
  BY <1>8, HddDeviceMakes, MakesBoth
<1>10. (DiskOption \cap s) \cup (PlaceOption(s, cmd) \cap s) = (DiskOption \cup PlaceOption(s, cmd)) \cap s
  OBVIOUS
<1> QED
  BY <1>9, <1>10 DEF HddConfigure, p, mount

-----------------------------------------------------------------------------
(* The other devices.  CD-ROM drives are configured, *)
CdromOption == {"iface", "subtype", "position", "passthr", "device", "image"}

(* with what is given of these. *)
LEMMA CdromConfigureMakes ==
  ASSUME NEW g, NEW s
  PROVE  Makes(g, CdromConfigure(s), CdromOption \cap s)
<1>1. CdromOption \subseteq Option
  BY DeviceOptionsAre DEF CdromOption, DevOption, All, Values, DiskValues
<1> DEFINE p == Switches \o Do("edit", <<"iface", "subtype", "position">>) \o Do("quiet", <<"passthr">>)
                \o Do("edit", <<"device", "image">>)
           O == {} \cup {"iface", "subtype", "position"} \cup {"passthr"} \cup {"device", "image"}
<1>2. ListOf(<<"iface", "subtype", "position">>, {"iface", "subtype", "position"})
  BY DEF ListOf, Range
<1>3. Makes(g, Do("edit", <<"iface", "subtype", "position">>), {"iface", "subtype", "position"})
  BY <1>1, <1>2, MakesSure DEF CdromOption
<1>4. Makes(g, Do("quiet", <<"passthr">>), {"passthr"})
  BY <1>1, ListOfOne, MakesSure DEF CdromOption
<1>5. Makes(g, Do("edit", <<"device", "image">>), {"device", "image"})
  BY <1>1, ListOfTwo, MakesSure DEF CdromOption
<1>6. Makes(g, p, O)
  BY <1>3, <1>4, <1>5, SwitchesMake, MakesBoth
<1>7. O = CdromOption
  BY DEF CdromOption
<1> HIDE DEF p, O
<1> QED
  BY <1>6, <1>7, MakesAsked DEF CdromConfigure, p

(* Floppy drives, *)
LEMMA FddConfigureMakes ==
  ASSUME NEW g, NEW s, NEW cmd
  PROVE  Makes(g, FddConfigure(s, cmd), {"device"} \cap s)
<1>1. {"device", "image", "new-image"} \subseteq Option
  BY DeviceOptionsAre DEF Pseudo, DevOption, All, Values, DiskValues
<1> DEFINE place == First(s, <<"device", "image">>)
           image == If("recreate" \in s, Do("image", <<"recreate">>))
<1>2. place = IF "device" \in s THEN "device" ELSE IF "image" \in s THEN "image" ELSE "none"
  BY FirstOfTwo
<1>3. Makes(g, image, {})
  <2>1. Makes(g, Do("image", <<"recreate">>), {"recreate"})
    BY ListOfOne, MakesJob DEF Immediate
  <2>2. CASE "recreate" \in s
    <3>1. image = Do("image", <<"recreate">>)
      BY <2>2 DEF If
    <3> QED
      BY <2>1, <3>1, MakesLess
  <2>3. CASE "recreate" \notin s
    BY <2>3, MakesNothing DEF If
  <2> QED
    BY <2>2, <2>3
<1>4. \A o \in {"device", "image", "new-image"} : Makes(g, Do("edit", <<o>>), {o})
  <2> SUFFICES ASSUME NEW o \in {"device", "image", "new-image"} PROVE Makes(g, Do("edit", <<o>>), {o})
    OBVIOUS
  <2>1. {o} \in SUBSET Option
    BY <1>1
  <2> QED
    BY <2>1, ListOfOne, MakesSure
<1> HIDE DEF place, image
<1>5. Makes(g, FddDevice(s, cmd), {"device"} \cap s)
  <2>1. CASE place = "device"
    <3>1. FddDevice(s, cmd) = Do("edit", <<"device">>)
      BY <2>1 DEF FddDevice, place
    <3> QED
      BY <1>4, <3>1, MakesLess
  <2>2. CASE place = "image"
    <3>1. FddDevice(s, cmd) = Do("edit", <<"image">>) \o image
      BY <2>2 DEF FddDevice, place, image
    <3>2. Makes(g, Do("edit", <<"image">>) \o image, {"image"} \cup {})
      BY <1>3, <1>4, MakesBoth
    <3>3. {"device"} \cap s \subseteq {"image"} \cup {}
      BY <1>2, <2>2
    <3> QED
      BY <3>1, <3>2, <3>3, MakesLess
  <2>3. CASE place = "none"
    <3>1. FddDevice(s, cmd) = If(cmd = "add", Do("edit", <<"new-image">>) \o image)
      BY <2>3 DEF FddDevice, place, image
    <3>2. Makes(g, Do("edit", <<"new-image">>) \o image, {"new-image"} \cup {})
      BY <1>3, <1>4, MakesBoth
    <3>3. {"device"} \cap s = {}
      BY <1>2, <2>3
    <3>4. CASE cmd = "add"
      BY <3>1, <3>2, <3>3, <3>4, MakesLess DEF If
    <3>5. CASE cmd # "add"
      BY <3>1, <3>3, <3>5, MakesNothing DEF If
    <3> QED
      BY <3>4, <3>5
  <2> QED
    BY <1>2, <2>1, <2>2, <2>3
<1>6. Makes(g, Asked(s, Switches), {} \cap s)
  BY SwitchesMake, MakesAsked
<1>7. Makes(g, Asked(s, Switches) \o FddDevice(s, cmd) \o BootDevice, ({} \cap s) \cup ({"device"} \cap s) \cup {})
  BY <1>5, <1>6, SwitchesMake, MakesBoth
<1>8. {"device"} \cap s \subseteq ({} \cap s) \cup ({"device"} \cap s) \cup {}
  OBVIOUS
<1> QED
  BY <1>7, <1>8, MakesLess DEF FddConfigure

(* the only one of its kind, *)
LEMMA SingleMakes ==
  ASSUME NEW g, NEW s
  PROVE  Makes(g, If("disable" \notin s, Do("switch", <<"enable">>)), {}) /\ Makes(g, Single(s), {})
<1>1. <<"enable">> \in Seq(Option)
  <2>1. "enable" \in Option
    BY DeviceOptionsAre DEF DevOption, All, Values, DiskValues
  <2> QED
    BY <2>1
<1>2. Makes(g, Do("switch", <<"enable">>), {})
  BY <1>1, MakesMay
<1>3. Makes(g, If("disable" \notin s, Do("switch", <<"enable">>)), IF "disable" \notin s THEN {} ELSE {})
  BY <1>2, MakesIf
<1>4. Makes(g, If("disable" \notin s, Do("switch", <<"enable">>)), {})
  BY <1>3
<1>5. Makes(g, Single(s), {} \cup {})
  BY <1>4, ReadMakes, MakesBoth DEF Single
<1> QED
  BY <1>4, <1>5

(* the USB controller and the sound device, which promise nothing, *)
LEMMA UsbAndSoundMake ==
  ASSUME NEW g, NEW s
  PROVE  Makes(g, UsbConfigure(s), {}) /\ Makes(g, SoundConfigure(s), {})
<1>1. {"enable", "disable", "output", "mixer"} \subseteq Option
  BY DeviceOptionsAre DEF DevOption, All, Values, DiskValues
<1>2. <<"enable", "disable">> \in Seq(Option)
  BY <1>1, PairIsList
<1>3. Makes(g, Do("switch", <<"enable", "disable">>), {})
  BY <1>2, MakesMay
<1>4. Makes(g, UsbConfigure(s), {} \cap s)
  BY <1>3, MakesAsked DEF UsbConfigure
<1>5. Makes(g, Do("edit", <<"output", "mixer">>), {"output", "mixer"})
  BY <1>1, ListOfTwo, MakesSure
<1>6. Makes(g, Switches \o Do("edit", <<"output", "mixer">>), {} \cup {"output", "mixer"})
  BY <1>5, SwitchesMake, MakesBoth
<1>7. Makes(g, SoundConfigure(s), ({} \cup {"output", "mixer"}) \cap s)
  BY <1>6, MakesAsked DEF SoundConfigure
<1> QED
  BY <1>4, <1>7, MakesLess

(* serial ports, which go to the first place that is given, *)
SerialPlace(s) == First(s, <<"device", "output", "socket", "socket-tcp", "socket-udp">>)

(* and nowhere else, *)
LEMMA SerialConfigureMakes ==
  ASSUME NEW g, NEW s
  PROVE  Makes(g, SerialConfigure(s), {SerialPlace(s)} \cap s)
<1> DEFINE port == SerialPlace(s)
           mode == If(port \in {"socket", "socket-tcp", "none"}, Do("edit", <<"socket-mode">>))
<1>1. port \in {"device", "output", "socket", "socket-tcp", "socket-udp", "none"}
  <2>1. port = IF "device" \in s THEN "device" ELSE IF "output" \in s THEN "output" ELSE IF "socket" \in s THEN "socket"
               ELSE IF "socket-tcp" \in s THEN "socket-tcp" ELSE IF "socket-udp" \in s THEN "socket-udp" ELSE "none"
    BY FirstOfFive DEF SerialPlace
  <2> QED
    BY <2>1
<1>2. {"device", "output", "socket", "socket-tcp", "socket-udp", "none", "socket-mode"} \subseteq Option
  <2>1. {"device", "output", "socket", "socket-tcp", "socket-udp", "socket-mode"} \subseteq Option
    BY DeviceOptionsAre DEF DevOption, All, Values, DiskValues
  <2>2. "none" \in Option
    BY DeviceOptionsAre DEF Pseudo
  <2> QED
    BY <2>1, <2>2
<1>3. SerialPort(s) = Asked(s, Do("edit", <<port>>) \o mode)
  BY DEF SerialPort, SerialPlace
<1>4. {port} \in SUBSET Option
  BY <1>1, <1>2
<1> HIDE DEF port
<1>5. Makes(g, Do("edit", <<port>>), {port})
  BY <1>4, ListOfOne, MakesSure
<1>6. Makes(g, mode, {})
  <2>1. Makes(g, Do("edit", <<"socket-mode">>), {"socket-mode"})
    BY <1>2, ListOfOne, MakesSure
  <2>2. CASE port \in {"socket", "socket-tcp", "none"}
    <3>1. mode = Do("edit", <<"socket-mode">>)
      BY <2>2 DEF If
    <3> QED
      BY <2>1, <3>1, MakesLess
  <2>3. CASE port \notin {"socket", "socket-tcp", "none"}
    BY <2>3, MakesNothing DEF If
  <2> QED
    BY <2>2, <2>3
<1> HIDE DEF mode
<1>7. Makes(g, SerialPort(s), ({port} \cup {}) \cap s)
  <2>1. Makes(g, Do("edit", <<port>>) \o mode, {port} \cup {})
    BY <1>5, <1>6, MakesBoth
  <2> QED
    BY <1>3, <2>1, MakesAsked
<1>8. Makes(g, Asked(s, Switches), {} \cap s)
  BY SwitchesMake, MakesAsked
<1>9. Makes(g, SerialConfigure(s), ({} \cap s) \cup (({port} \cup {}) \cap s))
  BY <1>7, <1>8, MakesBoth DEF SerialConfigure
<1>10. {port} \cap s \subseteq ({} \cap s) \cup (({port} \cup {}) \cap s)
  OBVIOUS
<1> QED
  BY <1>9, <1>10, MakesLess DEF port

(* parallel ports, which promise nothing, and PCI devices. *)
LEMMA ParallelAndPciMake ==
  ASSUME NEW g, NEW s
  PROVE  Makes(g, ParallelConfigure(s), {}) /\ Makes(g, PciConfigure(s), {"device"} \cap s)
<1>1. {"device", "output", "enable", "disable"} \subseteq Option /\ "none" \in Option
  <2>1. {"device", "output", "enable", "disable"} \subseteq Option
    BY DeviceOptionsAre DEF DevOption, All, Values, DiskValues
  <2> QED
    BY <2>1, DeviceOptionsAre DEF Pseudo
<1>2. Makes(g, ParallelConfigure(s), {})
  <2> DEFINE port == First(s, <<"device", "output">>)
  <2>1. port = IF "device" \in s THEN "device" ELSE IF "output" \in s THEN "output" ELSE "none"
    BY FirstOfTwo
  <2>2. {port} \in SUBSET Option
    BY <1>1, <2>1
  <2>3. ParallelConfigure(s) = Asked(s, Switches \o Do("edit", <<port>>))
    BY DEF ParallelConfigure
  <2> HIDE DEF port
  <2>4. Makes(g, Do("edit", <<port>>), {port})
    BY <2>2, ListOfOne, MakesSure
  <2>5. Makes(g, Switches \o Do("edit", <<port>>), {} \cup {port})
    BY <2>4, SwitchesMake, MakesBoth
  <2>6. Makes(g, ParallelConfigure(s), ({} \cup {port}) \cap s)
    BY <2>3, <2>5, MakesAsked
  <2> QED
    BY <2>6, MakesLess
<1>3. Makes(g, PciConfigure(s), {"device"} \cap s)
  <2>1. <<"enable", "disable">> \in Seq(Option)
    BY <1>1, PairIsList
  <2>2. Makes(g, Do("switch", <<"enable", "disable">>), {})
    BY <2>1, MakesMay
  <2>3. Makes(g, Do("edit", <<"device">>), {"device"})
    BY <1>1, ListOfOne, MakesSure
  <2>4. Makes(g, Do("switch", <<"enable", "disable">>) \o Do("edit", <<"device">>), {} \cup {"device"})
    BY <2>2, <2>3, MakesBoth
  <2>5. Makes(g, PciConfigure(s), ({} \cup {"device"}) \cap s)
    BY <2>4, MakesAsked DEF PciConfigure
  <2>6. ({} \cup {"device"}) \cap s = {"device"} \cap s
    OBVIOUS
  <2> QED
    BY <2>5, <2>6
<1> QED
  BY <1>2, <1>3

-----------------------------------------------------------------------------
(* Adapters.  One that is assigned has no mac and no network. *)
AdapterOption(s) ==
  IF "device" \in s THEN {"device"}
  ELSE IF "type bridge" \in s THEN {"type bridge", "mac"}
  ELSE IF "type routed" \in s THEN {"type routed", "mac"}
  ELSE {"network", "mac"}

(* Where the adapter is. *)
LEMMA NetDeviceMakes ==
  ASSUME NEW g, NEW s
  PROVE  Makes(g, NetDevice(s), AdapterOption(s) \cap s)
<1>1. {"device", "iface", "type bridge", "type routed", "mac", "network"} \subseteq Option
  BY DeviceOptionsAre DEF DevOption, All, Values, DiskValues
<1> DEFINE p == IF "device" \in s THEN Do("edit", <<"device">>)
                ELSE IF "type bridge" \in s THEN Do("try", <<"iface">>) \o Do("edit", <<"type bridge", "mac">>)
                ELSE IF "type routed" \in s THEN Do("edit", <<"type routed", "mac">>)
                ELSE Do("edit", <<"network", "mac">>)
<1>2. Makes(g, Do("edit", <<"device">>), {"device"})
  BY <1>1, ListOfOne, MakesSure
<1>3. \A o \in {"type bridge", "type routed", "network"} : Makes(g, Do("edit", <<o, "mac">>), {o, "mac"})
  <2> SUFFICES ASSUME NEW o \in {"type bridge", "type routed", "network"}
               PROVE  Makes(g, Do("edit", <<o, "mac">>), {o, "mac"})
    OBVIOUS
  <2>1. {o, "mac"} \in SUBSET Option
    BY <1>1
  <2> QED
    BY <2>1, ListOfTwo, MakesSure
<1>4. <<"iface">> \in Seq(Option)
  <2>1. "iface" \in Option
    BY <1>1
  <2> QED
    BY <2>1
<1>5. Makes(g, Do("try", <<"iface">>), {})
  BY <1>4, MakesMay
<1>6. Makes(g, Do("try", <<"iface">>) \o Do("edit", <<"type bridge", "mac">>), {} \cup {"type bridge", "mac"})
  BY <1>3, <1>5, MakesBoth
<1>7. Makes(g, Do("try", <<"iface">>) \o Do("edit", <<"type bridge", "mac">>), {"type bridge", "mac"})
  BY <1>6, MakesLess
<1>8. Makes(g, p, AdapterOption(s))
  <2>1. CASE "device" \in s
    BY <1>2, <2>1 DEF AdapterOption
  <2>2. CASE "device" \notin s /\ "type bridge" \in s
    BY <1>7, <2>2 DEF AdapterOption
  <2>3. CASE "device" \notin s /\ "type bridge" \notin s /\ "type routed" \in s
    BY <1>3, <2>3 DEF AdapterOption
  <2>4. CASE "device" \notin s /\ "type bridge" \notin s /\ "type routed" \notin s
    BY <1>3, <2>4 DEF AdapterOption
  <2> QED
    BY <2>1, <2>2, <2>3, <2>4
<1>9. NetDevice(s) = Asked(s, p)
  BY DEF NetDevice
<1> HIDE DEF p
<1> QED
  BY <1>8, <1>9, MakesAsked

(* Its addresses; the list of addresses hides those that are deleted. *)
AddressOption(s) ==
  {"nameserver", "searchdomain", "ipset", "ipadd", "dhcp", "dhcp6", "gw", "gw6", "configure", "macfilter",
   "preventpromisc", "ipfilter"} \cup IF "ipset" \in s THEN {} ELSE {"ipdel"}

(* They are set, or refused because a routed adapter has no DHCP. *)
LEMMA NetAddressesAnswer ==
  ASSUME NEW g, NEW s
  PROVE  Answers(g, NetAddresses(s), AddressOption(s) \cap s)
<1> DEFINE others == {"dhcp", "dhcp6", "gw", "gw6", "configure", "macfilter", "preventpromisc", "ipfilter"}
           ips  == Do("edit", IF "ipset" \in s THEN <<"ipset", "ipadd">> ELSE <<"ipadd", "ipdel">>)
           p == Do("edit", <<"nameserver", "searchdomain">>) \o ips
                \o Do("edit", <<"dhcp", "dhcp6", "gw", "gw6", "configure", "macfilter", "preventpromisc", "ipfilter">>)
           unrouted == {"dhcp", "dhcp6", "gw", "gw6"}
           first == If(unrouted \cap s # {}, IF "type routed" \in s /\ "device" \notin s THEN Refuse ELSE Read)
<1>1. others \cup {"nameserver", "searchdomain", "ipset", "ipadd", "ipdel"} \subseteq Option
  BY DeviceOptionsAre DEF NetOption
<1>2. Makes(g, Do("edit", <<"nameserver", "searchdomain">>), {"nameserver", "searchdomain"})
  BY <1>1, ListOfTwo, MakesSure
<1>3. Makes(g, ips, IF "ipset" \in s THEN {"ipset", "ipadd"} ELSE {"ipadd", "ipdel"})
  BY <1>1, ListOfTwo, MakesSure
<1>4. ListOf(<<"dhcp", "dhcp6", "gw", "gw6", "configure", "macfilter", "preventpromisc", "ipfilter">>, others)
  BY DEF ListOf, Range
<1>5. Makes(g, Do("edit", <<"dhcp", "dhcp6", "gw", "gw6", "configure", "macfilter", "preventpromisc", "ipfilter">>), others)
  BY <1>1, <1>4, MakesSure
<1> HIDE DEF ips
<1>6. Makes(g, p, {"nameserver", "searchdomain"} \cup (IF "ipset" \in s THEN {"ipset", "ipadd"} ELSE {"ipadd", "ipdel"}) \cup others)
  BY <1>2, <1>3, <1>5, MakesBoth
<1> DEFINE O == ({"nameserver", "searchdomain"} \cup (IF "ipset" \in s THEN {"ipset", "ipadd"} ELSE {"ipadd", "ipdel"}) \cup others) \cap s
<1>7. Makes(g, Asked(s, p), O)
  BY <1>6, MakesAsked
<1>8. AddressOption(s) \cap s \subseteq {} \cup O
  BY DEF AddressOption
<1>9. Answers(g, first, {})
  <2>1. Answers(g, Refuse, {}) /\ Answers(g, Read, {}) /\ Answers(g, <<>>, {})
    BY RefuseAnswers, ReadMakes, MakesNothing, MakesAnswers
  <2> QED
    BY <2>1 DEF If
<1>10. NetAddresses(s) = first \o Asked(s, p)
  BY DEF NetAddresses, ips
<1> HIDE DEF first, p, O
<1>11. Answers(g, first \o Asked(s, p), {} \cup O)
  BY <1>7, <1>9, MakesAnswers, AnswersBoth
<1> QED
  BY <1>8, <1>10, <1>11, MakesLess DEF Answers

(* Less is answered too. *)
LEMMA AnswersLess ==
  ASSUME NEW g, NEW p, NEW O, NEW Q \in SUBSET O, Answers(g, p, O)
  PROVE  Answers(g, p, Q)
  BY MakesLess DEF Answers

(* All that is done to an adapter. *)
FirewallOption == {"fw", "fw-policy", "fw-rule"}
LinkOption(s)  == {"adapter-type"} \cup AdapterOption(s) \cup AddressOption(s) \cup FirewallOption

(* It is configured. *)
LEMMA NetConfigureAnswers ==
  ASSUME NEW g, NEW s
  PROVE  Answers(g, NetConfigure(s), LinkOption(s) \cap s)
<1>1. {"adapter-type"} \cup FirewallOption \subseteq Option
  BY DeviceOptionsAre DEF FirewallOption, NetOption
<1>2. Makes(g, Do("edit", <<"adapter-type">>), {"adapter-type"})
  BY <1>1, ListOfOne, MakesSure
<1>3. Makes(g, Switches \o Do("edit", <<"adapter-type">>), {} \cup {"adapter-type"})
  BY <1>2, SwitchesMake, MakesBoth
<1> DEFINE p == Asked(s, Switches \o Do("edit", <<"adapter-type">>))
<1>4. Makes(g, p, ({} \cup {"adapter-type"}) \cap s)
  BY <1>3, MakesAsked
<1>5. ListOf(<<"fw", "fw-policy", "fw-rule">>, FirewallOption)
  BY DEF ListOf, Range, FirewallOption
<1>6. Makes(g, Firewall(s), FirewallOption \cap s)
  <2>1. Makes(g, Do("edit", <<"fw", "fw-policy", "fw-rule">>), FirewallOption)
    BY <1>1, <1>5, MakesSure
  <2> QED
    BY <2>1, MakesAsked DEF Firewall
<1> HIDE DEF p
<1>7. Answers(g, p \o NetDevice(s) \o NetAddresses(s) \o Firewall(s),
              (({} \cup {"adapter-type"}) \cap s) \cup (AdapterOption(s) \cap s) \cup (AddressOption(s) \cap s)
              \cup (FirewallOption \cap s))
  BY <1>4, <1>6, NetDeviceMakes, NetAddressesAnswer, MakesAnswers, AnswersBoth
<1>8. LinkOption(s) \cap s \subseteq
        (({} \cup {"adapter-type"}) \cap s) \cup (AdapterOption(s) \cap s) \cup (AddressOption(s) \cap s)
        \cup (FirewallOption \cap s)
  BY DEF LinkOption
<1> QED
  BY <1>7, <1>8, AnswersLess DEF NetConfigure, p

(* A new one is on the network "Bridged" before. *)
LEMMA NetCreateAnswers ==
  ASSUME NEW g, NEW s, NEW k
  PROVE  Answers(g, NetCreate(s, k), LinkOption(s) \cap s)
<1>1. {"network", "mac", "netif_add"} \subseteq Option
  <2>1. {"network", "mac"} \subseteq Option
    BY DeviceOptionsAre DEF DevOption, All, Values, DiskValues
  <2> QED
    BY <2>1, DeviceOptionsAre DEF DeviceCommand
<1> DEFINE enable == If("disable" \notin s, Do("switch", <<"enable">>))
           bridged == If({"type bridge", "type routed", "device"} \cap s = {},
                         Do("edit", <<"network">>) \o Asked(s, Do("edit", <<"mac">>)))
           named == If(k = "ct", Asked(s, Do("quiet", <<"netif_add">>)))
<1>2. Makes(g, enable, {})
  BY SingleMakes
<1>3. Makes(g, bridged, {})
  <2>1. Makes(g, Do("edit", <<"network">>), {"network"}) /\ Makes(g, Asked(s, Do("edit", <<"mac">>)), {"mac"} \cap s)
    BY <1>1, ListOfOne, MakesSure, MakesAsked
  <2>2. Makes(g, Do("edit", <<"network">>) \o Asked(s, Do("edit", <<"mac">>)), {"network"} \cup ({"mac"} \cap s))
    BY <2>1, MakesBoth
  <2> DEFINE p == Do("edit", <<"network">>) \o Asked(s, Do("edit", <<"mac">>))
  <2>3. Makes(g, p, {})
    BY <2>2, MakesLess
  <2>4. bridged = p \/ bridged = <<>>
    BY DEF If
  <2> HIDE DEF p, bridged
  <2> QED
    BY <2>3, <2>4, MakesNothing
<1>4. Makes(g, named, {})
  <2>1. Makes(g, Asked(s, Do("quiet", <<"netif_add">>)), {"netif_add"} \cap s)
    BY <1>1, ListOfOne, MakesSure, MakesAsked
  <2>2. CASE k = "ct"
    <3>1. named = Asked(s, Do("quiet", <<"netif_add">>))
      BY <2>2 DEF If
    <3> QED
      BY <2>1, <3>1, MakesLess
  <2>3. CASE k # "ct"
    BY <2>3, MakesNothing DEF If
  <2> QED
    BY <2>2, <2>3
<1>5. NetCreate(s, k) = enable \o bridged \o named \o NetConfigure(s) \o BootDevice
  BY DEF NetCreate
<1> HIDE DEF enable, bridged, named
<1>6. Makes(g, enable \o bridged \o named, {} \cup {} \cup {})
  BY <1>2, <1>3, <1>4, MakesBoth
<1>7. Answers(g, enable \o bridged \o named \o NetConfigure(s) \o BootDevice, ({} \cup {} \cup {}) \cup (LinkOption(s) \cap s) \cup {})
  BY <1>6, NetConfigureAnswers, SwitchesMake, MakesAnswers, AnswersBoth
<1> QED
  BY <1>5, <1>7, AnswersLess

-----------------------------------------------------------------------------
(* What is done to a device of a class; *)
DoneOn(class, s, cmd) ==
  CASE class = "hdd"    -> DiskOption \cup PlaceOption(s, cmd)
    [] class = "cdrom"  -> CdromOption
    [] class = "net"    -> LinkOption(s)
    [] class = "serial" -> {SerialPlace(s)}
    [] class \in {"fdd", "pci"} -> {"device"}
    [] class \in {"usb", "sound", "parallel"} -> {}

(* when it is there, *)
LEMMA ConfigureAnswers ==
  ASSUME NEW g, NEW s, NEW k, NEW class \in Class
  PROVE  Answers(g, Configure(class, s, k), DoneOn(class, s, "set") \cap s)
<1>1. CASE class = "hdd"
  BY <1>1, HddConfigureMakes, MakesAnswers DEF Configure, DoneOn
<1>2. CASE class = "cdrom"
  BY <1>2, CdromConfigureMakes, MakesAnswers DEF Configure, DoneOn
<1>3. CASE class = "net"
  BY <1>3, NetConfigureAnswers DEF Configure, DoneOn
<1>4. CASE class = "serial"
  BY <1>4, SerialConfigureMakes, MakesAnswers DEF Configure, DoneOn
<1>5. CASE class = "fdd"
  BY <1>5, FddConfigureMakes, MakesAnswers DEF Configure, DoneOn
<1>6. CASE class = "pci"
  BY <1>6, ParallelAndPciMake, MakesAnswers DEF Configure, DoneOn
<1>7. CASE class \in {"usb", "sound", "parallel"}
  <2>1. DoneOn(class, s, "set") \cap s = {}
    BY <1>7 DEF DoneOn
  <2> QED
    BY <1>7, <2>1, UsbAndSoundMake, ParallelAndPciMake, MakesAnswers DEF Configure
<1> QED
  BY <1>1, <1>2, <1>3, <1>4, <1>5, <1>6, <1>7 DEF Class

(* and when it is created. *)
LEMMA CreateAnswers ==
  ASSUME NEW g, NEW s, NEW k, NEW class \in Class
  PROVE  Answers(g, Create(class, s, k), DoneOn(class, s, "add") \cap s)
<1> DEFINE enable == If("disable" \notin s, Do("switch", <<"enable">>))
<1>1. Makes(g, enable, {}) /\ Makes(g, Single(s), {}) /\ Makes(g, BootDevice, {})
  BY SingleMakes, SwitchesMake
<1> HIDE DEF enable
<1>2. CASE class = "hdd"
  <2> DEFINE O == (DiskOption \cup PlaceOption(s, "add")) \cap s
  <2>1. Makes(g, HddConfigure(s, "add", k), O)
    BY HddConfigureMakes
  <2>2. Makes(g, If(k = "vm", BootDevice), {})
    BY <1>1, MakesNothing DEF If
  <2> HIDE DEF O
  <2>3. Makes(g, HddCreate(s, k), O \cup {})
    BY <2>1, <2>2, MakesBoth DEF HddCreate
  <2> QED
    BY <1>2, <2>3, MakesAnswers DEF Create, DoneOn, O
<1>3. CASE class = "cdrom"
  <2>1. Makes(g, CdromConfigure(s) \o BootDevice, (CdromOption \cap s) \cup {})
    BY <1>1, CdromConfigureMakes, MakesBoth
  <2>2. Answers(g, CdromCreate(s), (CdromOption \cap s) \cup {})
    BY <2>1, MakesAnswers, RefuseAnswers DEF CdromCreate
  <2> QED
    BY <1>3, <2>2 DEF Create, DoneOn
<1>4. CASE class = "net"
  BY <1>4, NetCreateAnswers DEF Create, DoneOn
<1>5. CASE class = "serial"
  <2>1. Makes(g, enable \o SerialConfigure(s), {} \cup ({SerialPlace(s)} \cap s))
    BY <1>1, SerialConfigureMakes, MakesBoth
  <2>2. Answers(g, SerialCreate(s), {} \cup ({SerialPlace(s)} \cap s))
    BY <2>1, MakesAnswers, RefuseAnswers DEF SerialCreate, enable
  <2> QED
    BY <1>5, <2>2 DEF Create, DoneOn
<1>6. CASE class = "usb"
  <2>1. Makes(g, Single(s) \o UsbConfigure(s), {} \cup {})
    BY <1>1, UsbAndSoundMake, MakesBoth
  <2> QED
    BY <1>6, <2>1, MakesAnswers DEF Create, DoneOn
<1>7. CASE class = "sound"
  <2>1. Makes(g, Single(s) \o SoundConfigure(s), {} \cup {})
    BY <1>1, UsbAndSoundMake, MakesBoth
  <2> QED
    BY <1>7, <2>1, MakesAnswers DEF Create, DoneOn
<1>8. CASE class = "fdd"
  <2>1. Makes(g, Single(s) \o FddConfigure(s, "add") \o BootDevice, {} \cup ({"device"} \cap s) \cup {})
    BY <1>1, FddConfigureMakes, MakesBoth
  <2> QED
    BY <1>8, <2>1, MakesAnswers DEF Create, DoneOn
<1>9. CASE class = "pci"
  <2>1. Makes(g, enable \o PciConfigure(s), {} \cup ({"device"} \cap s))
    BY <1>1, ParallelAndPciMake, MakesBoth
  <2>2. Answers(g, PciCreate(s), {} \cup ({"device"} \cap s))
    BY <2>1, MakesAnswers, RefuseAnswers DEF PciCreate, enable
  <2> QED
    BY <1>9, <2>2 DEF Create, DoneOn
<1>10. CASE class = "parallel"
  <2>1. Makes(g, enable \o ParallelConfigure(s), {} \cup {})
    BY <1>1, ParallelAndPciMake, MakesBoth
  <2>2. Answers(g, ParallelCreate(s), {} \cup {})
    BY <2>1, MakesAnswers, RefuseAnswers DEF ParallelCreate, enable
  <2> QED
    BY <1>10, <2>2 DEF Create, DoneOn
<1> QED
  BY <1>2, <1>3, <1>4, <1>5, <1>6, <1>7, <1>8, <1>9, <1>10 DEF Class

(* A call on a device after it was read. *)
LEMMA CallOnDevice ==
  ASSUME NEW g, NEW o \in DeviceCommand
  PROVE  Makes(g, Read \o Do("edit", <<o>>), {}) /\ (o \in Immediate => Makes(g, Read \o Do("job", <<o>>), {}))
<1>1. Makes(g, Do("edit", <<o>>), {o})
  <2>1. {o} \in SUBSET Option
    BY DeviceOptionsAre
  <2> QED
    BY <2>1, ListOfOne, MakesSure
<1>2. Makes(g, Read \o Do("edit", <<o>>), {} \cup {o})
  BY <1>1, ReadMakes, MakesBoth
<1>3. ASSUME o \in Immediate PROVE Makes(g, Read \o Do("job", <<o>>), {} \cup {o})
  <2>1. {o} \in SUBSET Immediate
    BY <1>3
  <2>2. Makes(g, Do("job", <<o>>), {o})
    BY <2>1, ListOfOne, MakesJob
  <2> QED
    BY <2>2, ReadMakes, MakesBoth
<1> QED
  BY <1>2, <1>3, MakesLess

(* The disks of a backup. *)
LEMMA BackupDisksMake ==
  ASSUME NEW g, NEW s, NEW k
  PROVE  Makes(g, BackupDisks(s, k), {})
<1>1. {"backup-add", "backup-del", "device-add", "disk"} \subseteq Option
  <2>1. "disk" \in Option
    BY DeviceOptionsAre DEF DevOption
  <2> QED
    BY <2>1, DeviceOptionsAre DEF DeviceCommand
<1>2. \A o \in {"backup-add", "backup-del"} : Makes(g, Do("maybe", <<o>>), {})
  <2> SUFFICES ASSUME NEW o \in {"backup-add", "backup-del"} PROVE Makes(g, Do("maybe", <<o>>), {})
    OBVIOUS
  <2>1. o \in Option
    BY <1>1
  <2>2. <<o>> \in Seq(Option)
    BY <2>1
  <2> QED
    BY <2>2, MakesMay
<1>3. Makes(g, Do("quiet", <<"device-add", "disk">>), {"device-add", "disk"})
  BY <1>1, ListOfTwo, MakesSure
<1> DEFINE p == Do("quiet", <<"device-add", "disk">>) \o HddConfigure(s, "backup", k)
<1>4. Makes(g, p, {"device-add", "disk"} \cup ((DiskOption \cup PlaceOption(s, "backup")) \cap s))
  BY <1>3, HddConfigureMakes, MakesBoth
<1>5. Makes(g, p, {})
  BY <1>4, MakesLess
<1>6. \E q : Makes(g, q, {}) /\ BackupDisks(s, k) = Read \o q
  BY <1>2, <1>5 DEF BackupDisks
<1>7. PICK q : Makes(g, q, {}) /\ BackupDisks(s, k) = Read \o q
  BY <1>6
<1>8. Makes(g, BackupDisks(s, k), {} \cup {})
  BY <1>7, ReadMakes, MakesBoth
<1> QED
  BY <1>8

(* The device command of the line.  Without a device that is named, the    *)
(* options are those of an adapter.                                        *)
Commanded(class) ==
  /\ dev.cmd \in {"none", "add", "set", "del", "connect", "disconnect", "bootorder"}
  /\ dev.cmd \in {"add", "set"} => class \in Class
  /\ dev.cmd = "set" /\ dev.class = "none" => class = "net"

DeviceDone(class) == IF dev.cmd \in {"add", "set"} THEN DoneOn(class, stored, dev.cmd) ELSE {}

(* It answers for the options of the device. *)
LEMMA DeviceCallsAnswer ==
  ASSUME NEW g, NEW class, Commanded(class)
  PROVE  Answers(g, DeviceCalls(class), DeviceDone(class) \cap stored)
<1>1. {"device-add", "venet"} \subseteq Option
  BY DeviceOptionsAre DEF DeviceCommand, Pseudo
<1>2. CASE dev.cmd = "add"
  <2>1. Makes(g, Do("quiet", <<"device-add">>), {"device-add"})
    BY <1>1, ListOfOne, MakesSure
  <2>2. Makes(g, Read \o Do("quiet", <<"device-add">>), {} \cup {"device-add"})
    BY <2>1, ReadMakes, MakesBoth
  <2>3. Answers(g, Create(class, stored, kind), DoneOn(class, stored, "add") \cap stored)
    BY <1>2, CreateAnswers DEF Commanded
  <2>4. Answers(g, AddDevice(class, stored, kind), ({} \cup {"device-add"}) \cup (DoneOn(class, stored, "add") \cap stored))
    BY <2>2, <2>3, MakesAnswers, AnswersBoth DEF AddDevice
  <2>5. Answers(g, AddDevice(class, stored, kind), DoneOn(class, stored, "add") \cap stored)
    BY <2>4, AnswersLess
  <2> QED
    BY <1>2, <2>5 DEF DeviceCalls, DeviceDone
<1>3. CASE dev.cmd = "set" /\ kind = "ct" /\ dev.class = "none"
  <2>1. <<"venet">> \in Seq(Option)
    <3>1. "venet" \in Option
      BY <1>1
    <3> QED
      BY <3>1
  <2>2. Makes(g, Do("maybe", <<"venet">>), {})
    BY <2>1, MakesMay
  <2>3. Makes(g, Read \o Do("maybe", <<"venet">>), {} \cup {})
    BY <2>2, ReadMakes, MakesBoth
  <2>4. Answers(g, SetVenet(stored), ({} \cup {}) \cup (LinkOption(stored) \cap stored))
    BY <2>3, NetConfigureAnswers, MakesAnswers, AnswersBoth DEF SetVenet
  <2>5. DeviceDone(class) = LinkOption(stored)
    BY <1>3 DEF Commanded, DeviceDone, DoneOn
  <2> QED
    BY <1>3, <2>4, <2>5 DEF DeviceCalls
<1>4. CASE dev.cmd = "set" /\ ~(kind = "ct" /\ dev.class = "none")
  <2>1. Answers(g, Configure(class, stored, kind), DoneOn(class, stored, "set") \cap stored)
    BY <1>4, ConfigureAnswers DEF Commanded
  <2>2. Answers(g, SetDevice(class, stored, kind), {} \cup (DoneOn(class, stored, "set") \cap stored))
    BY <2>1, ReadMakes, MakesAnswers, AnswersBoth DEF SetDevice
  <2> QED
    BY <1>4, <2>2 DEF DeviceCalls, DeviceDone
<1>5. CASE dev.cmd \in {"none", "del", "connect", "disconnect", "bootorder"}
  <2>1. DeviceDone(class) \cap stored = {}
    BY <1>5 DEF DeviceDone
  <2>2. Makes(g, DeleteDevice("device-del"), {}) /\ Makes(g, BootOrder, {})
    BY CallOnDevice DEF DeviceCommand, DeleteDevice, BootOrder
  <2>3. DeviceCalls(class) \in {DeleteDevice("device-del"), BootOrder, <<>>}
    BY <1>5 DEF DeviceCalls
  <2> QED
    BY <2>1, <2>2, <2>3, MakesNothing, MakesAnswers
<1> QED
  BY <1>2, <1>3, <1>4, <1>5 DEF Commanded

(* PrlVm::set does every option that was given, or fails: what is not the  *)
(* device's by itself, and the device's as far as its class knows them.    *)
VmDone(class) ==
  LET own == given \ stored IN
  (FirstOption(own) \cap own) \cup (SettingOption(kind) \cap own) \cup (DeviceDone(class) \cap stored)
  \cup (LaterOption(own) \cap own) \cup ((IF Encrypts THEN {} ELSE FlagOption) \cap given)

(* PrlVm::set answers for them, and sets m_updated. *)
LEMMA VmPlanAnswers ==
  ASSUME NEW class, Commanded(class)
  PROVE  Answers(given, VmPlan(class), VmDone(class)) /\ Sends(VmPlan(class))
<1> DEFINE own == given \ stored
           connect == If(dev.cmd = "connect", Connection("device-connect"))
           disconnect == If(dev.cmd = "disconnect", Connection("device-disconnect"))
           disks == If(given \cap {"backup-add", "backup-del"} # {}, BackupDisks(given, kind))
<1>1. Makes(given, connect, {}) /\ Makes(given, disconnect, {})
  <2>1. /\ Makes(given, Connection("device-connect"), {})
        /\ Makes(given, Connection("device-disconnect"), {})
    BY CallOnDevice DEF DeviceCommand, Immediate, Connection
  <2> QED
    BY <2>1, MakesNothing DEF If
<1>2. Makes(given, disks, {})
  BY BackupDisksMake, MakesNothing DEF If
<1>3. Makes(given, FirstSettings(own), FirstOption(own) \cap own)
  BY FirstSettingsMake
<1>4. Makes(given, Settings(own, kind), SettingOption(kind) \cap own)
  BY SettingsMake
<1>5. Answers(given, DeviceCalls(class), DeviceDone(class) \cap stored)
  BY DeviceCallsAnswer
<1>6. Makes(given, LaterSettings(own), LaterOption(own) \cap own)
  BY LaterSettingsMake
<1>7. Makes(given, Asked(given, CommitFlags(Encrypts)), (IF Encrypts THEN {} ELSE FlagOption) \cap given)
  BY CommitFlagsMake DEF Encrypts
<1>8. VmPlan(class) = connect \o disconnect \o FirstSettings(own) \o Settings(own, kind) \o DeviceCalls(class)
                      \o disks \o LaterSettings(own) \o Asked(given, CommitFlags(Encrypts))
  BY DEF VmPlan
<1>9. VmDone(class) = (FirstOption(own) \cap own) \cup (SettingOption(kind) \cap own) \cup (DeviceDone(class) \cap stored)
                      \cup (LaterOption(own) \cap own) \cup ((IF Encrypts THEN {} ELSE FlagOption) \cap given)
  BY DEF VmDone
<1> HIDE DEF own, connect, disconnect, disks
<1> DEFINE A == FirstOption(own) \cap own
           B == SettingOption(kind) \cap own
           C == DeviceDone(class) \cap stored
           D == LaterOption(own) \cap own
           E == (IF Encrypts THEN {} ELSE FlagOption) \cap given
<1> HIDE DEF A, B, C, D, E
<1>10. Answers(given, connect \o disconnect \o FirstSettings(own) \o Settings(own, kind), {} \cup {} \cup A \cup B)
  <2>1. Makes(given, connect \o disconnect, {} \cup {})
    BY <1>1, MakesBoth
  <2>2. Makes(given, connect \o disconnect \o FirstSettings(own), {} \cup {} \cup A)
    BY <1>3, <2>1, MakesBoth DEF A
  <2>3. Makes(given, connect \o disconnect \o FirstSettings(own) \o Settings(own, kind), {} \cup {} \cup A \cup B)
    BY <1>4, <2>2, MakesBoth DEF B
  <2> QED
    BY <2>3, MakesAnswers
<1> DEFINE p == connect \o disconnect \o FirstSettings(own) \o Settings(own, kind)
<1> HIDE DEF p
<1>11. Answers(given, p \o DeviceCalls(class) \o disks, ({} \cup {} \cup A \cup B) \cup C \cup {})
  <2>1. Answers(given, p \o DeviceCalls(class), ({} \cup {} \cup A \cup B) \cup C)
    BY <1>5, <1>10, AnswersBoth DEF p, C
  <2> QED
    BY <1>2, <2>1, MakesAnswers, AnswersBoth
<1>12. Answers(given, p \o DeviceCalls(class) \o disks \o LaterSettings(own) \o Asked(given, CommitFlags(Encrypts)),
               ({} \cup {} \cup A \cup B) \cup C \cup {} \cup D \cup E)
  <2>1. Answers(given, LaterSettings(own), D) /\ Answers(given, Asked(given, CommitFlags(Encrypts)), E)
    BY <1>6, <1>7, MakesAnswers DEF D, E
  <2>2. Answers(given, p \o DeviceCalls(class) \o disks \o LaterSettings(own),
                ({} \cup {} \cup A \cup B) \cup C \cup {} \cup D)
    BY <1>11, <2>1, AnswersBoth
  <2> QED
    BY <2>1, <2>2, AnswersBoth
<1>13. VmDone(class) \subseteq ({} \cup {} \cup A \cup B) \cup C \cup {} \cup D \cup E
  BY <1>9 DEF A, B, C, D, E
<1>14. Sends(VmPlan(class))
  <2> DEFINE T == Allowed(given)
             q == Asked(given, CommitFlags(Encrypts))
  <2>1. p \o DeviceCalls(class) \o disks \in Seq(T) /\ LaterSettings(own) \in Seq(T) /\ q \in Seq(T)
    BY <1>6, <1>7, <1>11 DEF Makes, Answers
  <2>2. Sends(LaterSettings(own))
    BY LaterSettingsMake
  <2> HIDE DEF T, q
  <2>3. /\ Sends(p \o DeviceCalls(class) \o disks \o LaterSettings(own))
        /\ p \o DeviceCalls(class) \o disks \o LaterSettings(own) \in Seq(T)
    BY <2>1, <2>2, SendsBoth
  <2>4. Sends(p \o DeviceCalls(class) \o disks \o LaterSettings(own) \o q)
    BY <2>1, <2>3, SendsBoth
  <2> QED
    BY <1>8, <2>4 DEF p, q
<1> QED
  BY <1>8, <1>12, <1>13, <1>14, AnswersLess DEF p

-----------------------------------------------------------------------------
(* The line.  Between its options and what is parsed of it there is more   *)
(* than the types: the server has no devices, a disk is not both on a      *)
(* device and in an image, an adapter has one mode, and a device command   *)
(* that needs a class of devices has one.                                  *)
LineConsistent ==
  /\ line # "accepted" => stored = {}
  /\ line = "refused" => dev = NoDevice
  /\ kind = "srv" => dev = NoDevice /\ stored = {} /\ given \subseteq ServerOption
  /\ kind # "srv" => ~({"device", "image"} \subseteq given)
  /\ \A m, n \in Modes \cap given : kind # "srv" => m = n
  /\ dev.cmd = "none" => dev.type = "none" /\ dev.class = "none"
  /\ dev.cmd \in {"add", "set"} => dev.type \in Class
  /\ dev.cmd = "set" /\ dev.class = "none" => dev.type = "net"

(* And what is accepted was validated: the options of devices are stored,  *)
(* but for the name servers; none is an adapter's if there is no command;  *)
(* an adapter that has a mode has no network of its own; and the disks of  *)
(* a backup come with no device command.                                   *)
Validated ==
  /\ stored \subseteq DevOption \cup NetOption \cup {"hdd-block-size", "autocompact"}
  /\ given \cap ((DevOption \cup NetOption) \ {"nameserver", "searchdomain"}) \subseteq stored
  /\ dev.cmd = "none" => stored \cap NetOption \subseteq {"fw-direction", "fw-rule"}
  /\ dev.type = "net" /\ given \cap Modes # {} => "network" \notin given
  /\ dev.cmd # "none" => given \cap {"backup-add", "backup-del"} = {}

LineInv == LineTypeOK /\ LineConsistent /\ (line = "accepted" /\ kind # "srv" => Validated)

(* No line was read yet. *)
LEMMA LineStarts ==
  ASSUME LineInit
  PROVE  LineInv
  BY LineAssumption DEF LineInit, LineInv, LineTypeOK, LineConsistent, NoDevice, Class, Options

(* A line that is refused. *)
LEMMA RefusedKeeps ==
  ASSUME LineInv, line = "reading", RefuseLine
  PROVE  LineInv'
  BY DEF LineInv, LineTypeOK, LineConsistent, RefuseLine, NoDevice, Class, Options

(* An option is taken, or refused; it replaces the mode that came before. *)
LEMMA TakeKeeps ==
  ASSUME LineInv, NEW o \in Options(kind), Take(o)
  PROVE  LineInv'
<1>1. line = "reading"
  BY DEF Take
<1>2. CASE RefuseLine
  BY <1>1, <1>2, RefusedKeeps
<1>3. CASE ~RefuseLine
  <2>1. given' = (given \ Replaced(o)) \cup {o} /\ UNCHANGED <<kind, dev, stored, line>>
    BY <1>3 DEF Take
  <2>2. kind # "srv" => Conflicting(o) \cap given = {}
    BY <1>3 DEF Take
  <2>3. stored = {}
    BY <1>1 DEF LineInv, LineConsistent
  <2>4. LineTypeOK'
    BY <2>1, <2>3 DEF LineInv, LineTypeOK, Options
  <2>5. (kind # "srv" => ~({"device", "image"} \subseteq given))'
    <3>1. o = "device" => Conflicting(o) = {"image"}
      BY DEF Conflicting
    <3>2. o = "image" => Conflicting(o) = {"device"}
      BY DEF Conflicting
    <3> QED
      BY <2>1, <2>2, <3>1, <3>2 DEF LineInv, LineConsistent
  <2>6. (\A m, n \in Modes \cap given : kind # "srv" => m = n)'
    <3>1. CASE o \in Modes
      BY <2>1, <3>1 DEF Replaced
    <3>2. CASE o \notin Modes
      BY <2>1, <3>2 DEF Replaced, LineInv, LineConsistent
    <3> QED
      BY <3>1, <3>2
  <2> QED
    BY <1>1, <2>1, <2>3, <2>4, <2>5, <2>6 DEF LineInv, LineConsistent, Options
<1> QED
  BY <1>2, <1>3

(* A device command replaces what is known of the device, or is refused. *)
LEMMA CommandKeeps ==
  ASSUME LineInv, NEW c \in DeviceCommand, NEW class \in Class, Command(c, class)
  PROVE  LineInv'
<1>1. line = "reading" /\ kind # "srv"
  BY DEF Command
<1>2. CASE RefuseLine
  BY <1>1, <1>2, RefusedKeeps
<1>3. CASE ~RefuseLine
  <2> DEFINE Becoming(d) == \/ d = [dev EXCEPT !.cmd = "add", !.type = class]
                        \/ d = [cmd |-> "set", type |-> class, class |-> class]
                        \/ \E cmd \in {"del", "connect", "disconnect", "bootorder"} :
                             d = [dev EXCEPT !.cmd = cmd, !.class = class]
                        \/ d = [cmd |-> "del", type |-> "net", class |-> "net"]
  <2>1. \E d : Becomes(c, d) /\ Becoming(d)
    <3>1. CASE c = "device-add"
      BY <1>3, <3>1 DEF Command
    <3>2. CASE c = "device-set"
      BY <1>3, <3>2 DEF Command
    <3>3. CASE c = "netif_add"
      BY <1>3, <3>3 DEF Command
    <3>4. CASE c = "ifname"
      BY <1>3, <3>4 DEF Command
    <3>5. CASE c = "netif_del"
      BY <1>3, <3>5 DEF Command
    <3>6. CASE c = "device-del"
      BY <1>3, <3>6 DEF Command
    <3>7. CASE c = "device-connect"
      BY <1>3, <3>7 DEF Command
    <3>8. CASE c = "device-disconnect"
      BY <1>3, <3>8 DEF Command
    <3>9. CASE c = "device-bootorder"
      BY <1>3, <3>9 DEF Command
    <3> QED
      BY <3>1, <3>2, <3>3, <3>4, <3>5, <3>6, <3>7, <3>8, <3>9 DEF DeviceCommand
  <2>2. PICK d : Becomes(c, d) /\ Becoming(d)
    BY <2>1
  <2>3. given' = given \cup {c} /\ dev' = d /\ UNCHANGED <<kind, stored, line>>
    BY <2>2 DEF Becomes
  <2>4. /\ d \in [cmd : {"none", "add", "set", "del", "connect", "disconnect", "bootorder"},
                  type : Class \cup {"none"}, class : Class \cup {"none"}]
        /\ d.cmd # "none" /\ (d.cmd \in {"add", "set"} => d.type \in Class) /\ (d.cmd = "set" => d.class # "none")
    <3>1. dev \in [cmd : {"none", "add", "set", "del", "connect", "disconnect", "bootorder"},
                   type : Class \cup {"none"}, class : Class \cup {"none"}]
      BY DEF LineInv, LineTypeOK
    <3>2. "net" \in Class /\ "none" \notin Class
      BY DEF Class
    <3>3. CASE d = [dev EXCEPT !.cmd = "add", !.type = class]
      BY <3>1, <3>3
    <3>4. CASE d = [cmd |-> "set", type |-> class, class |-> class]
      BY <3>2, <3>4
    <3>5. ASSUME NEW cmd \in {"del", "connect", "disconnect", "bootorder"}, d = [dev EXCEPT !.cmd = cmd, !.class = class]
          PROVE  /\ d \in [cmd : {"none", "add", "set", "del", "connect", "disconnect", "bootorder"},
                           type : Class \cup {"none"}, class : Class \cup {"none"}]
                 /\ d.cmd \notin {"none", "add", "set"}
      BY <3>1, <3>5
    <3>6. CASE d = [cmd |-> "del", type |-> "net", class |-> "net"]
      BY <3>2, <3>6
    <3> QED
      BY <2>2, <3>3, <3>4, <3>5, <3>6
  <2>5. c \notin Modes \cup {"device", "image"}
    BY DEF DeviceCommand, Modes
  <2> QED
    BY <1>1, <2>3, <2>4, <2>5 DEF LineInv, LineTypeOK, LineConsistent, Options
<1> QED
  BY <1>2, <1>3

(* What the end of the line makes of the device: --size is that of the     *)
(* first disk, and network options are those of the first adapter.         *)
LEMMA DefaultedIs ==
  ASSUME LineInv
  PROVE  /\ Defaulted \in [cmd : {"none", "add", "set", "del", "connect", "disconnect", "bootorder"},
                           type : Class \cup {"none"}, class : Class \cup {"none"}]
         /\ Defaulted.cmd = "none" => Defaulted.type = "none" /\ Defaulted.class = "none"
         /\ Defaulted.cmd \in {"add", "set"} => Defaulted.type \in Class
         /\ Defaulted.cmd = "set" /\ Defaulted.class = "none" => Defaulted.type = "net"
<1> DEFINE R == [cmd : {"none", "add", "set", "del", "connect", "disconnect", "bootorder"},
                 type : Class \cup {"none"}, class : Class \cup {"none"}]
           Good(d) == /\ d \in R
                      /\ d.cmd = "none" => d.type = "none" /\ d.class = "none"
                      /\ d.cmd \in {"add", "set"} => d.type \in Class
                      /\ d.cmd = "set" /\ d.class = "none" => d.type = "net"
<1>1. Good(dev)
  BY DEF LineInv, LineTypeOK, LineConsistent
<1>2. Good(Sized)
  <2>1. "hdd" \in Class /\ "none" \notin Class
    BY DEF Class
  <2> QED
    BY <1>1, <2>1 DEF Sized
<1>3. Good(Defaulted)
  <2>1. CASE Defaulted = Sized
    BY <1>2, <2>1
  <2>2. CASE Defaulted = [Sized EXCEPT !.cmd = "set", !.type = "net"]
    <3>1. "net" \in Class
      BY DEF Class
    <3> QED
      BY <1>2, <2>2, <3>1
  <2> QED
    BY <2>1, <2>2 DEF Defaulted
<1> QED
  BY <1>3

(* The line ends, and is accepted or refused. *)
LEMMA EndKeeps ==
  ASSUME LineInv, End
  PROVE  LineInv'
<1>1. line = "reading"
  BY DEF End
<1>2. CASE RefuseLine
  BY <1>1, <1>2, RefusedKeeps
<1>3. CASE kind = "srv" /\ ~RefuseLine
  <2>1. line' = "accepted" /\ UNCHANGED <<kind, given, dev, stored>>
    BY <1>3 DEF End
  <2> QED
    BY <1>1, <1>3, <2>1 DEF LineInv, LineTypeOK, LineConsistent
<1>4. CASE kind # "srv" /\ ~RefuseLine
  <2>1. /\ DeviceValid(Defaulted) /\ Valid(Defaulted)
        /\ line' = "accepted" /\ dev' = Defaulted /\ stored' = given \cap Owned /\ UNCHANGED <<kind, given>>
    BY <1>4 DEF End
  <2> DEFINE d == Defaulted
             own == Owned
  <2>2. /\ own \subseteq DevOption \cup NetOption \cup {"hdd-block-size", "autocompact"}
        /\ (DevOption \cup NetOption) \ {"nameserver", "searchdomain"} \subseteq own
    BY DEF Owned
  <2>3. LineTypeOK'
    BY <2>1, DefaultedIs DEF LineInv, LineTypeOK
  <2>4. LineConsistent'
    BY <1>4, <2>1, DefaultedIs DEF LineInv, LineConsistent
  <2>5. d.cmd = "none" => (given \cap own) \cap NetOption \subseteq {"fw-direction", "fw-rule"}
    BY <2>1 DEF Valid, NetUpdated
  <2>6. d.type = "net" /\ given \cap Modes # {} => "network" \notin given
    BY <2>1 DEF DeviceValid, AnyOf, Has
  <2>7. d.cmd # "none" => given \cap {"backup-add", "backup-del"} = {}
    BY <2>1 DEF Valid, BackupCommand, AnyOf
  <2> HIDE DEF d, own
  <2>8. dev' = d /\ stored' = given \cap own /\ given' = given
    BY <2>1 DEF d, own
  <2>9. Validated'
    BY <2>2, <2>5, <2>6, <2>7, <2>8 DEF Validated
  <2> QED
    BY <2>3, <2>4, <2>9 DEF LineInv
<1> QED
  BY <1>2, <1>3, <1>4

(* So every step of the reading keeps what the line is known to be. *)
LEMMA ReadLineKeeps ==
  ASSUME LineInv, ReadLine
  PROVE  LineInv'
<1>1. ASSUME BadValue PROVE LineInv'
  BY <1>1, RefusedKeeps DEF BadValue
<1> QED
  BY <1>1, TakeKeeps, CommandKeeps, EndKeeps DEF ReadLine

(* And a session does not touch it. *)
LEMMA LineStays ==
  ASSUME LineInv, UNCHANGED cmdline
  PROVE  LineInv'
<1>1. UNCHANGED <<kind, given, dev, stored, line>>
  BY DEF cmdline
<1> QED
  BY <1>1 DEF LineInv, LineTypeOK, LineConsistent, Validated

-----------------------------------------------------------------------------
(* What a line promises: every option but those that a command may be      *)
(* silent about, and those that another one hides.                         *)
Due == {o \in Promised : o \notin Silent /\ HiddenBy(o) \cap given = {}}

(* The setters of PrlVm, and what needs none. *)
Settled ==
  CpuOption \cup IoOption \cup MemoryOption \cup StartOption \cup ViewOption \cup ResourceOption \cup VmNetOption
  \cup AnswerOption \cup RateOption \cup BootOption \cup GuardOption
  \cup {"features", "capability", "userpasswd", "applyconfig", "distribution", "vnc-mode", "vnc-port",
        "vnc-address", "vnc-passwd", "vnc-nopasswd", "keyboard-optimize", "require-pwd", "rename-ext-disks"}
Unsettled ==
  {"hdd-block-size", "crypted", "backup-add", "backup-del", "destroy-image", "destroy-image-force",
   "detach-only", "distribution list"}

(* Table by table: each option is a device's, or has a setter, or is       *)
(* nothing's.                                                              *)
LEMMA TablesSettled ==
  SetOption \subseteq DevOption \cup NetOption \cup Settled \cup Dead \cup Unsettled
<1> DEFINE T == DevOption \cup NetOption \cup Settled \cup Dead \cup Unsettled
<1>1. All(DiskValues) \subseteq T
  BY DEF DevOption
<1>2. All(PortValues) \subseteq T
  <2>1. PortValues.dead \subseteq {"type expand"}
    BY DEF PortValues, Values
  <2>2. PortValues.checked \subseteq StartOption \cup DevOption \cup NetOption
    BY DEF PortValues, Values, StartOption, DevOption, NetOption
  <2>3. PortValues.text \subseteq ViewOption \cup DevOption
    BY DEF PortValues, Values, ViewOption, DevOption
  <2>4. "type expand" \in DevOption
    BY DEF DevOption
  <2> QED
    BY <2>1, <2>2, <2>3, <2>4 DEF All, Settled
<1>3. All(ResourceValues) \subseteq T
  <2>1. All(ResourceValues) \subseteq CpuOption \cup IoOption \cup MemoryOption
    BY DEF All, ResourceValues, Values, CpuOption, IoOption, MemoryOption
  <2> QED
    BY <2>1 DEF Settled
<1>4. All(NameValues) \subseteq T
  <2>1. All(NameValues) \subseteq StartOption \cup ViewOption \cup GuardOption \cup {"rename-ext-disks", "mac"}
    BY DEF All, NameValues, Values, StartOption, ViewOption, GuardOption
  <2>2. "mac" \in DevOption /\ "rename-ext-disks" \in Settled
    BY DEF DevOption, Settled
  <2> QED
    BY <2>1, <2>2 DEF Settled
<1>5. All(FeatureValues) \subseteq T
  <2>1. FeatureValues.checked \cup FeatureValues.text \subseteq GuardOption \cup {"require-pwd"}
    BY DEF FeatureValues, Values, GuardOption
  <2>2. FeatureValues.dead \subseteq Dead
    BY DEF Dead, SetTable
  <2> QED
    BY <2>1, <2>2 DEF All, Settled
<1>6. All(GuardValues) \subseteq T
  <2>1. GuardValues.checked \cup GuardValues.text \subseteq GuardOption \cup {"vnc-mode", "vnc-port"}
    BY DEF GuardValues, Values, GuardOption
  <2>2. GuardValues.dead \subseteq Dead
    BY DEF Dead, SetTable
  <2> QED
    BY <2>1, <2>2 DEF All, Settled
<1>7. All(NetValues) \subseteq T
  <2>1. All(NetValues) \subseteq RateOption \cup VmNetOption \cup NetOption
                                \cup {"features", "vnc-passwd", "vnc-nopasswd", "vnc-address"}
    BY DEF All, NetValues, Values, RateOption, VmNetOption, NetOption
  <2> QED
    BY <2>1 DEF Settled
<1>8. All(DesktopValues) \subseteq T
  <2>1. DesktopValues.checked \cup DesktopValues.text \subseteq BootOption \cup {"keyboard-optimize"}
    BY DEF DesktopValues, Values, BootOption
  <2>2. DesktopValues.dead \subseteq Dead
    BY DEF Dead, SetTable
  <2> QED
    BY <2>1, <2>2 DEF All, Settled
<1>9. All(AddressValues) \subseteq T
  <2>1. All(AddressValues) \subseteq NetOption \cup VmNetOption
    BY DEF All, AddressValues, Values, NetOption, VmNetOption
  <2> QED
    BY <2>1 DEF Settled
<1>10. All(OtherValues) \subseteq T
  <2>1. OtherValues.checked \subseteq AnswerOption \cup ResourceOption \cup ViewOption \cup BootOption
                                       \cup {"userpasswd", "capability"}
    BY DEF OtherValues, Values, AnswerOption, ResourceOption, ViewOption, BootOption
  <2>2. OtherValues.text \subseteq VmNetOption \cup BootOption \cup ResourceOption \cup Unsettled
                                    \cup {"applyconfig", "distribution", "disk"}
    BY DEF OtherValues, Values, VmNetOption, BootOption, ResourceOption, Unsettled
  <2>3. OtherValues.dead \subseteq Dead
    BY DEF Dead, SetTable
  <2>4. "disk" \in DevOption
    BY DEF DevOption
  <2> QED
    BY <2>1, <2>2, <2>3, <2>4 DEF All, Settled
<1> QED
  BY <1>1, <1>2, <1>3, <1>4, <1>5, <1>6, <1>7, <1>8, <1>9, <1>10, TablesAre

(* So an option of the VM that no device owns is done by a setter. *)
LEMMA OwnIsDone ==
  ASSUME kind \in {"vm", "ct"}, "distribution list" \notin given, NEW class,
         NEW o, o \in VmOption \ stored, o \in given, o \notin Silent, HiddenBy(o) \cap given = {}
  PROVE  o \in VmDone(class)
<1> DEFINE own == given \ stored
<1>1. o \in own
  OBVIOUS
<1>2. o \in Settled \cup Dead \cup Unsettled
  BY TablesSettled DEF VmOption
<1>3. Dead \cup (Unsettled \ {"distribution list"}) \subseteq Silent
  BY DEF Silent, Unsettled
<1>4. o \in Settled
  BY <1>2, <1>3
<1>5. CASE o \in {"features", "capability"} \cup CpuOption \cup IoOption \cup MemoryOption \cup StartOption \cup ViewOption
                  \cup ResourceOption \cup VmNetOption
  <2>1. o = "features" => kind = "ct"
    BY DEF Silent
  <2>2. o \in SettingOption(kind)
    BY <1>5, <2>1 DEF SettingOption
  <2> QED
    BY <1>1, <2>2 DEF VmDone
<1>6. CASE o \in {"userpasswd", "applyconfig", "distribution"}
  <2>1. o \in FirstOption(own)
    BY <1>6 DEF FirstOption
  <2> QED
    BY <1>1, <2>1 DEF VmDone
<1>7. CASE o \in {"vnc-mode", "vnc-port", "vnc-address", "vnc-passwd", "vnc-nopasswd"}
  <2>1. o = "vnc-nopasswd" => "vnc-passwd" \notin given
    BY DEF HiddenBy
  <2>2. o \in LaterOption(own)
    BY <1>7, <2>1 DEF LaterOption, VncOption
  <2> QED
    BY <1>1, <2>2 DEF VmDone
<1>8. CASE o \in AnswerOption \cup RateOption \cup BootOption \cup GuardOption \cup {"keyboard-optimize", "require-pwd"}
  <2>1. o \in LaterOption(own)
    BY <1>8 DEF LaterOption
  <2> QED
    BY <1>1, <2>1 DEF VmDone
<1>9. CASE o = "rename-ext-disks"
  <2>1. given \cap {"encrypt", "decrypt", "encryption-keyid"} = {}
    BY <1>9 DEF HiddenBy
  <2>2. ~Encrypts /\ o \in FlagOption
    BY <1>9, <2>1 DEF Encrypts, FlagOption
  <2> QED
    BY <2>2 DEF VmDone
<1> QED
  BY <1>4, <1>5, <1>6, <1>7, <1>8, <1>9 DEF Settled

(* The device that the command is about has the class of its type, or it   *)
(* is a PCI device that is an adapter.                                     *)
LEMMA ClassesAre ==
  ASSUME LineInv, line = "accepted", kind # "srv", NEW class \in Classes
  PROVE  /\ Commanded(class)
         /\ dev.cmd = "add" => class = dev.type \/ (dev.type = "pci" /\ "device" \in given /\ class = "net")
         /\ dev.cmd = "set" /\ dev.class \in {"none", dev.type} => class = dev.type
<1>1. dev.cmd \in {"none", "add", "set", "del", "connect", "disconnect", "bootorder"}
  BY DEF LineInv, LineTypeOK
<1>2. CASE dev.cmd = "add"
  <2>1. class = dev.type \/ (dev.type = "pci" /\ "device" \in given /\ class = "net")
    BY <1>2 DEF Classes
  <2>2. class \in Class
    BY <1>2, <2>1 DEF LineInv, LineConsistent, Class
  <2> QED
    BY <1>1, <1>2, <2>1, <2>2 DEF Commanded
<1>3. CASE dev.cmd = "set"
  <2>1. class = IF dev.class # "none" THEN dev.class ELSE dev.type
    BY <1>3 DEF Classes
  <2>2. dev.class \in Class \cup {"none"} /\ dev.type \in Class /\ (dev.class = "none" => dev.type = "net")
    BY <1>3 DEF LineInv, LineTypeOK, LineConsistent
  <2> QED
    BY <1>1, <1>3, <2>1, <2>2 DEF Commanded
<1>4. CASE dev.cmd \notin {"add", "set"}
  BY <1>1, <1>4 DEF Commanded
<1> QED
  BY <1>2, <1>3, <1>4

(* What the manual says of disks, *)
LEMMA DiskIsDone ==
  ASSUME LineInv, line = "accepted", kind # "srv", dev.cmd \in {"add", "set"}, dev.type = "hdd",
         NEW o \in DeviceDocumented, o \in stored, o \notin Silent, HiddenBy(o) \cap given = {}
  PROVE  o \in DoneOn("hdd", stored, dev.cmd)
<1> DEFINE s == stored
<1>1. s \subseteq given /\ (\A x \in {"device", "image", "size"} : x \in given => x \in s) /\ "backup-add" \notin s
  <2>1. Validated /\ s \subseteq given
    BY DEF LineInv, LineTypeOK
  <2>2. {"device", "image", "size"} \subseteq DevOption /\ {"device", "image", "size"} \cap {"nameserver", "searchdomain"} = {}
    BY DEF DevOption, All, Values, DiskValues
  <2>3. given \cap {"backup-add", "backup-del"} = {}
    BY <2>1 DEF Validated
  <2> QED
    BY <2>1, <2>2, <2>3 DEF Validated
<1>2. ~({"device", "image"} \subseteq given)
  BY DEF LineInv, LineConsistent
<1>3. o \in given /\ DoneOn("hdd", s, dev.cmd) = DiskOption \cup PlaceOption(s, dev.cmd)
  BY <1>1 DEF DoneOn
<1>4. \/ o \in {"device", "image", "iface", "subtype", "position", "recreate", "size", "mnt", "autocompact"}
      \/ o = "encryption-keyid"
      \/ (o \in {"encrypt", "decrypt"} /\ dev.cmd = "set")
  <2>1. o \in Documented["hdd"] \cup Switch \/ (dev.cmd = "set" /\ o \in {"encrypt", "decrypt", "no-wipe", "reencrypt"})
    BY DEF DeviceDocumented
  <2>2. Documented["hdd"] = Place \cup {"recreate", "size", "no-fs-resize", "mnt", "encryption-keyid", "autocompact"}
    BY DEF Documented
  <2>3. Switch \cup {"no-fs-resize", "no-wipe", "reencrypt"} \subseteq Silent
    BY DEF Silent
  <2> QED
    BY <2>1, <2>2, <2>3 DEF Place
<1>5. CASE o \in {"iface", "subtype", "position", "mnt", "autocompact"}
  BY <1>3, <1>5 DEF DiskOption
<1>6. CASE o = "device"
  BY <1>3, <1>6 DEF PlaceOption
<1>7. CASE o = "image"
  BY <1>1, <1>2, <1>3, <1>7 DEF PlaceOption
<1>8. CASE o = "recreate"
  <2>1. "image" \in given
    BY <1>8 DEF Silent
  <2> QED
    BY <1>1, <1>2, <1>3, <1>8, <2>1 DEF PlaceOption
<1>9. CASE o = "size"
  <2>1. dev.cmd = "set"
    BY <1>9 DEF Silent
  <2>2. "device" \notin given /\ "image" \notin given
    BY <1>9 DEF HiddenBy
  <2> QED
    BY <1>1, <1>3, <1>9, <2>1, <2>2 DEF PlaceOption
<1>10. CASE o = "encryption-keyid" \/ (o \in {"encrypt", "decrypt"} /\ dev.cmd = "set")
  <2>1. "device" \notin given /\ "image" \notin given /\ "size" \notin given
    BY <1>10 DEF HiddenBy
  <2> QED
    BY <1>1, <1>3, <1>10, <2>1 DEF PlaceOption
<1> QED
  BY <1>4, <1>5, <1>6, <1>7, <1>8, <1>9, <1>10

(* of adapters, *)
LEMMA AdapterIsDone ==
  ASSUME LineInv, line = "accepted", kind # "srv", dev.cmd \in {"add", "set"}, dev.type = "net",
         NEW o \in DeviceDocumented, o \in stored, o \notin Silent, HiddenBy(o) \cap given = {}
  PROVE  o \in DoneOn("net", stored, dev.cmd)
<1> DEFINE s == stored
<1>1. /\ s \subseteq given
      /\ \A x \in {"device", "type routed", "type bridge", "network", "ipset"} : x \in given => x \in s
  <2>1. Validated /\ s \subseteq given
    BY DEF LineInv, LineTypeOK
  <2>2. {"device", "type routed", "type bridge", "network", "ipset"} \subseteq (DevOption \cup NetOption) \ {"nameserver", "searchdomain"}
    BY DEF DevOption, NetOption, All, Values, DiskValues
  <2> QED
    BY <2>1, <2>2 DEF Validated
<1>2. /\ \A m, n \in Modes \cap given : m = n
      /\ given \cap Modes # {} => "network" \notin given
  BY DEF LineInv, LineConsistent, Validated
<1>3. o \in given /\ DoneOn("net", s, dev.cmd) = LinkOption(s)
  BY <1>1 DEF DoneOn
<1>4. o \in (NetOption \ {"fw-direction"}) \cup {"type routed", "network", "mac"}
  <2>1. o \in Documented["net"] \cup Switch
    BY DEF DeviceDocumented
  <2>2. Documented["net"] = NetOption \cup {"type routed", "network", "mac"}
    BY DEF Documented
  <2>3. Switch \cup {"fw-direction"} \subseteq Silent
    BY DEF Silent
  <2> QED
    BY <2>1, <2>2, <2>3
<1>5. CASE o \in {"type routed", "network", "mac"}
  <2>1. "device" \notin given
    BY <1>5 DEF HiddenBy
  <2>2. o = "type routed" => "type bridge" \notin given
    BY <1>2, <1>3 DEF Modes
  <2>3. o = "network" => "type bridge" \notin given /\ "type routed" \notin given
    BY <1>2, <1>3 DEF Modes
  <2>4. o \in AdapterOption(s)
    BY <1>1, <1>3, <1>5, <2>1, <2>2, <2>3 DEF AdapterOption
  <2> QED
    BY <1>3, <2>4 DEF LinkOption
<1>6. CASE o \in NetOption \ {"fw-direction"}
  <2>1. o = "ipdel" => "ipset" \notin given
    BY DEF HiddenBy
  <2>2. o \in {"adapter-type"} \cup FirewallOption \cup AddressOption(s)
    BY <1>1, <1>6, <2>1 DEF NetOption, FirewallOption, AddressOption
  <2> QED
    BY <1>3, <2>2 DEF LinkOption
<1> QED
  BY <1>4, <1>5, <1>6

(* of serial ports, *)
LEMMA PortIsDone ==
  ASSUME LineInv, line = "accepted", kind # "srv", dev.cmd \in {"add", "set"}, dev.type = "serial",
         NEW o \in DeviceDocumented, o \in stored, o \notin Silent, HiddenBy(o) \cap given = {}
  PROVE  o \in DoneOn("serial", stored, dev.cmd)
<1> DEFINE s == stored
<1>1. s \subseteq given
  BY DEF LineInv, LineTypeOK
<1>2. o \in given /\ DoneOn("serial", s, dev.cmd) = {SerialPlace(s)}
  BY <1>1 DEF DoneOn
<1>3. o \in {"device", "output", "socket", "socket-tcp", "socket-udp"}
  <2>1. o \in Documented["serial"] \cup Switch
    BY DEF DeviceDocumented
  <2>2. Documented["serial"] = {"device", "output", "socket", "socket-tcp", "socket-udp", "socket-mode"}
    BY DEF Documented
  <2>3. Switch \cup {"socket-mode"} \subseteq Silent
    BY DEF Silent
  <2> QED
    BY <2>1, <2>2, <2>3
<1>4. SerialPlace(s) = IF "device" \in s THEN "device" ELSE IF "output" \in s THEN "output" ELSE IF "socket" \in s THEN "socket"
                       ELSE IF "socket-tcp" \in s THEN "socket-tcp" ELSE IF "socket-udp" \in s THEN "socket-udp" ELSE "none"
  BY FirstOfFive DEF SerialPlace
<1>5. /\ o # "device" => "device" \notin s
      /\ o \in {"socket", "socket-tcp", "socket-udp"} => "output" \notin s
      /\ o \in {"socket-tcp", "socket-udp"} => "socket" \notin s
      /\ o = "socket-udp" => "socket-tcp" \notin s
  BY <1>1, <1>3 DEF HiddenBy
<1>6. SerialPlace(s) = o
  BY <1>3, <1>4, <1>5
<1> QED
  BY <1>2, <1>6

(* and of the others. *)
LEMMA OtherIsDone ==
  ASSUME dev.cmd \in {"add", "set"}, dev.type \in Class \ {"hdd", "net", "serial"},
         NEW o \in DeviceDocumented, o \notin Silent
  PROVE  o \in DoneOn(dev.type, stored, dev.cmd) /\ (dev.type = "pci" => o = "device")
<1>1. Switch \subseteq Silent
  BY DEF Silent
<1>2. o \in Documented[dev.type]
  BY <1>1 DEF DeviceDocumented
<1>3. CASE dev.type = "cdrom"
  <2>1. Documented["cdrom"] = Place
    BY DEF Documented
  <2> QED
    BY <1>2, <1>3, <2>1 DEF Place, DoneOn, CdromOption
<1>4. CASE dev.type = "fdd"
  <2>1. Documented["fdd"] = {"device"}
    BY DEF Documented
  <2> QED
    BY <1>2, <1>4, <2>1 DEF DoneOn
<1>5. CASE dev.type = "pci"
  <2>1. Documented["pci"] = {"device"}
    BY DEF Documented
  <2> QED
    BY <1>2, <1>5, <2>1 DEF DoneOn
<1>6. CASE dev.type \in {"usb", "sound", "parallel"}
  <2>1. Documented["usb"] = {} /\ Documented["sound"] = {} /\ Documented["parallel"] = {}
    BY DEF Documented
  <2> QED
    BY <1>2, <1>6, <2>1
<1> QED
  BY <1>3, <1>4, <1>5, <1>6 DEF Class

(* What a device command promises is done: by the device, or by the VM     *)
(* where the device does not own the option.                               *)
LEMMA DocumentedIsDone ==
  ASSUME LineInv, line = "accepted", kind # "srv", NEW class \in Classes,
         dev.cmd = "add" \/ dev.class \in {"none", dev.type},
         NEW o \in DeviceDocumented, o \in given, o \notin Silent, HiddenBy(o) \cap given = {}
  PROVE  o \in VmDone(class)
<1>1. Validated
  BY DEF LineInv
<1>2. dev.cmd \in {"none", "add", "set"}
  BY DEF LineInv, LineTypeOK, DeviceDocumented
<1>3. o \in DevOption \cup NetOption \cup {"autocompact"}
  <2>1. CASE dev.cmd = "none"
    BY <2>1 DEF DeviceDocumented
  <2>2. CASE dev.cmd \in {"add", "set"}
    <3>1. dev.type \in Class
      BY <2>2 DEF LineInv, LineConsistent
    <3>2. o \in Documented[dev.type] \cup Switch \cup {"encrypt", "decrypt", "no-wipe", "reencrypt"}
      BY <2>2 DEF DeviceDocumented
    <3>3. Switch \cup Place \cup {"encrypt", "decrypt", "no-wipe", "reencrypt", "recreate", "size", "no-fs-resize", "mnt",
             "encryption-keyid", "type routed", "network", "mac", "output", "socket", "socket-tcp", "socket-udp",
             "socket-mode"} \subseteq DevOption
      BY DEF Switch, Place, DevOption, All, Values, DiskValues
    <3>4. Documented[dev.type] \subseteq DevOption \cup NetOption \cup {"autocompact"}
      <4>1. Documented["hdd"] = Place \cup {"recreate", "size", "no-fs-resize", "mnt", "encryption-keyid", "autocompact"}
        BY DEF Documented
      <4>2. Documented["net"] = NetOption \cup {"type routed", "network", "mac"}
        BY DEF Documented
      <4>3. Documented["serial"] = {"device", "output", "socket", "socket-tcp", "socket-udp", "socket-mode"}
        BY DEF Documented
      <4>4. Documented["cdrom"] = Place /\ Documented["fdd"] = {"device"} /\ Documented["pci"] = {"device"}
        BY DEF Documented
      <4>5. Documented["usb"] = {} /\ Documented["sound"] = {} /\ Documented["parallel"] = {}
        BY DEF Documented
      <4>6. "device" \in Place
        BY DEF Place
      <4>7. CASE dev.type \in {"hdd", "net", "serial"}
        BY <3>3, <4>1, <4>2, <4>3, <4>6, <4>7
      <4>8. CASE dev.type \in {"cdrom", "fdd", "pci", "usb", "sound", "parallel"}
        BY <3>3, <4>4, <4>5, <4>6, <4>8
      <4> QED
        BY <3>1, <4>7, <4>8 DEF Class
    <3> QED
      BY <3>2, <3>3, <3>4
  <2> QED
    BY <1>2, <2>1, <2>2
<1>4. CASE o \notin stored
  <2>1. o \in {"nameserver", "searchdomain", "autocompact"}
    BY <1>1, <1>3, <1>4 DEF Validated
  <2>2. o \in SettingOption(kind)
    BY <2>1 DEF SettingOption, ViewOption, VmNetOption
  <2> QED
    BY <1>4, <2>2 DEF VmDone
<1>5. CASE o \in stored /\ dev.cmd = "none"
  <2>1. o \in NetOption
    BY <1>5 DEF DeviceDocumented
  <2>2. o \in {"fw-direction", "fw-rule"}
    BY <1>1, <1>5, <2>1 DEF Validated
  <2> QED
    BY <1>5, <2>2 DEF Silent
<1>6. CASE o \in stored /\ dev.cmd \in {"add", "set"}
  <2>1. dev.type \in Class
    BY <1>6 DEF LineInv, LineConsistent
  <2>2. class = dev.type \/ (dev.type = "pci" /\ "device" \in given /\ class = "net")
    BY <1>6, ClassesAre
  <2>3. o \in DoneOn(class, stored, dev.cmd)
    <3>1. CASE dev.type \in {"hdd", "net", "serial"}
      BY <1>6, <2>2, <3>1, DiskIsDone, AdapterIsDone, PortIsDone
    <3>2. CASE dev.type \notin {"hdd", "net", "serial"} /\ class = dev.type
      BY <1>6, <2>1, <3>2, OtherIsDone
    <3>3. CASE dev.type = "pci" /\ class = "net"
      <4>1. o = "device"
        BY <1>6, <2>1, <3>3, OtherIsDone
      <4> QED
        BY <1>6, <3>3, <4>1 DEF DoneOn, LinkOption, AdapterOption
    <3> QED
      BY <2>2, <3>1, <3>2, <3>3
  <2> QED
    BY <1>6, <2>3 DEF VmDone, DeviceDone
<1> QED
  BY <1>2, <1>4, <1>5, <1>6

(* All that a line of a VM or of a container promises. *)
LEMMA VmDueIsDone ==
  ASSUME LineInv, line = "accepted", kind # "srv", "distribution list" \notin given, NEW class \in Classes
  PROVE  Due \subseteq VmDone(class)
<1> SUFFICES ASSUME NEW o \in Due PROVE o \in VmDone(class)
  OBVIOUS
<1>1. o \in Promised /\ o \notin Silent /\ HiddenBy(o) \cap given = {}
  BY DEF Due
<1>2. /\ o \in given
      /\ \/ o \in VmOption \ stored
         \/ o \in DeviceDocumented /\ (dev.cmd = "add" \/ dev.class \in {"none", dev.type})
  BY <1>1 DEF Promised
<1>3. kind \in {"vm", "ct"}
  BY DEF LineInv, LineTypeOK
<1> QED
  BY <1>1, <1>2, <1>3, OwnIsDone, DocumentedIsDone

(* And all that a line of the server promises. *)
LEMMA ServerDueIsDone ==
  ASSUME LineInv, kind = "srv"
  PROVE  Due \subseteq ServerDone(given)
<1> SUFFICES ASSUME NEW o \in Due PROVE o \in ServerDone(given)
  OBVIOUS
<1>1. o \in given /\ o \notin Silent /\ HiddenBy(o) \cap given = {}
  BY DEF Due, Promised
<1>2. o \in ServerOption /\ o \notin Dead /\ o \notin {"device", "vnc-ssl-key"}
  BY <1>1 DEF LineInv, LineConsistent, Silent
<1>3. /\ ServerValues.dead \cup SecurityValues.dead \subseteq Dead
      /\ ServerOption = All(ServerValues) \cup All(SecurityValues)
  BY TablesAre DEF Dead
<1>4. o \in ServerValues.checked \cup ServerValues.text \cup SecurityValues.checked \cup SecurityValues.text
  BY <1>2, <1>3 DEF All
<1>5. CASE o \in ServerValues.checked \cup ServerValues.text
  <2>1. o \in {"add-offsrv", "del-offsrv", "add-network-class", "del-network-class", "add-bandwidth-entry", "shaping",
               "add-shaping-entry", "del-shaping-entry", "vm-cpulimit-type"} \cup ServerEdited
    BY <1>5 DEF ServerValues, Values, ServerEdited, LogOption, BackupOption
  <2>2. /\ o = "add-offsrv" => "del-offsrv" \notin given
        /\ o = "add-network-class" => "del-network-class" \notin given
        /\ o = "add-shaping-entry" => "del-shaping-entry" \notin given
    BY <1>1 DEF HiddenBy
  <2> QED
    BY <1>1, <2>1, <2>2 DEF ServerDone, LastOption
<1>6. CASE o \in SecurityValues.checked \cup SecurityValues.text
  <2>1. o \in {"require-pwd", "vnc-ssl-certificate", "cpu-features-mask"} \cup ServerEdited
    BY <1>2, <1>6 DEF SecurityValues, Values, ServerEdited, BackupOption
  <2> QED
    BY <1>1, <2>1 DEF ServerDone
<1> QED
  BY <1>4, <1>5, <1>6

-----------------------------------------------------------------------------
(* The session.  SetSessionProofs is about the same session as SetCommand. *)
S == INSTANCE SetSessionProofs

(* Its definitions are those of SetCommand's. *)
LEMMA SameSession ==
  /\ S!Parameters <=> Session!Parameters
  /\ S!Plans = Session!Plans
  /\ S!TypeOK <=> Session!TypeOK
  /\ S!Init <=> Session!Init
  /\ \A p : S!Start(p) <=> Session!Start(p)
  /\ S!Step <=> Session!Step
<1>1. S!Kind = Session!Kind /\ S!Outcome = Session!Outcome
  BY DEF S!Kind, S!Outcome, Session!Kind, Session!Outcome
<1>2. S!Stage = Session!Stage
  BY <1>1 DEF S!Stage, Session!Stage
<1>3. \A p : S!JobsAreImmediate(p) <=> Session!JobsAreImmediate(p)
  BY <1>1 DEF S!JobsAreImmediate, Session!JobsAreImmediate
<1>4. S!Plans = Session!Plans
  BY <1>2, <1>3 DEF S!Plans, Session!Plans
<1>5. S!TypeOK <=> Session!TypeOK
  BY <1>4 DEF S!TypeOK, Session!TypeOK
<1>6. (S!Parameters <=> Session!Parameters) /\ (S!Init <=> Session!Init) /\ \A p : S!Start(p) <=> Session!Start(p)
  BY DEF S!Parameters, Session!Parameters, S!Init, Session!Init, S!Start, Session!Start
<1>7. \A outcome : S!Call(outcome) <=> Session!Call(outcome)
  BY <1>1 DEF S!Call, Session!Call
<1>8. /\ S!opt = Session!opt /\ (S!Continue <=> Session!Continue) /\ (S!Succeed <=> Session!Succeed)
      /\ (S!GoWrong <=> Session!GoWrong) /\ (S!Finished <=> Session!Finished)
  BY DEF S!opt, Session!opt, S!Continue, Session!Continue, S!Succeed, Session!Succeed, S!GoWrong, Session!GoWrong,
         S!Finished, Session!Finished
<1>9. S!Calls <=> Session!Calls
  BY <1>7, <1>8 DEF S!Calls, S!Go, S!Copy, S!Edit, S!Touch, S!Job, S!JobWarns, S!GiveUp, S!Fail, S!Stop,
     Session!Calls, Session!Go, Session!Copy, Session!Edit, Session!Touch, Session!Job, Session!JobWarns,
     Session!GiveUp, Session!Fail, Session!Stop
<1>10. /\ S!Unchanged <=> Session!Unchanged
       /\ S!Commit <=> Session!Commit
       /\ S!CommitGivenUp <=> Session!CommitGivenUp
       /\ S!Late <=> Session!Late
  BY <1>8 DEF S!Unchanged, S!Commit, S!CommitGivenUp, S!Late,
     Session!Unchanged, Session!Commit, Session!CommitGivenUp, Session!Late
<1>11. S!Step <=> Session!Step
  BY <1>9, <1>10 DEF S!Step, Session!Step
<1> QED
  BY <1>4, <1>5, <1>6, <1>11

(* And it is the same transaction. *)
LEMMA SameTransaction ==
  /\ S!Transaction!Init <=> Session!Transaction!Init
  /\ S!Transaction!Next <=> Session!Transaction!Next
  /\ S!Transaction!vars = Session!Transaction!vars
<1>1. S!Transaction!Init <=> Session!Transaction!Init
  BY DEF S!Transaction!Init, Session!Transaction!Init
<1>2. S!Transaction!Next <=> Session!Transaction!Next
  BY DEF S!Transaction!Next, S!Transaction!Change, S!Transaction!Apply, S!Transaction!Report,
     Session!Transaction!Next, Session!Transaction!Change, Session!Transaction!Apply, Session!Transaction!Report
<1>3. S!Transaction!vars = Session!Transaction!vars
  BY DEF S!Transaction!vars, Session!Transaction!vars
<1> QED
  BY <1>1, <1>2, <1>3

(* An admissible list of calls is a plan. *)
LEMMA AllowedIsPlan ==
  ASSUME NEW g, NEW p \in Seq(Allowed(g))
  PROVE  p \in Session!Plans
<1>1. Allowed(g) \subseteq Session!Stage
  BY DEF Allowed
<1>2. p \in Seq(Session!Stage)
  BY <1>1, SeqOfMore
<1>3. \A d \in Session!Kind : Session!Outcome[d] \cap {"now", "giveup"} # {} => d \in {"job", "image", "reboot"}
  BY SMT DEF Session!Kind, Session!Outcome
<1>4. ASSUME NEW i \in 1..Len(p), Session!Outcome[p[i].do] \cap {"now", "giveup"} # {}
      PROVE  p[i].opt \in Immediate
  <2>1. p[i] \in Allowed(g)
    OBVIOUS
  <2>2. p[i] \in Session!Stage /\ (p[i].do \in {"job", "image", "reboot"} => p[i].opt \in Immediate)
    BY <2>1 DEF Allowed
  <2>3. p[i].do \in Session!Kind
    BY <2>2 DEF Session!Stage
  <2> QED
    BY <1>3, <1>4, <2>2, <2>3
<1> QED
  BY <1>2, <1>4 DEF Session!Plans, Session!JobsAreImmediate

-----------------------------------------------------------------------------
(* Until set() returns, what the line promises is in the copy, in effect,  *)
(* or still to be done by a call that does it or fails; or the plan fails. *)
Answering(p) == Refuses(p) \/ \A o \in Due : o \in copy \cup effect \/ Does(p, o)

(* What is known of the line, of the session, and of the calls to come:    *)
(* they are admissible, they answer, and m_updated is set or will be.      *)
SetInv ==
  /\ LineInv /\ S!Inv
  /\ at # "idle" => line = "accepted"
  /\ at = "edit" =>
       /\ plan \in Seq(Allowed(given))
       /\ updated \/ Sends(plan)
       /\ "distribution list" \notin given => Answering(plan)
  /\ NoEditIsDropped /\ SuccessTells

(* What a line promises does not change while it is executed. *)
LEMMA DueStays ==
  ASSUME UNCHANGED cmdline
  PROVE  Due' = Due /\ given' = given
<1>1. kind' = kind /\ given' = given /\ dev' = dev /\ stored' = stored
  BY DEF cmdline
<1>2. Promised' = Promised /\ Silent' = Silent
  BY <1>1 DEF Promised, DeviceDocumented, Silent
<1> QED
  BY <1>1, <1>2 DEF Due, HiddenBy

(* SuccessTells is about what is due, in a state and in the next one. *)
LEMMA SuccessIsDue ==
  /\ SuccessTells <=> (result = "ok" /\ "distribution list" \notin given => Due \subseteq effect)
  /\ SuccessTells' <=> (result' = "ok" /\ "distribution list" \notin given' => Due' \subseteq effect')
  BY DEF SuccessTells, Due

(* What the calls of each kind may do. *)
LEMMA OutcomesAre ==
  ASSUME NEW d \in Session!Kind
  PROVE  /\ d = "refuse" => Session!Outcome[d] = {"fail"}
         /\ d = "edit" => Session!Outcome[d] = {"edit", "fail"}
         /\ d \in Sure => Session!Outcome[d] \cap {"go", "touch", "stop"} = {}
         /\ "stop" \in Session!Outcome[d] => d = "stop"
<1>1. CASE d \in Sure
  BY <1>1, SMT DEF Sure, Session!Outcome
<1>2. CASE d \notin Sure
  <2>1. d \in {"read", "maybe", "switch", "try", "blind", "stop"}
    BY <1>2, KindsAre DEF Sure
  <2> QED
    BY <2>1, SMT DEF Sure, Session!Outcome
<1> QED
  BY <1>1, <1>2

(* The calls after the first. *)
LEMMA TailIs ==
  ASSUME NEW A, NEW p \in Seq(A), p # <<>>
  PROVE  /\ Tail(p) \in Seq(A) /\ Head(p) = p[1] /\ p[1] \in A
         /\ \A i \in 1..Len(p) : i = 1 \/ \E k \in 1..Len(Tail(p)) : Tail(p)[k] = p[i]
<1>1. Tail(p) \in Seq(A) /\ Len(p) \in Nat /\ Len(Tail(p)) = Len(p) - 1 /\ Head(p) = p[1] /\ 1 \in 1..Len(p)
  OBVIOUS
<1>2. ASSUME NEW i \in 1..Len(p), i # 1 PROVE i - 1 \in 1..Len(Tail(p)) /\ Tail(p)[i - 1] = p[i]
  BY <1>1, <1>2
<1> QED
  BY <1>1, <1>2

(* A call that does not end set() leaves a plan that answers. *)
LEMMA CallAnswers ==
  ASSUME SetInv, UNCHANGED cmdline, Session!Go \/ Session!Copy \/ Session!Edit \/ Session!Touch \/ Session!Job
  PROVE  /\ plan' \in Seq(Allowed(given))
         /\ updated' \/ Sends(plan')
         /\ "distribution list" \notin given => Answering(plan)'
         /\ at' = "edit" /\ result' = "none"
<1> USE DEF Session!Go, Session!Copy, Session!Edit, Session!Touch, Session!Job, Session!Call, Session!Continue
<1>1. at = "edit" /\ plan # <<>> /\ plan' = Tail(plan) /\ at' = "edit" /\ result' = result
  OBVIOUS
<1>2. plan \in Seq(Allowed(given)) /\ (updated \/ Sends(plan)) /\ ("distribution list" \notin given => Answering(plan))
  BY <1>1 DEF SetInv
<1>3. result = "none"
  BY <1>1 DEF SetInv, S!Inv, S!Pending
<1>4. /\ Tail(plan) \in Seq(Allowed(given)) /\ Head(plan) = plan[1] /\ plan[1] \in Allowed(given)
      /\ \A i \in 1..Len(plan) : i = 1 \/ \E k \in 1..Len(Tail(plan)) : Tail(plan)[k] = plan[i]
  BY <1>1, <1>2, TailIs
<1>5. plan[1].do \in Session!Kind
  BY <1>4 DEF Allowed, Session!Stage
<1>6. updated' \/ Sends(plan')
  <2>1. CASE updated
    BY <2>1
  <2>2. ASSUME NEW i \in 1..Len(plan), plan[i].do = "edit" PROVE updated' \/ Sends(plan')
    <3>1. CASE i = 1
      <4>1. Session!Outcome[Head(plan).do] = {"edit", "fail"}
        BY <1>4, <1>5, <2>2, <3>1, OutcomesAre
      <4> QED
        BY <4>1
    <3>2. CASE i # 1
      BY <1>1, <1>4, <2>2, <3>2 DEF Sends
    <3> QED
      BY <3>1, <3>2
  <2> QED
    BY <1>2, <2>1, <2>2 DEF Sends
<1>7. copy \subseteq copy' /\ effect \subseteq effect'
  OBVIOUS
<1>8. ASSUME NEW o, Does(plan, o) PROVE o \in copy' \cup effect' \/ Does(plan', o)
  <2>1. PICK i \in 1..Len(plan) : plan[i].opt = o /\ plan[i].do \in Sure
    BY <1>8 DEF Does
  <2>2. CASE i = 1
    <3>1. Session!Outcome[Head(plan).do] \cap {"go", "touch"} = {} /\ Session!opt = o
      BY <1>4, <1>5, <2>1, <2>2, OutcomesAre DEF Session!opt
    <3> QED
      BY <3>1
  <2>3. CASE i # 1
    BY <1>1, <1>4, <2>1, <2>3 DEF Does
  <2> QED
    BY <2>2, <2>3
<1>9. ASSUME Refuses(plan) PROVE Refuses(plan')
  <2>1. PICK i \in 1..Len(plan) : plan[i].do = "refuse"
    BY <1>9 DEF Refuses
  <2>2. i # 1
    BY <1>4, <1>5, <2>1, OutcomesAre
  <2> QED
    BY <1>1, <1>4, <2>1, <2>2 DEF Refuses
<1>10. Due' = Due
  BY DueStays
<1>11. ASSUME "distribution list" \notin given PROVE Answering(plan)'
  BY <1>2, <1>7, <1>8, <1>9, <1>10, <1>11 DEF Answering, Refuses, Does
<1> QED
  BY <1>1, <1>3, <1>4, <1>6, <1>11

(* The beginning: no line was read, and nothing was done. *)
LEMMA SetStarts == Init => SetInv
<1> SUFFICES ASSUME Init PROVE SetInv
  OBVIOUS
<1>1. LineInv
  BY LineStarts DEF Init
<1>2. S!Init
  BY SameSession DEF Init
<1>3. S!Inv
  BY <1>2, S!Initially
<1>4. at = "idle" /\ result = "none"
  BY DEF Init, Session!Init
<1> QED
  BY <1>1, <1>3, <1>4 DEF SetInv, NoEditIsDropped, SuccessTells

(* A step of the session is one of SetSession. *)
LEMMA SessionKeeps ==
  ASSUME S!Inv, S!Next
  PROVE  S!Inv'
<1>1. S!Parameters
  BY CommandAssumption, SameSession
<1> QED
  BY <1>1, S!StepKeepsInv

(* The reading of the line. *)
LEMMA ReadingKeepsAll ==
  ASSUME SetInv, ReadLine, UNCHANGED session
  PROVE  SetInv'
<1>1. line = "reading"
  BY DEF ReadLine, Take, Command, BadValue, End
<1>2. at = "idle"
  BY <1>1 DEF SetInv, S!Inv, S!TypeOK
<1>3. LineInv'
  BY ReadLineKeeps DEF SetInv
<1>4. at' = "idle" /\ result' = result /\ UNCHANGED S!vars
  BY <1>2 DEF session, S!vars
<1>5. result = "none"
  BY <1>2 DEF SetInv, S!Inv, S!Pending
<1>6. S!Inv'
  <2>1. S!Parameters
    BY CommandAssumption, SameSession
  <2> QED
    BY <1>4, <2>1, S!StepKeepsInv DEF SetInv
<1>7. NoEditIsDropped' /\ SuccessTells'
  BY <1>4, <1>5 DEF NoEditIsDropped, SuccessTells
<1> QED
  BY <1>3, <1>4, <1>6, <1>7 DEF SetInv

(* The beginning of the session: the plan is the one of the line. *)
LEMMA PlanAnswers ==
  ASSUME LineInv, line = "accepted",
         NEW p, \/ kind = "srv" /\ p = ServerPlan(given)
                \/ kind # "srv" /\ \E class \in Classes : p = VmPlan(class)
  PROVE  /\ p \in Seq(Allowed(given)) /\ Sends(p)
         /\ "distribution list" \notin given => Answering(p)
<1>1. CASE kind = "srv" /\ p = ServerPlan(given)
  <2>1. Makes(given, p, ServerDone(given)) /\ Sends(p)
    BY <1>1, ServerPlanMakes
  <2>2. Due \subseteq ServerDone(given)
    BY <1>1, ServerDueIsDone
  <2> QED
    BY <2>1, <2>2 DEF Makes, Answering
<1>2. ASSUME kind # "srv", NEW class \in Classes, p = VmPlan(class)
      PROVE  /\ p \in Seq(Allowed(given)) /\ Sends(p)
             /\ "distribution list" \notin given => Answering(p)
  <2>1. Commanded(class)
    BY <1>2, ClassesAre
  <2>2. Answers(given, p, VmDone(class)) /\ Sends(p)
    BY <1>2, <2>1, VmPlanAnswers
  <2>3. "distribution list" \notin given => Due \subseteq VmDone(class)
    BY <1>2, VmDueIsDone
  <2> QED
    BY <2>2, <2>3 DEF Answers, Makes, Answering
<1> QED
  BY <1>1, <1>2

(* So a session begins with what is promised still to be done. *)
LEMMA StartKeepsAll ==
  ASSUME SetInv, Start
  PROVE  SetInv'
<1>1. LineInv /\ S!Inv /\ line = "accepted" /\ UNCHANGED cmdline
  BY DEF SetInv, Start
<1>2. PICK p : /\ Session!Start(p)
               /\ \/ kind = "srv" /\ p = ServerPlan(given)
                  \/ kind # "srv" /\ \E class \in Classes : p = VmPlan(class)
  BY DEF Start
<1>3. /\ p \in Seq(Allowed(given)) /\ Sends(p)
      /\ "distribution list" \notin given => Answering(p)
  BY <1>1, <1>2, PlanAnswers
<1>4. at = "idle" /\ at' = "edit" /\ plan' = p /\ UNCHANGED <<copy, updated, effect, late, result>>
  BY <1>2 DEF Session!Start
<1>5. LineInv' /\ line' = line
  BY <1>1, LineStays DEF cmdline
<1>6. S!Inv'
  <2>1. p \in S!Plans /\ S!Start(p)
    BY <1>2, <1>3, AllowedIsPlan, SameSession
  <2> QED
    BY <1>1, <2>1, SessionKeeps DEF S!Next
<1>7. result' = "none"
  BY <1>1, <1>4 DEF S!Inv, S!Pending
<1>8. Due' = Due /\ given' = given
  BY <1>1, DueStays
<1>9. "distribution list" \notin given => Answering(plan)'
  BY <1>3, <1>4, <1>8 DEF Answering
<1>10. NoEditIsDropped' /\ SuccessTells'
  BY <1>7 DEF NoEditIsDropped, SuccessTells
<1>11. plan' \in Seq(Allowed(given')) /\ Sends(plan')
  BY <1>3, <1>4, <1>8
<1> QED
  BY <1>1, <1>5, <1>6, <1>8, <1>9, <1>10, <1>11 DEF SetInv

(* A step of the session: a call, the commit, or a commit that ends after  *)
(* it was given up.                                                        *)
LEMMA StepKeepsAll ==
  ASSUME SetInv, Session!Step, UNCHANGED cmdline
  PROVE  SetInv'
<1>1. LineInv' /\ S!Inv'
  <2>1. S!Inv /\ S!Next
    BY SameSession DEF SetInv, S!Next
  <2> QED
    BY <2>1, SessionKeeps, LineStays DEF SetInv
<1>2. Due' = Due /\ given' = given /\ line' = line
  BY DueStays DEF cmdline
<1>3. SuccessTells' <=> (result' = "ok" /\ "distribution list" \notin given => Due \subseteq effect')
  BY <1>2, SuccessIsDue
<1>4. CASE Session!Go \/ Session!Copy \/ Session!Edit \/ Session!Touch \/ Session!Job
  <2>1. /\ plan' \in Seq(Allowed(given))
        /\ updated' \/ Sends(plan')
        /\ "distribution list" \notin given => Answering(plan)'
        /\ at' = "edit" /\ result' = "none"
    BY <1>4, CallAnswers
  <2>2. line = "accepted"
    BY <1>4 DEF SetInv, Session!Go, Session!Copy, Session!Edit, Session!Touch, Session!Job, Session!Call
  <2>3. NoEditIsDropped' /\ SuccessTells'
    BY <2>1, <1>3 DEF NoEditIsDropped
  <2>4. plan' \in Seq(Allowed(given'))
    BY <1>2, <2>1
  <2> QED
    BY <1>1, <1>2, <2>1, <2>2, <2>3, <2>4 DEF SetInv
<1>5. CASE Session!JobWarns \/ Session!GiveUp \/ Session!Fail \/ Session!CommitGivenUp
  <2>1. at = "edit" /\ at' = "done" /\ result' = "failed"
    BY <1>5 DEF Session!JobWarns, Session!GiveUp, Session!Fail, Session!CommitGivenUp, Session!Call, Session!GoWrong, Session!Finished
  <2>2. NoEditIsDropped' /\ SuccessTells'
    BY <1>3, <2>1 DEF NoEditIsDropped
  <2> QED
    BY <1>1, <1>2, <2>1, <2>2 DEF SetInv
<1>6. CASE Session!Stop
  <2>1. at = "edit" /\ plan # <<>> /\ "stop" \in Session!Outcome[Head(plan).do] /\ at' = "done"
    BY <1>6 DEF Session!Stop, Session!Call, Session!Succeed
  <2>2. Head(plan) \in Allowed(given)
    BY <2>1, TailIs DEF SetInv
  <2>3. Head(plan).do \in Session!Kind /\ (Head(plan).do = "stop" => "distribution list" \in given)
    BY <2>2 DEF Allowed, Session!Stage
  <2>4. "distribution list" \in given
    BY <2>1, <2>3, OutcomesAre
  <2>5. NoEditIsDropped' /\ SuccessTells'
    BY <1>2, <1>3, <2>4 DEF NoEditIsDropped
  <2> QED
    BY <1>1, <1>2, <2>1, <2>5 DEF SetInv
<1>7. CASE Session!Unchanged
  <2>1. at = "edit" /\ plan = <<>> /\ ~updated
    BY <1>7 DEF Session!Unchanged, Session!Finished
  <2>2. 1..Len(plan) = {}
    BY <2>1
  <2> QED
    BY <2>1, <2>2 DEF SetInv, Sends
<1>8. CASE Session!Commit
  <2>1. at = "edit" /\ plan = <<>> /\ at' = "done" /\ (result' = "failed" \/ (effect' = effect \cup copy /\ copy' = copy))
    BY <1>8 DEF Session!Commit, Session!Finished, Session!Succeed, Session!GoWrong
  <2>2. "distribution list" \notin given => Due \subseteq copy \cup effect
    <3>1. 1..Len(plan) = {}
      BY <2>1
    <3> QED
      BY <2>1, <3>1 DEF SetInv, Answering, Refuses, Does
  <2>3. NoEditIsDropped' /\ SuccessTells'
    BY <1>2, <1>3, <2>1, <2>2 DEF NoEditIsDropped
  <2> QED
    BY <1>1, <1>2, <2>1, <2>3 DEF SetInv
<1>9. CASE Session!Late
  <2>1. effect \subseteq effect' /\ UNCHANGED <<plan, at, copy, updated, result>> /\ late # {}
    BY <1>9 DEF Session!Late
  <2>2. result # "ok" /\ at = "done"
    BY <2>1 DEF SetInv, S!Inv, S!Pending, S!TypeOK
  <2>3. NoEditIsDropped' /\ SuccessTells'
    BY <1>3, <2>1, <2>2 DEF NoEditIsDropped
  <2> QED
    BY <1>1, <1>2, <2>1, <2>2, <2>3 DEF SetInv
<1> QED
  BY <1>4, <1>5, <1>6, <1>7, <1>8, <1>9 DEF Session!Step, Session!Calls

(* So the invariant is kept by every step. *)
LEMMA NextKeepsAll ==
  ASSUME SetInv, [Next]_vars
  PROVE  SetInv'
<1>1. ASSUME UNCHANGED vars PROVE SetInv'
  <2>1. UNCHANGED cmdline /\ UNCHANGED session
    BY <1>1 DEF vars
  <2>2. LineInv' /\ Due' = Due /\ given' = given /\ line' = line
    BY <2>1, LineStays, DueStays DEF SetInv, cmdline
  <2>3. UNCHANGED S!vars /\ plan' = plan /\ at' = at /\ copy' = copy /\ updated' = updated /\ effect' = effect /\ result' = result
    BY <2>1 DEF session, S!vars
  <2>4. S!Inv'
    <3>1. S!Parameters
      BY CommandAssumption, SameSession
    <3> QED
      BY <2>3, <3>1, S!StepKeepsInv DEF SetInv
  <2>5. SuccessTells' <=> (result' = "ok" /\ "distribution list" \notin given => Due \subseteq effect')
    BY <2>2, SuccessIsDue
  <2>6. SuccessTells' /\ NoEditIsDropped'
    BY <2>2, <2>3, <2>5, SuccessIsDue DEF SetInv, NoEditIsDropped
  <2>7. "distribution list" \notin given => (Answering(plan) => Answering(plan)')
    BY <2>2, <2>3 DEF Answering
  <2> QED
    BY <2>2, <2>3, <2>4, <2>6, <2>7 DEF SetInv
<1> QED
  BY <1>1, ReadingKeepsAll, StartKeepsAll, StepKeepsAll DEF Next

-----------------------------------------------------------------------------
(* set is always in a state that the invariant describes: of every command *)
(* line, however long it is.                                               *)
THEOREM SetInvariant == Spec => []SetInv
<1>1. Init => SetInv
  BY SetStarts
<1>2. SetInv /\ [Next]_vars => SetInv'
  BY NextKeepsAll
<1> QED
  BY <1>1, <1>2, PTL DEF Spec

(* Types: what is parsed is a line of the tables, the plan of calls is one *)
(* whose jobs take effect at once, and only an accepted line is executed.  *)
THEOREM SetTypes == Spec => []SetTypeOK
<1>1. SetInv => SetTypeOK
  BY SameSession DEF SetInv, SetTypeOK, LineInv, S!Inv
<1> QED
  BY <1>1, SetInvariant, PTL

(* Every change of the client's copy is in effect when success is          *)
(* reported, or the list of distributions ended set().                     *)
THEOREM EditsAreSent == Spec => []NoEditIsDropped
<1>1. SetInv => NoEditIsDropped
  BY DEF SetInv
<1> QED
  BY <1>1, SetInvariant, PTL

(* What the options of any line promise is in effect when prlctl set or    *)
(* prlsrvctl set reports success.                                          *)
THEOREM SuccessIsTold == Spec => []SuccessTells
<1>1. SetInv => SuccessTells
  BY DEF SetInv
<1> QED
  BY <1>1, SetInvariant, PTL

(* And set is a transaction, whatever the line asks for.                   *)
THEOREM SetIsTransaction == Spec => ImplementsTransaction
<1>1. Init => Session!Transaction!Init
  BY DEF Init, Session!Init, Session!Transaction!Init
<1>2. SetInv /\ [Next]_vars => [Session!Transaction!Next]_(Session!Transaction!vars)
  <2> SUFFICES ASSUME SetInv, [Next]_vars PROVE [Session!Transaction!Next]_(Session!Transaction!vars)
    OBVIOUS
  <2>1. S!Inv /\ S!Parameters
    BY CommandAssumption, SameSession DEF SetInv
  <2>2. CASE Session!Step
    <3>1. S!Next
      BY <2>2, SameSession DEF S!Next
    <3>2. [S!Transaction!Next]_(S!Transaction!vars)
      BY <2>1, <3>1, S!StepIsTransaction
    <3> QED
      BY <3>2, SameTransaction DEF S!Transaction!vars, Session!Transaction!vars
  <2>3. CASE UNCHANGED session \/ Start
    BY <2>3 DEF session, Start, Session!Start, Session!Transaction!vars
  <2> QED
    BY <2>2, <2>3 DEF Next, vars
<1> QED
  BY <1>1, <1>2, SetInvariant, PTL DEF Spec, ImplementsTransaction, Session!ImplementsTransaction, Session!Transaction!Spec
=============================================================================

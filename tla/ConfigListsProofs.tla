-------------------------- MODULE ConfigListsProofs --------------------------
(***************************************************************************)
(* What holds of the boot list and of the list of networks, whatever their *)
(* commands, devices and networks are.  A behaviour changes one of the two *)
(* and leaves the other alone, so that the invariants of each stand by     *)
(* themselves.                                                             *)
(***************************************************************************)
EXTENDS ConfigLists, ListsProofs, FiniteSetTheorems

-----------------------------------------------------------------------------
(* The boot list.  Has and Twice: the entries of a device, in any list. *)
Has(list, d)   == \E i \in 1..Len(list) : list[i].dev = d
Twice(list, d) == \E i, j \in 1..Len(list) : i # j /\ list[i].dev = d /\ list[j].dev = d

(* The parts of an entry. *)
LEMMA EntryIs ==
  /\ \A e \in Entry : e.dev \in Device /\ e.index \in 1..MaxIndex /\ e.inuse \in BOOLEAN
  /\ \A e \in Entry : \A ds : e \in EntryOf(ds) <=> e.dev \in ds
  /\ \A d \in Device, i \in 1..MaxIndex, u \in BOOLEAN : At(d, i, u) \in Entry
  BY DEF Entry, EntryOf, At

(* A set of indexes has a greatest one. *)
LEMMA GreatestNumber ==
  ASSUME NEW n \in Nat, NEW T \in SUBSET (0..n), T # {}
  PROVE  \E x \in T : \A y \in T : x >= y
<1> DEFINE R == {m \in Nat : n - m \in T}
<1>1. R # {}
  <2>1. PICK x \in T : TRUE
    OBVIOUS
  <2>2. n - x \in Nat /\ n - (n - x) = x
    OBVIOUS
  <2> QED
    BY <2>1, <2>2
<1>2. PICK m \in R : \A k \in R : m <= k
  <2> HIDE DEF R
  <2>1. R \in SUBSET Nat
    BY DEF R
  <2> QED
    BY <1>1, <2>1, LeastNumber
<1>3. ASSUME NEW y \in T PROVE n - m >= y
  <2>1. n - y \in Nat /\ n - (n - y) = y
    OBVIOUS
  <2>2. n - y \in R
    BY <2>1
  <2> QED
    BY <1>2, <2>1, <2>2
<1> QED
  BY <1>2, <1>3

(* The highest index of the list is one of its, and none is higher. *)
LEMMA MaxIndexUsedIs ==
  ASSUME boot \in Seq(Entry)
  PROVE  MaxIndexUsed \in 0..MaxIndex /\ \A i \in 1..Len(boot) : boot[i].index <= MaxIndexUsed
<1> DEFINE T == {0} \cup {e.index : e \in Range(boot)}
<1>1. \A i \in 1..Len(boot) : boot[i] \in Range(boot) /\ boot[i].index \in 1..MaxIndex
  <2>1. DOMAIN boot = 1..Len(boot) /\ \A i \in 1..Len(boot) : boot[i] \in Entry
    OBVIOUS
  <2> QED
    BY <2>1, EntryIs DEF Range
<1>2. T \in SUBSET (0..MaxIndex) /\ T # {} /\ MaxIndex \in Nat
  <2>1. Range(boot) \subseteq Entry
    BY DEF Range
  <2>2. \A e \in Range(boot) : e.index \in 0..MaxIndex
    BY <2>1, BootAssumption, EntryIs
  <2> QED
    BY <2>2, BootAssumption
<1>3. \A i \in 1..Len(boot) : boot[i].index \in T
  BY <1>1
<1>4. MaxIndexUsed = CHOOSE x \in T : \A y \in T : x >= y
  BY DEF MaxIndexUsed, Max
<1> HIDE DEF T
<1>5. \E x \in T : \A y \in T : x >= y
  BY <1>2, GreatestNumber
<1>6. MaxIndexUsed \in T /\ \A y \in T : MaxIndexUsed >= y
  BY <1>4, <1>5
<1> QED
  BY <1>1, <1>2, <1>3, <1>6

(* What keeping the entries of some devices does to the entries of one. *)
LEMMA KeepEntries ==
  ASSUME NEW s \in Seq(Entry), NEW ds \in SUBSET Device
  PROVE  LET k == Keep(s, EntryOf(ds)) IN
         /\ k \in Seq(Entry)
         /\ \A d : Twice(k, d) => Twice(s, d)
         /\ \A d \in ds : Has(s, d) => Has(k, d)
<1> DEFINE k == Keep(s, EntryOf(ds))
<1>1. k \in Seq(Entry \cap EntryOf(ds))
  BY KeepType
<1>2. PICK e : Embeds(e, k, s) /\ \A i \in 1..Len(s) : s[i] \in EntryOf(ds) => \E j \in 1..Len(k) : e[j] = i
  BY KeepEmbeds
<1> HIDE DEF k
<1>3. k \in Seq(Entry) /\ Len(k) \in Nat /\ Len(s) \in Nat
  BY <1>1
<1>4. ASSUME NEW d, Twice(k, d) PROVE Twice(s, d)
  <2>1. PICK i, j \in 1..Len(k) : i # j /\ k[i].dev = d /\ k[j].dev = d
    BY <1>4 DEF Twice
  <2>2. i < j \/ j < i
    BY <1>3, <2>1
  <2>3. e[i] \in 1..Len(s) /\ e[j] \in 1..Len(s) /\ s[e[i]].dev = d /\ s[e[j]].dev = d
    BY <1>2, <2>1 DEF Embeds
  <2>4. e[i] # e[j]
    BY <1>2, <1>3, <2>2, <2>3 DEF Embeds
  <2> QED
    BY <2>3, <2>4 DEF Twice
<1>5. ASSUME NEW d \in ds, Has(s, d) PROVE Has(k, d)
  <2>1. PICK i \in 1..Len(s) : s[i].dev = d
    BY <1>5 DEF Has
  <2>2. s[i] \in Entry /\ s[i] \in EntryOf(ds)
    BY <2>1, EntryIs
  <2>3. PICK j \in 1..Len(k) : e[j] = i
    BY <1>2, <2>2
  <2>4. k[j] = s[e[j]]
    BY <1>2 DEF Embeds
  <2> QED
    BY <2>1, <2>3, <2>4 DEF Has
<1> QED
  BY <1>3, <1>4, <1>5 DEF k

(* What leaving out the first entry of a device does. *)
LEMMA WithoutFirstIs ==
  ASSUME NEW s \in Seq(Entry), NEW n \in Device
  PROVE  LET t == WithoutFirst(s, n) IN
         /\ t \in Seq(Entry)
         /\ \A d : Has(t, d) => Has(s, d)
         /\ \A d : Twice(t, d) => Twice(s, d)
         /\ Has(t, n) => Twice(s, n)
         /\ \A d : d # n /\ Has(s, d) => Has(t, d)
<1> DEFINE t == WithoutFirst(s, n)
<1>1. t \in Seq(Entry)
  BY DropFirstIs DEF WithoutFirst
<1>2. \A i \in 1..Len(s) : s[i] \in EntryOf({n}) <=> s[i].dev = n
  <2>1. \A i \in 1..Len(s) : s[i] \in Entry
    OBVIOUS
  <2> QED
    BY <2>1, EntryIs
<1>3. \/ t = s /\ \A i \in 1..Len(s) : s[i] \notin EntryOf({n})
      \/ \E first \in 1..Len(s) : s[first] \in EntryOf({n}) /\ LacksOne(t, s, first)
  BY DropFirstIs DEF WithoutFirst
<1> HIDE DEF t
<1>4. CASE t = s /\ \A i \in 1..Len(s) : s[i] \notin EntryOf({n})
  <2>1. ~Has(t, n)
    BY <1>2, <1>4 DEF Has
  <2> QED
    BY <1>1, <1>4, <2>1 DEF t
<1>5. CASE \E first \in 1..Len(s) : s[first] \in EntryOf({n}) /\ LacksOne(t, s, first)
  <2>1. PICK first \in 1..Len(s) : s[first].dev = n /\ LacksOne(t, s, first)
    BY <1>2, <1>5
  <2> DEFINE at(i) == IF i < first THEN i ELSE i + 1
  <2>2. Len(t) = Len(s) - 1 /\ Len(s) \in Nat /\ \A i \in 1..Len(t) : t[i] = s[at(i)]
    BY <2>1 DEF LacksOne
  <2>3. \A i \in 1..Len(t) : at(i) \in 1..Len(s) /\ at(i) # first
    BY <2>2
  <2>4. \A i, j \in 1..Len(t) : i # j => at(i) # at(j)
    BY <2>2
  <2>5. \A i \in 1..Len(s) : i # first => \E j \in 1..Len(t) : at(j) = i
    <3> SUFFICES ASSUME NEW i \in 1..Len(s), i # first PROVE \E j \in 1..Len(t) : at(j) = i
      OBVIOUS
    <3>1. CASE i < first
      <4>1. i \in 1..Len(t) /\ at(i) = i
        BY <2>2, <3>1
      <4> QED
        BY <4>1
    <3>2. CASE i > first
      <4>1. i - 1 \in 1..Len(t) /\ at(i - 1) = i
        BY <2>2, <3>2
      <4> QED
        BY <4>1
    <3> QED
      BY <2>2, <3>1, <3>2
  <2> HIDE DEF at
  <2>6. \A d : Has(t, d) => Has(s, d)
    BY <2>2, <2>3 DEF Has
  <2>7. \A d : Twice(t, d) => Twice(s, d)
    BY <2>2, <2>3, <2>4 DEF Twice
  <2>8. Has(t, n) => Twice(s, n)
    BY <2>1, <2>2, <2>3 DEF Has, Twice
  <2>9. \A d : d # n /\ Has(s, d) => Has(t, d)
    BY <2>1, <2>2, <2>5 DEF Has
  <2> QED
    BY <1>1, <2>6, <2>7, <2>8, <2>9 DEF t
<1> QED
  BY <1>3, <1>4, <1>5

(* Rest is what its recursion says: the names are taken off one by one. *)
Stages(f, names) ==
  /\ f[0] = Found /\ Rest(names) = f[Len(names)]
  /\ \A i \in 1..Len(names) : f[i] = WithoutFirst(f[i - 1], names[i])

(* These stages exist, and each is a boot list. *)
LEMMA RestStages ==
  ASSUME boot \in Seq(Entry), devices \subseteq Device, NEW names \in Seq(Device)
  PROVE  \E f \in [0..Len(names) -> Seq(Entry)] : Stages(f, names)
<1> DEFINE n == Len(names)
           step == [i \in 1..n |-> [t \in Seq(Entry) |-> WithoutFirst(t, names[i])]]
           IsRest(f) == f = [i \in 0..n |-> IF i = 0 THEN Found ELSE WithoutFirst(f[i - 1], names[i])]
           rest == CHOOSE f : IsRest(f)
<1>1. n \in Nat /\ \A i \in 1..n : names[i] \in Device
  OBVIOUS
<1>2. Found \in Seq(Entry)
  BY KeepEntries DEF Found
<1>3. \A i \in 1..n : \A t \in Seq(Entry) : WithoutFirst(t, names[i]) \in Seq(Entry)
  BY <1>1, WithoutFirstIs
<1>4. step \in [1..n -> [Seq(Entry) -> Seq(Entry)]]
  BY <1>3
<1>5. PICK f \in [0..n -> Seq(Entry)] : Iterates(f, n, Found, step)
  <2> HIDE DEF step, n
  <2> QED
    BY <1>1, <1>2, <1>4, IterationExists
<1>6. ASSUME NEW i \in 0..n
      PROVE  f[i] = IF i = 0 THEN Found ELSE WithoutFirst(f[i - 1], names[i])
  <2>1. CASE i = 0
    BY <1>5, <2>1 DEF Iterates
  <2>2. CASE i # 0
    <3>1. i \in 1..n /\ i - 1 \in 0..n
      BY <1>1, <2>2
    <3>2. f[i - 1] \in Seq(Entry) /\ f[i] = step[i][f[i - 1]]
      BY <1>5, <3>1 DEF Iterates
    <3> QED
      BY <2>2, <3>1, <3>2
  <2> QED
    BY <2>1, <2>2
<1>7. IsRest(f)
  BY <1>5, <1>6
<1>8. IsRest(rest)
  BY <1>7
<1>9. Rest(names) = rest[n]
  BY DEF Rest
<1> HIDE DEF rest
<1>10. \A i \in 0..n : rest[i] = IF i = 0 THEN Found ELSE WithoutFirst(rest[i - 1], names[i])
  BY <1>8
<1>11. rest[0] = Found /\ \A i \in 1..n : rest[i] = WithoutFirst(rest[i - 1], names[i])
  <2>1. 0 \in 0..n /\ \A i \in 1..n : i \in 0..n /\ i # 0
    BY <1>1
  <2>2. ASSUME NEW i \in 1..n PROVE rest[i] = WithoutFirst(rest[i - 1], names[i])
    BY <1>10, <2>1
  <2> QED
    BY <1>10, <2>1, <2>2
<1> DEFINE P == {i \in Nat : i <= n => rest[i] \in Seq(Entry)}
<1>12. 0 \in P
  BY <1>2, <1>11
<1>13. ASSUME NEW i \in P PROVE i + 1 \in P
  <2>1. i \in Nat /\ i + 1 \in Nat /\ (i <= n => rest[i] \in Seq(Entry))
    OBVIOUS
  <2>2. ASSUME i + 1 <= n PROVE rest[i + 1] \in Seq(Entry)
    <3>1. i + 1 \in 1..n /\ (i + 1) - 1 = i /\ rest[i] \in Seq(Entry)
      BY <1>1, <2>1, <2>2
    <3>2. rest[i + 1] = WithoutFirst(rest[i], names[i + 1])
      BY <1>11, <3>1
    <3> QED
      BY <1>3, <3>1, <3>2
  <2> QED
    BY <2>1, <2>2
<1> HIDE DEF P
<1>14. P = Nat
  <2>1. P \in SUBSET Nat
    BY DEF P
  <2> QED
    BY <1>12, <1>13, <2>1, NumberInduction
<1>15. \A i \in 0..n : rest[i] \in Seq(Entry)
  BY <1>1, <1>14 DEF P
<1>16. rest \in [0..n -> Seq(Entry)]
  BY <1>8, <1>15
<1>17. Stages(rest, names)
  BY <1>9, <1>11 DEF Stages
<1> QED
  BY <1>16, <1>17

(* What is left of the list when the names are taken off it: a device that *)
(* was named and is still there had two entries, and one that has two had  *)
(* them before; the entry of a device that was not named is there.         *)
LEMMA RestIs ==
  ASSUME boot \in Seq(Entry), devices \subseteq Device, NEW names \in Seq(Device)
  PROVE  /\ Rest(names) \in Seq(Entry)
         /\ \A d : Twice(Rest(names), d) => Twice(boot, d)
         /\ \A i \in 1..Len(names) : Has(Rest(names), names[i]) => Twice(boot, names[i])
         /\ \A d \in devices : Has(boot, d) /\ (\A i \in 1..Len(names) : names[i] # d) => Has(Rest(names), d)
<1>1. PICK f \in [0..Len(names) -> Seq(Entry)] : Stages(f, names)
  BY RestStages
<1>2. Len(names) \in Nat /\ f[0] = Found /\ \A i \in 1..Len(names) : names[i] \in Device
  BY <1>1 DEF Stages
<1> DEFINE Good(m) == /\ \A d : Twice(f[m], d) => Twice(boot, d)
                      /\ \A i \in 1..m : Has(f[m], names[i]) => Twice(boot, names[i])
                      /\ \A d \in devices : Has(boot, d) /\ (\A i \in 1..m : names[i] # d) => Has(f[m], d)
           P == {m \in Nat : m <= Len(names) => Good(m)}
<1>3. 0 \in P
  <2>1. /\ \A d : Twice(f[0], d) => Twice(boot, d)
        /\ \A d \in devices : Has(boot, d) => Has(f[0], d)
    BY <1>2, KeepEntries DEF Found
  <2> QED
    BY <2>1
<1>4. ASSUME NEW m \in P PROVE m + 1 \in P
  <2> SUFFICES ASSUME m + 1 <= Len(names) PROVE Good(m + 1)
    OBVIOUS
  <2>1. m \in Nat /\ m + 1 \in Nat /\ Good(m) /\ m + 1 \in 1..Len(names) /\ m \in 0..Len(names)
        /\ (m + 1) - 1 = m /\ \A i \in 1..m + 1 : i \in 1..m \/ i = m + 1
    BY <1>2
  <2> DEFINE n == names[m + 1]
             s == f[m]
             t == f[m + 1]
  <2>2. s \in Seq(Entry) /\ n \in Device /\ t = WithoutFirst(s, n)
    BY <1>1, <1>2, <2>1 DEF Stages
  <2> HIDE DEF s, t, n
  <2>3. /\ \A d : Has(t, d) => Has(s, d)
        /\ \A d : Twice(t, d) => Twice(s, d)
        /\ Has(t, n) => Twice(s, n)
        /\ \A d : d # n /\ Has(s, d) => Has(t, d)
    BY <2>2, WithoutFirstIs
  <2>4. \A d : Twice(t, d) => Twice(boot, d)
    BY <2>1, <2>3 DEF s
  <2>5. ASSUME NEW i \in 1..m + 1, Has(t, names[i]) PROVE Twice(boot, names[i])
    <3>1. CASE i \in 1..m
      BY <2>1, <2>3, <2>5, <3>1 DEF s
    <3>2. CASE i = m + 1
      BY <2>1, <2>3, <2>5, <3>2 DEF s, n
    <3> QED
      BY <2>1, <3>1, <3>2
  <2>6. ASSUME NEW d \in devices, Has(boot, d), \A i \in 1..m + 1 : names[i] # d PROVE Has(t, d)
    <3>1. d # n /\ \A i \in 1..m : names[i] # d
      <4>1. m + 1 \in 1..m + 1 /\ 1..m \subseteq 1..m + 1
        BY <2>1
      <4> QED
        BY <2>6, <4>1 DEF n
    <3>2. Has(s, d)
      BY <2>1, <2>6, <3>1 DEF s
    <3> QED
      BY <2>3, <3>1, <3>2
  <2> QED
    BY <2>4, <2>5, <2>6 DEF t
<1> HIDE DEF P
<1>5. P = Nat
  <2>1. P \in SUBSET Nat
    BY DEF P
  <2> QED
    BY <1>3, <1>4, <2>1, NumberInduction
<1>6. Good(Len(names)) /\ f[Len(names)] = Rest(names) /\ f[Len(names)] \in Seq(Entry)
  <2>1. Len(names) <= Len(names) /\ Len(names) \in 0..Len(names)
    BY <1>2
  <2> QED
    BY <1>1, <1>2, <1>5, <2>1 DEF P, Stages
<1> QED
  BY <1>6

(* The list that set_boot_list makes, entry by entry. *)
LEMMA OrderedIs ==
  ASSUME NEW names \in Seq(Device), Rest(names) \in Seq(Entry)
  PROVE  LET n == Len(names)
             r == Rest(names)
             list == Ordered(names) IN
         /\ n \in Nat /\ Len(r) \in Nat /\ Len(list) = n + Len(r) /\ DOMAIN list = 1..Len(list)
         /\ list \in Seq([dev : Device, index : 1..Len(list), inuse : BOOLEAN])
         /\ \A i \in 1..n : list[i].dev = names[i] /\ list[i].inuse = TRUE
         /\ \A i \in 1..Len(list) : i > n => /\ i - n \in 1..Len(r) /\ list[i].dev = r[i - n].dev
                                             /\ list[i].inuse = FALSE
         /\ \A i \in 1..Len(list) : list[i].index = i
<1> DEFINE n == Len(names)
           r == Rest(names)
           list == Ordered(names)
           a == Named(names)
           b == Behind(names, FALSE)
<1>1. n \in Nat /\ Len(r) \in Nat /\ DOMAIN names = 1..n /\ DOMAIN r = 1..Len(r)
  OBVIOUS
<1>2. /\ \A i \in 1..n : names[i] \in Device
      /\ \A i \in 1..Len(r) : r[i].dev \in Device
  <2>1. \A i \in 1..Len(r) : r[i] \in Entry
    OBVIOUS
  <2> QED
    BY <2>1, EntryIs
<1> DEFINE E == [dev : Device, index : 1..n + Len(r), inuse : BOOLEAN]
<1>3. \A d \in Device, i \in 1..n + Len(r), u \in BOOLEAN : At(d, i, u) \in E
  BY DEF At
<1>4. a = [i \in 1..n |-> At(names[i], i, TRUE)]
  BY <1>1 DEF Named
<1>5. b = [i \in 1..Len(r) |-> At(r[i].dev, n + i, FALSE)]
  BY <1>1 DEF Behind
<1>6. list = a \o b
  BY DEF Ordered
<1> HIDE DEF a, b, list, r, n, E
<1>7. a \in Seq(E) /\ Len(a) = n /\ \A i \in 1..n : a[i] = At(names[i], i, TRUE)
  <2>1. \A i \in 1..n : i \in 1..n + Len(r) /\ TRUE \in BOOLEAN
    BY <1>1
  <2>2. \A i \in 1..n : At(names[i], i, TRUE) \in E
    BY <1>2, <1>3, <2>1
  <2>3. a \in [1..n -> E]
    BY <1>4, <2>2
  <2>4. a \in Seq(E) /\ Len(a) = n
    BY <1>1, <2>3
  <2> QED
    BY <1>4, <2>4
<1>8. b \in Seq(E) /\ Len(b) = Len(r) /\ \A i \in 1..Len(r) : b[i] = At(r[i].dev, n + i, FALSE)
  <2>1. \A i \in 1..Len(r) : n + i \in 1..n + Len(r) /\ FALSE \in BOOLEAN
    BY <1>1
  <2>2. \A i \in 1..Len(r) : At(r[i].dev, n + i, FALSE) \in E
    BY <1>2, <1>3, <2>1
  <2>3. b \in [1..Len(r) -> E]
    BY <1>5, <2>2
  <2>4. b \in Seq(E) /\ Len(b) = Len(r)
    BY <1>1, <2>3
  <2> QED
    BY <1>5, <2>4
<1>9. list \in Seq(E) /\ Len(list) = n + Len(r) /\ DOMAIN list = 1..Len(list)
  <2>1. a \in Seq(E) /\ b \in Seq(E) /\ Len(a) = n /\ Len(b) = Len(r)
    BY <1>7, <1>8
  <2>2. a \o b \in Seq(E)
    BY <2>1
  <2>3. Len(a \o b) = n + Len(r)
    <3>1. a \in Seq(E) /\ b \in Seq(E)
      BY <2>1
    <3>2. Len(a \o b) = Len(a) + Len(b)
      BY <3>1
    <3> QED
      BY <2>1, <3>2
  <2>4. DOMAIN (a \o b) = 1..Len(a \o b)
    BY <2>2
  <2> QED
    BY <1>6, <2>2, <2>3, <2>4
<1>10. ASSUME NEW i \in 1..n
       PROVE  list[i].dev = names[i] /\ list[i].inuse = TRUE /\ list[i].index = i
  <2>1. list[i] = a[i]
    BY <1>1, <1>6, <1>7, <1>8
  <2>2. list[i] = At(names[i], i, TRUE)
    BY <1>7, <2>1
  <2> QED
    BY <2>2 DEF At
<1>11. ASSUME NEW i \in 1..Len(list), i > n
       PROVE  i - n \in 1..Len(r) /\ list[i].dev = r[i - n].dev /\ list[i].inuse = FALSE /\ list[i].index = i
  <2>1. i - n \in 1..Len(r) /\ n + (i - n) = i
    BY <1>1, <1>9, <1>11
  <2>2. list[i] = b[i - n]
    BY <1>1, <1>6, <1>7, <1>8, <1>9, <1>11
  <2>3. list[i] = At(r[i - n].dev, i, FALSE)
    BY <1>8, <2>1, <2>2
  <2> QED
    BY <2>1, <2>3 DEF At
<1>12. \A i \in 1..Len(list) : i \in 1..n \/ i > n
  BY <1>1, <1>9
<1> QED
  BY <1>1, <1>9, <1>10, <1>11, <1>12 DEF E, list, r, n

-----------------------------------------------------------------------------
(* What the two commands that make entries do to the list. *)
LEMMA AddIs ==
  ASSUME BootTypeOK, NEW d \in Device, Add(d)
  PROVE  LET e == At(d, MaxIndexUsed + 1, TRUE) IN
         /\ e \in Entry /\ \A i \in 1..Len(boot) : boot[i].index < e.index
         /\ \/ boot' = boot /\ Has(boot, d)
            \/ boot' = Append(boot, e) /\ ~Has(boot, d)
<1> DEFINE e == At(d, MaxIndexUsed + 1, TRUE)
<1>1. boot \in Seq(Entry) /\ DOMAIN boot = 1..Len(boot)
  BY DEF BootTypeOK
<1>2. MaxIndexUsed \in 0..MaxIndex /\ \A i \in 1..Len(boot) : boot[i].index <= MaxIndexUsed
  BY <1>1, MaxIndexUsedIs
<1>3. MaxIndexUsed + 1 \in 1..MaxIndex
  BY <1>2, BootAssumption DEF Add
<1>4. e \in Entry /\ e.index = MaxIndexUsed + 1
  BY <1>3, EntryIs DEF At
<1>5. \A i \in 1..Len(boot) : boot[i].index < e.index
  <2>1. \A i \in 1..Len(boot) : boot[i] \in Entry
    BY <1>1
  <2>2. \A i \in 1..Len(boot) : boot[i].index \in 1..MaxIndex
    BY <2>1, EntryIs
  <2> QED
    <3>1. ASSUME NEW i \in 1..Len(boot) PROVE boot[i].index < e.index
      <4>1. boot[i].index \in Nat /\ boot[i].index <= MaxIndexUsed /\ MaxIndexUsed \in Nat
        BY <1>2, <2>2, BootAssumption
      <4> HIDE DEF e
      <4> QED
        BY <1>4, <4>1
    <3> QED
      BY <3>1
<1>6. \/ boot' = boot /\ Has(boot, d)
      \/ boot' = Append(boot, e) /\ ~Has(boot, d)
  <2>1. Listed(d) <=> Has(boot, d)
    BY <1>1 DEF Listed, Has
  <2>2. boot' = IF Listed(d) THEN boot ELSE Append(boot, e)
    BY DEF Add, With
  <2> HIDE DEF e
  <2> QED
    BY <2>1, <2>2
<1> QED
  BY <1>4, <1>5, <1>6

(* --device-bootorder gives the boot list the form that Ordered says. *)
LEMMA ReorderIs ==
  ASSUME BootTypeOK, NEW n \in 1..MaxNames, NEW names \in [1..n -> devices], Reorder(names)
  PROVE  /\ names \in Seq(devices) /\ names \in Seq(Device) /\ Len(names) = n
         /\ Rest(names) \in Seq(Entry) /\ boot' = Ordered(names) /\ boot' \in Seq(Entry)
<1>1. n \in Nat /\ devices \subseteq Device /\ boot \in Seq(Entry)
  BY BootAssumption DEF BootTypeOK
<1>2. names \in Seq(devices) /\ names \in Seq(Device) /\ Len(names) = n
  <2>1. names \in [1..n -> Device]
    BY <1>1
  <2>2. names \in Seq(Device) /\ Len(names) = n
    BY <1>1, <2>1
  <2>3. names \in Seq(devices)
    BY <1>1
  <2> QED
    BY <2>2, <2>3
<1>3. Rest(names) \in Seq(Entry)
  BY <1>1, <1>2, RestIs
<1>4. Ordered(names) \in Seq([dev : Device, index : 1..Len(Ordered(names)), inuse : BOOLEAN])
  BY <1>2, <1>3, OrderedIs
<1>5. Ordered(names) \in Seq(Entry)
  <2> DEFINE m == Len(Ordered(names))
  <2>1. m \in Nat /\ m <= MaxIndex
    BY <1>4 DEF Reorder
  <2>2. 1..m \subseteq 1..MaxIndex
    BY <2>1, BootAssumption
  <2> HIDE DEF m
  <2>3. [dev : Device, index : 1..m, inuse : BOOLEAN] \subseteq Entry
    BY <2>2 DEF Entry, EntryOf
  <2> QED
    <3>1. Ordered(names) \in Seq([dev : Device, index : 1..m, inuse : BOOLEAN])
      BY <1>4 DEF m
    <3> QED
      BY <2>3, <3>1, SeqOfMore
<1> QED
  BY <1>2, <1>3, <1>5 DEF Reorder

(* The lists that a behaviour starts with. *)
LEMMA BootStarts ==
  ASSUME BootInit
  PROVE  /\ devices \subseteq Device /\ boot \in Seq([dev : devices, index : 1..MaxIndex, inuse : {TRUE}])
         /\ boot \in Seq(Entry) /\ Len(boot) = 2 /\ \A i \in 1..2 : boot[i].index = i
         /\ boot[1].dev # boot[2].dev /\ \A d \in devices : Has(boot, d)
<1> DEFINE E == [dev : devices, index : 1..MaxIndex, inuse : {TRUE}]
<1>1. PICK first \in Device, second \in Device :
        /\ first # second /\ devices = {first, second}
        /\ boot = <<At(first, 1, TRUE), At(second, 2, TRUE)>>
  BY DEF BootInit
<1>2. 1 \in 1..MaxIndex /\ 2 \in 1..MaxIndex
  BY BootAssumption
<1>3. At(first, 1, TRUE) \in E /\ At(second, 2, TRUE) \in E
  BY <1>1, <1>2 DEF At
<1>4. E \subseteq Entry
  BY <1>1 DEF Entry, EntryOf
<1>5. /\ Len(boot) = 2 /\ boot[1] = At(first, 1, TRUE) /\ boot[2] = At(second, 2, TRUE)
      /\ \A i \in 1..2 : i = 1 \/ i = 2
  BY <1>1
<1> HIDE DEF E
<1>6. boot \in Seq(E) /\ boot \in Seq(Entry)
  <2>1. boot \in Seq(E)
    BY <1>1, <1>3, PairIsList
  <2> QED
    BY <1>4, <2>1, SeqOfMore
<1>7. \A d \in devices : Has(boot, d)
  BY <1>1, <1>5 DEF Has, At
<1> QED
  BY <1>1, <1>5, <1>6, <1>7 DEF E, At

-----------------------------------------------------------------------------
(* A command leaves lists of the same types. *)
LEMMA BootKeepsTypes ==
  ASSUME BootTypeOK, BootNext
  PROVE  BootTypeOK'
<1> USE DEF BootTypeOK
<1>1. ASSUME NEW d \in Device, Add(d) PROVE BootTypeOK'
  <2>1. boot' \in Seq(Entry)
    <3> HIDE DEF BootTypeOK
    <3> DEFINE e == At(d, MaxIndexUsed + 1, TRUE)
    <3>1. e \in Entry /\ (boot' = boot \/ boot' = Append(boot, e))
      BY <1>1, AddIs
    <3> HIDE DEF e
    <3> QED
      BY <3>1 DEF BootTypeOK
  <2> QED
    BY <1>1, <2>1 DEF Add
<1>2. ASSUME NEW d \in Device, Attach(d) PROVE BootTypeOK'
  BY <1>2 DEF Attach
<1>3. ASSUME NEW d \in Device, Delete(d) PROVE BootTypeOK'
  <2>1. Keep(boot, EntryOf(Device \ {d})) \in Seq(Entry)
    BY KeepEntries
  <2>2. Keep(asked, Device \ {d}) \in Seq(Device)
    <3>1. Keep(asked, Device \ {d}) \in Seq(Device \cap (Device \ {d}))
      BY KeepType
    <3> QED
      BY <3>1, SeqOfMore
  <2>3. boot' \in Seq(Entry) /\ asked' \in Seq(Device)
    BY <1>3, <2>1, <2>2 DEF Delete
  <2>4. devices' \subseteq Device /\ backups' \subseteq devices' /\ later' \subseteq Device /\ twice' \subseteq Device
    BY <1>3 DEF Delete
  <2> QED
    BY <2>3, <2>4
<1>4. ASSUME NEW n \in 1..MaxNames, NEW names \in [1..n -> devices], Reorder(names) PROVE BootTypeOK'
  <2>1. boot' \in Seq(Entry) /\ names \in Seq(Device)
    BY <1>4, ReorderIs
  <2>2. twice' \subseteq Device /\ later' \subseteq Device /\ asked' = names /\ UNCHANGED <<devices, backups>>
    BY <1>4 DEF Reorder
  <2> QED
    BY <2>1, <2>2
<1> QED
  BY <1>1, <1>2, <1>3, <1>4 DEF BootNext

(* Two entries of a device are left only by a command that named it twice. *)
NoOthersTwice == \A d \in Device : Twice(boot, d) => d \in twice

(* It is what ListedOnce counts. *)
LEMMA OnceIs ==
  ASSUME boot \in Seq(Entry)
  PROVE  ListedOnce <=> NoOthersTwice
<1>1. DOMAIN boot = 1..Len(boot) /\ \A i \in 1..Len(boot) : boot[i] \in Entry
  OBVIOUS
<1>2. \A i \in 1..Len(boot) : boot[i].dev \in Device
  BY <1>1, EntryIs
<1> QED
  BY <1>1, <1>2 DEF ListedOnce, NoOthersTwice, Twice

(* Every command on the boot list keeps it: adding looks for the device    *)
(* first, and a new order lists a device twice only if it was named twice, *)
(* or had been.                                                            *)
LEMMA BootKeepsOnce ==
  ASSUME BootTypeOK, BootNext, NoOthersTwice
  PROVE  NoOthersTwice'
<1>1. ASSUME NEW d \in Device, Add(d) PROVE NoOthersTwice'
  <2> DEFINE e == At(d, MaxIndexUsed + 1, TRUE)
  <2>1. \/ boot' = boot /\ Has(boot, d)
        \/ boot' = Append(boot, e) /\ ~Has(boot, d)
    BY <1>1, AddIs
  <2>2. twice' = twice /\ e \in Entry /\ e.dev = d
    BY <1>1, AddIs DEF Add, At
  <2> HIDE DEF e
  <2>3. CASE boot' = boot
    BY <2>2, <2>3 DEF NoOthersTwice
  <2>4. CASE boot' = Append(boot, e) /\ ~Has(boot, d)
    <3>1. boot \in Seq(Entry)
      BY DEF BootTypeOK
    <3>2. /\ Len(boot') = Len(boot) + 1 /\ Len(boot) \in Nat /\ boot'[Len(boot) + 1] = e
          /\ \A i \in 1..Len(boot) : boot'[i] = boot[i]
      BY <2>2, <2>4, <3>1
    <3>3. ASSUME NEW o \in Device, Twice(boot', o) PROVE Twice(boot, o)
      <4>1. PICK i \in 1..Len(boot'), j \in 1..Len(boot') : i # j /\ boot'[i].dev = o /\ boot'[j].dev = o
        BY <3>3 DEF Twice
      <4>2. \A k \in 1..Len(boot') : k \in 1..Len(boot) \/ k = Len(boot) + 1
        BY <3>2
      <4>3. ~(i = Len(boot) + 1) /\ ~(j = Len(boot) + 1)
        BY <2>2, <2>4, <3>2, <4>1, <4>2 DEF Has
      <4> QED
        BY <3>2, <4>1, <4>2, <4>3 DEF Twice
    <3> QED
      BY <2>2, <3>3 DEF NoOthersTwice
  <2> QED
    BY <2>1, <2>3, <2>4
<1>2. ASSUME NEW d \in Device, Attach(d) PROVE NoOthersTwice'
  BY <1>2 DEF Attach, NoOthersTwice
<1>3. ASSUME NEW d \in Device, Delete(d) PROVE NoOthersTwice'
  <2>1. \A o : Twice(Keep(boot, EntryOf(Device \ {d})), o) => Twice(boot, o)
    BY KeepEntries DEF BootTypeOK
  <2>2. twice' = twice /\ (boot' = boot \/ boot' = Keep(boot, EntryOf(Device \ {d})))
    BY <1>3 DEF Delete
  <2> QED
    BY <2>1, <2>2 DEF NoOthersTwice
<1>4. ASSUME NEW n \in 1..MaxNames, NEW names \in [1..n -> devices], Reorder(names) PROVE NoOthersTwice'
  <2> DEFINE r == Rest(names)
  <2>1. names \in Seq(Device) /\ Len(names) = n /\ r \in Seq(Entry) /\ boot' = Ordered(names) /\ DOMAIN names = 1..n
    BY <1>4, ReorderIs
  <2>2. boot \in Seq(Entry) /\ devices \subseteq Device
    BY DEF BootTypeOK
  <2>3. /\ \A d : Twice(r, d) => Twice(boot, d)
        /\ \A i \in 1..n : Has(r, names[i]) => Twice(boot, names[i])
    BY <2>1, <2>2, RestIs
  <2>4. /\ n \in Nat /\ Len(r) \in Nat /\ Len(boot') = n + Len(r)
        /\ \A i \in 1..n : boot'[i].dev = names[i]
        /\ \A i \in 1..Len(boot') : i > n => i - n \in 1..Len(r) /\ boot'[i].dev = r[i - n].dev
    BY <2>1, OrderedIs
  <2> HIDE DEF r
  <2>6. twice \subseteq twice' /\ \A d \in Device : (\E i, j \in 1..n : i # j /\ names[i] = d /\ names[j] = d) => d \in twice'
    BY <1>4, <2>1 DEF Reorder
  <2>7. ASSUME NEW d \in Device, Twice(boot', d) PROVE d \in twice'
    <3>1. PICK i \in 1..Len(boot'), j \in 1..Len(boot') : i # j /\ boot'[i].dev = d /\ boot'[j].dev = d
      BY <2>7 DEF Twice
    <3>2. /\ i \in 1..n \/ i > n
          /\ j \in 1..n \/ j > n
      BY <2>4
    <3>3. CASE i \in 1..n /\ j \in 1..n
      BY <2>4, <2>6, <3>1, <3>3
    <3>4. CASE i \in 1..n /\ j > n
      <4>1. names[i] = d /\ Has(r, d)
        BY <2>4, <3>1, <3>4 DEF Has
      <4> QED
        BY <2>3, <2>6, <3>4, <4>1 DEF NoOthersTwice
    <3>5. CASE j \in 1..n /\ i > n
      <4>1. names[j] = d /\ Has(r, d)
        BY <2>4, <3>1, <3>5 DEF Has
      <4> QED
        BY <2>3, <2>6, <3>5, <4>1 DEF NoOthersTwice
    <3>6. CASE i > n /\ j > n
      <4>1. i - n # j - n
        BY <2>4, <3>1
      <4>2. Twice(r, d)
        BY <2>4, <3>1, <3>6, <4>1 DEF Twice
      <4> QED
        BY <2>3, <2>6, <4>2 DEF NoOthersTwice
    <3> QED
      BY <3>2, <3>3, <3>4, <3>5, <3>6
  <2> QED
    BY <2>7 DEF NoOthersTwice
<1> QED
  BY <1>1, <1>2, <1>3, <1>4 DEF BootNext

(* A device that is not the disk of a backup has an entry. *)
LEMMA BootKeepsListed ==
  ASSUME BootTypeOK, BootNext, \A d \in devices \ backups : Has(boot, d)
  PROVE  (\A d \in devices \ backups : Has(boot, d))'
<1>0. boot \in Seq(Entry) /\ devices \subseteq Device /\ backups \subseteq devices
  BY DEF BootTypeOK
<1>1. ASSUME NEW d \in Device, Add(d), NEW o \in devices' \ backups' PROVE Has(boot', o)
  <2> DEFINE e == At(d, MaxIndexUsed + 1, TRUE)
  <2>1. e \in Entry /\ ((boot' = boot /\ Has(boot, d)) \/ boot' = Append(boot, e))
    BY <1>1, AddIs
  <2>2. o = d \/ o \in devices \ backups
    BY <1>1 DEF Add
  <2>3. e.dev = d
    BY DEF At
  <2> HIDE DEF e
  <2>4. CASE boot' = boot /\ Has(boot, d)
    BY <2>2, <2>4
  <2>5. CASE boot' = Append(boot, e)
    <3>1. /\ Len(boot') = Len(boot) + 1 /\ Len(boot) \in Nat /\ boot'[Len(boot) + 1] = e
          /\ \A i \in 1..Len(boot) : boot'[i] = boot[i]
      BY <1>0, <2>1, <2>5
    <3>2. Len(boot) + 1 \in 1..Len(boot') /\ 1..Len(boot) \subseteq 1..Len(boot')
      BY <3>1
    <3> QED
      BY <2>2, <2>3, <3>1, <3>2 DEF Has
  <2> QED
    BY <2>1, <2>4, <2>5
<1>2. ASSUME NEW d \in Device, Attach(d), NEW o \in devices' \ backups' PROVE Has(boot', o)
  BY <1>2 DEF Attach
<1>3. ASSUME NEW d \in Device, Delete(d), NEW o \in devices' \ backups' PROVE Has(boot', o)
  <2>1. o \in devices \ backups /\ o \in Device \ {d} /\ Has(boot, o)
    BY <1>0, <1>3 DEF Delete
  <2>2. Has(Keep(boot, EntryOf(Device \ {d})), o)
    BY <1>0, <2>1, KeepEntries
  <2> QED
    BY <1>3, <2>1, <2>2 DEF Delete
<1>4. ASSUME NEW n \in 1..MaxNames, NEW names \in [1..n -> devices], Reorder(names), NEW o \in devices' \ backups'
      PROVE  Has(boot', o)
  <2> DEFINE r == Rest(names)
  <2>1. names \in Seq(Device) /\ Len(names) = n /\ r \in Seq(Entry) /\ boot' = Ordered(names)
    BY <1>4, ReorderIs
  <2>2. /\ n \in Nat /\ Len(r) \in Nat /\ Len(boot') = n + Len(r)
        /\ \A i \in 1..n : boot'[i].dev = names[i]
        /\ \A i \in 1..Len(boot') : i > n => i - n \in 1..Len(r) /\ boot'[i].dev = r[i - n].dev
    BY <2>1, OrderedIs
  <2>3. o \in devices \ backups /\ Has(boot, o)
    BY <1>4 DEF Reorder
  <2>4. (\A i \in 1..n : names[i] # o) => Has(r, o)
    BY <1>0, <2>1, <2>3, RestIs
  <2> HIDE DEF r
  <2>6. CASE \E i \in 1..n : names[i] = o
    <3>1. PICK i \in 1..n : names[i] = o
      BY <2>6
    <3>2. i \in 1..Len(boot')
      BY <2>2
    <3> QED
      BY <2>2, <3>1, <3>2 DEF Has
  <2>7. CASE Has(r, o)
    <3>1. PICK i \in 1..Len(r) : r[i].dev = o
      BY <2>7 DEF Has
    <3>2. n + i \in 1..Len(boot') /\ n + i > n /\ (n + i) - n = i
      BY <2>2
    <3>3. boot'[n + i].dev = o
      BY <2>2, <3>1, <3>2
    <3> QED
      BY <3>2, <3>3 DEF Has
  <2> QED
    BY <2>4, <2>6, <2>7
<1> QED
  BY <1>1, <1>2, <1>3, <1>4 DEF BootNext

(* The indexes are in the order of the list. *)
Grows(list) == \A i, j \in 1..Len(list) : i < j => list[i].index < list[j].index

(* Every command keeps them so: what is added gets an index above all      *)
(* others, and a new order numbers the list again.                         *)
LEMMA BootKeepsOrder ==
  ASSUME BootTypeOK, BootNext, Grows(boot)
  PROVE  Grows(boot')
<1>0. boot \in Seq(Entry) /\ Len(boot) \in Nat
  BY DEF BootTypeOK
<1>1. ASSUME NEW d \in Device, Add(d) PROVE Grows(boot')
  <2> DEFINE e == At(d, MaxIndexUsed + 1, TRUE)
  <2>1. /\ e \in Entry /\ \A i \in 1..Len(boot) : boot[i].index < e.index
        /\ boot' = boot \/ boot' = Append(boot, e)
    BY <1>1, AddIs
  <2> HIDE DEF e
  <2>2. CASE boot' = Append(boot, e)
    <3>1. /\ Len(boot') = Len(boot) + 1 /\ boot'[Len(boot) + 1] = e
          /\ \A i \in 1..Len(boot) : boot'[i] = boot[i]
      BY <1>0, <2>1, <2>2
    <3>2. ASSUME NEW i \in 1..Len(boot'), NEW j \in 1..Len(boot'), i < j PROVE boot'[i].index < boot'[j].index
      <4>1. i \in 1..Len(boot) /\ (j \in 1..Len(boot) \/ j = Len(boot) + 1)
        BY <1>0, <3>1, <3>2
      <4> QED
        BY <2>1, <3>1, <3>2, <4>1 DEF Grows
    <3> QED
      BY <3>2 DEF Grows
  <2> QED
    BY <2>1, <2>2
<1>2. ASSUME NEW d \in Device, Attach(d) PROVE Grows(boot')
  BY <1>2 DEF Attach
<1>3. ASSUME NEW d \in Device, Delete(d) PROVE Grows(boot')
  <2> DEFINE k == Keep(boot, EntryOf(Device \ {d}))
  <2>1. PICK e : Embeds(e, k, boot)
    BY <1>0, KeepEmbeds
  <2> HIDE DEF k
  <2>2. Grows(k)
    BY <2>1 DEF Embeds, Grows
  <2> QED
    BY <1>3, <2>2 DEF Delete, k
<1>4. ASSUME NEW n \in 1..MaxNames, NEW names \in [1..n -> devices], Reorder(names) PROVE Grows(boot')
  <2> DEFINE r == Rest(names)
  <2>1. names \in Seq(Device) /\ Len(names) = n /\ r \in Seq(Entry) /\ boot' = Ordered(names)
    BY <1>4, ReorderIs
  <2>2. /\ n \in Nat /\ Len(r) \in Nat /\ Len(boot') = n + Len(r)
        /\ \A i \in 1..Len(boot') : boot'[i].index = i
    BY <2>1, OrderedIs
  <2> HIDE DEF r
  <2> QED
    BY <2>2 DEF Grows
<1> QED
  BY <1>1, <1>2, <1>3, <1>4 DEF BootNext

-----------------------------------------------------------------------------
(* The order that was asked for.  The devices of a list, in its order. *)
Devs(list) == [i \in 1..Len(list) |-> list[i].dev]

(* The entries that count: in use, and of a device that was not added since. *)
Asking == [dev : devices \ later, index : 1..MaxIndex, inuse : {TRUE}]

AsAsked == Devs(Keep(boot, Asking)) = asked

(* It is OrderIsAsAsked. *)
LEMMA AsAskedIs ==
  ASSUME boot \in Seq(Entry)
  PROVE  OrderIsAsAsked <=> AsAsked
<1>1. Keep(boot, Asking) \in Seq(Entry \cap Asking)
  BY KeepType
<1>2. DOMAIN Keep(boot, Asking) = 1..Len(Keep(boot, Asking))
  BY <1>1
<1> QED
  BY <1>2 DEF OrderIsAsAsked, AsAsked, Devs, Asking

(* The devices of a list with one more entry. *)
LEMMA DevsAppend ==
  ASSUME NEW s \in Seq(Entry), NEW e \in Entry
  PROVE  Devs(s) \in Seq(Device) /\ Devs(Append(s, e)) = Append(Devs(s), e.dev)
<1>1. \A i \in 1..Len(s) : s[i] \in Entry
  OBVIOUS
<1>2. e.dev \in Device /\ \A i \in 1..Len(s) : s[i].dev \in Device
  BY <1>1, EntryIs
<1>3. Len(s) \in Nat
  OBVIOUS
<1>4. Devs(s) \in [1..Len(s) -> Device]
  BY <1>2 DEF Devs
<1>5. Devs(s) \in Seq(Device) /\ Len(Devs(s)) = Len(s)
  BY <1>3, <1>4
<1> DEFINE t == Append(s, e)
           a == Append(Devs(s), e.dev)
<1>6. Len(t) = Len(s) + 1 /\ t[Len(s) + 1] = e /\ \A i \in 1..Len(s) : t[i] = s[i]
  OBVIOUS
<1>7. a \in Seq(Device) /\ Len(a) = Len(s) + 1
  BY <1>2, <1>5
<1>8. a[Len(s) + 1] = e.dev /\ \A i \in 1..Len(s) : a[i] = s[i].dev
  <2>1. \A i \in 1..Len(s) : Devs(s)[i] = s[i].dev
    BY DEF Devs
  <2> HIDE DEF Devs
  <2> QED
    BY <1>2, <1>3, <1>5, <2>1
<1> HIDE DEF t, a
<1>9. DOMAIN a = 1..Len(s) + 1 /\ a = [i \in 1..Len(s) + 1 |-> a[i]]
  BY <1>7
<1>10. \A i \in 1..Len(s) + 1 : a[i] = t[i].dev
  <2>1. \A i \in 1..Len(s) + 1 : i = Len(s) + 1 \/ i \in 1..Len(s)
    BY <1>3
  <2> QED
    BY <1>6, <1>8, <2>1
<1>11. Devs(t) = a
  BY <1>6, <1>9, <1>10 DEF Devs
<1> QED
  BY <1>5, <1>11 DEF t, a

(* The devices of what is kept are what is kept of the devices. *)
LEMMA KeepDevs ==
  ASSUME NEW s \in Seq(Entry), NEW ds
  PROVE  Devs(Keep(s, EntryOf(ds))) = Keep(Devs(s), ds)
<1> DEFINE P == {t \in Seq(Entry) : Devs(Keep(t, EntryOf(ds))) = Keep(Devs(t), ds)}
<1>1. <<>> \in P
  <2>1. Devs(<<>>) = <<>> /\ <<>> \in Seq(Entry)
    BY DEF Devs
  <2> QED
    BY <2>1, KeepEmpty
<1>2. ASSUME NEW t \in P, NEW e \in Entry PROVE Append(t, e) \in P
  <2>1. t \in Seq(Entry) /\ Devs(Keep(t, EntryOf(ds))) = Keep(Devs(t), ds) /\ Append(t, e) \in Seq(Entry)
    OBVIOUS
  <2>2. Keep(Append(t, e), EntryOf(ds)) = IF e \in EntryOf(ds) THEN Append(Keep(t, EntryOf(ds)), e) ELSE Keep(t, EntryOf(ds))
    BY <2>1, KeepAppend
  <2>3. Devs(t) \in Seq(Device) /\ Devs(Append(t, e)) = Append(Devs(t), e.dev) /\ e.dev \in Device
    BY <2>1, DevsAppend, EntryIs
  <2>4. Keep(Append(Devs(t), e.dev), ds) = IF e.dev \in ds THEN Append(Keep(Devs(t), ds), e.dev) ELSE Keep(Devs(t), ds)
    <3> DEFINE u == Devs(t)
               x == e.dev
    <3>1. u \in Seq(Device) /\ x \in Device
      BY <2>3
    <3> HIDE DEF u, x
    <3>2. Keep(Append(u, x), ds) = IF x \in ds THEN Append(Keep(u, ds), x) ELSE Keep(u, ds)
      BY <3>1, KeepAppend
    <3> QED
      BY <3>2 DEF u, x
  <2>5. Keep(t, EntryOf(ds)) \in Seq(Entry)
    <3>1. Keep(t, EntryOf(ds)) \in Seq(Entry \cap EntryOf(ds))
      BY <2>1, KeepType
    <3> QED
      BY <3>1, SeqOfMore
  <2>6. Devs(Append(Keep(t, EntryOf(ds)), e)) = Append(Devs(Keep(t, EntryOf(ds))), e.dev)
    BY <2>5, DevsAppend
  <2>7. e \in EntryOf(ds) <=> e.dev \in ds
    BY EntryIs
  <2>8. Devs(Keep(Append(t, e), EntryOf(ds))) = Keep(Devs(Append(t, e)), ds)
    <3>1. CASE e.dev \in ds
      BY <2>1, <2>2, <2>3, <2>4, <2>6, <2>7, <3>1
    <3>2. CASE e.dev \notin ds
      BY <2>1, <2>2, <2>3, <2>4, <2>7, <3>2
    <3> QED
      BY <3>1, <3>2
  <2> QED
    BY <2>1, <2>8
<1> HIDE DEF P
<1>3. P = Seq(Entry)
  <2>1. P \in SUBSET Seq(Entry)
    BY DEF P
  <2> QED
    BY <1>1, <1>2, <2>1, ListInduction
<1> QED
  BY <1>3 DEF P

(* Every command keeps the order that was asked for. *)
LEMMA BootKeepsAsked ==
  ASSUME BootTypeOK, BootNext, AsAsked
  PROVE  AsAsked'
<1>0. boot \in Seq(Entry) /\ asked \in Seq(Device) /\ devices \subseteq Device
  BY DEF BootTypeOK
<1>1. ASSUME NEW d \in Device, Add(d) PROVE AsAsked'
  <2> DEFINE e == At(d, MaxIndexUsed + 1, TRUE)
  <2>1. e \in Entry /\ e.dev = d /\ (boot' = boot \/ boot' = Append(boot, e))
    BY <1>1, AddIs DEF At
  <2>2. Asking' = Asking /\ asked' = asked /\ d \notin devices
    <3>1. d \notin devices /\ devices' = devices \cup {d} /\ later' = later \cup {d} /\ asked' = asked
      BY <1>1 DEF Add
    <3>2. devices' \ later' = devices \ later
      BY <3>1
    <3> QED
      BY <3>1, <3>2 DEF Asking
  <2> HIDE DEF e
  <2>3. e \notin Asking
    BY <2>1, <2>2 DEF Asking
  <2>4. Keep(Append(boot, e), Asking) = Keep(boot, Asking)
    BY <1>0, <2>1, <2>3, KeepAppend
  <2> QED
    BY <2>1, <2>2, <2>4 DEF AsAsked
<1>2. ASSUME NEW d \in Device, Attach(d) PROVE AsAsked'
  <2>1. devices' \ later' = devices \ later
    BY <1>2 DEF Attach
  <2>2. boot' = boot /\ asked' = asked
    BY <1>2 DEF Attach
  <2> QED
    BY <2>1, <2>2 DEF AsAsked, Asking
<1>3. ASSUME NEW d \in Device, Delete(d) PROVE AsAsked'
  <2> DEFINE H == EntryOf(Device \ {d})
             k == Keep(boot, Asking)
  <2>1. k \in Seq(Entry)
    <3>1. k \in Seq(Entry \cap Asking)
      BY <1>0, KeepType
    <3> QED
      BY <3>1, SeqOfMore
  <2>2. Asking' = Asking \cap H /\ Asking' = H \cap Asking'
    <3>1. devices' = devices \ {d} /\ later' = later \ {d}
      BY <1>3 DEF Delete
    <3>2. devices' \ later' = (devices \ later) \cap (Device \ {d})
      BY <1>0, <3>1
    <3>3. Asking' = [dev : (devices \ later) \cap (Device \ {d}), index : 1..MaxIndex, inuse : {TRUE}]
      BY <3>2 DEF Asking
    <3>4. Asking' = Asking \cap H
      BY <3>3 DEF Asking, EntryOf
    <3> QED
      BY <3>4
  <2>3. Devs(Keep(k, H)) = Keep(asked, Device \ {d})
    BY <2>1, KeepDevs DEF AsAsked
  <2>4. /\ Keep(k, H) = Keep(boot, Asking \cap H)
        /\ Keep(Keep(boot, H), Asking') = Keep(boot, H \cap Asking')
    <3> HIDE DEF H
    <3>1. \A g, h : Keep(Keep(boot, g), h) = Keep(boot, g \cap h)
      BY <1>0, KeepKeep
    <3> QED
      BY <3>1
  <2>5. asked' = Keep(asked, Device \ {d}) /\ (boot' = boot \/ boot' = Keep(boot, H))
    BY <1>3 DEF Delete
  <2> HIDE DEF H, k
  <2>6. Keep(boot', Asking') = Keep(boot, Asking')
    BY <2>2, <2>4, <2>5
  <2>7. Devs(Keep(boot', Asking')) = asked'
    BY <2>2, <2>3, <2>4, <2>5, <2>6
  <2> QED
    BY <2>7 DEF AsAsked
<1>4. ASSUME NEW n \in 1..MaxNames, NEW names \in [1..n -> devices], Reorder(names) PROVE AsAsked'
  <2> DEFINE r == Rest(names)
             a == Named(names)
             b == Behind(names, FALSE)
             In == Asking'
             Out == [dev : Device, index : 1..MaxIndex, inuse : {FALSE}]
  <2>1. /\ names \in Seq(Device) /\ Len(names) = n /\ r \in Seq(Entry) /\ boot' = a \o b /\ boot' \in Seq(Entry)
        /\ Len(r) \in Nat /\ n \in Nat
    <3>1. names \in Seq(Device) /\ Len(names) = n /\ r \in Seq(Entry) /\ boot' = Ordered(names) /\ boot' \in Seq(Entry)
      BY <1>4, ReorderIs
    <3> HIDE DEF r
    <3>2. boot' = a \o b
      BY <3>1 DEF Ordered
    <3> HIDE DEF a, b
    <3>3. Len(r) \in Nat /\ n \in Nat
      BY <3>1, BootAssumption
    <3> QED
      BY <3>1, <3>2, <3>3
  <2>2. In = [dev : devices, index : 1..MaxIndex, inuse : {TRUE}]
    <3>1. devices' = devices /\ later' = {}
      BY <1>4 DEF Reorder
    <3>2. devices' \ later' = devices
      BY <3>1
    <3> QED
      BY <3>2 DEF Asking
  <2>3. n + Len(r) <= MaxIndex
    <3>1. Len(boot') = n + Len(r)
      BY <1>4, <2>1, OrderedIs DEF Ordered
    <3> QED
      BY <1>4, <2>1, <3>1 DEF Reorder, Ordered
  <2>4. a = [i \in 1..n |-> At(names[i], i, TRUE)] /\ \A i \in 1..n : names[i] \in devices /\ i \in 1..MaxIndex
    BY <1>4, <2>1, <2>3, BootAssumption DEF Named
  <2>5. a \in [1..n -> In]
    <3>1. \A i \in 1..n : At(names[i], i, TRUE) \in In
      BY <2>2, <2>4 DEF At
    <3> HIDE DEF In
    <3> QED
      BY <2>4, <3>1
  <2>6. /\ b = [i \in 1..Len(r) |-> At(r[i].dev, n + i, FALSE)]
        /\ \A i \in 1..Len(r) : r[i].dev \in Device /\ n + i \in 1..MaxIndex
    <3>1. \A i \in 1..Len(r) : r[i] \in Entry
      BY <2>1
    <3>2. \A i \in 1..Len(r) : r[i].dev \in Device /\ n + i \in 1..MaxIndex
      BY <2>1, <2>3, <3>1, EntryIs, BootAssumption
    <3>3. DOMAIN r = 1..Len(r)
      BY <2>1
    <3> QED
      BY <2>1, <3>2, <3>3 DEF Behind
  <2>7. b \in [1..Len(r) -> Out]
    <3>1. \A i \in 1..Len(r) : At(r[i].dev, n + i, FALSE) \in Out
      BY <2>6 DEF At
    <3> HIDE DEF Out
    <3> QED
      BY <2>6, <3>1
  <2>8. In \cap Out = {}
    BY <2>2
  <2> HIDE DEF In, Out, a, b, r
  <2>9. a \in Seq(In) /\ Len(a) = n /\ b \in Seq(Out)
    <3>1. n \in Nat /\ Len(r) \in Nat
      BY <2>1
    <3>2. a \in Seq(In) /\ Len(a) = n
      BY <2>5, <3>1
    <3>3. b \in Seq(Out)
      BY <2>7, <3>1
    <3> QED
      BY <3>2, <3>3
  <2>10. a \in Seq(In \cup Out) /\ b \in Seq(In \cup Out)
    BY <2>9, SeqOfMore
  <2>11. Keep(a \o b, In) = Keep(a, In) \o Keep(b, In)
    BY <2>10, KeepConcat
  <2>12. Keep(a, In) = a
    BY <2>9, KeepAll
  <2>13. Keep(b, In) = <<>>
    <3>1. Out \cap In = {}
      BY <2>8
    <3> QED
      BY <2>9, <3>1, KeepNone
  <2>14. Keep(boot', In) = a
    BY <2>1, <2>9, <2>11, <2>12, <2>13
  <2>15. Devs(a) = names
    <3>1. \A i \in 1..n : a[i].dev = names[i]
      BY <2>4 DEF At
    <3>2. names = [i \in 1..n |-> names[i]]
      BY <1>4
    <3> QED
      BY <2>9, <3>1, <3>2 DEF Devs
  <2>16. asked' = names
    BY <1>4 DEF Reorder
  <2> QED
    BY <2>14, <2>15, <2>16 DEF AsAsked, In
<1> QED
  BY <1>1, <1>2, <1>3, <1>4 DEF BootNext

-----------------------------------------------------------------------------
(* What the boot list is in every behaviour of ConfigLists, also of those  *)
(* that are about the networks, where it is empty.                         *)
BootInv ==
  /\ BootTypeOK /\ NoOthersTwice /\ Grows(boot) /\ AsAsked
  /\ \A d \in devices \ backups : Has(boot, d)

(* It holds at the start: of the boot list of a new VM, and of the empty   *)
(* one.                                                                    *)
LEMMA BootInvInit ==
  ASSUME Init
  PROVE  BootInv
<1>1. CASE BootInit
  <2>1. /\ devices \subseteq Device /\ boot \in Seq([dev : devices, index : 1..MaxIndex, inuse : {TRUE}])
        /\ boot \in Seq(Entry) /\ Len(boot) = 2 /\ \A i \in 1..2 : boot[i].index = i
        /\ boot[1].dev # boot[2].dev /\ \A d \in devices : Has(boot, d)
    BY <1>1, BootStarts
  <2>2. /\ backups = {} /\ later = {} /\ twice = {}
        /\ \E first, second \in Device : boot = <<At(first, 1, TRUE), At(second, 2, TRUE)>> /\ asked = <<first, second>>
    BY <1>1 DEF BootInit
  <2>3. asked \in Seq(Device) /\ asked = <<boot[1].dev, boot[2].dev>>
    BY <2>2 DEF At
  <2>4. BootTypeOK
    BY <2>1, <2>2, <2>3 DEF BootTypeOK
  <2>5. NoOthersTwice
    BY <2>1 DEF NoOthersTwice, Twice
  <2>6. Grows(boot)
    BY <2>1 DEF Grows
  <2>7. AsAsked
    <3>1. Asking = [dev : devices, index : 1..MaxIndex, inuse : {TRUE}]
      BY <2>2 DEF Asking
    <3>2. Keep(boot, Asking) = boot
      BY <2>1, <3>1, KeepAll
    <3>3. Devs(boot) = asked
      BY <2>1, <2>3 DEF Devs
    <3> QED
      BY <3>2, <3>3 DEF AsAsked
  <2> QED
    BY <2>1, <2>4, <2>5, <2>6, <2>7 DEF BootInv
<1>2. CASE NoBootList
  <2>1. devices = {} /\ backups = {} /\ boot = <<>> /\ asked = <<>> /\ later = {} /\ twice = {} /\ Len(boot) = 0
    BY <1>2 DEF NoBootList
  <2>2. BootTypeOK
    BY <2>1 DEF BootTypeOK
  <2>3. NoOthersTwice /\ Grows(boot)
    BY <2>1 DEF NoOthersTwice, Twice, Grows
  <2>4. AsAsked
    BY <2>1, KeepEmpty DEF AsAsked, Devs
  <2> QED
    BY <2>1, <2>2, <2>3, <2>4 DEF BootInv
<1> QED
  BY <1>1, <1>2 DEF Init

(* Every step keeps it. *)
LEMMA BootInvStep ==
  ASSUME BootInv, [Next]_vars
  PROVE  BootInv'
<1>1. CASE BootNext
  <2>1. BootTypeOK'
    BY <1>1, BootKeepsTypes DEF BootInv
  <2>2. NoOthersTwice'
    BY <1>1, BootKeepsOnce DEF BootInv
  <2>3. Grows(boot')
    BY <1>1, BootKeepsOrder DEF BootInv
  <2>4. AsAsked'
    BY <1>1, BootKeepsAsked DEF BootInv
  <2>5. (\A d \in devices \ backups : Has(boot, d))'
    BY <1>1, BootKeepsListed DEF BootInv
  <2> QED
    BY <2>1, <2>2, <2>3, <2>4, <2>5 DEF BootInv
<1>2. CASE UNCHANGED bootvars
  <2>1. UNCHANGED <<devices, backups, boot, asked, later, twice>>
    BY <1>2 DEF bootvars
  <2> QED
    BY <2>1 DEF BootInv, BootTypeOK, NoOthersTwice, AsAsked, Asking
<1> QED
  BY <1>1, <1>2 DEF Next, vars

(* So it holds always. *)
THEOREM BootInvariant == Spec => []BootInv
<1>1. Init => BootInv
  BY BootInvInit
<1>2. BootInv /\ [Next]_vars => BootInv'
  BY BootInvStep
<1> QED
  BY <1>1, <1>2, PTL DEF Spec

(* Every device suitable for booting is in the boot list, but for the      *)
(* disks of backups.                                                       *)
THEOREM DevicesAreListed == Spec => []EveryDeviceListed
<1>1. BootInv => EveryDeviceListed
  BY DEF BootInv, BootTypeOK, EveryDeviceListed, Listed, Has
<1> QED
  BY <1>1, BootInvariant, PTL

(* A device has one entry, unless a command ever named it twice. *)
THEOREM DevicesAreListedOnce == Spec => []ListedOnce
<1>1. BootInv => ListedOnce
  BY OnceIs DEF BootInv, BootTypeOK
<1> QED
  BY <1>1, BootInvariant, PTL

(* The sequence indexes are in the order of the list. *)
THEOREM IndexesAreInOrder == Spec => []IndexesGrow
<1>1. BootInv => IndexesGrow
  <2> SUFFICES ASSUME BootInv PROVE IndexesGrow
    OBVIOUS
  <2>1. DOMAIN boot = 1..Len(boot) /\ Grows(boot)
    BY DEF BootInv, BootTypeOK
  <2> QED
    BY <2>1 DEF Grows, IndexesGrow
<1> QED
  BY <1>1, BootInvariant, PTL

(* The VM boots from what --device-bootorder named, in that order, and     *)
(* from what was added since.                                              *)
THEOREM BootOrderIsAsAsked == Spec => []OrderIsAsAsked
<1>1. BootInv => OrderIsAsAsked
  BY AsAskedIs DEF BootInv, BootTypeOK
<1> QED
  BY <1>1, BootInvariant, PTL

-----------------------------------------------------------------------------
(* The list of networks.  Once: nothing is in a list twice; Names: what is *)
(* in it.                                                                  *)
Once(nets) == \A i, j \in 1..Len(nets) : nets[i] = nets[j] => i = j

Names(nets, n) == \E i \in 1..Len(nets) : nets[i] = n

(* A list as the server and the commands have it. *)
IsNetList(list) ==
  \E cs \in SUBSET NetClass :
    list \in [cs -> Seq(Net)] /\ \A c \in cs : Once(list[c])

(* Without takes the network off, and nothing else. *)
LEMMA WithoutIs ==
  ASSUME NEW s \in Seq(Net), Once(s), NEW n
  PROVE  /\ Without(s, n) \in Seq(Net) /\ Once(Without(s, n))
         /\ \A m : Names(Without(s, n), m) <=> Names(s, m) /\ m # n
<1> DEFINE t == Without(s, n)
<1>1. t \in Seq(Net)
  BY DropFirstIs DEF Without
<1>2. \/ t = s /\ \A i \in 1..Len(s) : s[i] # n
      \/ \E first \in 1..Len(s) : s[first] = n /\ LacksOne(t, s, first)
  <2>1. \/ t = s /\ \A i \in 1..Len(s) : s[i] \notin {n}
        \/ \E first \in 1..Len(s) : s[first] \in {n} /\ LacksOne(t, s, first)
    BY DropFirstIs DEF Without
  <2> HIDE DEF t
  <2> QED
    BY <2>1
<1> HIDE DEF t
<1>3. CASE t = s /\ \A i \in 1..Len(s) : s[i] # n
  BY <1>1, <1>3 DEF Names, t
<1>4. CASE \E first \in 1..Len(s) : s[first] = n /\ LacksOne(t, s, first)
  <2>1. PICK first \in 1..Len(s) : s[first] = n /\ LacksOne(t, s, first)
    BY <1>4
  <2>2. Len(t) = Len(s) - 1 /\ Len(s) \in Nat /\ \A i \in 1..Len(t) : t[i] = s[IF i < first THEN i ELSE i + 1]
    BY <2>1 DEF LacksOne
  <2> DEFINE at(i) == IF i < first THEN i ELSE i + 1
  <2>3. \A i \in 1..Len(t) : t[i] = s[at(i)] /\ at(i) \in 1..Len(s) /\ at(i) # first
    BY <2>2
  <2>4. \A i, j \in 1..Len(t) : at(i) = at(j) => i = j
    BY <2>2
  <2>5. ASSUME NEW i \in 1..Len(s), i # first PROVE \E j \in 1..Len(t) : at(j) = i
    <3>1. CASE i < first
      <4>1. i \in 1..Len(t) /\ at(i) = i
        BY <2>2, <3>1
      <4> QED
        BY <4>1
    <3>2. CASE i > first
      <4>1. i - 1 \in 1..Len(t) /\ at(i - 1) = i
        BY <2>2, <3>2
      <4> QED
        BY <4>1
    <3> QED
      BY <2>2, <2>5, <3>1, <3>2
  <2> HIDE DEF at
  <2>6. Once(t)
    BY <2>3, <2>4 DEF Once
  <2>7. ASSUME NEW m, Names(t, m) PROVE Names(s, m) /\ m # n
    BY <2>1, <2>3, <2>7 DEF Names, Once
  <2>8. ASSUME NEW m, Names(s, m), m # n PROVE Names(t, m)
    BY <2>1, <2>3, <2>5, <2>8 DEF Names
  <2> QED
    BY <1>1, <2>6, <2>7, <2>8 DEF t
<1> QED
  BY <1>2, <1>3, <1>4

(* A network that is not there is added once. *)
LEMMA AddedIs ==
  ASSUME NEW s \in Seq(Net), Once(s), NEW n \in Net, ~Names(s, n)
  PROVE  /\ Append(s, n) \in Seq(Net) /\ Once(Append(s, n))
         /\ \A m : Names(Append(s, n), m) <=> Names(s, m) \/ m = n
<1> DEFINE t == Append(s, n)
<1>1. /\ t \in Seq(Net) /\ Len(t) = Len(s) + 1 /\ Len(s) \in Nat /\ t[Len(s) + 1] = n
      /\ \A i \in 1..Len(s) : t[i] = s[i]
  OBVIOUS
<1> HIDE DEF t
<1>2. \A i \in 1..Len(t) : i \in 1..Len(s) \/ i = Len(s) + 1
  BY <1>1
<1>3. 1..Len(s) \subseteq 1..Len(t) /\ Len(s) + 1 \in 1..Len(t)
  BY <1>1
<1>4. Once(t)
  BY <1>1, <1>2 DEF Once, Names
<1>5. ASSUME NEW m PROVE Names(t, m) <=> Names(s, m) \/ m = n
  BY <1>1, <1>2, <1>3 DEF Names
<1> QED
  BY <1>1, <1>4, <1>5 DEF t

(* The pairs of a list, class by class. *)
LEMMA PairsIs ==
  ASSUME NEW list, IsNetList(list)
  PROVE  \A c, n : <<c, n>> \in Pairs(list) <=> c \in DOMAIN list /\ Names(list[c], n)
<1>1. PICK cs \in SUBSET NetClass : list \in [cs -> Seq(Net)]
  BY DEF IsNetList
<1>2. DOMAIN list = cs /\ \A c \in cs : DOMAIN list[c] = 1..Len(list[c])
  BY <1>1
<1> QED
  BY <1>2 DEF Pairs, Range, Names

(* ... and all of them are pairs of a class and a network. *)
LEMMA PairsAre ==
  ASSUME NEW list, IsNetList(list)
  PROVE  Pairs(list) \subseteq NetClass \X Net
<1>1. PICK cs \in SUBSET NetClass : list \in [cs -> Seq(Net)]
  BY DEF IsNetList
<1>2. DOMAIN list = cs /\ \A c \in cs : Range(list[c]) \subseteq Net
  BY <1>1 DEF Range
<1> QED
  BY <1>2 DEF Pairs

(* A list of which one class is changed is a list again. *)
LEMMA ClassSet ==
  ASSUME NEW list, IsNetList(list), NEW c \in NetClass, NEW nets \in Seq(Net), Once(nets),
         NEW new, new = WithClass(list, c, nets)
  PROVE  /\ IsNetList(new) /\ DOMAIN new = DOMAIN list \cup {c}
         /\ \A d, n : <<d, n>> \in Pairs(new) <=>
              IF d = c THEN Names(nets, n) ELSE <<d, n>> \in Pairs(list)
<1>1. PICK cs \in SUBSET NetClass : list \in [cs -> Seq(Net)] /\ \A d \in cs : Once(list[d])
  BY DEF IsNetList
<1>2. DOMAIN list = cs /\ cs \cup {c} \in SUBSET NetClass
  BY <1>1
<1>3. new \in [cs \cup {c} -> Seq(Net)] /\ \A d \in cs \cup {c} : new[d] = IF d = c THEN nets ELSE list[d]
  BY <1>1, <1>2 DEF WithClass
<1>4. IsNetList(new)
  <2>1. \A d \in cs \cup {c} : Once(new[d])
    BY <1>1, <1>3
  <2> QED
    BY <1>2, <1>3, <2>1 DEF IsNetList
<1>5. ASSUME NEW d, NEW n
      PROVE  <<d, n>> \in Pairs(new) <=> IF d = c THEN Names(nets, n) ELSE <<d, n>> \in Pairs(list)
  <2>1. <<d, n>> \in Pairs(new) <=> d \in cs \cup {c} /\ Names(new[d], n)
    BY <1>3, <1>4, PairsIs
  <2>2. <<d, n>> \in Pairs(list) <=> d \in cs /\ Names(list[d], n)
    BY <1>2, PairsIs
  <2>3. CASE d = c
    BY <1>3, <2>1, <2>3
  <2>4. CASE d # c
    BY <1>3, <2>1, <2>2, <2>4
  <2> QED
    BY <2>3, <2>4
<1> QED
  BY <1>2, <1>3, <1>4, <1>5

(* What a command does to a list: one pair is added, or one taken away.  A *)
(* deletion of what is not there adds it.                                  *)
IsStray(list, r) ==
  IF which = "class" THEN r.class \notin DOMAIN list ELSE <<r.class, r.net>> \notin Pairs(list)

(* The shaping entries have all the classes. *)
IsWhole(list) == which = "shaping" => DOMAIN list = NetClass

(* The pairs of the list that the command sends. *)
LEMMA ChangedIs ==
  ASSUME which \in {"class", "shaping"}, NEW list, IsNetList(list), IsWhole(list),
         NEW r \in Request, NEW new \in Changed(list, r)
  PROVE  /\ IsNetList(new) /\ IsWhole(new)
         /\ \A d, n : <<d, n>> \in Pairs(new) <=>
              IF r.del /\ ~IsStray(list, r) THEN <<d, n>> \in Pairs(list) /\ <<d, n>> # <<r.class, r.net>>
              ELSE <<d, n>> \in Pairs(list) \/ <<d, n>> = <<r.class, r.net>>
<1> DEFINE c == r.class
           n0 == r.net
<1>1. c \in NetClass /\ n0 \in Net /\ r.del \in BOOLEAN
  BY DEF Request
<1>2. PICK cs \in SUBSET NetClass : list \in [cs -> Seq(Net)] /\ \A d \in cs : Once(list[d])
  BY DEF IsNetList
<1>3. DOMAIN list = cs
  BY <1>2
<1>4. \A d, n : <<d, n>> \in Pairs(list) <=> d \in cs /\ Names(list[d], n)
  BY <1>3, PairsIs
<1>5. <<>> \in Seq(Net) /\ Once(<<>>) /\ \A m : ~Names(<<>>, m)
  BY DEF Once, Names
<1>6. <<n0>> \in Seq(Net) /\ Once(<<n0>>) /\ \A m : Names(<<n0>>, m) <=> m = n0
  BY <1>1 DEF Once, Names
<1>7. CASE which = "class" /\ c \notin cs
  <2>1. new = WithClass(list, c, <<n0>>)
    BY <1>3, <1>7 DEF Changed, ClassChanged
  <2>2. /\ IsNetList(new)
        /\ \A d, n : <<d, n>> \in Pairs(new) <=> IF d = c THEN Names(<<n0>>, n) ELSE <<d, n>> \in Pairs(list)
    <3> HIDE DEF c, n0
    <3> QED
      BY <1>1, <1>6, <2>1, ClassSet
  <2>3. IsStray(list, r)
    BY <1>3, <1>7 DEF IsStray
  <2> QED
    BY <1>4, <1>6, <1>7, <2>2, <2>3 DEF IsWhole
<1>8. CASE c \in cs
  <2> DEFINE nets == list[c]
             less == Without(nets, n0)
             more == Append(less, n0)
             Makes(s) == \A m : Names(s, m) <=> IF r.del /\ ~IsStray(list, r) THEN Names(nets, m) /\ m # n0
                                                                       ELSE Names(nets, m) \/ m = n0
  <2>1. nets \in Seq(Net) /\ Once(nets) /\ cs \cup {c} = cs /\ \A n : <<c, n>> \in Pairs(list) <=> Names(nets, n)
    BY <1>2, <1>4, <1>8
  <2>2. less \in Seq(Net) /\ Once(less) /\ \A m : Names(less, m) <=> Names(nets, m) /\ m # n0
    <3> HIDE DEF nets
    <3> QED
      BY <2>1, WithoutIs
  <2>3. more \in Seq(Net) /\ Once(more) /\ \A m : Names(more, m) <=> Names(nets, m) \/ m = n0
    <3>1. less \in Seq(Net) /\ Once(less) /\ ~Names(less, n0)
      BY <2>2
    <3> HIDE DEF nets, less
    <3>2. more \in Seq(Net) /\ Once(more) /\ \A m : Names(more, m) <=> Names(less, m) \/ m = n0
      BY <1>1, <3>1, AddedIs
    <3> QED
      BY <2>2, <3>2
  <2> HIDE DEF less, more, Makes
  <2>4. \E s \in Seq(Net) : Once(s) /\ new = WithClass(list, c, s) /\ Makes(s)
    <3>1. CASE which = "class"
      <4>1. new = WithClass(list, c, less \o New(r)) /\ ~IsStray(list, r)
        BY <1>3, <1>8, <3>1 DEF Changed, ClassChanged, less, IsStray
      <4>2. less \o New(r) = IF r.del THEN less ELSE more
        <5>1. less \o <<>> = less /\ less \o <<n0>> = Append(less, n0)
          BY <1>1, <2>2
        <5> QED
          BY <5>1 DEF New, more
      <4>3. CASE r.del
        <5>1. Makes(less)
          BY <2>2, <4>1, <4>3 DEF Makes
        <5> QED
          BY <2>2, <4>1, <4>2, <4>3, <5>1
      <4>4. CASE ~r.del
        <5>1. Makes(more)
          BY <2>3, <4>4 DEF Makes
        <5> QED
          BY <2>3, <4>1, <4>2, <4>4, <5>1
      <4> QED
        BY <4>3, <4>4
    <3>2. CASE which = "shaping" /\ <<c, n0>> \notin Pairs(list)
      <4>1. new = WithClass(list, c, Append(nets, n0)) /\ IsStray(list, r) /\ ~Names(nets, n0)
        BY <2>1, <3>2 DEF Changed, ShapingChanged, IsStray
      <4> DEFINE s == Append(nets, n0)
      <4>2. s \in Seq(Net) /\ Once(s) /\ \A m : Names(s, m) <=> Names(nets, m) \/ m = n0
        <5> HIDE DEF nets, n0
        <5> QED
          BY <1>1, <2>1, <4>1, AddedIs
      <4> HIDE DEF s
      <4>3. Makes(s)
        BY <4>1, <4>2 DEF Makes
      <4> QED
        BY <4>1, <4>2, <4>3 DEF s
    <3>3. CASE which = "shaping" /\ <<c, n0>> \in Pairs(list) /\ r.del
      <4>1. new = WithClass(list, c, less) /\ ~IsStray(list, r)
        BY <3>3 DEF Changed, ShapingChanged, IsStray, less
      <4>2. Makes(less)
        BY <2>2, <3>3, <4>1 DEF Makes
      <4> QED
        BY <2>2, <4>1, <4>2
    <3>4. CASE which = "shaping" /\ <<c, n0>> \in Pairs(list) /\ ~r.del
      <4>1. new = list
        BY <3>4 DEF Changed, ShapingChanged
      <4>2. list = WithClass(list, c, nets)
        <5>1. WithClass(list, c, nets) = [d \in cs |-> list[d]]
          BY <1>3, <2>1 DEF WithClass
        <5> QED
          BY <1>2, <5>1
      <4>3. Makes(nets)
        BY <2>1, <3>4 DEF Makes
      <4> QED
        BY <2>1, <4>1, <4>2, <4>3
    <3> QED
      BY <3>1, <3>2, <3>3, <3>4
  <2>5. PICK s \in Seq(Net) : Once(s) /\ new = WithClass(list, c, s) /\ Makes(s)
    BY <2>4
  <2>6. /\ IsNetList(new) /\ DOMAIN new = DOMAIN list \cup {c}
        /\ \A d, n : <<d, n>> \in Pairs(new) <=> IF d = c THEN Names(s, n) ELSE <<d, n>> \in Pairs(list)
    <3> HIDE DEF c
    <3> QED
      BY <1>1, <2>5, ClassSet
  <2>7. IsWhole(new)
    BY <1>3, <2>1, <2>6 DEF IsWhole
  <2>8. \A n : Names(s, n) <=> IF r.del /\ ~IsStray(list, r) THEN Names(nets, n) /\ n # n0 ELSE Names(nets, n) \/ n = n0
    BY <2>5 DEF Makes
  <2> HIDE DEF nets
  <2> QED
    BY <2>1, <2>6, <2>7, <2>8
<1>9. which = "shaping" => c \in cs
  BY <1>1, <1>3 DEF IsWhole
<1> QED
  BY <1>7, <1>8, <1>9

(* A list in which nothing is twice: what NetworkOnce says by counting. *)
LEMMA OnceCounts ==
  ASSUME NEW s \in Seq(Net), Once(s)
  PROVE  Cardinality(Range(s)) = Len(s)
<1>1. Len(s) \in Nat /\ DOMAIN s = 1..Len(s) /\ s \in [1..Len(s) -> Range(s)]
  BY DEF Range
<1>2. s \in Bijection(1..Len(s), Range(s))
  <2>1. IsInjective(s)
    BY <1>1 DEF IsInjective, Once
  <2>2. \A t \in Range(s) : \E i \in 1..Len(s) : s[i] = t
    BY <1>1 DEF Range
  <2> QED
    BY <1>1, <2>1, <2>2 DEF Bijection, Injection, Surjection
<1>3. ExistsBijection(1..Len(s), Range(s))
  BY <1>2 DEF ExistsBijection
<1> QED
  BY <1>1, <1>3, FS_CountingElements

-----------------------------------------------------------------------------
(* The commands on the list of networks.  What a command has fetched is a  *)
(* list like that of the server, and the same as long as it is fresh.      *)
CopiesInv ==
  /\ IsNetList(server) /\ IsWhole(server) /\ DOMAIN copy = Command
  /\ \A p \in Command :
       /\ IsNetList(copy[p])
       /\ cmd[p] # NoRequest => IsWhole(copy[p]) /\ (fresh[p] => copy[p] = server)

NetInv == NetTypeOK /\ CopiesInv /\ ListIsAsAsked

(* The list that was not fetched. *)
LEMMA NoListIs == IsNetList(NoList) /\ Pairs(NoList) = {}
<1>1. NoList \in [{} -> Seq(Net)] /\ {} \in SUBSET NetClass
  BY DEF NoList
<1>2. IsNetList(NoList)
  BY <1>1 DEF IsNetList
<1>3. Pairs(NoList) = {}
  BY DEF Pairs, NoList
<1> QED
  BY <1>2, <1>3

(* The lists at the start. *)
LEMMA NetInvInit ==
  ASSUME NetInit
  PROVE  NetInv
<1>1. server = NoList \/ (which = "shaping" /\ server = [c \in NetClass |-> <<>>])
  BY DEF NetInit
<1>2. IsNetList(server) /\ IsWhole(server) /\ Pairs(server) = {}
  <2>1. CASE server = NoList /\ which # "shaping"
    BY <2>1, NoListIs DEF IsWhole
  <2>2. CASE which = "shaping" /\ server = [c \in NetClass |-> <<>>]
    <3>1. <<>> \in Seq(Net) /\ Once(<<>>) /\ Range(<<>>) = {}
      BY DEF Once, Range
    <3>2. server \in [NetClass -> Seq(Net)] /\ \A c \in NetClass : server[c] = <<>>
      BY <2>2, <3>1
    <3>3. IsNetList(server)
      BY <3>1, <3>2 DEF IsNetList
    <3>4. Pairs(server) = {}
      BY <3>1, <3>2 DEF Pairs
    <3> QED
      BY <2>2, <3>3, <3>4 DEF IsWhole
  <2> QED
    BY <2>1, <2>2 DEF NetInit
<1>3. /\ cmd = [p \in Command |-> NoRequest] /\ copy = [p \in Command |-> NoList]
      /\ fresh = [p \in Command |-> FALSE] /\ want = {} /\ stray = {} /\ overwritten = FALSE
      /\ which \in {"class", "shaping"}
  BY DEF NetInit
<1>4. CopiesInv
  BY <1>2, <1>3, NoListIs DEF CopiesInv
<1>5. ListIsAsAsked
  BY <1>2, <1>3 DEF ListIsAsAsked
<1>6. NetTypeOK
  <2>1. DOMAIN server \subseteq NetClass /\ \A c \in DOMAIN server : server[c] \in Seq(Net)
    BY <1>2 DEF IsNetList
  <2>2. \A p \in Command : DOMAIN copy[p] \subseteq NetClass
    BY <1>3 DEF NoList
  <2> QED
    BY <1>3, <2>1, <2>2 DEF NetTypeOK
<1> QED
  BY <1>4, <1>5, <1>6 DEF NetInv

(* Every step of a command keeps the invariant: it fetches a copy, changes *)
(* it, or sends it to the server.                                          *)
LEMMA NetKeepsInv ==
  ASSUME NetInv, NetNext
  PROVE  NetInv'
<1>0. /\ which \in {"class", "shaping"} /\ cmd \in [Command -> Request \cup {NoRequest}]
      /\ fresh \in [Command -> BOOLEAN] /\ overwritten \in BOOLEAN
      /\ want \subseteq NetClass \X Net /\ stray \subseteq NetClass \X Net
      /\ DOMAIN server \subseteq NetClass /\ \A c \in DOMAIN server : server[c] \in Seq(Net)
      /\ \A p \in Command : DOMAIN copy[p] \subseteq NetClass
  BY DEF NetInv, NetTypeOK
<1>1. ASSUME NEW p \in Command, NEW r \in Request, Fetch(p, r) PROVE NetInv'
  <2>1. /\ cmd' = [cmd EXCEPT ![p] = r] /\ copy' = [copy EXCEPT ![p] = server] /\ fresh' = [fresh EXCEPT ![p] = TRUE]
        /\ UNCHANGED <<which, server, want, stray, overwritten>>
    BY <1>1 DEF Fetch
  <2>2. CopiesInv'
    BY <1>0, <2>1 DEF NetInv, CopiesInv, IsWhole
  <2>3. NetTypeOK'
    <3>1. \A q \in Command : DOMAIN copy'[q] \subseteq NetClass
      BY <1>0, <2>1 DEF NetInv, CopiesInv
    <3> QED
      BY <1>0, <2>1, <3>1 DEF NetTypeOK
  <2>4. ListIsAsAsked'
    BY <2>1 DEF NetInv, ListIsAsAsked
  <2> QED
    BY <2>2, <2>3, <2>4 DEF NetInv
<1>2. ASSUME NEW p \in Command, Refused(p) PROVE NetInv'
  <2>1. /\ cmd' = [cmd EXCEPT ![p] = NoRequest] /\ copy' = [copy EXCEPT ![p] = NoList] /\ fresh' = [fresh EXCEPT ![p] = FALSE]
        /\ UNCHANGED <<which, server, want, stray, overwritten>>
    BY <1>2 DEF Refused, End
  <2>2. CopiesInv'
    BY <1>0, <2>1, NoListIs DEF NetInv, CopiesInv, IsWhole
  <2>3. NetTypeOK'
    <3>1. \A q \in Command : DOMAIN copy'[q] \subseteq NetClass
      BY <1>0, <2>1 DEF NetInv, CopiesInv, NoList
    <3> QED
      BY <1>0, <2>1, <3>1 DEF NetTypeOK
  <2>4. ListIsAsAsked'
    BY <2>1 DEF NetInv, ListIsAsAsked
  <2> QED
    BY <2>2, <2>3, <2>4 DEF NetInv
<1>3. ASSUME NEW p \in Command, Send(p) PROVE NetInv'
  <2> DEFINE r == cmd[p]
             pair == <<r.class, r.net>>
  <2>1. /\ cmd[p] # NoRequest /\ cmd' = [cmd EXCEPT ![p] = NoRequest] /\ copy' = [copy EXCEPT ![p] = NoList]
        /\ server' \in Changed(copy[p], r) /\ fresh' = [q \in Command |-> FALSE]
        /\ overwritten' = (overwritten \/ ~fresh[p]) /\ which' = which
    BY <1>3 DEF Send, End
  <2>2. IF overwritten' THEN want' = {} /\ stray' = {}
        ELSE /\ want'  = IF r.del THEN want \ {pair} ELSE want \cup {pair}
             /\ stray' = IF r.del /\ IsStray(copy[p], r) THEN stray \cup {pair} ELSE stray \ {pair}
    BY <1>3 DEF Send, Strays, IsStray
  <2>3. r \in Request /\ r.class \in NetClass /\ r.net \in Net /\ r.del \in BOOLEAN
    BY <1>0, <2>1 DEF Request
  <2>4. IsNetList(copy[p]) /\ IsWhole(copy[p]) /\ (fresh[p] => copy[p] = server)
    BY <2>1 DEF NetInv, CopiesInv
  <2> HIDE DEF r
  <2>5. /\ IsNetList(server') /\ IsWhole(server')
        /\ \A d, n : <<d, n>> \in Pairs(server') <=>
             IF r.del /\ ~IsStray(copy[p], r) THEN <<d, n>> \in Pairs(copy[p]) /\ <<d, n>> # pair
             ELSE <<d, n>> \in Pairs(copy[p]) \/ <<d, n>> = pair
    BY <1>0, <2>1, <2>3, <2>4, ChangedIs
  <2>6. pair \in NetClass \X Net
    BY <2>3
  <2>7. want' \subseteq NetClass \X Net /\ stray' \subseteq NetClass \X Net
    <3> HIDE DEF pair
    <3> QED
      BY <1>0, <2>2, <2>6
  <2>8. CopiesInv'
    <3>1. DOMAIN copy' = Command
      BY <2>1 DEF NetInv, CopiesInv
    <3>2. \A q \in Command : IsNetList(copy[q]) /\ (cmd[q] # NoRequest => IsWhole(copy[q]))
      BY DEF NetInv, CopiesInv
    <3>3. ASSUME NEW q \in Command
          PROVE  /\ q = p => copy'[q] = NoList /\ cmd'[q] = NoRequest
                 /\ q # p => copy'[q] = copy[q] /\ cmd'[q] = cmd[q]
                 /\ ~fresh'[q]
      <4>1. DOMAIN copy = Command /\ DOMAIN cmd = Command
        BY <1>0 DEF NetInv, CopiesInv
      <4>2. cmd' = [cmd EXCEPT ![p] = NoRequest] /\ copy' = [copy EXCEPT ![p] = NoList]
        BY <2>1
      <4>3. fresh' = [o \in Command |-> FALSE]
        BY <2>1
      <4>4. ~fresh'[q]
        BY <4>3
      <4> QED
        BY <4>1, <4>2, <4>4
    <3>4. IsWhole(server)' /\ \A q \in Command : IsWhole(copy[q]) => q = p \/ IsWhole(copy[q])'
      BY <2>1, <2>5, <3>3 DEF IsWhole
    <3>5. ASSUME NEW q \in Command
          PROVE  /\ IsNetList(copy'[q])
                 /\ cmd'[q] # NoRequest => IsWhole(copy[q])' /\ (fresh'[q] => copy'[q] = server')
      <4>1. CASE q = p
        BY <3>3, <4>1, NoListIs
      <4>2. CASE q # p
        BY <3>2, <3>3, <3>4, <4>2
      <4> QED
        BY <4>1, <4>2
    <3> QED
      BY <2>5, <3>1, <3>4, <3>5 DEF CopiesInv
  <2>9. NetTypeOK'
    <3>1. DOMAIN server' \subseteq NetClass /\ \A c \in DOMAIN server' : server'[c] \in Seq(Net)
      BY <2>5 DEF IsNetList
    <3>2. \A q \in Command : DOMAIN copy'[q] \subseteq NetClass
      BY <1>0, <2>1 DEF NetInv, CopiesInv, NoList
    <3>3. cmd' \in [Command -> Request \cup {NoRequest}]
      BY <1>0, <2>1
    <3>4. fresh' \in [Command -> BOOLEAN] /\ overwritten' \in BOOLEAN
      BY <1>0, <2>1
    <3> QED
      BY <1>0, <2>1, <2>7, <3>1, <3>2, <3>3, <3>4 DEF NetTypeOK
  <2>10. ListIsAsAsked'
    <3> SUFFICES ASSUME ~overwritten' PROVE Pairs(server') = want' \cup stray'
      BY DEF ListIsAsAsked
    <3>1. ~overwritten /\ copy[p] = server /\ Pairs(copy[p]) = want \cup stray
      BY <1>0, <2>1, <2>4 DEF NetInv, ListIsAsAsked
    <3>2. Pairs(server') \subseteq NetClass \X Net
      BY <2>5, PairsAre
    <3>3. ASSUME NEW d \in NetClass, NEW n \in Net
          PROVE  <<d, n>> \in Pairs(server') <=> <<d, n>> \in want' \cup stray'
      <4> DEFINE e == <<d, n>>
      <4>1. e \in Pairs(server') <=>
              IF r.del /\ ~IsStray(copy[p], r) THEN e \in want \cup stray /\ e # pair
              ELSE e \in want \cup stray \/ e = pair
        BY <2>5, <3>1
      <4> HIDE DEF e, pair
      <4>2. CASE r.del /\ ~IsStray(copy[p], r)
        BY <2>2, <4>1, <4>2 DEF e
      <4>3. CASE r.del /\ IsStray(copy[p], r)
        BY <2>2, <4>1, <4>3 DEF e
      <4>4. CASE ~r.del
        BY <2>2, <4>1, <4>4 DEF e
      <4> QED
        BY <4>2, <4>3, <4>4
    <3> QED
      BY <2>7, <3>2, <3>3
  <2> QED
    BY <2>8, <2>9, <2>10 DEF NetInv
<1> QED
  BY <1>1, <1>2, <1>3 DEF NetNext

(* So it holds always, also while the boot list is at work. *)
THEOREM NetInvariant == Spec => []NetInv
<1>1. Init => NetInv
  BY NetInvInit DEF Init
<1>2. NetInv /\ [Next]_vars => NetInv'
  <2> SUFFICES ASSUME NetInv, [Next]_vars PROVE NetInv'
    OBVIOUS
  <2>1. CASE NetNext
    BY <2>1, NetKeepsInv
  <2>2. CASE UNCHANGED netvars
    <3>1. UNCHANGED <<which, server, copy, cmd, fresh, want, stray, overwritten>>
      BY <2>2 DEF netvars
    <3> QED
      BY <3>1 DEF NetInv, NetTypeOK, CopiesInv, ListIsAsAsked, IsWhole
  <2> QED
    BY <2>1, <2>2 DEF Next, vars
<1> QED
  BY <1>1, <1>2, PTL DEF Spec

(* Types of both lists. *)
THEOREM ListTypes == Spec => []ListsTypeOK
<1>1. BootInv /\ NetInv => ListsTypeOK
  BY DEF BootInv, NetInv, ListsTypeOK
<1> QED
  BY <1>1, BootInvariant, NetInvariant, PTL

(* The server has what the commands that reported success have asked for,  *)
(* and what their deletions have added.                                    *)
THEOREM NetworksAreAsAsked == Spec => []ListIsAsAsked
<1>1. NetInv => ListIsAsAsked
  BY DEF NetInv
<1> QED
  BY <1>1, NetInvariant, PTL

(* A network is in a class once. *)
THEOREM NetworksAreOnce == Spec => []NetworkOnce
<1>1. NetInv => NetworkOnce
  <2> SUFFICES ASSUME NetInv, NEW c \in DOMAIN server PROVE Cardinality(Range(server[c])) = Len(server[c])
    BY DEF NetworkOnce
  <2>1. server[c] \in Seq(Net) /\ Once(server[c])
    BY DEF NetInv, CopiesInv, IsNetList
  <2> HIDE DEF NetInv
  <2> QED
    BY <2>1, OnceCounts
<1> QED
  BY <1>1, NetInvariant, PTL
=============================================================================

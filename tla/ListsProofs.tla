----------------------------- MODULE ListsProofs -----------------------------
(***************************************************************************)
(* What the operators of Lists do, for any list and any set: what is kept  *)
(* of a list is a part of it in the same order, and DropFirst takes one    *)
(* element away.                                                           *)
(***************************************************************************)
EXTENDS Lists, WellFoundedInduction, TLAPS

-----------------------------------------------------------------------------
(* What Keep does, for any list.  The induction is over sets of numbers    *)
(* and of lists: a set that has the first and with each one the next has   *)
(* them all.                                                               *)

(* A set of numbers that is not empty has a least one. *)
LEMMA LeastNumber ==
  ASSUME NEW T \in SUBSET Nat, T # {}
  PROVE  \E x \in T : \A y \in T : x <= y
<1> DEFINE R == OpToRel(<, Nat)
<1>1. \A x, y \in Nat : x < y => <<x, y>> \in R
  BY DEF OpToRel
<1>2. IsWellFoundedOn(R, Nat)
  BY NatLessThanWellFounded
<1> HIDE DEF R
<1>3. PICK x \in T : \A y \in T : ~(<<y, x>> \in R)
  BY <1>2, WFMin
<1>4. ASSUME NEW y \in T PROVE x <= y
  <2>1. x \in Nat /\ y \in Nat /\ ~(y < x)
    BY <1>1, <1>3
  <2> QED
    BY <2>1
<1> QED
  BY <1>3, <1>4

(* Induction over the numbers. *)
LEMMA NumberInduction ==
  ASSUME NEW P \in SUBSET Nat, 0 \in P, \A n \in P : n + 1 \in P
  PROVE  P = Nat
<1> SUFFICES ASSUME Nat \ P # {} PROVE FALSE
  OBVIOUS
<1>1. PICK x \in Nat \ P : \A y \in Nat \ P : x <= y
  BY LeastNumber
<1>2. x - 1 \in Nat /\ x - 1 \in P
  BY <1>1
<1> QED
  BY <1>1, <1>2

(* A function that has a value at 0, and at each number of 1..n one that is *)
(* made of its value before, exists.                                       *)
Iterates(f, n, base, step) == f[0] = base /\ \A i \in 1..n : f[i] = step[i][f[i - 1]]

(* It can be chosen with values in the set that the steps stay in. *)
LEMMA IterationExists ==
  ASSUME NEW n \in Nat, NEW S, NEW base \in S, NEW step \in [1..n -> [S -> S]]
  PROVE  \E f \in [0..n -> S] : Iterates(f, n, base, step)
<1> DEFINE P == {m \in Nat : m <= n => \E f \in [0..m -> S] : Iterates(f, m, base, step)}
<1>1. 0 \in P
  <2>1. [i \in 0..0 |-> base] \in [0..0 -> S] /\ Iterates([i \in 0..0 |-> base], 0, base, step)
    BY DEF Iterates
  <2> QED
    BY <2>1
<1>2. ASSUME NEW m \in P PROVE m + 1 \in P
  <2>1. m \in Nat /\ m + 1 \in Nat /\ (m <= n => \E f \in [0..m -> S] : Iterates(f, m, base, step))
    OBVIOUS
  <2> SUFFICES ASSUME m + 1 <= n PROVE \E f \in [0..m + 1 -> S] : Iterates(f, m + 1, base, step)
    BY <2>1
  <2>2. PICK f \in [0..m -> S] : Iterates(f, m, base, step)
    BY <2>1
  <2> DEFINE g == [i \in 0..m + 1 |-> IF i = m + 1 THEN step[m + 1][f[m]] ELSE f[i]]
  <2>3. m + 1 \in 1..n /\ f[m] \in S /\ step[m + 1][f[m]] \in S
    BY <2>1
  <2>4. g \in [0..m + 1 -> S]
    BY <2>1, <2>3
  <2>5. ASSUME NEW i \in 1..m + 1 PROVE g[i] = step[i][g[i - 1]]
    <3>1. CASE i = m + 1
      BY <2>1, <2>3, <3>1
    <3>2. CASE i # m + 1
      <4>1. i \in 1..m /\ i - 1 \in 0..m /\ i \in 0..m
        BY <2>1, <3>2
      <4>2. g[i] = f[i] /\ g[i - 1] = f[i - 1]
        BY <2>1, <4>1
      <4>3. f[i] = step[i][f[i - 1]]
        BY <2>2, <4>1 DEF Iterates
      <4> QED
        BY <4>2, <4>3
    <3> QED
      BY <3>1, <3>2
  <2>6. g[0] = base
    BY <2>1, <2>2 DEF Iterates
  <2>7. Iterates(g, m + 1, base, step)
    BY <2>5, <2>6 DEF Iterates
  <2> QED
    BY <2>4, <2>7
<1> HIDE DEF P
<1>3. P = Nat
  <2>1. P \in SUBSET Nat
    BY DEF P
  <2> QED
    BY <1>1, <1>2, <2>1, NumberInduction
<1> QED
  BY <1>3 DEF P

(* A list of some is a list of more, and a pair of them is one. *)
LEMMA SeqOfMore ==
  ASSUME NEW S, NEW T, S \subseteq T, NEW s \in Seq(S)
  PROVE  s \in Seq(T)
  OBVIOUS

(* The pair. *)
LEMMA PairIsList ==
  ASSUME NEW S, NEW x \in S, NEW y \in S
  PROVE  <<x, y>> \in Seq(S)
  OBVIOUS

(* Induction over the lists, which are made by Append. *)
LEMMA ListInduction ==
  ASSUME NEW S, NEW P \in SUBSET Seq(S), <<>> \in P,
         \A s \in P : \A x \in S : Append(s, x) \in P
  PROVE  P = Seq(S)
<1> DEFINE N == {n \in Nat : \A s \in Seq(S) : Len(s) = n => s \in P}
<1>1. 0 \in N
  OBVIOUS
<1>2. ASSUME NEW n \in N PROVE n + 1 \in N
  <2>1. n \in Nat /\ n + 1 \in Nat /\ \A s \in Seq(S) : Len(s) = n => s \in P
    OBVIOUS
  <2>2. ASSUME NEW s \in Seq(S), Len(s) = n + 1 PROVE s \in P
    <3> DEFINE t == [i \in 1..n |-> s[i]]
    <3>1. t \in Seq(S) /\ Len(t) = n
      BY <2>1, <2>2
    <3>2. s[n + 1] \in S
      BY <2>1, <2>2
    <3>3. s = Append(t, s[n + 1])
      BY <2>1, <2>2, <3>1, <3>2
    <3>4. t \in P
      BY <2>1, <3>1
    <3> QED
      BY <3>2, <3>3, <3>4
  <2> QED
    BY <2>1, <2>2
<1> HIDE DEF N
<1>3. N = Nat
  <2>1. N \in SUBSET Nat
    BY DEF N
  <2> QED
    BY <1>1, <1>2, <2>1, NumberInduction
<1>4. \A s \in Seq(S) : Len(s) \in Nat
  OBVIOUS
<1>5. \A s \in Seq(S) : s \in P
  BY <1>3, <1>4 DEF N
<1> QED
  BY <1>5

-----------------------------------------------------------------------------
(* Keep is what its recursion says, prefix by prefix. *)
Prefixes(f, s, good) ==
  /\ f[0] = <<>> /\ Keep(s, good) = f[Len(s)]
  /\ \A i \in 1..Len(s) : f[i] = IF s[i] \in good THEN Append(f[i - 1], s[i]) ELSE f[i - 1]

(* The lists it keeps of the prefixes exist, and their elements are those  *)
(* of the list.                                                            *)
LEMMA KeepPrefixes ==
  ASSUME NEW S, NEW s \in Seq(S), NEW good
  PROVE  \E f \in [0..Len(s) -> Seq(S)] : Prefixes(f, s, good)
<1> DEFINE n == Len(s)
           step == [i \in 1..n |-> [t \in Seq(S) |-> IF s[i] \in good THEN Append(t, s[i]) ELSE t]]
           IsKept(f) == f = [i \in 0..n |-> IF i = 0 THEN <<>>
                                            ELSE IF s[i] \in good THEN Append(f[i - 1], s[i]) ELSE f[i - 1]]
           kept == CHOOSE f : IsKept(f)
<1>1. n \in Nat /\ <<>> \in Seq(S)
  OBVIOUS
<1>2. step \in [1..n -> [Seq(S) -> Seq(S)]]
  OBVIOUS
<1>3. PICK f \in [0..n -> Seq(S)] : Iterates(f, n, <<>>, step)
  <2> HIDE DEF step, n
  <2> QED
    BY <1>1, <1>2, IterationExists
<1>4. ASSUME NEW i \in 0..n
      PROVE  f[i] = IF i = 0 THEN <<>> ELSE IF s[i] \in good THEN Append(f[i - 1], s[i]) ELSE f[i - 1]
  <2>1. CASE i = 0
    BY <1>3, <2>1 DEF Iterates
  <2>2. CASE i # 0
    <3>1. i \in 1..n /\ i - 1 \in 0..n
      BY <1>1, <2>2
    <3>2. f[i - 1] \in Seq(S)
      BY <1>3, <3>1
    <3>3. f[i] = step[i][f[i - 1]]
      BY <1>3, <3>1 DEF Iterates
    <3> QED
      BY <2>2, <3>1, <3>2, <3>3
  <2> QED
    BY <2>1, <2>2
<1>5. IsKept(f)
  BY <1>3, <1>4
<1>6. IsKept(kept)
  BY <1>5
<1>7. Keep(s, good) = kept[n]
  BY DEF Keep
<1> HIDE DEF kept
<1>8. kept[0] = <<>> /\ \A i \in 1..n : kept[i] = IF s[i] \in good THEN Append(kept[i - 1], s[i]) ELSE kept[i - 1]
  <2>1. ASSUME NEW i \in 0..n
        PROVE  kept[i] = IF i = 0 THEN <<>> ELSE IF s[i] \in good THEN Append(kept[i - 1], s[i]) ELSE kept[i - 1]
    BY <1>6
  <2>2. 0 \in 0..n /\ \A i \in 1..n : i \in 0..n /\ i # 0
    BY <1>1
  <2>3. kept[0] = <<>>
    BY <2>1, <2>2
  <2>4. ASSUME NEW i \in 1..n PROVE kept[i] = IF s[i] \in good THEN Append(kept[i - 1], s[i]) ELSE kept[i - 1]
    BY <2>1, <2>2
  <2> QED
    BY <2>3, <2>4
<1> DEFINE P == {i \in Nat : i <= n => kept[i] \in Seq(S)}
<1>9. 0 \in P
  BY <1>1, <1>8
<1>10. ASSUME NEW i \in P PROVE i + 1 \in P
  <2>1. i \in Nat /\ i + 1 \in Nat /\ (i <= n => kept[i] \in Seq(S))
    OBVIOUS
  <2>2. ASSUME i + 1 <= n PROVE kept[i + 1] \in Seq(S)
    <3>1. i + 1 \in 1..n /\ (i + 1) - 1 = i /\ s[i + 1] \in S
      BY <1>1, <2>1, <2>2
    <3>2. kept[i] \in Seq(S)
      BY <1>1, <2>1, <2>2
    <3>3. kept[i + 1] = IF s[i + 1] \in good THEN Append(kept[i], s[i + 1]) ELSE kept[i]
      BY <1>8, <3>1
    <3>4. Append(kept[i], s[i + 1]) \in Seq(S)
      BY <3>1, <3>2
    <3> QED
      BY <3>2, <3>3, <3>4
  <2> QED
    BY <2>1, <2>2
<1> HIDE DEF P
<1>11. P = Nat
  <2>1. P \in SUBSET Nat
    BY DEF P
  <2> QED
    BY <1>9, <1>10, <2>1, NumberInduction
<1>12. \A i \in 0..n : kept[i] \in Seq(S)
  BY <1>1, <1>11 DEF P
<1>13. kept \in [0..n -> Seq(S)]
  BY <1>6, <1>12
<1>14. Prefixes(kept, s, good)
  BY <1>7, <1>8 DEF Prefixes
<1> QED
  BY <1>13, <1>14

(* The list that has nothing, and then the list that has one more. *)
LEMMA KeepEmpty ==
  ASSUME NEW good
  PROVE  Keep(<<>>, good) = <<>>
<1>1. <<>> \in Seq({}) /\ Len(<<>>) = 0
  OBVIOUS
<1>2. \E f : Prefixes(f, <<>>, good)
  BY <1>1, KeepPrefixes
<1> QED
  BY <1>1, <1>2 DEF Prefixes

(* The latter: its last element is kept or not. *)
LEMMA KeepAppend ==
  ASSUME NEW S, NEW s \in Seq(S), NEW x \in S, NEW good
  PROVE  Keep(Append(s, x), good) = IF x \in good THEN Append(Keep(s, good), x) ELSE Keep(s, good)
<1> DEFINE n == Len(s)
           t == Append(s, x)
<1>1. n \in Nat /\ t \in Seq(S) /\ Len(t) = n + 1 /\ t[n + 1] = x /\ \A i \in 1..n : t[i] = s[i]
  OBVIOUS
<1>2. PICK f \in [0..n -> Seq(S)] : Prefixes(f, s, good)
  BY KeepPrefixes
<1> HIDE DEF t
<1>3. PICK g \in [0..Len(t) -> Seq(S)] : Prefixes(g, t, good)
  BY <1>1, KeepPrefixes
<1> USE DEF Prefixes
<1> DEFINE P == {i \in Nat : i <= n => f[i] = g[i]}
<1>4. 0 \in P
  BY <1>2, <1>3
<1>5. ASSUME NEW i \in P PROVE i + 1 \in P
  <2>1. i \in Nat /\ i + 1 \in Nat /\ (i <= n => f[i] = g[i])
    OBVIOUS
  <2>2. ASSUME i + 1 <= n PROVE f[i + 1] = g[i + 1]
    <3>1. /\ i + 1 \in 1..n /\ i + 1 \in 1..Len(t)
          /\ (i + 1) - 1 = i /\ f[i] = g[i] /\ t[i + 1] = s[i + 1]
      <4>1. n \in Nat /\ Len(t) = n + 1
        BY <1>1
      <4>2. i + 1 \in 1..n /\ i + 1 \in 1..Len(t) /\ (i + 1) - 1 = i
        BY <2>1, <2>2, <4>1
      <4>3. f[i] = g[i]
        BY <2>1, <2>2, <4>1
      <4> QED
        BY <1>1, <4>2, <4>3
    <3> QED
      BY <1>2, <1>3, <3>1
  <2> QED
    BY <2>1, <2>2
<1> HIDE DEF P
<1>6. P = Nat
  <2>1. P \in SUBSET Nat
    BY DEF P
  <2> QED
    BY <1>4, <1>5, <2>1, NumberInduction
<1>7. f[n] = g[n]
  BY <1>1, <1>6 DEF P
<1>8. n + 1 \in 1..Len(t) /\ (n + 1) - 1 = n
  BY <1>1
<1>9. g[n + 1] = IF x \in good THEN Append(g[n], x) ELSE g[n]
  BY <1>1, <1>3, <1>8
<1> QED
  BY <1>1, <1>2, <1>3, <1>7, <1>9 DEF t

-----------------------------------------------------------------------------
(* t is a part of s, in the same order: e says where its elements are. *)
Embeds(e, t, s) ==
  /\ e \in [1..Len(t) -> 1..Len(s)]
  /\ \A k \in 1..Len(t) : t[k] = s[e[k]]
  /\ \A j, k \in 1..Len(t) : j < k => e[j] < e[k]

(* What is kept is of the set. *)
LEMMA KeepType ==
  ASSUME NEW S, NEW s \in Seq(S), NEW good
  PROVE  Keep(s, good) \in Seq(S \cap good)
<1> DEFINE P == {t \in Seq(S) : Keep(t, good) \in Seq(S \cap good)}
<1>1. <<>> \in P
  <2>1. <<>> \in Seq(S) /\ <<>> \in Seq(S \cap good)
    OBVIOUS
  <2> QED
    BY <2>1, KeepEmpty
<1>2. ASSUME NEW t \in P, NEW x \in S PROVE Append(t, x) \in P
  <2>1. t \in Seq(S) /\ Keep(t, good) \in Seq(S \cap good) /\ Append(t, x) \in Seq(S)
    OBVIOUS
  <2>2. x \in good => Append(Keep(t, good), x) \in Seq(S \cap good)
    BY <2>1
  <2> QED
    BY <2>1, <2>2, KeepAppend
<1> HIDE DEF P
<1>3. P = Seq(S)
  <2>1. P \in SUBSET Seq(S)
    BY DEF P
  <2> QED
    BY <1>1, <1>2, <2>1, ListInduction
<1> QED
  BY <1>3 DEF P

(* What is kept is a part of the list, and all of it that is of the set. *)
LEMMA KeepEmbeds ==
  ASSUME NEW S, NEW s \in Seq(S), NEW good
  PROVE  \E e : /\ Embeds(e, Keep(s, good), s)
               /\ \A i \in 1..Len(s) : s[i] \in good => \E k \in 1..Len(Keep(s, good)) : e[k] = i
<1> DEFINE Covers(e, t) == \A i \in 1..Len(t) : t[i] \in good => \E k \in 1..Len(Keep(t, good)) : e[k] = i
           P == {t \in Seq(S) : \E e : Embeds(e, Keep(t, good), t) /\ Covers(e, t)}
<1>1. <<>> \in P
  <2>1. Embeds(<<>>, <<>>, <<>>) /\ \A i \in 1..Len(<<>>) : FALSE
    BY DEF Embeds
  <2> QED
    BY <2>1, KeepEmpty
<1>2. ASSUME NEW t \in P, NEW x \in S PROVE Append(t, x) \in P
  <2> DEFINE u == Append(t, x)
             a == Keep(t, good)
             b == Keep(u, good)
  <2>1. t \in Seq(S) /\ u \in Seq(S) /\ Len(u) = Len(t) + 1 /\ Len(t) \in Nat /\ u[Len(t) + 1] = x
        /\ \A i \in 1..Len(t) : u[i] = t[i]
    OBVIOUS
  <2>2. PICK e : Embeds(e, a, t) /\ Covers(e, t)
    OBVIOUS
  <2>3. a \in Seq(S \cap good) /\ Len(a) \in Nat
    BY <2>1, KeepType
  <2>4. CASE x \in good
    <3> DEFINE f == [k \in 1..Len(a) + 1 |-> IF k = Len(a) + 1 THEN Len(t) + 1 ELSE e[k]]
    <3>1. b = Append(a, x)
      BY <2>1, <2>4, KeepAppend
    <3>2. Len(b) = Len(a) + 1 /\ b[Len(a) + 1] = x /\ \A k \in 1..Len(a) : b[k] = a[k]
      BY <2>3, <2>4, <3>1
    <3> HIDE DEF a, b, u
    <3>3. f \in [1..Len(b) -> 1..Len(u)] /\ \A k \in 1..Len(a) : f[k] = e[k] /\ e[k] \in 1..Len(t)
      <4>1. e \in [1..Len(a) -> 1..Len(t)]
        BY <2>2 DEF Embeds, a
      <4>2. \A k \in 1..Len(a) : k # Len(a) + 1 /\ k \in 1..Len(a) + 1
        BY <2>3
      <4>3. \A k \in 1..Len(a) : f[k] = e[k] /\ e[k] \in 1..Len(t)
        BY <4>1, <4>2
      <4>4. Len(t) + 1 \in 1..Len(u) /\ 1..Len(t) \subseteq 1..Len(u)
        BY <2>1
      <4>5. ASSUME NEW k \in 1..Len(b) PROVE f[k] \in 1..Len(u)
        <5>1. CASE k = Len(a) + 1
          <6>1. f[k] = Len(t) + 1
            BY <2>3, <5>1
          <6> QED
            BY <4>4, <6>1
        <5>2. CASE k \in 1..Len(a)
          BY <4>3, <4>4, <5>2
        <5> QED
          BY <2>3, <3>2, <5>1, <5>2
      <4> QED
        BY <3>2, <4>3, <4>5
    <3>4. \A k \in 1..Len(b) : k = Len(a) + 1 \/ k \in 1..Len(a)
      BY <2>3, <3>2
    <3>5. f[Len(a) + 1] = Len(t) + 1
      BY <2>3
    <3> HIDE DEF f
    <3>6. ASSUME NEW k \in 1..Len(b) PROVE b[k] = u[f[k]]
      <4>1. CASE k = Len(a) + 1
        BY <2>1, <3>2, <3>5, <4>1
      <4>2. CASE k \in 1..Len(a)
        <5>1. a[k] = t[e[k]]
          BY <2>2, <4>2 DEF Embeds, a
        <5> QED
          BY <2>1, <3>2, <3>3, <4>2, <5>1
      <4> QED
        BY <3>4, <4>1, <4>2
    <3>7. ASSUME NEW j \in 1..Len(b), NEW k \in 1..Len(b), j < k PROVE f[j] < f[k]
      <4>1. j \in 1..Len(a)
        BY <2>3, <3>2, <3>7
      <4>2. CASE k \in 1..Len(a)
        BY <2>2, <3>3, <3>7, <4>1, <4>2 DEF Embeds
      <4>3. CASE k = Len(a) + 1
        <5>1. e[j] \in 1..Len(t) /\ f[j] = e[j] /\ f[k] = Len(t) + 1
          BY <3>3, <3>5, <4>1, <4>3
        <5> QED
          BY <2>1, <5>1
      <4> QED
        BY <3>4, <4>2, <4>3
    <3>8. Embeds(f, b, u)
      BY <3>3, <3>6, <3>7 DEF Embeds
    <3>9. ASSUME NEW i \in 1..Len(u), u[i] \in good PROVE \E k \in 1..Len(b) : f[k] = i
      <4>1. CASE i = Len(t) + 1
        <5>1. Len(a) + 1 \in 1..Len(b)
          BY <2>3, <3>2
        <5> QED
          BY <3>5, <4>1, <5>1
      <4>2. CASE i \in 1..Len(t)
        <5>1. PICK k \in 1..Len(a) : e[k] = i
          BY <2>1, <2>2, <3>9, <4>2 DEF a
        <5>2. k \in 1..Len(b)
          BY <2>3, <3>2
        <5> QED
          BY <3>3, <5>1, <5>2
      <4> QED
        BY <2>1, <4>1, <4>2
    <3>10. Covers(f, u)
      BY <3>9 DEF b
    <3> QED
      BY <2>1, <3>8, <3>10 DEF b, u
  <2>5. CASE x \notin good
    <3>1. b = a
      BY <2>1, <2>5, KeepAppend
    <3> HIDE DEF a, b, u
    <3>2. \A i \in 1..Len(u) : i \in 1..Len(t) \/ i = Len(t) + 1
      BY <2>1
    <3>3. 1..Len(t) \subseteq 1..Len(u)
      BY <2>1
    <3>4. Embeds(e, b, u)
      BY <2>1, <2>2, <3>1, <3>3 DEF Embeds
    <3>5. ASSUME NEW i \in 1..Len(u), u[i] \in good PROVE \E k \in 1..Len(b) : e[k] = i
      <4>1. i \in 1..Len(t) /\ t[i] \in good
        BY <2>1, <2>5, <3>2, <3>5
      <4> QED
        BY <2>2, <3>1, <4>1 DEF a
    <3>6. Covers(e, u)
      BY <3>5 DEF b
    <3> QED
      BY <2>1, <3>4, <3>6 DEF b, u
  <2> QED
    BY <2>4, <2>5
<1> HIDE DEF P
<1>3. P = Seq(S)
  <2>1. P \in SUBSET Seq(S)
    BY DEF P
  <2> QED
    BY <1>1, <1>2, <2>1, ListInduction
<1> QED
  BY <1>3 DEF P

-----------------------------------------------------------------------------
(* To keep of two lists, one after the other, is to keep of each. *)
LEMMA KeepConcat ==
  ASSUME NEW S, NEW s \in Seq(S), NEW t \in Seq(S), NEW good
  PROVE  Keep(s \o t, good) = Keep(s, good) \o Keep(t, good)
<1> DEFINE P == {u \in Seq(S) : Keep(s \o u, good) = Keep(s, good) \o Keep(u, good)}
<1>1. <<>> \in P
  <2>1. <<>> \in Seq(S) /\ s \o <<>> = s
    OBVIOUS
  <2>2. Keep(s, good) \o <<>> = Keep(s, good)
    BY KeepType
  <2> QED
    BY <2>1, <2>2, KeepEmpty
<1>2. ASSUME NEW u \in P, NEW x \in S PROVE Append(u, x) \in P
  <2>1. u \in Seq(S) /\ Keep(s \o u, good) = Keep(s, good) \o Keep(u, good)
        /\ Append(u, x) \in Seq(S) /\ s \o u \in Seq(S)
    OBVIOUS
  <2>2. s \o Append(u, x) = Append(s \o u, x)
    BY <2>1
  <2>3. Keep(s \o Append(u, x), good)
          = IF x \in good THEN Append(Keep(s, good) \o Keep(u, good), x) ELSE Keep(s, good) \o Keep(u, good)
    <3> DEFINE v == s \o u
    <3>1. v \in Seq(S)
      BY <2>1
    <3> HIDE DEF v
    <3>2. Keep(Append(v, x), good) = IF x \in good THEN Append(Keep(v, good), x) ELSE Keep(v, good)
      BY <3>1, KeepAppend
    <3> QED
      BY <2>1, <2>2, <3>2 DEF v
  <2>4. Keep(Append(u, x), good) = IF x \in good THEN Append(Keep(u, good), x) ELSE Keep(u, good)
    BY <2>1, KeepAppend
  <2>5. Keep(s, good) \in Seq(S \cap good) /\ Keep(u, good) \in Seq(S \cap good)
    BY <2>1, KeepType
  <2>6. x \in good => Keep(s, good) \o Append(Keep(u, good), x) = Append(Keep(s, good) \o Keep(u, good), x)
    BY <2>5
  <2> QED
    BY <2>1, <2>3, <2>4, <2>6
<1> HIDE DEF P
<1>3. P = Seq(S)
  <2>1. P \in SUBSET Seq(S)
    BY DEF P
  <2> QED
    BY <1>1, <1>2, <2>1, ListInduction
<1> QED
  BY <1>3 DEF P

(* A list of which all is kept, and one of which nothing is. *)
LEMMA KeepAll ==
  ASSUME NEW S, NEW s \in Seq(S), NEW good, S \subseteq good
  PROVE  Keep(s, good) = s
<1> DEFINE P == {t \in Seq(S) : Keep(t, good) = t}
<1>1. <<>> \in P
  BY KeepEmpty
<1>2. ASSUME NEW t \in P, NEW x \in S PROVE Append(t, x) \in P
  <2>1. t \in Seq(S) /\ Keep(t, good) = t /\ Append(t, x) \in Seq(S) /\ x \in good
    OBVIOUS
  <2> QED
    BY <2>1, KeepAppend
<1> HIDE DEF P
<1>3. P = Seq(S)
  <2>1. P \in SUBSET Seq(S)
    BY DEF P
  <2> QED
    BY <1>1, <1>2, <2>1, ListInduction
<1> QED
  BY <1>3 DEF P

(* A list with nothing of the set leaves nothing. *)
LEMMA KeepNone ==
  ASSUME NEW S, NEW s \in Seq(S), NEW good, S \cap good = {}
  PROVE  Keep(s, good) = <<>>
<1> DEFINE P == {t \in Seq(S) : Keep(t, good) = <<>>}
<1>1. <<>> \in P
  BY KeepEmpty
<1>2. ASSUME NEW t \in P, NEW x \in S PROVE Append(t, x) \in P
  <2>1. t \in Seq(S) /\ Keep(t, good) = <<>> /\ Append(t, x) \in Seq(S) /\ x \notin good
    OBVIOUS
  <2> QED
    BY <2>1, KeepAppend
<1> HIDE DEF P
<1>3. P = Seq(S)
  <2>1. P \in SUBSET Seq(S)
    BY DEF P
  <2> QED
    BY <1>1, <1>2, <2>1, ListInduction
<1> QED
  BY <1>3 DEF P

(* What two sets keep, one after the other, their intersection keeps. *)
LEMMA KeepKeep ==
  ASSUME NEW S, NEW s \in Seq(S), NEW g, NEW h
  PROVE  Keep(Keep(s, g), h) = Keep(s, g \cap h)
<1> DEFINE P == {t \in Seq(S) : Keep(Keep(t, g), h) = Keep(t, g \cap h)}
<1>1. <<>> \in P
  BY KeepEmpty
<1>2. ASSUME NEW t \in P, NEW x \in S PROVE Append(t, x) \in P
  <2>1. t \in Seq(S) /\ Keep(Keep(t, g), h) = Keep(t, g \cap h) /\ Append(t, x) \in Seq(S)
    OBVIOUS
  <2>2. Keep(t, g) \in Seq(S)
    <3>1. Keep(t, g) \in Seq(S \cap g)
      BY <2>1, KeepType
    <3> QED
      BY <3>1
  <2>3. Keep(Append(t, x), g \cap h) = IF x \in g \cap h THEN Append(Keep(t, g \cap h), x) ELSE Keep(t, g \cap h)
    BY <2>1, KeepAppend
  <2>4. Keep(Append(t, x), g) = IF x \in g THEN Append(Keep(t, g), x) ELSE Keep(t, g)
    BY <2>1, KeepAppend
  <2>5. Keep(Append(Keep(t, g), x), h) = IF x \in h THEN Append(Keep(Keep(t, g), h), x) ELSE Keep(Keep(t, g), h)
    BY <2>2, KeepAppend
  <2>6. CASE x \in g
    <3>1. Keep(Keep(Append(t, x), g), h) = Keep(Append(Keep(t, g), x), h)
      BY <2>4, <2>6
    <3>2. CASE x \in h
      BY <2>1, <2>3, <2>5, <2>6, <3>1, <3>2
    <3>3. CASE x \notin h
      BY <2>1, <2>3, <2>5, <3>1, <3>3
    <3> QED
      BY <3>2, <3>3
  <2>7. CASE x \notin g
    BY <2>1, <2>3, <2>4, <2>7
  <2> QED
    BY <2>6, <2>7
<1> HIDE DEF P
<1>3. P = Seq(S)
  <2>1. P \in SUBSET Seq(S)
    BY DEF P
  <2> QED
    BY <1>1, <1>2, <2>1, ListInduction
<1> QED
  BY <1>3 DEF P

-----------------------------------------------------------------------------
(* t is s without the element at first. *)
LacksOne(t, s, first) ==
  /\ first \in 1..Len(s) /\ Len(t) = Len(s) - 1
  /\ \A i \in 1..Len(t) : t[i] = s[IF i < first THEN i ELSE i + 1]

(* DropFirst leaves out one element that is in the set, if there is one. *)
LEMMA DropFirstIs ==
  ASSUME NEW S, NEW s \in Seq(S), NEW bad
  PROVE  /\ DropFirst(s, bad) \in Seq(S)
         /\ \/ DropFirst(s, bad) = s /\ \A i \in 1..Len(s) : s[i] \notin bad
            \/ \E first \in 1..Len(s) : s[first] \in bad /\ LacksOne(DropFirst(s, bad), s, first)
<1> DEFINE is == {i \in 1..Len(s) : s[i] \in bad}
           first == CHOOSE i \in is : \A j \in is : i <= j
           t == DropFirst(s, bad)
<1>1. CASE is = {}
  <2>1. t = s
    BY <1>1 DEF DropFirst
  <2> QED
    BY <1>1, <2>1
<1>2. CASE is # {}
  <2>1. t = SubSeq(s, 1, first - 1) \o SubSeq(s, first + 1, Len(s))
    BY <1>2 DEF DropFirst
  <2>2. first \in is
    <3>1. is \in SUBSET Nat
      OBVIOUS
    <3>2. \E i \in is : \A j \in is : i <= j
      BY <1>2, <3>1, LeastNumber
    <3> QED
      BY <3>2
  <2> HIDE DEF first, t
  <2>3. first \in 1..Len(s) /\ s[first] \in bad /\ Len(s) \in Nat
    BY <2>2
  <2> DEFINE a == SubSeq(s, 1, first - 1)
             b == SubSeq(s, first + 1, Len(s))
  <2>4. a \in Seq(S) /\ Len(a) = first - 1 /\ \A i \in 1..Len(a) : a[i] = s[i]
    BY <2>3
  <2>5. b \in Seq(S) /\ Len(b) = Len(s) - first /\ \A i \in 1..Len(b) : b[i] = s[first + i]
    BY <2>3
  <2>6. t = a \o b
    BY <2>1
  <2> HIDE DEF a, b
  <2>7. t \in Seq(S) /\ Len(t) = Len(s) - 1
    BY <2>3, <2>4, <2>5, <2>6
  <2>8. ASSUME NEW i \in 1..Len(t) PROVE t[i] = s[IF i < first THEN i ELSE i + 1]
    <3>1. CASE i < first
      <4>1. i \in 1..Len(a)
        BY <2>3, <2>4, <3>1
      <4> QED
        BY <2>4, <2>5, <2>6, <3>1, <4>1
    <3>2. CASE ~(i < first)
      <4>1. i - Len(a) \in 1..Len(b) /\ i > Len(a) /\ i \in 1..Len(a) + Len(b) /\ first + (i - Len(a)) = i + 1
        BY <2>3, <2>4, <2>5, <2>7, <3>2
      <4>2. t[i] = b[i - Len(a)]
        <5>1. a \in Seq(S) /\ b \in Seq(S) /\ Len(a) \in Nat /\ Len(b) \in Nat
          BY <2>3, <2>4, <2>5
        <5>2. (a \o b)[i] = b[i - Len(a)]
          BY <4>1, <5>1
        <5> QED
          BY <2>6, <5>2
      <4> QED
        BY <2>5, <3>2, <4>1, <4>2
    <3> QED
      BY <3>1, <3>2
  <2>9. LacksOne(t, s, first)
    BY <2>3, <2>7, <2>8 DEF LacksOne
  <2> QED
    BY <2>3, <2>7, <2>9 DEF t
<1> QED
  BY <1>1, <1>2
=============================================================================

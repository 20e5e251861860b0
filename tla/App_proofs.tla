----------------------------- MODULE App_proofs -----------------------------
(***************************************************************************)
(* Theorems about App, for every set of names, priorities and callers and  *)
(* every bound on the number of registrations.                             *)
(***************************************************************************)
EXTENDS App, SequenceTheorems, WellFoundedInduction, TLAPS

(* Sequences and natural numbers: what InsertAt and RemoveAt build, and that *)
(* a nonempty set of natural numbers has a least element.                    *)

\* A nonempty set of natural numbers has a least element.
LEMMA LeastNat ==
    ASSUME NEW T \in SUBSET Nat, T # {}
    PROVE  \E x \in T : \A y \in T : x <= y
<1> DEFINE R == {ss \in Nat \X Nat : ss[1] < ss[2]}
<1>1. IsWellFoundedOn(R, Nat)
  BY NatLessThanWellFounded, Zenon DEF OpToRel
<1> HIDE DEF R
<1>2. PICK x \in T : \A y \in T : ~ (<<y, x>> \in R)
  BY <1>1, WFMin
<1>3. \A y \in T : <<y, x>> \in R <=> y < x
  BY DEF R
<1>4. \A y \in T : x <= y
  <2> SUFFICES ASSUME NEW y \in T PROVE x <= y
    OBVIOUS
  <2>1. ~ (y < x)
    BY <1>2, <1>3
  <2>2. x \in Nat /\ y \in Nat
    OBVIOUS
  <2> QED
    BY <2>1, <2>2, SMT
<1> QED
  BY <1>4, Zenon

\* What InsertAt builds: the new element at its place, the ones before it
\* where they were, the ones behind it one place further.
LEMMA InsertAtProperties ==
    ASSUME NEW S, NEW s \in Seq(S), NEW e \in S, NEW i \in 1..Len(s) + 1
    PROVE  /\ InsertAt(s, i, e) \in Seq(S)
           /\ Len(InsertAt(s, i, e)) = Len(s) + 1
           /\ \A j \in 1..i - 1 : InsertAt(s, i, e)[j] = s[j]
           /\ InsertAt(s, i, e)[i] = e
           /\ \A j \in i + 1..Len(s) + 1 : InsertAt(s, i, e)[j] = s[j - 1]
<1> DEFINE a == SubSeq(s, 1, i - 1)
           b == <<e>>
           c == SubSeq(s, i, Len(s))
           ab == a \o b
<1>1. /\ a \in Seq(S) /\ Len(a) = i - 1
      /\ \A j \in 1..i - 1 : a[j] = s[j]
  OBVIOUS
<1>2. b \in Seq(S) /\ Len(b) = 1 /\ b[1] = e
  OBVIOUS
<1>3. /\ c \in Seq(S) /\ Len(c) = Len(s) + 1 - i
      /\ \A j \in 1..Len(s) + 1 - i : c[j] = s[j + i - 1]
  OBVIOUS
<1>4. InsertAt(s, i, e) = ab \o c
  BY DEF InsertAt
<1> HIDE DEF a, b, c
<1>5. /\ ab \in Seq(S) /\ Len(ab) = Len(a) + Len(b)
      /\ \A j \in 1..Len(a) + Len(b) : ab[j] = IF j <= Len(a) THEN a[j] ELSE b[j - Len(a)]
  BY <1>1, <1>2, ConcatProperties
<1> HIDE DEF ab
<1>6. /\ Len(ab) = i
      /\ \A j \in 1..i : ab[j] = IF j < i THEN s[j] ELSE e
  BY <1>1, <1>2, <1>5
<1>6a. ab \in Seq(S) /\ c \in Seq(S)
  BY <1>3, <1>5
<1>7. /\ ab \o c \in Seq(S) /\ Len(ab \o c) = Len(ab) + Len(c)
      /\ \A j \in 1..Len(ab) + Len(c) : (ab \o c)[j] = IF j <= Len(ab) THEN ab[j] ELSE c[j - Len(ab)]
  BY <1>6a, ConcatProperties, Zenon
<1>8. Len(ab) + Len(c) = Len(s) + 1
  BY <1>3, <1>6
<1>9. ASSUME NEW j \in 1..Len(s) + 1
      PROVE  (ab \o c)[j] = IF j < i THEN s[j] ELSE IF j = i THEN e ELSE s[j - 1]
  <2>0. j <= i \/ j > i
    OBVIOUS
  <2>1. CASE j <= i
    BY <1>6, <1>7, <1>8, <2>1
  <2>2. CASE j > i
    <3>1. (ab \o c)[j] = c[j - i]
      BY <1>6, <1>7, <1>8, <2>2
    <3>2. j - i \in 1..Len(s) + 1 - i /\ (j - i) + i - 1 = j - 1
      BY <2>2
    <3> QED
      BY <1>3, <2>2, <3>1, <3>2
  <2> QED
    BY <2>0, <2>1, <2>2, Zenon
<1> QED
  BY <1>4, <1>7, <1>8, <1>9

\* What RemoveAt leaves: the elements behind the removed one move up.
LEMMA RemoveAtProperties ==
    ASSUME NEW S, NEW s \in Seq(S), NEW i \in 1..Len(s)
    PROVE  /\ RemoveAt(s, i) \in Seq(S)
           /\ Len(RemoveAt(s, i)) = Len(s) - 1
           /\ \A j \in 1..i - 1 : RemoveAt(s, i)[j] = s[j]
           /\ \A j \in i..Len(s) - 1 : RemoveAt(s, i)[j] = s[j + 1]
<1> DEFINE a == SubSeq(s, 1, i - 1)
           c == SubSeq(s, i + 1, Len(s))
<1>1. /\ a \in Seq(S) /\ Len(a) = i - 1
      /\ \A j \in 1..i - 1 : a[j] = s[j]
  OBVIOUS
<1>2. /\ c \in Seq(S) /\ Len(c) = Len(s) - i
      /\ \A j \in 1..Len(s) - i : c[j] = s[j + i]
  OBVIOUS
<1>3. RemoveAt(s, i) = a \o c
  BY DEF RemoveAt
<1> HIDE DEF a, c
<1>4. /\ a \o c \in Seq(S) /\ Len(a \o c) = Len(a) + Len(c)
      /\ \A j \in 1..Len(a) + Len(c) : (a \o c)[j] = IF j <= Len(a) THEN a[j] ELSE c[j - Len(a)]
  BY <1>1, <1>2, ConcatProperties
<1>5. Len(a) + Len(c) = Len(s) - 1
  BY <1>1, <1>2
<1>6. ASSUME NEW j \in 1..Len(s) - 1
      PROVE  (a \o c)[j] = IF j < i THEN s[j] ELSE s[j + 1]
  <2>0. j < i \/ j >= i
    OBVIOUS
  <2>1. CASE j < i
    <3>1. j \in 1..Len(a) + Len(c) /\ j <= Len(a) /\ j \in 1..i - 1
      BY <1>1, <1>5, <2>1
    <3>2. (a \o c)[j] = a[j]
      BY <1>4, <3>1, Zenon
    <3>3. a[j] = s[j]
      BY <1>1, <3>1, Zenon
    <3> QED
      BY <2>1, <3>2, <3>3, Zenon
  <2>2. CASE j >= i
    <3>1. (a \o c)[j] = c[j - (i - 1)]
      BY <1>1, <1>4, <1>5, <2>2
    <3>2. j - (i - 1) \in 1..Len(s) - i /\ (j - (i - 1)) + i = j + 1
      BY <2>2
    <3> QED
      BY <1>2, <2>2, <3>1, <3>2
  <2> QED
    BY <2>0, <2>1, <2>2, Zenon
<1>7. \A j \in 1..i - 1 : j \in 1..Len(s) - 1 /\ j < i
  OBVIOUS
<1>8. \A j \in i..Len(s) - 1 : j \in 1..Len(s) - 1 /\ ~(j < i)
  OBVIOUS
<1>9. \A j \in 1..i - 1 : (a \o c)[j] = s[j]
  BY <1>6, <1>7, Zenon
<1>10. \A j \in i..Len(s) - 1 : (a \o c)[j] = s[j + 1]
  BY <1>6, <1>8, Zenon
<1>11. a \o c \in Seq(S) /\ Len(a \o c) = Len(s) - 1
  BY <1>4, <1>5
<1> QED
  BY <1>3, <1>9, <1>10, <1>11, Zenon

-----------------------------------------------------------------------------

\* In a live process the mutex belongs to the goroutine that runs a shutdown
\* function or stands in the sweep; the function that runs is the head of the
\* list in the sweep, and the first of its name in ShutdownByName.
MutexInv ==
    ~Over =>
      /\ \A p \in Procs : pc[p] \in {"calling", "stopping"} <=> mutex = p
      /\ \A p \in Procs : pc[p] = "calling" => target[p] \in 1..Len(list)
      /\ pc[Main] = "calling" => target[Main] = 1
      /\ \A c \in Callers : pc[c] = "calling" =>
           \A j \in 1..target[c] - 1 : list[j].name # list[target[c]].name

\* No two nodes have the same id.
UniqueIds == \A x, y \in ToSet(list) : x.id = y.id => x = y

\* The inductive invariant: the order and the accounting of the list need the
\* mutex (a node is removed where its caller found it) and each other (a new
\* id is larger than every id in the list).
IInv == TypeOK /\ MutexInv /\ RegistryOrder /\ UniqueIds /\ Accounted

-----------------------------------------------------------------------------
(* The operations on the list *)

\* The fields of a node.
LEMMA NodeType ==
    ASSUME NEW e \in Node
    PROVE  e.id \in 1..MaxRegs /\ e.id \in Int
           /\ e.priority \in Priorities /\ e.priority \in Int
<1>1. e.id \in 1..MaxRegs /\ e.priority \in Priorities
  BY DEF Node
<1>2. 1..MaxRegs \subseteq Int
  BY MaxRegsIsNat
<1> QED
  BY <1>1, <1>2, PrioritiesAreInts, Zenon

\* The fields of the nodes of a list.
LEMMA NodeFields ==
    ASSUME NEW s \in Seq(Node)
    PROVE  /\ Len(s) \in Nat
           /\ \A k \in 1..Len(s) : /\ s[k] \in Node
                                   /\ s[k].id \in 1..MaxRegs
                                   /\ s[k].id \in Int
                                   /\ s[k].priority \in Int
<1>1. Len(s) \in Nat /\ \A k \in 1..Len(s) : s[k] \in Node
  OBVIOUS
<1> QED
  BY <1>1, NodeType, Zenon

\* There is a place for every new node, so InsertPos denotes it: the nodes in
\* front of it have a priority at most pr, the one it pushes back a greater one.
LEMMA InsertPosProperties ==
    ASSUME NEW s \in Seq(Node), NEW pr \in Priorities
    PROVE  /\ InsertPos(s, pr) \in 1..Len(s) + 1
           /\ \A j \in 1..InsertPos(s, pr) - 1 : s[j].priority <= pr
           /\ InsertPos(s, pr) <= Len(s) => s[InsertPos(s, pr)].priority > pr
<1> DEFINE P(i) == /\ \A j \in 1..i - 1 : s[j].priority <= pr
                   /\ i <= Len(s) => s[i].priority > pr
           T == {k \in 1..Len(s) : s[k].priority > pr}
<1>1. Len(s) \in Nat /\ pr \in Int /\ \A k \in 1..Len(s) : s[k].priority \in Int
  BY PrioritiesAreInts, NodeFields, Zenon
<1>2. \E i \in 1..Len(s) + 1 : P(i)
  <2>1. CASE T = {}
    <3>1. P(Len(s) + 1)
      BY <1>1, <2>1
    <3> QED
      BY <1>1, <3>1
  <2>2. CASE T # {}
    <3>0. T \in SUBSET Nat
      BY <1>1
    <3>1. PICK i \in T : \A k \in T : i <= k
      <4> HIDE DEF T
      <4> QED
        BY <2>2, <3>0, LeastNat, Zenon
    <3>2. P(i)
      BY <1>1, <3>1
    <3> QED
      BY <1>1, <3>1, <3>2
  <2> QED
    BY <2>1, <2>2
<1> QED
  BY <1>2 DEF InsertPos

Sorted(s) == \A i, j \in 1..Len(s) : i < j => Before(s[i], s[j])

\* Inserting a node with the largest id at InsertPos keeps a list sorted: it
\* goes behind every node of its priority, in front of all greater ones.
LEMMA InsertKeepsOrder ==
    ASSUME NEW s \in Seq(Node), NEW e \in Node, Sorted(s),
           \A k \in 1..Len(s) : s[k].id < e.id
    PROVE  LET t == InsertAt(s, InsertPos(s, e.priority), e)
           IN  t \in Seq(Node) /\ Sorted(t) /\ ToSet(t) = ToSet(s) \cup {e}
<1> DEFINE i == InsertPos(s, e.priority)
           t == InsertAt(s, i, e)
           pri == [k \in 1..Len(s) |-> s[k].priority]
           id == [k \in 1..Len(s) |-> s[k].id]
<1>1. e.priority \in Priorities /\ e.priority \in Int /\ e.id \in Int
  BY NodeType
<1>2. /\ Len(s) \in Nat
      /\ pri \in [1..Len(s) -> Int]
      /\ id \in [1..Len(s) -> Int]
      /\ \A k \in 1..Len(s) : s[k].priority = pri[k] /\ s[k].id = id[k]
  BY NodeFields, Zenon
<1>3. /\ i \in 1..Len(s) + 1
      /\ \A j \in 1..i - 1 : s[j].priority <= e.priority
      /\ i <= Len(s) => s[i].priority > e.priority
  BY <1>1, InsertPosProperties, Zenon
<1> HIDE DEF i, pri, id
<1>4. /\ t \in Seq(Node)
      /\ Len(t) = Len(s) + 1
      /\ \A j \in 1..i - 1 : t[j] = s[j]
      /\ t[i] = e
      /\ \A j \in i + 1..Len(s) + 1 : t[j] = s[j - 1]
  BY <1>3, InsertAtProperties, SMT
<1> HIDE DEF t
<1>4a. Len(s) \in Nat /\ i \in 1..Len(s) + 1
  BY <1>2, <1>3, Zenon
<1>5. ASSUME NEW j \in 1..Len(s) + 1, NEW k \in 1..Len(s) + 1, j < k
      PROVE  Before(t[j], t[k])
  <2>1. \A x, y \in 1..Len(s) : x < y =>
          pri[x] < pri[y] \/ (pri[x] = pri[y] /\ id[x] < id[y])
    BY <1>2 DEF Sorted, Before
  <2>2. \A x \in 1..Len(s) : x >= i => pri[x] > e.priority
    <3> SUFFICES ASSUME NEW x \in 1..Len(s), x >= i PROVE pri[x] > e.priority
      OBVIOUS
    <3>1. i \in 1..Len(s) /\ pri[i] > e.priority
      BY <1>2, <1>3
    <3>2. CASE x = i
      BY <3>1, <3>2
    <3>3. CASE x > i
      <4>1. pri[i] < pri[x] \/ pri[i] = pri[x]
        BY <2>1, <3>1, <3>3
      <4>2. pri[i] \in Int /\ pri[x] \in Int
        BY <1>2, <3>1
      <4> QED
        BY <1>1, <3>1, <4>1, <4>2
    <3> QED
      BY <1>4a, <3>2, <3>3
  <2>3. \A x \in 1..i - 1 : pri[x] <= e.priority /\ id[x] < e.id
    BY <1>2, <1>3
  <2>4. CASE k < i
    <3>1. j \in 1..i - 1 /\ k \in 1..i - 1 /\ j \in 1..Len(s) /\ k \in 1..Len(s)
      BY <1>4a, <1>5, <2>4
    <3>2. t[j] = s[j] /\ t[k] = s[k]
      BY <1>4, <3>1, Zenon
    <3> QED
      BY <1>5, <3>1, <3>2, Zenon DEF Sorted
  <2>5. CASE k = i
    <3>1. j \in 1..i - 1 /\ j \in 1..Len(s)
      BY <1>4a, <1>5, <2>5
    <3>2. t[j] = s[j] /\ t[k] = e
      BY <1>4, <2>5, <3>1, Zenon
    <3> QED
      BY <1>1, <1>2, <2>3, <3>1, <3>2 DEF Before
  <2>6. CASE k > i /\ j < i
    <3>1. t[j] = s[j] /\ t[k] = s[k - 1] /\ j < k - 1 /\ j \in 1..Len(s) /\ k - 1 \in 1..Len(s)
      BY <1>2, <1>3, <1>4, <2>6
    <3> QED
      BY <3>1 DEF Sorted
  <2>7. CASE k > i /\ j = i
    <3>1. t[j] = e /\ t[k] = s[k - 1] /\ k - 1 >= i /\ k - 1 \in 1..Len(s)
      BY <1>2, <1>3, <1>4, <2>7
    <3> QED
      BY <1>1, <1>2, <2>2, <3>1 DEF Before
  <2>8. CASE k > i /\ j > i
    <3>1. /\ j \in i + 1..Len(s) + 1 /\ k \in i + 1..Len(s) + 1
          /\ j - 1 \in 1..Len(s) /\ k - 1 \in 1..Len(s) /\ j - 1 < k - 1
      BY <1>4a, <1>5, <2>8
    <3>2. t[j] = s[j - 1] /\ t[k] = s[k - 1]
      BY <1>4, <3>1, Zenon
    <3> QED
      BY <3>1, <3>2, Zenon DEF Sorted
  <2>9. k < i \/ k = i \/ (k > i /\ (j < i \/ j = i \/ j > i))
    BY <1>2, <1>3
  <2> QED
    BY <2>4, <2>5, <2>6, <2>7, <2>8, <2>9, Zenon
<1>6. Sorted(t)
  BY <1>4, <1>5 DEF Sorted
<1>7. ToSet(t) = ToSet(s) \cup {e}
  <2>1. \A j \in 1..Len(t) : t[j] = e \/ \E k \in 1..Len(s) : t[j] = s[k]
    <3> SUFFICES ASSUME NEW j \in 1..Len(t)
                 PROVE  t[j] = e \/ \E k \in 1..Len(s) : t[j] = s[k]
      OBVIOUS
    <3>1. CASE j < i
      <4>1. t[j] = s[j] /\ j \in 1..Len(s)
        BY <1>2, <1>3, <1>4, <3>1
      <4> QED
        BY <4>1
    <3>2. CASE j > i
      <4>1. t[j] = s[j - 1] /\ j - 1 \in 1..Len(s)
        BY <1>2, <1>3, <1>4, <3>2
      <4> QED
        BY <4>1
    <3> QED
      BY <1>2, <1>3, <1>4, <3>1, <3>2
  <2>2. \A k \in 1..Len(s) : \E j \in 1..Len(t) : t[j] = s[k]
    <3> SUFFICES ASSUME NEW k \in 1..Len(s)
                 PROVE  \E j \in 1..Len(t) : t[j] = s[k]
      OBVIOUS
    <3>1. CASE k < i
      <4>1. t[k] = s[k] /\ k \in 1..Len(t)
        BY <1>2, <1>3, <1>4, <3>1
      <4> QED
        BY <4>1
    <3>2. CASE k >= i
      <4>1. t[k + 1] = s[(k + 1) - 1] /\ k + 1 \in 1..Len(t) /\ (k + 1) - 1 = k
        BY <1>2, <1>3, <1>4, <3>2
      <4> QED
        BY <4>1
    <3> QED
      BY <1>2, <1>3, <3>1, <3>2
  <2>3. i \in 1..Len(t) /\ t[i] = e
    BY <1>2, <1>3, <1>4
  <2>4. DOMAIN s = 1..Len(s) /\ DOMAIN t = 1..Len(t)
    BY <1>4
  <2>5. ToSet(t) \subseteq ToSet(s) \cup {e}
    BY <2>1, <2>4, Zenon DEF ToSet
  <2>6. ToSet(s) \subseteq ToSet(t) /\ e \in ToSet(t)
    BY <2>2, <2>3, <2>4 DEF ToSet
  <2> QED
    BY <2>5, <2>6
<1> QED
  BY <1>4, <1>6, <1>7 DEF t, i

\* Two nodes of a sorted list at different places have different ids.
LEMMA SortedIdsDiffer ==
    ASSUME NEW s \in Seq(Node), Sorted(s),
           NEW j \in 1..Len(s), NEW k \in 1..Len(s), j # k
    PROVE  s[j] # s[k]
<1>1. Before(s[j], s[k]) \/ Before(s[k], s[j])
  BY DEF Sorted
<1>2. /\ s[j].id \in Int /\ s[k].id \in Int
      /\ s[j].priority \in Int /\ s[k].priority \in Int
  BY NodeFields
<1> QED
  BY <1>1, <1>2 DEF Before

\* Removing a node keeps a list sorted and removes no other node.
LEMMA RemoveKeepsOrder ==
    ASSUME NEW s \in Seq(Node), NEW i \in 1..Len(s), Sorted(s)
    PROVE  LET t == RemoveAt(s, i)
           IN  t \in Seq(Node) /\ Sorted(t) /\ ToSet(t) = ToSet(s) \ {s[i]}
<1> DEFINE t == RemoveAt(s, i)
           old(j) == IF j < i THEN j ELSE j + 1
<1>1. /\ t \in Seq(Node)
      /\ Len(t) = Len(s) - 1
      /\ \A j \in 1..i - 1 : t[j] = s[j]
      /\ \A j \in i..Len(s) - 1 : t[j] = s[j + 1]
  BY RemoveAtProperties, SMT
<1> HIDE DEF t
<1>2. \A j \in 1..Len(t) : old(j) \in 1..Len(s) /\ old(j) # i /\ t[j] = s[old(j)]
  BY <1>1
<1>3. \A j, k \in 1..Len(t) : j < k => old(j) < old(k)
  BY <1>1
<1>4. \A k \in 1..Len(s) : k # i => \E j \in 1..Len(t) : old(j) = k
  <2> SUFFICES ASSUME NEW k \in 1..Len(s), k # i
               PROVE  \E j \in 1..Len(t) : old(j) = k
    OBVIOUS
  <2>1. CASE k < i
    <3>1. k \in 1..Len(t) /\ old(k) = k
      BY <1>1, <2>1
    <3> QED
      BY <3>1
  <2>2. CASE k > i
    <3>1. k - 1 \in 1..Len(t) /\ old(k - 1) = k
      BY <1>1, <2>2
    <3> QED
      BY <3>1
  <2> QED
    BY <2>1, <2>2
<1> HIDE DEF old
<1>5. Sorted(t)
  BY <1>2, <1>3, Zenon DEF Sorted
<1>6. ToSet(t) = ToSet(s) \ {s[i]}
  <2>1. DOMAIN s = 1..Len(s) /\ DOMAIN t = 1..Len(t)
    BY <1>1
  <2>2. \A k \in 1..Len(s) : k # i => s[k] # s[i]
    BY SortedIdsDiffer, Zenon
  <2>3. ToSet(t) \subseteq ToSet(s) \ {s[i]}
    BY <1>2, <2>1, <2>2, Zenon DEF ToSet
  <2>4. ToSet(s) \ {s[i]} \subseteq ToSet(t)
    <3> SUFFICES ASSUME NEW x \in ToSet(s), x # s[i] PROVE x \in ToSet(t)
      OBVIOUS
    <3>1. PICK k \in 1..Len(s) : x = s[k]
      BY <2>1 DEF ToSet
    <3>2. PICK j \in 1..Len(t) : old(j) = k
      BY <1>4, <3>1
    <3>3. t[j] = x
      BY <1>2, <3>1, <3>2
    <3> QED
      BY <2>1, <3>3 DEF ToSet
  <2> QED
    BY <2>3, <2>4
<1> QED
  BY <1>1, <1>5, <1>6 DEF t
-----------------------------------------------------------------------------
(* The two steps that change the list *)

\* The pending ids are the ids of the nodes in the list.
LEMMA PendingIdsOfList ==
    ASSUME list \in Seq(Node)
    PROVE  PendingIds = {x.id : x \in ToSet(list)}
<1>1. DOMAIN list = 1..Len(list)
  OBVIOUS
<1> QED
  BY <1>1, Zenon DEF PendingIds, ToSet

LEMMA PendingIdsOfListNext ==
    ASSUME list' \in Seq(Node)
    PROVE  PendingIds' = {x.id : x \in ToSet(list')}
<1>1. DOMAIN list' = 1..Len(list')
  OBVIOUS
<1> QED
  BY <1>1, Zenon DEF PendingIds, ToSet

\* RegisterShutdown keeps the list typed, sorted and accounted for: the new
\* node has the largest id and goes behind every node of its priority.
LEMMA RegisterKeepsList ==
    ASSUME IInv, NEW p \in Procs, NEW n \in Names, NEW pr \in Priorities,
           RegisterShutdown(p, n, pr)
    PROVE  /\ list' \in Seq(Node) /\ RegistryOrder' /\ UniqueIds' /\ Accounted'
           /\ ToSet(list') = ToSet(list) \cup {[id |-> nreg + 1, name |-> n, priority |-> pr]}
<1> DEFINE e == [id |-> nreg + 1, name |-> n, priority |-> pr]
<1>1. e \in Node /\ nreg \in Nat /\ list \in Seq(Node)
  BY MaxRegsIsNat DEF IInv, TypeOK, RegisterShutdown, Node
<1>2. e.id = nreg + 1 /\ e.priority = pr
  OBVIOUS
<1>3. list' = InsertAt(list, InsertPos(list, pr), e) /\ nreg' = nreg + 1 /\ completed' = completed
  BY DEF RegisterShutdown
<1> HIDE DEF e
<1>4. PendingIds = {x.id : x \in ToSet(list)}
  BY <1>1, PendingIdsOfList
<1>5. \A x \in ToSet(list) : x.id \in 1..nreg
  BY <1>4, Zenon DEF IInv, Accounted
<1>6. \A k \in 1..Len(list) : list[k].id < e.id
  <2>1. \A k \in 1..Len(list) : list[k].id \in 1..nreg
    BY Zenon DEF IInv, Accounted, PendingIds
  <2> QED
    BY <1>1, <1>2, <2>1
<1>7. Sorted(list)
  BY Zenon DEF IInv, RegistryOrder, Sorted
<1>8. list' \in Seq(Node) /\ Sorted(list') /\ ToSet(list') = ToSet(list) \cup {e}
  BY <1>1, <1>2, <1>3, <1>6, <1>7, InsertKeepsOrder
<1>9. RegistryOrder'
  BY <1>8 DEF RegistryOrder, Sorted
<1>10. UniqueIds'
  <2>1. \A x \in ToSet(list) : x.id # e.id
    BY <1>1, <1>2, <1>5
  <2> QED
    BY <1>8, <2>1, Zenon DEF IInv, UniqueIds
<1>11. Accounted'
  <2>1. PendingIds' = {x.id : x \in ToSet(list')}
    BY <1>8, PendingIdsOfListNext
  <2>2. PendingIds' = PendingIds \cup {nreg + 1}
    BY <1>2, <1>4, <1>8, <2>1
  <2>3. 1..nreg' = (1..nreg) \cup {nreg + 1} /\ nreg + 1 \notin 1..nreg
    BY <1>1, <1>3
  <2> QED
    BY <1>3, <2>2, <2>3 DEF IInv, Accounted
<1> QED
  BY <1>8, <1>9, <1>10, <1>11 DEF e

\* When a shutdown function returns, exactly its node leaves the list and its
\* id is completed.
LEMMA ReturnKeepsList ==
    ASSUME IInv, NEW p \in Procs, FnReturns(p)
    PROVE  /\ list' \in Seq(Node) /\ RegistryOrder' /\ UniqueIds' /\ Accounted'
           /\ target[p] \in 1..Len(list)
           /\ ToSet(list') = ToSet(list) \ {list[target[p]]}
<1> DEFINE i == target[p]
           e == list[i]
<1>1. list \in Seq(Node) /\ i \in 1..Len(list)
  BY DEF IInv, TypeOK, MutexInv, FnReturns
<1>2. list' = RemoveAt(list, i) /\ completed' = completed \cup {e.id} /\ nreg' = nreg
  BY DEF FnReturns, Unlink
<1>3. e \in ToSet(list)
  BY <1>1 DEF ToSet
<1>4. Sorted(list)
  BY Zenon DEF IInv, RegistryOrder, Sorted
<1>5. list' \in Seq(Node) /\ Sorted(list') /\ ToSet(list') = ToSet(list) \ {e}
  BY <1>1, <1>2, <1>4, RemoveKeepsOrder
<1> HIDE DEF e
<1>6. RegistryOrder'
  BY <1>5 DEF RegistryOrder, Sorted
<1>7. UniqueIds'
  BY <1>5, Zenon DEF IInv, UniqueIds
<1>8. Accounted'
  <2>1. PendingIds = {x.id : x \in ToSet(list)}
    BY <1>1, PendingIdsOfList
  <2>2. PendingIds' = {x.id : x \in ToSet(list')}
    BY <1>5, PendingIdsOfListNext
  <2>3. \A x \in ToSet(list) : x # e => x.id # e.id
    BY <1>3, Zenon DEF IInv, UniqueIds
  <2>4. PendingIds' = PendingIds \ {e.id} /\ e.id \in PendingIds
    BY <1>3, <1>5, <2>1, <2>2, <2>3
  <2> QED
    BY <1>2, <2>4 DEF IInv, Accounted
<1> QED
  BY <1>1, <1>5, <1>6, <1>7, <1>8 DEF e

-----------------------------------------------------------------------------
(* Invariance *)

\* Every step but a registration and the return of a function leaves the list
\* alone.
LEMMA OtherStepsKeepList ==
    ASSUME [Next]_vars,
           ~ \E p \in Procs, n \in Names, pr \in Priorities : RegisterShutdown(p, n, pr),
           ~ \E p \in Procs : FnReturns(p)
    PROVE  UNCHANGED <<list, nreg, completed>>
  BY Zenon DEF Next, MainStep, ApiStep, WatcherStep, FnStep, Ended, vars, registry,
         Start, StartupFatal, StartupEnds, RunReturns, RecoverSend, StopAcquire,
         StopCallHead, StopDone, CancelAndExit, ShutdownByName, FnPanics, FnFatal,
         OsSignal, WatcherReceives, WatcherCancels, WatcherStopsNotify

\* The parts of the invariant that are about the list.
LEMMA ListInv ==
    ASSUME IInv, [Next]_vars
    PROVE  list' \in Seq(Node) /\ RegistryOrder' /\ UniqueIds' /\ Accounted'
<1>1. CASE \E p \in Procs, n \in Names, pr \in Priorities : RegisterShutdown(p, n, pr)
  BY <1>1, RegisterKeepsList, Zenon
<1>2. CASE \E p \in Procs : FnReturns(p)
  BY <1>2, ReturnKeepsList, Zenon
<1>3. CASE UNCHANGED <<list, nreg, completed>>
  BY <1>3 DEF IInv, TypeOK, RegistryOrder, UniqueIds, Accounted, PendingIds
<1> QED
  BY <1>1, <1>2, <1>3, OtherStepsKeepList, Zenon

\* The variables other than the list keep their types.
LEMMA TypeInv ==
    ASSUME IInv, [Next]_vars
    PROVE  TypeOK'
<1> USE MainIsNotACaller, MaxRegsIsNat DEF IInv, Procs, MainPCs, CallerPCs, registry, signals
<1>0. list' \in Seq(Node)
  BY ListInv
<1>1. ASSUME NEW p \in Procs, NEW n \in Names, NEW pr \in Priorities,
             RegisterShutdown(p, n, pr)
      PROVE  TypeOK'
  BY <1>0, <1>1 DEF TypeOK, RegisterShutdown
<1>2. ASSUME NEW c \in Callers, NEW n \in Names, ShutdownByName(c, n)
      PROVE  TypeOK'
  BY <1>0, <1>2 DEF TypeOK, ShutdownByName, Lock
<1>3. ASSUME NEW p \in Procs, FnReturns(p)
      PROVE  TypeOK'
  <2>1. completed' \subseteq 1..MaxRegs
    <3>1. list[target[p]] \in Node
      BY <1>3, ReturnKeepsList DEF TypeOK
    <3>2. list[target[p]].id \in 1..MaxRegs
      BY <3>1, NodeType
    <3> QED
      BY <1>3, <3>2 DEF TypeOK, FnReturns
  <2> QED
    BY <1>0, <1>3, <2>1 DEF TypeOK, FnReturns
<1>4. ASSUME NEW p \in Procs, FnPanics(p)
      PROVE  TypeOK'
  BY <1>0, <1>4 DEF TypeOK, FnPanics, UnlockOnPanic
<1>5. ASSUME NEW p \in Procs, FnFatal(p)
      PROVE  TypeOK'
  BY <1>0, <1>5 DEF TypeOK, FnFatal
<1>6. CASE Start
  BY <1>0, <1>6 DEF TypeOK, Start
<1>7. CASE StartupFatal
  BY <1>0, <1>7 DEF TypeOK, StartupFatal
<1>8. CASE StartupEnds
  BY <1>0, <1>8 DEF TypeOK, StartupEnds
<1>9. CASE RunReturns
  BY <1>0, <1>9 DEF TypeOK, RunReturns
<1>10. CASE RecoverSend
  BY <1>0, <1>10 DEF TypeOK, RecoverSend
<1>11. CASE StopAcquire
  BY <1>0, <1>11 DEF TypeOK, StopAcquire, Lock
<1>12. CASE StopCallHead
  BY <1>0, <1>12 DEF TypeOK, StopCallHead
<1>13. CASE StopDone
  BY <1>0, <1>13 DEF TypeOK, StopDone
<1>14. CASE CancelAndExit
  BY <1>0, <1>14 DEF TypeOK, CancelAndExit
<1>15. CASE OsSignal
  BY <1>0, <1>15 DEF TypeOK, OsSignal
<1>16. CASE WatcherReceives
  BY <1>0, <1>16 DEF TypeOK, WatcherReceives
<1>17. CASE WatcherCancels
  BY <1>0, <1>17 DEF TypeOK, WatcherCancels
<1>18. CASE WatcherStopsNotify
  BY <1>0, <1>18 DEF TypeOK, WatcherStopsNotify
<1>19. CASE UNCHANGED vars
  BY <1>19 DEF TypeOK, vars
<1> QED
  BY <1>1, <1>2, <1>3, <1>4, <1>5, <1>6, <1>7, <1>8, <1>9, <1>10, <1>11, <1>12, <1>13, <1>14, <1>15, <1>16, <1>17, <1>18, <1>19, Zenon
     DEF Next, MainStep, ApiStep, WatcherStep, FnStep, Ended

\* The mutex is held exactly by the goroutine in a call or in the sweep.
LEMMA MutexStep ==
    ASSUME IInv, [Next]_vars
    PROVE  MutexInv'
<1> USE MainIsNotACaller, NoOneIsNobody
    DEF IInv, Procs, MainPCs, CallerPCs, registry, signals, TypeOK, MutexInv, Over
<1>1. ASSUME NEW p \in Procs, NEW n \in Names, NEW pr \in Priorities,
             RegisterShutdown(p, n, pr)
      PROVE  MutexInv'
  BY <1>1 DEF RegisterShutdown
<1>2. ASSUME NEW c \in Callers, NEW n \in Names, ShutdownByName(c, n)
      PROVE  MutexInv'
  BY <1>2 DEF ShutdownByName, Lock
<1>3. ASSUME NEW p \in Procs, FnReturns(p)
      PROVE  MutexInv'
  <2>1. \A q \in Procs : pc[q] \in {"calling", "stopping"} <=> q = p
    BY <1>3 DEF FnReturns
  <2>2. \A q \in Procs : pc'[q] # "calling"
    BY <1>3, <2>1 DEF FnReturns
  <2>3. CASE p = Main
    <3>1. mutex' = Main /\ \A q \in Procs : pc'[q] = "stopping" <=> q = Main
      BY <1>3, <2>1, <2>3 DEF FnReturns
    <3> QED
      BY <2>2, <3>1
  <2>4. CASE p # Main
    <3>1. mutex' = NoOne /\ \A q \in Procs : pc'[q] # "stopping"
      BY <1>3, <2>1, <2>4 DEF FnReturns
    <3> QED
      BY <2>2, <3>1
  <2> QED
    BY <2>3, <2>4
<1>4. ASSUME NEW p \in Procs, FnPanics(p)
      PROVE  MutexInv'
  BY <1>4 DEF FnPanics, UnlockOnPanic
<1>5. ASSUME NEW p \in Procs, FnFatal(p)
      PROVE  MutexInv'
  BY <1>5 DEF FnFatal
<1>6. CASE Start
  BY <1>6 DEF Start
<1>7. CASE StartupFatal
  BY <1>7 DEF StartupFatal
<1>8. CASE StartupEnds
  BY <1>8 DEF StartupEnds
<1>9. CASE RunReturns
  BY <1>9 DEF RunReturns
<1>10. CASE RecoverSend
  BY <1>10 DEF RecoverSend
<1>11. CASE StopAcquire
  BY <1>11 DEF StopAcquire, Lock
<1>12. CASE StopCallHead
  BY <1>12 DEF StopCallHead
<1>13. CASE StopDone
  BY <1>13 DEF StopDone
<1>14. CASE CancelAndExit
  BY <1>14 DEF CancelAndExit
<1>15. CASE OsSignal
  BY <1>15 DEF OsSignal
<1>16. CASE WatcherReceives
  BY <1>16 DEF WatcherReceives
<1>17. CASE WatcherCancels
  BY <1>17 DEF WatcherCancels
<1>18. CASE WatcherStopsNotify
  BY <1>18 DEF WatcherStopsNotify
<1>19. CASE UNCHANGED vars
  BY <1>19 DEF vars
<1> QED
  BY <1>1, <1>2, <1>3, <1>4, <1>5, <1>6, <1>7, <1>8, <1>9, <1>10, <1>11, <1>12, <1>13, <1>14, <1>15, <1>16, <1>17, <1>18, <1>19, Zenon
     DEF Next, MainStep, ApiStep, WatcherStep, FnStep, Ended

\* The invariant is inductive.
LEMMA InvInductive == Spec => []IInv
<1>1. Init => IInv
  <2> SUFFICES ASSUME Init PROVE IInv
    OBVIOUS
  <2>1. TypeOK
    <3>1. list \in Seq(Node)
      BY DEF Init
    <3>2. /\ pc \in [Procs -> MainPCs \cup CallerPCs]
          /\ pc[Main] \in MainPCs
          /\ \A c \in Callers : pc[c] \in CallerPCs
      BY MainIsNotACaller DEF Init, Procs, MainPCs, CallerPCs
    <3>3. target \in [Procs -> Nat] /\ nreg \in 0..MaxRegs /\ completed \subseteq 1..MaxRegs
      BY MaxRegsIsNat DEF Init
    <3>4. /\ mutex \in Procs \cup {NoOne} /\ sig \in BOOLEAN /\ notify \in BOOLEAN
          /\ watcher \in {"off", "wait", "got", "cancelled", "done"} /\ ctxDone \in BOOLEAN
      BY DEF Init
    <3> QED
      BY <3>1, <3>2, <3>3, <3>4 DEF TypeOK
  <2>2. MutexInv
    BY MainIsNotACaller, NoOneIsNobody DEF Init, MutexInv, Procs
  <2>3. RegistryOrder
    BY DEF Init, RegistryOrder
  <2>4. UniqueIds
    BY DEF Init, UniqueIds, ToSet
  <2>5. Accounted
    BY DEF Init, Accounted, PendingIds
  <2> QED
    BY <2>1, <2>2, <2>3, <2>4, <2>5 DEF IInv
<1>2. IInv /\ [Next]_vars => IInv'
  BY ListInv, TypeInv, MutexStep DEF IInv
<1> QED
  BY <1>1, <1>2, PTL DEF Spec

\* Every variable of the App keeps its type.
THEOREM TypeCorrect == Spec => []TypeOK
<1>1. IInv => TypeOK
  BY DEF IInv
<1> QED
  BY <1>1, InvInductive, PTL

\* Shutdown functions stand in the list by priority, and by registration among
\* equal priorities, whatever goroutines do to the registry.
THEOREM OrderHolds == Spec => []RegistryOrder
<1>1. IInv => RegistryOrder
  BY DEF IInv
<1> QED
  BY <1>1, InvInductive, PTL

\* No registered function is ever lost, and none is completed twice.
THEOREM AccountedHolds == Spec => []Accounted
<1>1. IInv => Accounted
  BY DEF IInv
<1> QED
  BY <1>1, InvInductive, PTL

\* At most one shutdown function runs at a time, under the mutex, and its node
\* stays in its place meanwhile.
THEOREM NoOverlapHolds == Spec => []NoOverlap
<1>1. IInv => NoOverlap
  BY NoOneIsNobody DEF IInv, TypeOK, MutexInv, NoOverlap
<1> QED
  BY <1>1, InvInductive, PTL

-----------------------------------------------------------------------------
(* Signals *)

\* Behind SignalKillsOnlyAfterCancel: the watcher cancels before it gives the
\* signals back to their default action.
SignalInv ==
    /\ watcher \in {"cancelled", "done"} => ctxDone
    /\ ~notify => watcher \in {"off", "done"}
    /\ SignalKillsOnlyAfterCancel

\* A signal ends a started process the hard way only after its context was
\* cancelled.
THEOREM SignalsHandled == Spec => []SignalKillsOnlyAfterCancel
<1>1. Init => SignalInv
  BY DEF Init, SignalInv, SignalKillsOnlyAfterCancel
<1>2. TypeOK /\ SignalInv /\ [Next]_vars => SignalInv'
  <2> SUFFICES ASSUME TypeOK, SignalInv, [Next]_vars
               PROVE  SignalInv'
    OBVIOUS
  <2> USE DEF SignalInv, SignalKillsOnlyAfterCancel, TypeOK, signals, Procs, Over
  <2>1. ASSUME NEW p \in Procs, NEW n \in Names, NEW pr \in Priorities,
               RegisterShutdown(p, n, pr)
        PROVE  SignalInv'
    BY <2>1 DEF RegisterShutdown
  <2>2. ASSUME NEW c \in Callers, NEW n \in Names, ShutdownByName(c, n)
        PROVE  SignalInv'
    BY <2>2, MainIsNotACaller DEF ShutdownByName
  <2>3. ASSUME NEW p \in Procs, FnStep(p)
        PROVE  SignalInv'
    BY <2>3 DEF FnStep, FnReturns, FnPanics, FnFatal
  <2>4. CASE MainStep
    BY <2>4 DEF MainStep, Start, StartupFatal, StartupEnds, RunReturns, RecoverSend,
                StopAcquire, StopCallHead, StopDone, CancelAndExit
  <2>5. CASE OsSignal
    BY <2>5 DEF OsSignal
  <2>6. CASE WatcherStep
    BY <2>6 DEF WatcherStep, WatcherReceives, WatcherCancels, WatcherStopsNotify
  <2>7. CASE UNCHANGED vars
    BY <2>7 DEF vars
  <2> QED
    BY <2>1, <2>2, <2>3, <2>4, <2>5, <2>6, <2>7, Zenon DEF Next, ApiStep, Ended
<1>3. SignalInv => SignalKillsOnlyAfterCancel
  BY DEF SignalInv
<1> QED
  BY <1>1, <1>2, <1>3, TypeCorrect, PTL DEF Spec

-----------------------------------------------------------------------------
(* Refinement *)

\* In a live process whose mutex main does not hold, no sweep is under way.
LEMMA PhaseOfFreeMutex ==
    ASSUME IInv, ~Over, mutex # Main
    PROVE  Phase \in {"open", "swept"}
  BY DEF IInv, TypeOK, MutexInv, Procs, Phase, Over, MainPCs

\* The head of the list is the first pending function.
LEMMA HeadIsFirst ==
    ASSUME IInv, NEW i \in 1..Len(list), NEW S \in SUBSET ToSet(list),
           list[i] \in S, \A j \in 1..i - 1 : list[j] \notin S
    PROVE  Registry!First(list[i], S)
<1>1. DOMAIN list = 1..Len(list) /\ Len(list) \in Nat
  BY DEF IInv, TypeOK
<1>2. ASSUME NEW b \in S \ {list[i]}
      PROVE  Registry!Before(list[i], b)
  <2>1. PICK k \in 1..Len(list) : b = list[k]
    BY <1>1 DEF ToSet
  <2>2. k > i
    BY <1>1, <1>2, <2>1
  <2>3. Before(list[i], list[k])
    BY <2>2 DEF IInv, RegistryOrder
  <2> QED
    BY <2>1, <2>3 DEF Before, Registry!Before
<1> QED
  BY <1>2 DEF Registry!First

\* The App implements the abstract registry: every step of a goroutine is a
\* registration, a completion in the right order, the beginning or the end of
\* a sweep or the death of the process, or leaves the registry as it is.
THEOREM RegistryRefined == Spec => RefinesRegistry
<1>1. Init => Registry!Init
  BY DEF Init, Registry!Init, Phase, ToSet, Procs
<1>2. IInv /\ [Next]_vars => [Registry!Next]_(Registry!vars)
  <2> SUFFICES ASSUME IInv, [Next]_vars
               PROVE  Registry!Next \/ UNCHANGED Registry!vars
    BY DEF Registry!vars
  <2>1. ASSUME NEW p \in Procs, NEW n \in Names, NEW pr \in Priorities,
               RegisterShutdown(p, n, pr)
        PROVE  Registry!Register
    <3>1. Phase \in {"open", "swept"}
      BY <2>1, PhaseOfFreeMutex, NoOneIsNobody DEF RegisterShutdown
    <3>2. Phase' = Phase /\ nreg' = nreg + 1 /\ completed' = completed
      BY <2>1 DEF RegisterShutdown, Phase
    <3> QED
      BY <2>1, <3>1, <3>2, RegisterKeepsList DEF Registry!Register
  <2>2. ASSUME NEW p \in Procs, FnReturns(p)
        PROVE  Registry!SweepOne \/ Registry!CompleteByName
    <3> DEFINE e == list[target[p]]
    <3>1. /\ target[p] \in 1..Len(list)
          /\ ToSet(list') = ToSet(list) \ {e}
          /\ completed' = completed \cup {e.id}
          /\ nreg' = nreg
      BY <2>2, ReturnKeepsList DEF FnReturns
    <3>2. e \in ToSet(list) /\ DOMAIN list = 1..Len(list)
      BY <3>1 DEF IInv, TypeOK, ToSet
    <3>3. CASE p = Main
      <4>1. target[p] = 1 /\ Phase = "sweeping" /\ Phase' = "sweeping"
        BY <2>2, <3>3 DEF FnReturns, IInv, MutexInv, TypeOK, Phase, Procs
      <4>2. Registry!First(e, ToSet(list))
        BY <3>1, <3>2, <4>1, HeadIsFirst
      <4> QED
        BY <3>1, <3>2, <4>1, <4>2 DEF Registry!SweepOne, Registry!Complete
    <3>4. CASE p # Main
      <4>1. Phase \in {"open", "swept"} /\ Phase' = Phase
        <5>1. mutex = p /\ ~Over
          BY <2>2 DEF FnReturns, IInv, MutexInv
        <5>2. pc'[Main] = pc[Main]
          BY <2>2, <3>4 DEF FnReturns, IInv, TypeOK, Procs
        <5> QED
          BY <3>4, <5>1, <5>2, PhaseOfFreeMutex DEF Phase
      <4>2. \A j \in 1..target[p] - 1 : list[j].name # e.name
        BY <2>2, <3>4 DEF FnReturns, IInv, MutexInv, Procs
      <4>3. Registry!First(e, {b \in ToSet(list) : b.name = e.name})
        BY <3>1, <3>2, <4>2, HeadIsFirst
      <4> QED
        BY <3>1, <3>2, <4>1, <4>3 DEF Registry!CompleteByName, Registry!Complete
    <3> QED
      BY <3>3, <3>4
  <2>3. ASSUME UNCHANGED <<list, nreg, completed>>
        PROVE  Registry!Next \/ UNCHANGED Registry!vars
    <3>0. UNCHANGED ToSet(list)
      BY <2>3
    <3>1. ASSUME NEW c \in Callers, NEW n \in Names, ShutdownByName(c, n)
          PROVE  Phase' = Phase
      BY <3>1, MainIsNotACaller DEF ShutdownByName, IInv, TypeOK, Procs, Phase
    <3>2. ASSUME NEW p \in Procs, FnPanics(p)
          PROVE  Phase' = Phase \/ Phase' = "dead"
      BY <3>2 DEF FnPanics, IInv, TypeOK, Procs, Phase
    <3>3. ASSUME NEW p \in Procs, FnFatal(p)
          PROVE  Phase' = "dead"
      BY <3>3 DEF FnFatal, IInv, TypeOK, Procs, Phase
    <3>4. CASE StopAcquire
      <4>1. Phase = "open" /\ Phase' = "sweeping"
        BY <3>4 DEF StopAcquire, IInv, TypeOK, Procs, Phase
      <4> QED
        BY <2>3, <3>0, <4>1 DEF Registry!BeginSweep, Registry!Next
    <3>5. CASE StopDone
      <4>1. Phase = "sweeping" /\ Phase' = "swept" /\ ToSet(list) = {}
        BY <3>5 DEF StopDone, IInv, TypeOK, Procs, Phase, ToSet
      <4> QED
        BY <2>3, <3>0, <4>1 DEF Registry!EndSweep, Registry!Next
    <3>6. CASE Start \/ StartupEnds \/ RunReturns \/ RecoverSend \/ StopCallHead \/ CancelAndExit
      <4>1. Phase' = Phase
        BY <3>6 DEF Start, StartupEnds, RunReturns, RecoverSend, StopCallHead, CancelAndExit,
                    IInv, TypeOK, Procs, Phase
      <4> QED
        BY <2>3, <3>0, <4>1 DEF Registry!vars
    <3>7. ASSUME StartupFatal
          PROVE  Phase' = "dead"
      BY <3>7 DEF StartupFatal, IInv, TypeOK, Procs, Phase
    <3>8. ASSUME OsSignal
          PROVE  Phase' = Phase \/ Phase' = "dead"
      BY <3>8 DEF OsSignal, IInv, TypeOK, Procs, Phase
    <3>9. ASSUME WatcherStep \/ UNCHANGED vars
          PROVE  Phase' = Phase
      BY <3>9 DEF WatcherStep, WatcherReceives, WatcherCancels, WatcherStopsNotify, vars, Phase
    <3>10. ASSUME Phase' = Phase \/ Phase' = "dead"
           PROVE  Registry!Next \/ UNCHANGED Registry!vars
      BY <2>3, <3>0, <3>10 DEF Registry!Die, Registry!Next, Registry!vars
    <3> QED
      BY <2>1, <2>2, <3>1, <3>2, <3>3, <3>4, <3>5, <3>6, <3>7, <3>8, <3>9, <3>10, Zenon
         DEF Next, MainStep, ApiStep, FnStep, Ended, Registry!Next
  <2> QED
    BY <2>1, <2>2, <2>3, OtherStepsKeepList, Zenon DEF Registry!Next
<1> QED
  BY <1>1, <1>2, InvInductive, PTL DEF Spec, RefinesRegistry, Registry!Spec
=============================================================================

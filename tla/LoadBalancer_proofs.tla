------------------------- MODULE LoadBalancer_proofs -------------------------
(***************************************************************************)
(* Theorems about LoadBalancer for any number of keys and URLs and any     *)
(* bounds.  The rotation is proved with the distance of a place from the   *)
(* one that is read next: places further off were served more recently     *)
(* (Rotation), and the objects of a scan that still have to be read lie    *)
(* ahead of it (Ahead).  The list is followed from etcd through the        *)
(* snapshot of a Get to the list that Install builds of it (Tracked).      *)
(***************************************************************************)
EXTENDS LoadBalancer, FiniteSetTheorems, FunctionTheorems, SequenceTheorems,
        WellFoundedInduction, TLAPS

Count == Cardinality(Keys \ {Own})

(* How many reads lie between the next read of a scan and that of place p. *)
Distance(p) == IF p > Current THEN p - 1 - Current ELSE p - 1 - Current + Len(Backends)

(* Of two alive places the one that comes later in the rotation has been    *)
(* served as often as the other, or once more.                              *)
Rotation ==
    \A p, q \in 1..Len(Backends) :
      alive[Backends[p]] /\ alive[Backends[q]] /\ Distance(p) < Distance(q) =>
        served[p] <= served[q] /\ served[q] <= served[p] + 1

(* An object that was alive all through the scan has not been read yet. *)
Ahead ==
    /\ scan = 0 => steady = {}
    /\ \A o \in steady :
         /\ alive[o]
         /\ o \in ToSet(Backends)
         /\ \A p \in 1..Len(Backends) : Backends[p] = o => Distance(p) + scan <= Len(Backends)

(* A scan is of a list with places, makes one read more than there are, and *)
(* ends at the first request it serves.                                     *)
Scanning ==
    scan > 0 => /\ Backends # << >>
                /\ scan <= Len(Backends) + 1
                /\ \A p \in Places : served[p] < MaxServed

(* etcd as the balancer knows it: an object of the list has a URL, and no   *)
(* snapshot is longer than the list may be.                                 *)
Sound ==
    /\ \A k \in Keys : reg[k] = OwnUrl <=> k = Own
    /\ \A o \in ToSet(Backends) : url[o] \in Urls
    /\ Len(snap) <= Count
    /\ events <= nchanges

(* As long as no Get failed and no change escaped the watch, the snapshot   *)
(* and then the list are what etcd holds, or an event is still to come.     *)
Tracked ==
    fresh /\ events = 0 =>
      /\ wpc \in {"run_install", "install"} => snap = Registered
      /\ wpc \in {"run_watch", "idle"} => BackendUrls = Registered

IInv == TypeOK /\ Sound /\ Scanning /\ Rotation /\ Ahead /\ Tracked

-----------------------------------------------------------------------------
(* Sets of numbers *)

\* A nonempty set of natural numbers has a least element.
LEMMA LeastNat ==
    ASSUME NEW T \in SUBSET Nat, T # {}
    PROVE  \E x \in T : \A y \in T : x <= y
<1> DEFINE R == {ss \in Nat \X Nat : ss[1] < ss[2]}
<1>1. IsWellFoundedOn(R, Nat)
  BY NatLessThanWellFounded, Zenon DEF OpToRel
<1> HIDE DEF R
<1>2. PICK x \in T : \A y \in T : ~ (<<y, x>> \in R)
  BY <1>1, WFMin
<1>3. \A y \in T : <<y, x>> \in R <=> y < x
  BY DEF R
<1>4. \A y \in T : x <= y
  <2> SUFFICES ASSUME NEW y \in T PROVE x <= y
    OBVIOUS
  <2>1. ~ (y < x)
    BY <1>2, <1>3
  <2>2. x \in Nat /\ y \in Nat
    OBVIOUS
  <2> QED
    BY <2>1, <2>2, SMT
<1> QED
  BY <1>4, Zenon

(* The sizes the constants give. *)
LEMMA Sizes ==
    /\ Count \in Nat
    /\ Cardinality(Keys) = Count + 1
    /\ Places = 1..Count /\ Cardinality(Places) = Count
    /\ Objects = 1..2 * Count /\ IsFiniteSet(Objects) /\ Cardinality(Objects) = 2 * Count
<1>1. IsFiniteSet(Keys \ {Own}) /\ Cardinality(Keys \ {Own}) = Cardinality(Keys) - 1
  BY KeysAreNumbers, FS_RemoveElement
<1>2. Count \in Nat /\ Cardinality(Keys) \in Nat
  BY <1>1, KeysAreNumbers, FS_CardinalityType DEF Count
<1>3. Places = 1..Count /\ Objects = 1..2 * Count
  BY DEF Places, Objects, Count
<1>4. Cardinality(1..Count) = Count
  BY <1>2, FS_Interval
<1>5. IsFiniteSet(1..2 * Count) /\ Cardinality(1..2 * Count) = 2 * Count
  BY <1>2, FS_Interval
<1> QED
  BY <1>1, <1>2, <1>3, <1>4, <1>5 DEF Count

(* A finite set of numbers has an i-th number, for each i up to its size. *)
LEMMA NthInSet ==
    ASSUME NEW S \in SUBSET Nat, IsFiniteSet(S), NEW i \in 1..Cardinality(S)
    PROVE  Nth(S, i) \in S /\ Cardinality({y \in S : y < Nth(S, i)}) = i - 1
<1> DEFINE n == Cardinality(S)
           Below(x) == {y \in S : y < x}
           rank == [x \in S |-> Cardinality(Below(x))]
<1>1. n \in Nat
  BY FS_CardinalityType
<1>2. ASSUME NEW x \in S
      PROVE  IsFiniteSet(Below(x)) /\ Cardinality(Below(x)) \in 0..n - 1
  <2>1. IsFiniteSet(Below(x)) /\ Cardinality(Below(x)) <= n
    BY FS_Subset
  <2>2. Cardinality(Below(x)) # n
    <3>1. x \notin Below(x)
      OBVIOUS
    <3> QED
      BY <3>1, FS_Subset
  <2>3. Cardinality(Below(x)) \in Nat
    BY <2>1, FS_CardinalityType
  <2> QED
    BY <1>1, <2>1, <2>2, <2>3
<1>3. ASSUME NEW x \in S, NEW z \in S, x < z
      PROVE  Cardinality(Below(x)) # Cardinality(Below(z))
  <2>0. /\ \A y \in S : y < x => y < z
        /\ ~(x < x)
    BY <1>3
  <2>1. Below(x) \in SUBSET Below(z) /\ x \in Below(z) /\ x \notin Below(x)
    BY <1>3, <2>0
  <2>2. IsFiniteSet(Below(z))
    BY <1>2
  <2> HIDE DEF Below
  <2>3. Cardinality(Below(z)) = Cardinality(Below(x)) => Below(z) = Below(x)
    BY <2>1, <2>2, FS_Subset
  <2> QED
    BY <2>1, <2>3
<1>4. rank \in [S -> 0..n - 1]
  BY <1>2
<1>5. ASSUME NEW x \in S, NEW z \in S, rank[x] = rank[z] PROVE x = z
  <2>1. x < z \/ z < x \/ x = z
    OBVIOUS
  <2>2. rank[x] = Cardinality(Below(x)) /\ rank[z] = Cardinality(Below(z))
    OBVIOUS
  <2> QED
    BY <1>3, <1>5, <2>1, <2>2
<1> HIDE DEF rank
<1>6. rank \in Injection(S, 0..n - 1)
  BY <1>4, <1>5, Fun_IsInj
<1>7. IsFiniteSet(0..n - 1) /\ Cardinality(0..n - 1) = n
  <2> HIDE DEF n
  <2>1. n - 1 \in Int /\ 0 \in Int
    BY <1>1
  <2>2. IsFiniteSet(0..n - 1)
        /\ Cardinality(0..n - 1) = IF 0 > n - 1 THEN 0 ELSE (n - 1) - 0 + 1
    BY <2>1, FS_Interval, Zenon
  <2> QED
    BY <1>1, <2>2
<1>8. rank \in Surjection(S, 0..n - 1)
  BY <1>6, <1>7, FS_Injection
<1>9. i - 1 \in 0..n - 1
  BY <1>1
<1>10. PICK x \in S : rank[x] = i - 1
  BY <1>8, <1>9 DEF Surjection
<1>11. Cardinality({y \in S : y < x}) = i - 1
  BY <1>10 DEF rank
<1> QED
  BY <1>11, Zenon DEF Nth

LEMMA NthInjective ==
    ASSUME NEW S \in SUBSET Nat, IsFiniteSet(S),
           NEW i \in 1..Cardinality(S), NEW j \in 1..Cardinality(S), Nth(S, i) = Nth(S, j)
    PROVE  i = j
<1>1. i - 1 = j - 1
  BY NthInSet
<1>2. i \in Int /\ j \in Int
  OBVIOUS
<1> QED
  BY <1>1, <1>2

(* A sequence has no more elements than places. *)
LEMMA ToSetSize ==
    ASSUME NEW S, NEW s \in Seq(S)
    PROVE  /\ ToSet(s) \in SUBSET S
           /\ \A i \in 1..Len(s) : s[i] \in ToSet(s)
           /\ IsFiniteSet(ToSet(s)) /\ Cardinality(ToSet(s)) <= Len(s)
<1>1. ToSet(s) = {s[i] : i \in 1..Len(s)} /\ Len(s) \in Nat
  BY DEF ToSet
<1>2. s \in [1..Len(s) -> ToSet(s)] /\ \A e \in ToSet(s) : \E i \in 1..Len(s) : s[i] = e
  BY <1>1
<1>3. s \in Surjection(1..Len(s), ToSet(s))
  BY <1>2, Fun_IsSurj
<1>4. IsFiniteSet(1..Len(s)) /\ Cardinality(1..Len(s)) = Len(s)
  BY <1>1, FS_Interval
<1>5. IsFiniteSet(ToSet(s)) /\ Cardinality(ToSet(s)) <= Cardinality(1..Len(s))
  BY <1>3, <1>4, FS_Surjection
<1> QED
  BY <1>1, <1>4, <1>5

-----------------------------------------------------------------------------
(* What a refresh reads and what it builds *)

(* A Get returns a URL for each key, and there are Count keys. *)
LEMMA RegisteredSeq ==
    ASSUME TypeOK, Sound
    PROVE  Registered \in Seq(Urls) /\ Len(Registered) <= Count
<1> DEFINE keys == {k \in Keys : k # Own /\ reg[k] # Absent}
           n == Cardinality(keys)
<1>1. keys \in SUBSET (Keys \ {Own}) /\ keys \in SUBSET Nat
  BY KeysAreNumbers
<1>2. IsFiniteSet(Keys \ {Own})
  BY KeysAreNumbers, FS_RemoveElement
<1>3. IsFiniteSet(keys) /\ n <= Count
  BY <1>1, <1>2, FS_Subset DEF Count
<1>4. n \in Nat
  BY <1>3, FS_CardinalityType
<1>5. ASSUME NEW k \in keys PROVE reg[k] \in Urls
  BY <1>5 DEF TypeOK, Sound
<1> HIDE DEF keys
<1>6. ASSUME NEW i \in 1..n PROVE reg[Nth(keys, i)] \in Urls
  <2>1. Nth(keys, i) \in keys
    BY <1>1, <1>3, NthInSet
  <2> QED
    BY <1>5, <2>1
<1>7. Registered = [i \in 1..n |-> reg[Nth(keys, i)]]
  BY DEF Registered, keys
<1> HIDE DEF n
<1>8. Registered \in [1..n -> Urls]
  BY <1>6, <1>7
<1>9. Registered \in Seq(Urls) /\ Len(Registered) = n
  BY <1>4, <1>8
<1> QED
  BY <1>3, <1>9

(* newBackends: in the place of a known URL stands an object of the list    *)
(* with that URL, in the place of another one an object of its own that is  *)
(* not in the list; there are always enough of these.                       *)
LEMMA NewList ==
    ASSUME TypeOK, Sound
    PROVE  /\ NewBackends \in Seq(Objects) /\ Len(NewBackends) = Len(snap)
           /\ \A i \in 1..Len(snap) :
                IF Known(snap[i]) = {}
                THEN /\ NewBackends[i] \notin ToSet(Backends)
                     /\ \A j \in 1..Len(snap) : NewBackends[j] = NewBackends[i] => j = i
                ELSE /\ NewBackends[i] \in ToSet(Backends)
                     /\ url[NewBackends[i]] = snap[i]
<1> DEFINE unused == Objects \ ToSet(Backends)
           n == Len(snap)
           new == NewBackends
<1>0. Backends \in Seq(Objects) /\ Len(Backends) \in Nat /\ n \in Nat /\ n <= Count
      /\ Len(Backends) <= Count
  BY Sizes DEF TypeOK, Sound
<1>1. ToSet(Backends) \in SUBSET Objects /\ IsFiniteSet(ToSet(Backends))
      /\ Cardinality(ToSet(Backends)) <= Len(Backends)
  BY <1>0, ToSetSize
<1>2. IsFiniteSet(unused) /\ Cardinality(unused) >= Count
  <2>1. IsFiniteSet(unused)
        /\ Cardinality(unused) = Cardinality(Objects) - Cardinality(Objects \cap ToSet(Backends))
    BY Sizes, FS_Difference
  <2>2. Objects \cap ToSet(Backends) = ToSet(Backends)
    BY <1>1
  <2>3. Cardinality(ToSet(Backends)) \in Nat
    BY <1>1, FS_CardinalityType
  <2> DEFINE used == Cardinality(ToSet(Backends))
  <2>4. Cardinality(unused) = 2 * Count - used
    BY <2>1, <2>2, Sizes, Zenon
  <2>5. used \in Nat /\ used <= Len(Backends)
    BY <1>1, <2>3
  <2> HIDE DEF unused, used
  <2>6. Count \in Nat
    BY Sizes
  <2>7. 2 * Count - used >= Count
    BY <1>0, <2>5, <2>6
  <2> QED
    BY <2>1, <2>4, <2>7
<1>3. unused \in SUBSET Nat
  BY Sizes
<1>4. Cardinality(unused) \in Nat
  BY <1>2, FS_CardinalityType
<1>5. new = [i \in 1..n |-> IF Known(snap[i]) = {} THEN Nth(unused, i) ELSE FirstKnown(snap[i])]
  BY DEF NewBackends
<1> HIDE DEF unused, new
<1>6. ASSUME NEW i \in 1..n PROVE i \in 1..Cardinality(unused)
  BY <1>0, <1>2, <1>4, Sizes
<1>7. ASSUME NEW i \in 1..n PROVE Nth(unused, i) \in unused
  BY <1>2, <1>3, <1>6, NthInSet
<1>8. ASSUME NEW u, Known(u) # {}
      PROVE  FirstKnown(u) \in ToSet(Backends) /\ url[FirstKnown(u)] = u
  <2> DEFINE T == {i \in 1..Len(Backends) : url[Backends[i]] = u}
  <2>1. PICK o \in ToSet(Backends) : url[o] = u
    BY <1>8 DEF Known
  <2>2. PICK i \in 1..Len(Backends) : Backends[i] = o
    BY <2>1 DEF ToSet
  <2>3. T \in SUBSET Nat /\ T # {}
    BY <2>1, <2>2
  <2>4. T \in SUBSET (1..Len(Backends)) /\ \A j \in T : url[Backends[j]] = u
    OBVIOUS
  <2>5. FirstKnown(u) = Backends[Min(T)]
    BY DEF FirstKnown
  <2> HIDE DEF T
  <2>6. PICK m \in T : \A y \in T : m <= y
    BY <2>3, LeastNat
  <2>7. Min(T) \in T
    BY <2>6, Zenon DEF Min
  <2> QED
    BY <1>0, <2>4, <2>5, <2>7, ToSetSize
<1>9. ASSUME NEW i \in 1..n, Known(snap[i]) = {}
      PROVE  new[i] = Nth(unused, i) /\ new[i] \in unused
  BY <1>5, <1>7, <1>9
<1>10. ASSUME NEW i \in 1..n, Known(snap[i]) # {}
       PROVE  new[i] \in ToSet(Backends) /\ url[new[i]] = snap[i]
  BY <1>5, <1>8, <1>10
<1>11. \A o \in unused : o \in Objects /\ o \notin ToSet(Backends)
  BY DEF unused
<1>12. ASSUME NEW i \in 1..n PROVE new[i] \in Objects
  BY <1>1, <1>9, <1>10, <1>11
<1>13. new \in Seq(Objects) /\ Len(new) = n
  <2>1. new \in [1..n -> Objects]
    BY <1>5, <1>12
  <2> QED
    BY <1>0, <2>1
<1>14. ASSUME NEW i \in 1..n, NEW j \in 1..n, Known(snap[i]) = {}, new[j] = new[i]
       PROVE  j = i
  <2>1. Known(snap[j]) = {}
    BY <1>9, <1>10, <1>11, <1>14
  <2>2. Nth(unused, j) = Nth(unused, i)
    BY <1>9, <1>14, <2>1
  <2> QED
    BY <1>2, <1>3, <1>6, <2>2, NthInjective
<1>15. ASSUME NEW i \in 1..n
       PROVE  IF Known(snap[i]) = {}
              THEN new[i] \notin ToSet(Backends) /\ \A j \in 1..n : new[j] = new[i] => j = i
              ELSE new[i] \in ToSet(Backends) /\ url[new[i]] = snap[i]
  BY <1>9, <1>10, <1>11, <1>14
<1> QED
  BY <1>13, <1>15 DEF new

(* After Install the URLs of the list are those of the snapshot, place by   *)
(* place.                                                                   *)
LEMMA InstallUrls ==
    ASSUME TypeOK, Sound, Install
    PROVE  /\ BackendUrls' = snap
           /\ Backends' \in Seq(Objects) /\ Len(Backends') = Len(snap)
           /\ url' \in [Objects -> Urls \cup {Absent}]
           /\ \A o \in ToSet(Backends') : url'[o] \in Urls
<1> DEFINE new == NewBackends
           n == Len(snap)
           added == ToSet(new) \ ToSet(Backends)
           UrlOf(o) == IF o \in added THEN snap[CHOOSE i \in 1..Len(new) : new[i] = o] ELSE url[o]
<1>1. new \in Seq(Objects) /\ Len(new) = n
  BY NewList
<1>2. \A i \in 1..n :
        IF Known(snap[i]) = {}
        THEN new[i] \notin ToSet(Backends) /\ \A j \in 1..n : new[j] = new[i] => j = i
        ELSE new[i] \in ToSet(Backends) /\ url[new[i]] = snap[i]
  BY NewList
<1>3. Backends' = new
      /\ url' = [o \in Objects |-> IF o \in ToSet(new) THEN UrlOf(o) ELSE Absent]
  BY DEF Install
<1> HIDE DEF new
<1>4. snap \in Seq(Urls) /\ n \in Nat /\ \A i \in 1..n : snap[i] \in Urls
  BY DEF TypeOK
<1>5. \A i \in 1..n : new[i] \in ToSet(new) /\ new[i] \in Objects
  BY <1>1, ToSetSize
<1>6. ASSUME NEW i \in 1..n PROVE UrlOf(new[i]) = snap[i]
  <2>1. CASE Known(snap[i]) = {}
    <3>1. new[i] \in added
      BY <1>2, <1>5, <2>1
    <3>2. (CHOOSE j \in 1..n : new[j] = new[i]) = i
      BY <1>2, <2>1
    <3> QED
      BY <1>1, <3>1, <3>2
  <2>2. CASE Known(snap[i]) # {}
    <3>1. new[i] \notin added /\ url[new[i]] = snap[i]
      BY <1>2, <2>2
    <3> QED
      BY <3>1
  <2> QED
    BY <2>1, <2>2
<1> HIDE DEF UrlOf
<1>7. ASSUME NEW i \in 1..n PROVE url'[new[i]] = snap[i]
  BY <1>3, <1>5, <1>6
<1>8. ASSUME NEW o \in ToSet(new) PROVE UrlOf(o) \in Urls
  <2>1. PICK i \in 1..n : new[i] = o
    BY <1>1, <1>8 DEF ToSet
  <2> QED
    BY <1>4, <1>6, <2>1
<1>9. ToSet(new) \in SUBSET Objects
  BY <1>1, ToSetSize
<1>10. BackendUrls' = [i \in 1..Len(new) |-> url'[new[i]]]
  BY <1>3 DEF BackendUrls
<1>11. BackendUrls' = [i \in 1..n |-> snap[i]]
  BY <1>1, <1>7, <1>10
<1>12. snap = [i \in 1..n |-> snap[i]]
  BY <1>4
<1> QED
  BY <1>1, <1>3, <1>8, <1>9, <1>11, <1>12

-----------------------------------------------------------------------------
(* The rotation *)

(* The numbers a scan computes with. *)
LEMMA Bounds ==
    ASSUME TypeOK
    PROVE  /\ Len(Backends) \in Nat /\ Len(Backends) <= Count
           /\ \A p \in 1..Len(Backends) : p \in Places /\ Backends[p] \in Objects
           /\ Current \in Nat /\ scan \in Nat /\ MaxServed \in Nat
           /\ \A p \in Places : served[p] \in Nat /\ served[p] <= MaxServed
<1>1. Backends \in Seq(Objects) /\ Len(Backends) \in Nat /\ Len(Backends) <= Count
  BY Sizes DEF TypeOK
<1>2. \A p \in 1..Len(Backends) : p \in Places /\ Backends[p] \in Objects
  BY <1>1, Sizes
<1>3. scan \in Nat
  BY Sizes DEF TypeOK
<1>4. MaxServed \in Nat /\ Current \in Nat
  BY LimitsAreNat DEF TypeOK
<1>5. \A p \in Places : served[p] \in Nat /\ served[p] <= MaxServed
  BY <1>4 DEF TypeOK
<1> QED
  BY <1>1, <1>2, <1>3, <1>4, <1>5

(* The distances are a numbering of the places. *)
LEMMA Distances ==
    ASSUME TypeOK
    PROVE  \A p, q \in 1..Len(Backends) :
             /\ Distance(p) \in 0..Len(Backends) - 1
             /\ Distance(p) = Distance(q) => p = q
<1> SUFFICES ASSUME NEW p \in 1..Len(Backends), NEW q \in 1..Len(Backends)
             PROVE  /\ Distance(p) \in 0..Len(Backends) - 1
                    /\ Distance(p) = Distance(q) => p = q
  OBVIOUS
<1> DEFINE n == Len(Backends)
<1>1. n \in Nat /\ Current \in Nat /\ p \in 1..n /\ q \in 1..n
  BY Bounds
<1>2. Current < n
  BY <1>1 DEF TypeOK
<1>3. /\ Distance(p) = IF p > Current THEN p - 1 - Current ELSE p - 1 - Current + n
      /\ Distance(q) = IF q > Current THEN q - 1 - Current ELSE q - 1 - Current + n
  BY DEF Distance
<1> HIDE DEF n
<1>4. Distance(p) \in 0..n - 1 /\ (Distance(p) = Distance(q) => p = q)
  BY <1>1, <1>2, <1>3
<1> QED
  BY <1>4 DEF n

(* A read of a scan: the place that was read becomes the last one, every    *)
(* other comes one nearer.                                                  *)
LEMMA ReadTurns ==
    ASSUME TypeOK, Scanning, scan > 0, Advance, UNCHANGED Backends
    PROVE  /\ Current + 1 \in 1..Len(Backends) /\ Distance(Current + 1) = 0
           /\ Current' \in Nat /\ Current' < Len(Backends)
           /\ \A p \in 1..Len(Backends) :
                Distance(p)' = IF p = Current + 1 THEN Len(Backends) - 1 ELSE Distance(p) - 1
<1> DEFINE n == Len(Backends)
<1>1. n \in Nat /\ Current \in Nat
  BY Bounds
<1>2. Current < n
  BY DEF TypeOK, Scanning
<1>3. Current' = IF Current + 1 = n THEN 0 ELSE Current + 1
  <2>1. Current' = (Current + 1) % n
    BY DEF Advance
  <2> HIDE DEF n
  <2>2. CASE Current + 1 = n
    BY <1>1, <1>2, <2>1, <2>2
  <2>3. CASE Current + 1 < n
    BY <1>1, <1>2, <2>1, <2>3
  <2> QED
    BY <1>1, <1>2, <2>2, <2>3
<1>4. ASSUME NEW p \in Nat, p = Current + 1 PROVE Distance(p) = 0
  <2>1. p > Current /\ p - 1 - Current = 0
    BY <1>1, <1>4
  <2> QED
    BY <2>1 DEF Distance
<1>5. ASSUME NEW p \in 1..n
      PROVE  Distance(p)' = IF p = Current + 1 THEN n - 1 ELSE Distance(p) - 1
  <2>1. Distance(p) = IF p > Current THEN p - 1 - Current ELSE p - 1 - Current + n
    BY DEF Distance
  <2>2. Distance(p)' = IF p > Current' THEN p - 1 - Current' ELSE p - 1 - Current' + n
    BY DEF Distance
  <2>3. p \in 1..n
    BY <1>5
  <2> DEFINE c == Current'
             d == Distance(p)
             e == Distance(p)'
  <2>4. /\ c = IF Current + 1 = n THEN 0 ELSE Current + 1
        /\ d = IF p > Current THEN p - 1 - Current ELSE p - 1 - Current + n
        /\ e = IF p > c THEN p - 1 - c ELSE p - 1 - c + n
    BY <1>3, <2>1, <2>2
  <2> HIDE DEF n, c, d, e
  <2>5. e = IF p = Current + 1 THEN n - 1 ELSE d - 1
    BY <1>1, <1>2, <2>3, <2>4
  <2> QED
    BY <2>5 DEF d, e, n
<1> HIDE DEF n
<1>6. Current + 1 \in 1..n /\ Distance(Current + 1) = 0
  BY <1>1, <1>2, <1>4
<1>7. Current' \in Nat /\ Current' < n
  BY <1>1, <1>2, <1>3
<1> QED
  BY <1>5, <1>6, <1>7 DEF n

(* Actions that touch neither the list nor the flags nor a scan. *)
LEMMA RotationFrame ==
    ASSUME Scanning, Rotation, Ahead,
           UNCHANGED <<Backends, Current, alive, served, scan, steady>>
    PROVE  Scanning' /\ Rotation' /\ Ahead'
<1>1. \A p : Distance(p)' = Distance(p)
  BY DEF Distance
<1>2. Scanning'
  BY DEF Scanning
<1>3. Rotation'
  BY <1>1 DEF Rotation
<1>4. Ahead'
  BY <1>1 DEF Ahead
<1> QED
  BY <1>2, <1>3, <1>4

(* A request begins: every place is still to be read, and the scan allows   *)
(* for one read more than that.                                             *)
LEMMA RequestRotation ==
    ASSUME TypeOK, Rotation, Request
    PROVE  Scanning' /\ Rotation' /\ Ahead'
<1>1. \A p : Distance(p)' = Distance(p)
  BY DEF Request, Distance
<1>2. Rotation'
  BY <1>1 DEF Rotation, Request, objects
<1>3. Scanning'
  <2>1. 1 <= Len(Backends) + 1
    BY Bounds
  <2> QED
    BY <2>1 DEF Scanning, Request
<1>4. Ahead'
  <2>1. \A p \in 1..Len(Backends) : Distance(p) + 1 <= Len(Backends)
    <3> SUFFICES ASSUME NEW p \in 1..Len(Backends) PROVE Distance(p) + 1 <= Len(Backends)
      OBVIOUS
    <3>1. Distance(p) \in 0..Len(Backends) - 1
      BY Distances
    <3>2. Len(Backends) \in Nat
      BY Bounds
    <3> QED
      BY <3>1, <3>2
  <2>2. scan' = 1 /\ Backends' = Backends /\ alive' = alive
        /\ steady' = {o \in ToSet(Backends) : alive[o]}
    BY DEF Request, objects
  <2> QED
    BY <1>1, <2>1, <2>2 DEF Ahead
<1> QED
  BY <1>2, <1>3, <1>4

(* A read of a scan: the place that is served becomes the last one of the   *)
(* rotation with one request more.                                          *)
LEMMA ScanRotation ==
    ASSUME TypeOK, Scanning, Rotation, Ahead, Scan
    PROVE  Scanning' /\ Rotation' /\ Ahead'
<1> DEFINE n == Len(Backends)
           c == Current + 1
           found == alive[Backends[c]]
<1>1. scan > 0 /\ Advance /\ Backends' = Backends /\ alive' = alive
      /\ served' = (IF found THEN [served EXCEPT ![c] = @ + 1] ELSE served)
  BY DEF Scan, objects
<1>2. c \in 1..n /\ Distance(c) = 0 /\ c \in Places /\ n \in Nat /\ scan \in Nat
  BY <1>1, ReadTurns, Bounds
<1>3. \A p \in 1..n : Distance(p)' = IF p = c THEN n - 1 ELSE Distance(p) - 1
  BY <1>1, ReadTurns
<1>4. \A p \in 1..n : Distance(p) \in 0..n - 1 /\ (Distance(p) = 0 => p = c)
  BY <1>2, Distances
<1>5. \A p \in 1..n : p \in Places /\ served[p] \in Nat
  BY Bounds
<1>6. \A p \in Places : served'[p] = IF found /\ p = c THEN served[p] + 1 ELSE served[p]
  BY <1>1, <1>2 DEF TypeOK
<1> HIDE DEF n, c, found
<1>7. Rotation'
  <2> SUFFICES ASSUME NEW p \in 1..n, NEW q \in 1..n, alive[Backends[p]], alive[Backends[q]],
                      Distance(p)' < Distance(q)'
               PROVE  served'[p] <= served'[q] /\ served'[q] <= served'[p] + 1
    BY <1>1 DEF Rotation, n
  <2>1. Distance(p) \in 0..n - 1 /\ Distance(q) \in 0..n - 1
    BY <1>4
  <2>2. p # c
    BY <1>2, <1>3, <2>1
  <2>3. served'[p] = served[p] /\ served[p] \in Nat /\ served[q] \in Nat /\ served[c] \in Nat
    BY <1>2, <1>5, <1>6, <2>2
  <2>4. CASE q = c
    <3>1. served'[q] = served[c] + 1
      BY <1>2, <1>6, <2>4 DEF found
    <3>2. Distance(c) < Distance(p)
      BY <1>2, <1>4, <2>1, <2>2
    <3>3. served[c] <= served[p] /\ served[p] <= served[c] + 1
      BY <1>2, <2>4, <3>2 DEF Rotation, n
    <3> QED
      BY <2>3, <3>1, <3>3
  <2>5. CASE q # c
    <3>1. served'[q] = served[q]
      BY <1>5, <1>6, <2>5
    <3>2. Distance(p)' = Distance(p) - 1 /\ Distance(q)' = Distance(q) - 1
      BY <1>3, <2>2, <2>5
    <3>3. Distance(p) < Distance(q)
      BY <1>2, <2>1, <3>2
    <3>4. served[p] <= served[q] /\ served[q] <= served[p] + 1
      BY <3>3 DEF Rotation, n
    <3> QED
      BY <2>3, <3>1, <3>4
  <2> QED
    BY <2>4, <2>5
<1>8. CASE found \/ LastReadOfScan
  <2>1. scan' = 0 /\ steady' = {}
    BY <1>8 DEF Scan, found, c
  <2>2. Scanning' /\ Ahead'
    BY <2>1 DEF Scanning, Ahead
  <2> QED
    BY <1>7, <2>2
<1>9. CASE ~(found \/ LastReadOfScan)
  <2>1. scan' = scan + 1 /\ steady' = steady /\ served' = served /\ scan # n + 1
    BY <1>1, <1>9 DEF Scan, found, c, LastReadOfScan, n
  <2>2. Scanning'
    <3>1. scan <= n + 1 /\ Backends # << >> /\ \A p \in Places : served[p] < MaxServed
      BY <1>1 DEF Scanning, n
    <3>2. scan + 1 <= n + 1
      BY <1>2, <2>1, <3>1
    <3> QED
      BY <1>1, <2>1, <3>1, <3>2 DEF Scanning, n
  <2>3. ASSUME NEW o \in steady, NEW p \in 1..n, Backends[p] = o
        PROVE  Distance(p)' + scan' <= n
    <3>1. p # c
      BY <1>9, <2>3 DEF Ahead, found
    <3>2. Distance(p)' = Distance(p) - 1
      BY <1>3, <3>1
    <3>3. Distance(p) + scan <= n
      BY <2>3 DEF Ahead, n
    <3>4. Distance(p) \in 0..n - 1
      BY <1>4
    <3> QED
      BY <1>2, <2>1, <3>2, <3>3, <3>4
  <2>4. scan' # 0
    BY <1>2, <2>1
  <2>5. Ahead'
    BY <1>1, <2>1, <2>3, <2>4 DEF Ahead, n
  <2> QED
    BY <1>7, <2>2, <2>5
<1> QED
  BY <1>8, <1>9

(* A health check that changes a flag begins a calm period; one that finds  *)
(* an object down takes it out of the objects alive through the scan.       *)
LEMMA SetAliveRotation ==
    ASSUME TypeOK, Scanning, Rotation, Ahead, NEW p \in Places, SetAlive(p)
    PROVE  Scanning' /\ Rotation' /\ Ahead'
<1> DEFINE o == checks[p].obj
           answered == checks[p].state = "up"
<1>1. alive' = [alive EXCEPT ![o] = answered]
      /\ steady' = (IF answered THEN steady ELSE steady \ {o})
      /\ (IF answered = alive[o] THEN UNCHANGED served ELSE Calm)
      /\ Backends' = Backends /\ Current' = Current /\ scan' = scan
  BY DEF SetAlive
<1>2. \A x : Distance(x)' = Distance(x)
  BY <1>1 DEF Distance
<1>3. alive \in [Objects -> BOOLEAN]
  BY DEF TypeOK
<1> HIDE DEF o, answered
<1>4. Ahead'
  <2>1. \A x \in steady' : x \in steady /\ (x = o => answered)
    BY <1>1
  <2>2. \A x \in steady' : alive'[x]
    <3> SUFFICES ASSUME NEW x \in steady' PROVE alive'[x]
      OBVIOUS
    <3>1. x \in Objects /\ alive[x]
      BY <2>1 DEF Ahead, TypeOK
    <3>2. CASE x = o
      BY <1>1, <1>3, <2>1, <3>1, <3>2
    <3>3. CASE x # o
      BY <1>1, <1>3, <3>1, <3>3
    <3> QED
      BY <3>2, <3>3
  <2>3. scan' = 0 => steady' = {}
    BY <1>1, <2>1 DEF Ahead
  <2>4. \A x \in steady' : x \in ToSet(Backends)'
          /\ \A q \in 1..Len(Backends) : Backends[q] = x => Distance(q) + scan <= Len(Backends)
    BY <1>1, <2>1 DEF Ahead
  <2> QED
    BY <1>1, <1>2, <2>2, <2>3, <2>4 DEF Ahead
<1>5. CASE answered = alive[o]
  <2>1. alive' = alive /\ served' = served
    BY <1>1, <1>3, <1>5
  <2>2. Rotation'
    BY <1>1, <1>2, <2>1 DEF Rotation
  <2>3. Scanning'
    BY <1>1, <2>1 DEF Scanning
  <2> QED
    BY <1>4, <2>2, <2>3
<1>6. CASE answered # alive[o]
  <2>1. \A q \in Places : served'[q] = 0
    BY <1>1, <1>6 DEF Calm
  <2>2. \A q \in 1..Len(Backends) : q \in Places
    BY Bounds
  <2>3. Rotation'
    <3>1. \A q \in 1..Len(Backends) : served'[q] = 0
      BY <2>1, <2>2
    <3> QED
      BY <1>1, <3>1 DEF Rotation
  <2>4. Scanning'
    <3>1. \A q \in Places : served[q] \in Nat /\ MaxServed \in Nat
      BY Bounds
    <3>2. scan > 0 => \A q \in Places : 0 < MaxServed
      BY <3>1 DEF Scanning
    <3> QED
      BY <1>1, <2>1, <3>2 DEF Scanning
  <2> QED
    BY <1>4, <2>3, <2>4
<1> QED
  BY <1>5, <1>6

(* A new list begins a calm period; no request is reading the old one. *)
LEMMA InstallRotation ==
    ASSUME TypeOK, Sound, Ahead, Install
    PROVE  Scanning' /\ Rotation' /\ Ahead'
<1>1. scan = 0 /\ scan' = 0 /\ steady' = steady /\ Calm
  BY DEF Install, MutexFree
<1>2. Scanning' /\ Ahead'
  BY <1>1 DEF Scanning, Ahead
<1>3. \A p \in 1..Len(Backends') : p \in Places
  <2>1. Len(Backends') = Len(snap) /\ Len(snap) \in Nat /\ Len(snap) <= Count
    BY InstallUrls DEF Sound, TypeOK
  <2> QED
    BY <2>1, Sizes
<1>4. \A p \in 1..Len(Backends') : served'[p] = 0
  BY <1>1, <1>3 DEF Calm
<1>5. Rotation'
  BY <1>4 DEF Rotation
<1> QED
  BY <1>2, <1>5

-----------------------------------------------------------------------------
(* The list and its source *)

(* Actions that change neither etcd nor the list nor a snapshot. *)
LEMMA SourceFrame ==
    ASSUME UNCHANGED <<reg, Backends, url>>
    PROVE  Registered' = Registered /\ BackendUrls' = BackendUrls
<1>1. Registered' = Registered
  BY DEF Registered
<1>2. BackendUrls' = BackendUrls
  BY DEF BackendUrls
<1> QED
  BY <1>1, <1>2

LEMMA InitIInv == Init => IInv
<1> SUFFICES ASSUME Init PROVE IInv
  OBVIOUS
<1>1. TypeOK
  <2>1. /\ Backends = << >> /\ Backends \in Seq(Objects) /\ Len(Backends) = 0
        /\ snap \in Seq(Urls) /\ Len(snap) = 0
    BY DEF Init
  <2>2. 0 \in 0..MaxChanges /\ 0 \in 0..MaxServed /\ 0 \in 0..Cardinality(Keys)
        /\ 0 <= Cardinality(Places)
    BY Sizes, LimitsAreNat
  <2>3. /\ up \in [Urls -> BOOLEAN] /\ alive \in [Objects -> BOOLEAN]
        /\ url \in [Objects -> Urls \cup {Absent}]
        /\ checks \in [Places -> [obj : Objects, state : {"probing", "up", "down"}] \cup {NoCheck}]
    BY DEF Init
  <2>4. served \in [Places -> 0..MaxServed]
    BY <2>2 DEF Init
  <2> QED
    BY <2>1, <2>2, <2>3, <2>4 DEF Init, TypeOK
<1>2. Sound
  <2>1. ToSet(Backends) = {} /\ Len(snap) = 0
    BY DEF Init, ToSet
  <2> QED
    BY <2>1, Sizes DEF Init, Sound
<1>3. Scanning /\ Rotation /\ Ahead /\ Tracked
  BY DEF Init, Scanning, Rotation, Ahead, Tracked
<1> QED
  BY <1>1, <1>2, <1>3 DEF IInv

(* Change: a change the watch reports leaves an event to come, another one  *)
(* comes before the Get of Run or makes the list no longer fresh.           *)
LEMMA ChangeStep ==
    ASSUME IInv, NEW k \in Keys, NEW u \in Urls \cup {Absent}, Change(k, u)
    PROVE  IInv'
<1> USE DEF IInv
<1>1. TypeOK'
  <2>1. reg' \in [Keys -> Urls \cup {OwnUrl, Absent}]
    BY DEF TypeOK, Change
  <2>2. /\ nchanges \in Nat /\ nchanges < MaxChanges /\ nchanges' = nchanges + 1
        /\ events \in Nat /\ events <= nchanges /\ (events' = events + 1 \/ events' = events)
    BY LimitsAreNat DEF TypeOK, Change, Sound
  <2>3. nchanges' \in 0..MaxChanges /\ events' \in 0..MaxChanges
    BY <2>2, LimitsAreNat
  <2>4. fresh' \in BOOLEAN
    BY Zenon DEF TypeOK, Change
  <2> QED
    BY <2>1, <2>3, <2>4 DEF TypeOK, Change, objects
<1>2. Sound'
  <2>1. \A x \in Keys : reg'[x] = OwnUrl <=> x = Own
    <3>1. u # OwnUrl /\ k # Own /\ reg' = [reg EXCEPT ![k] = u]
          /\ reg \in [Keys -> Urls \cup {OwnUrl, Absent}]
      BY UrlsAreApart DEF Change, TypeOK
    <3> QED
      BY <3>1 DEF Sound
  <2>2. events' <= nchanges'
    <3>1. /\ nchanges \in Nat /\ nchanges' = nchanges + 1
          /\ events \in Nat /\ events <= nchanges /\ (events' = events + 1 \/ events' = events)
      BY LimitsAreNat DEF TypeOK, Change, Sound
    <3> QED
      BY <3>1
  <2>3. Backends' = Backends /\ url' = url /\ snap' = snap
    BY DEF Change, objects
  <2> QED
    BY <2>1, <2>2, <2>3 DEF Sound
<1>3. Scanning' /\ Rotation' /\ Ahead'
  BY RotationFrame DEF Change, objects
<1>4. Tracked'
  <2>1. CASE Watched
    <3>1. events' = events + 1 /\ events \in Nat
      BY <2>1, LimitsAreNat DEF Change, TypeOK
    <3>2. events' # 0
      BY <3>1
    <3> QED
      BY <3>2 DEF Tracked
  <2>2. CASE ~Watched
    <3>1. fresh' => wpc' = "run_get"
      BY <2>2 DEF Change
    <3> QED
      BY <3>1 DEF Tracked
  <2> QED
    BY <2>1, <2>2
<1> QED
  BY <1>1, <1>2, <1>3, <1>4

(* A Get that succeeds takes down what etcd holds. *)
LEMMA GetStep ==
    ASSUME IInv, Get
    PROVE  IInv'
<1> USE DEF IInv
<1>1. Registered \in Seq(Urls) /\ Len(Registered) <= Count
  BY RegisteredSeq
<1>2. wpc' = (IF wpc = "get" THEN "install" ELSE "run_install") /\ snap' = Registered
  BY DEF Get
<1>3. TypeOK'
  BY <1>1, <1>2 DEF TypeOK, Get, etcd, objects
<1>4. Sound'
  BY <1>1 DEF Sound, Get, etcd, objects
<1>5. Scanning' /\ Rotation' /\ Ahead'
  BY RotationFrame DEF Get, objects
<1>6. Registered' = Registered
  BY SourceFrame DEF Get, etcd, objects
<1>7. Tracked'
  BY <1>2, <1>6 DEF Tracked
<1> QED
  BY <1>3, <1>4, <1>5, <1>7

LEMMA InstallStep ==
    ASSUME IInv, Install
    PROVE  IInv'
<1> USE DEF IInv
<1> DEFINE new == NewBackends
           added == ToSet(new) \ ToSet(Backends)
<1>1. TypeOK'
  <2>1. Backends' \in Seq(Objects) /\ Len(Backends') <= Cardinality(Places)
        /\ url' \in [Objects -> Urls \cup {Absent}]
    <3>1. Len(Backends') = Len(snap) /\ Len(snap) <= Count
      BY InstallUrls DEF Sound
    <3> QED
      BY <3>1, InstallUrls, Sizes
  <2>2. Current' \in Nat /\ (Backends' # << >> => Current' < Len(Backends'))
    <3>1. Current' = 0
      BY DEF Install, ResetCurrent
    <3>2. Backends' # << >> => 0 < Len(Backends')
      BY <2>1
    <3> QED
      BY <3>1, <3>2
  <2>3. alive' \in [Objects -> BOOLEAN]
    <3>1. alive' = [o \in Objects |-> o \in added \/ (o \in ToSet(new) /\ alive[o])]
      BY DEF Install
    <3>2. \A o \in Objects : (o \in added \/ (o \in ToSet(new) /\ alive[o])) \in BOOLEAN
      BY Zenon
    <3> HIDE DEF added, new
    <3> QED
      BY <3>1, <3>2
  <2>4. checks' \in [Places -> [obj : Objects, state : {"probing", "up", "down"}] \cup {NoCheck}]
    <3>1. checks' = [p \in Places |-> IF checks[p].obj \in ToSet(new) \ added
                                      THEN checks[p] ELSE NoCheck]
      BY DEF Install
    <3> HIDE DEF added, new
    <3> QED
      BY <3>1 DEF TypeOK
  <2>5. snap' \in Seq(Urls)
    BY DEF Install
  <2>6. served' \in [Places -> 0..MaxServed]
    BY LimitsAreNat DEF Install, Calm
  <2>7. wpc' \in {"run_watch", "idle"}
    BY DEF Install
  <2>8. UNCHANGED <<reg, nchanges, events, up, hpc, scan, fresh, steady>>
    BY DEF Install, etcd
  <2> QED
    BY <2>1, <2>2, <2>3, <2>4, <2>5, <2>6, <2>7, <2>8 DEF TypeOK
<1>2. Sound'
  <2>1. \A o \in ToSet(Backends') : url'[o] \in Urls
    BY InstallUrls
  <2>2. snap' = << >> /\ Len(snap') = 0 /\ 0 <= Count
    BY Sizes DEF Install
  <2>3. UNCHANGED <<reg, nchanges, events>>
    BY DEF Install, etcd
  <2> QED
    BY <2>1, <2>2, <2>3 DEF Sound
<1>3. Scanning' /\ Rotation' /\ Ahead'
  BY InstallRotation
<1>4. Tracked'
  <2>1. reg' = reg /\ fresh' = fresh /\ events' = events
        /\ wpc \in {"run_install", "install"} /\ wpc' \in {"run_watch", "idle"}
    BY DEF Install, etcd
  <2>2. Registered' = Registered
    BY <2>1 DEF Registered
  <2>3. BackendUrls' = snap
    BY InstallUrls
  <2> QED
    BY <2>1, <2>2, <2>3 DEF Tracked
<1> QED
  BY <1>1, <1>2, <1>3, <1>4

(* The steps of Run and of the watch goroutine that leave etcd, the list    *)
(* and the snapshot alone.                                                  *)
LEMMA WatchSteps ==
    ASSUME IInv, GetFails \/ Watch \/ Receive \/ WatchEnds
    PROVE  IInv'
<1> USE DEF IInv
<1>1. UNCHANGED <<reg, nchanges, up, Backends, Current, url, alive, checks, snap, scan,
                  steady, served>>
  BY DEF GetFails, Watch, Receive, WatchEnds, etcd, objects
<1>2. wpc' \in {"idle", "run_watch", "get", "stopped"} /\ hpc' \in {hpc, "running"}
  BY DEF GetFails, Watch, Receive, WatchEnds
<1>3. events' \in Nat /\ events' <= events /\ events \in Nat
  <2>1. events \in Nat
    BY LimitsAreNat DEF TypeOK
  <2>2. CASE Receive
    <3>1. PICK n \in 1..events : events' = events - n
      BY <2>2 DEF Receive
    <3> QED
      BY <2>1, <3>1
  <2>3. CASE ~Receive
    <3>1. events' = events
      BY <2>3 DEF GetFails, Watch, WatchEnds, etcd
    <3> QED
      BY <2>1, <3>1
  <2> QED
    BY <2>2, <2>3
<1>4. fresh' \in BOOLEAN
  BY Zenon DEF TypeOK, GetFails, Watch, Receive, WatchEnds
<1>5. TypeOK'
  <2>1. events' \in 0..MaxChanges
    BY <1>3, LimitsAreNat DEF TypeOK
  <2>2. hpc' \in {"off", "running", "stopped"}
    BY <1>2 DEF TypeOK
  <2> QED
    BY <1>1, <1>2, <1>4, <2>1, <2>2 DEF TypeOK
<1>6. Sound'
  <2>1. nchanges \in Nat /\ events <= nchanges
    BY LimitsAreNat DEF TypeOK, Sound
  <2>2. events' <= nchanges
    BY <1>3, <2>1
  <2> QED
    BY <1>1, <2>2 DEF Sound
<1>7. Scanning' /\ Rotation' /\ Ahead'
  BY <1>1, RotationFrame
<1>8. Tracked'
  <2>1. Registered' = Registered /\ BackendUrls' = BackendUrls
    BY <1>1, SourceFrame
  <2>2. CASE GetFails
    BY <2>2 DEF GetFails, Tracked
  <2>3. CASE Watch
    BY <2>1, <2>3 DEF Watch, Tracked, etcd
  <2>4. CASE Receive \/ WatchEnds
    BY <2>4 DEF Receive, WatchEnds, Tracked
  <2> QED
    BY <2>2, <2>3, <2>4
<1> QED
  BY <1>5, <1>6, <1>7, <1>8

(* The backends and the health checks, none of which touches the list. *)
LEMMA HealthSteps ==
    ASSUME IInv,
           \/ \E u \in Urls : Flip(u)
           \/ Tick
           \/ \E p \in Places : CheckStep(p)
           \/ HealthEnds
    PROVE  IInv'
<1> USE DEF IInv
<1> DEFINE Check == [obj : Objects, state : {"probing", "up", "down"}] \cup {NoCheck}
<1>1. UNCHANGED <<reg, nchanges, events, Backends, Current, url, wpc, snap, scan, fresh>>
  BY DEF Flip, Tick, CheckStep, Probe, SetAlive, HealthEnds, etcd, objects
<1>2. Sound' /\ Tracked'
  <2>1. Registered' = Registered /\ BackendUrls' = BackendUrls
    BY <1>1, SourceFrame
  <2> QED
    BY <1>1, <2>1 DEF Sound, Tracked
<1>3. ASSUME NEW u \in Urls, Flip(u) PROVE TypeOK' /\ Scanning' /\ Rotation' /\ Ahead'
  <2>1. up' \in [Urls -> BOOLEAN]
    BY <1>3 DEF Flip, TypeOK
  <2>2. UNCHANGED <<alive, checks, hpc, steady, served>>
    BY <1>3 DEF Flip, objects
  <2> QED
    BY <1>1, <2>1, <2>2, RotationFrame DEF TypeOK
<1>4. ASSUME Tick PROVE TypeOK' /\ Scanning' /\ Rotation' /\ Ahead'
  <2>1. checks' \in [Places -> Check]
    <3>1. \A p \in Places : p <= Len(Backends) => Backends[p] \in Objects
      <4>1. \A p \in Places : p <= Len(Backends) => p \in 1..Len(Backends)
        BY Bounds, Sizes
      <4> QED
        BY <4>1, Bounds
    <3>2. checks' = [p \in Places |-> IF p <= Len(Backends)
                                      THEN [obj |-> Backends[p], state |-> "probing"] ELSE NoCheck]
      BY <1>4 DEF Tick
    <3> QED
      BY <3>1, <3>2
  <2>2. UNCHANGED <<up, alive, hpc, steady, served>>
    BY <1>4 DEF Tick
  <2> QED
    BY <1>1, <2>1, <2>2, RotationFrame DEF TypeOK
<1>5. ASSUME NEW p \in Places, Probe(p) PROVE TypeOK' /\ Scanning' /\ Rotation' /\ Ahead'
  <2>1. checks \in [Places -> Check] /\ checks[p] \in Check /\ checks[p].state = "probing"
    BY <1>5 DEF Probe, TypeOK
  <2>2. checks[p] # NoCheck
    BY <2>1 DEF NoCheck
  <2>3. PICK r \in {"up", "down"} : checks' = [checks EXCEPT ![p].state = r]
    BY <1>5 DEF Probe
  <2>4. [checks[p] EXCEPT !.state = r] \in Check
    BY <2>1, <2>2
  <2>5. checks' \in [Places -> Check]
    BY <2>1, <2>3, <2>4
  <2>6. UNCHANGED <<up, alive, hpc, steady, served>>
    BY <1>5 DEF Probe
  <2> QED
    BY <1>1, <2>5, <2>6, RotationFrame DEF TypeOK
<1>6. ASSUME NEW p \in Places, SetAlive(p) PROVE TypeOK' /\ Scanning' /\ Rotation' /\ Ahead'
  <2>1. Scanning' /\ Rotation' /\ Ahead'
    BY <1>6, SetAliveRotation
  <2>2. alive' \in [Objects -> BOOLEAN]
    <3> DEFINE answered == checks[p].state = "up"
    <3>1. alive' = [alive EXCEPT ![checks[p].obj] = answered]
      BY <1>6 DEF SetAlive
    <3>2. answered \in BOOLEAN
      BY Zenon
    <3> HIDE DEF answered
    <3> QED
      BY <3>1, <3>2 DEF TypeOK
  <2>3. checks' \in [Places -> Check]
    BY <1>6 DEF SetAlive, TypeOK
  <2>4. steady' \in SUBSET Objects
    BY <1>6 DEF SetAlive, TypeOK
  <2>5. served' \in [Places -> 0..MaxServed]
    <3>1. served' = served \/ Calm
      BY <1>6 DEF SetAlive
    <3> QED
      BY <3>1, LimitsAreNat DEF TypeOK, Calm
  <2>6. UNCHANGED <<up, hpc>>
    BY <1>6 DEF SetAlive
  <2> QED
    BY <1>1, <2>1, <2>2, <2>3, <2>4, <2>5, <2>6 DEF TypeOK
<1>7. ASSUME HealthEnds PROVE TypeOK' /\ Scanning' /\ Rotation' /\ Ahead'
  <2>1. hpc' = "stopped" /\ UNCHANGED <<up, alive, checks, steady, served>>
    BY <1>7 DEF HealthEnds, objects
  <2> QED
    BY <1>1, <2>1, RotationFrame DEF TypeOK
<1> QED
  BY <1>2, <1>3, <1>4, <1>5, <1>6, <1>7 DEF CheckStep

(* A request, from its first read to its last. *)
LEMMA RequestSteps ==
    ASSUME IInv, Request \/ Scan
    PROVE  IInv'
<1> USE DEF IInv
<1>1. UNCHANGED <<reg, nchanges, events, up, Backends, url, alive, checks, wpc, snap, hpc, fresh>>
  BY DEF Request, Scan, etcd, objects
<1>2. Sound' /\ Tracked'
  <2>1. Registered' = Registered /\ BackendUrls' = BackendUrls
    BY <1>1, SourceFrame
  <2> QED
    BY <1>1, <2>1 DEF Sound, Tracked
<1>3. CASE Request
  <2>1. Scanning' /\ Rotation' /\ Ahead'
    BY <1>3, RequestRotation
  <2>2. scan' \in 0..Cardinality(Keys)
    BY <1>3, Sizes DEF Request
  <2>3. steady' \in SUBSET Objects
    <3>1. ToSet(Backends) \in SUBSET Objects
      BY ToSetSize DEF TypeOK
    <3> QED
      BY <1>3, <3>1 DEF Request
  <2>4. UNCHANGED <<Current, served>>
    BY <1>3 DEF Request
  <2> QED
    BY <1>1, <1>2, <2>1, <2>2, <2>3, <2>4 DEF TypeOK
<1>4. CASE Scan
  <2>1. Scanning' /\ Rotation' /\ Ahead'
    BY <1>4, ScanRotation
  <2>2. Current' \in Nat /\ Current' < Len(Backends) /\ Current + 1 \in Places
    BY <1>1, <1>4, ReadTurns, Bounds DEF Scan
  <2>3. scan' \in 0..Cardinality(Keys)
    <3>1. CASE scan' = 0
      BY <3>1, Sizes
    <3>2. CASE scan' # 0
      <4>1. scan' = scan + 1 /\ scan # Len(Backends) + 1
        BY <1>4, <3>2 DEF Scan, LastReadOfScan
      <4>2. scan <= Len(Backends) + 1
        BY <1>4 DEF Scanning, Scan
      <4>3. scan \in Nat /\ Len(Backends) \in Nat /\ Len(Backends) <= Count
        BY Bounds
      <4> QED
        BY <4>1, <4>2, <4>3, Sizes
    <3> QED
      BY <3>1, <3>2
  <2>4. steady' \in SUBSET Objects
    BY <1>4 DEF Scan, TypeOK
  <2>5. served' \in [Places -> 0..MaxServed]
    <3>1. \A p \in Places : served[p] \in Nat /\ served[p] < MaxServed /\ MaxServed \in Nat
      BY <1>4, Bounds DEF Scanning, Scan
    <3>2. served[Current + 1] + 1 \in 0..MaxServed
      BY <2>2, <3>1
    <3>3. served' = served \/ served' = [served EXCEPT ![Current + 1] = @ + 1]
      BY <1>4 DEF Scan
    <3> QED
      BY <3>2, <3>3 DEF TypeOK
  <2> QED
    BY <1>1, <1>2, <2>1, <2>2, <2>3, <2>4, <2>5 DEF TypeOK
<1> QED
  BY <1>3, <1>4

LEMMA SpecIInv == Spec => []IInv
<1>1. IInv /\ [Next]_vars => IInv'
  <2> SUFFICES ASSUME IInv, [Next]_vars PROVE IInv'
    OBVIOUS
  <2>1. CASE \E k \in Keys, u \in Urls \cup {Absent} : Change(k, u)
    BY <2>1, ChangeStep
  <2>2. CASE Get
    BY <2>2, GetStep
  <2>3. CASE Install
    BY <2>3, InstallStep
  <2>4. CASE GetFails \/ Watch \/ Receive \/ WatchEnds
    BY <2>4, WatchSteps
  <2>5. CASE (\E u \in Urls : Flip(u)) \/ Tick \/ (\E p \in Places : CheckStep(p)) \/ HealthEnds
    BY <2>5, HealthSteps
  <2>6. CASE Request \/ Scan
    BY <2>6, RequestSteps
  <2>7. CASE UNCHANGED vars
    <3>1. UNCHANGED <<reg, nchanges, events, up, Backends, Current, url, alive, checks, wpc,
                      snap, hpc, scan, fresh, steady, served>>
      BY <2>7 DEF vars
    <3>2. TypeOK'
      BY <3>1 DEF IInv, TypeOK
    <3>3. Scanning' /\ Rotation' /\ Ahead'
      BY <3>1, RotationFrame DEF IInv
    <3>4. Registered' = Registered /\ BackendUrls' = BackendUrls
      BY <3>1, SourceFrame
    <3>5. Sound' /\ Tracked'
      BY <3>1, <3>4 DEF IInv, Sound, Tracked
    <3> QED
      BY <3>2, <3>3, <3>5 DEF IInv
  <2> QED
    BY <2>1, <2>2, <2>3, <2>4, <2>5, <2>6, <2>7 DEF Next, WatchStep
<1> QED
  BY <1>1, InitIInv, PTL DEF Spec

-----------------------------------------------------------------------------
(* Theorems *)

(* Type correctness of the balancer; with it lb.Backends[lb.Current], which *)
(* RoundRobbinNextBackend reads, is in range however the list has shrunk.   *)
THEOREM BalancerTypeCorrect == Spec => []TypeOK
<1>1. IInv => TypeOK
  BY DEF IInv
<1> QED
  BY <1>1, SpecIInv, PTL

(* The round robin of RoundRobbinNextBackend shares the requests of a calm  *)
(* period out evenly, for lists of any length with any of the places dead.  *)
THEOREM RequestsAreShared == Spec => []FairShare
<1>1. IInv => FairShare
  <2> SUFFICES ASSUME IInv, NEW p \in 1..Len(Backends), NEW q \in 1..Len(Backends),
                      alive[Backends[p]], alive[Backends[q]]
               PROVE  served[p] <= served[q] + 1
    BY DEF FairShare
  <2>1. served[p] \in Nat /\ served[q] \in Nat
    BY Bounds DEF IInv
  <2>2. Distance(p) \in Int /\ Distance(q) \in Int /\ (Distance(p) = Distance(q) => p = q)
    BY Distances DEF IInv
  <2>3. CASE Distance(p) < Distance(q)
    <3>1. served[p] <= served[q]
      BY <2>3 DEF IInv, Rotation
    <3> QED
      BY <2>1, <3>1
  <2>4. CASE Distance(q) < Distance(p)
    BY <2>4 DEF IInv, Rotation
  <2>5. CASE p = q
    BY <2>1, <2>5
  <2>6. Distance(p) < Distance(q) \/ Distance(q) < Distance(p) \/ p = q
    BY <2>2
  <2> QED
    BY <2>3, <2>4, <2>5, <2>6
<1> QED
  BY <1>1, SpecIInv, PTL

(* The list follows etcd: when WatchBackends has no event left it is what   *)
(* the last successful Get of UpdateBackends, and etcd itself, holds.       *)
THEOREM ListFollowsEtcd == Spec => []CaughtUp
<1>1. IInv => CaughtUp
  BY DEF IInv, Tracked, CaughtUp
<1> QED
  BY <1>1, SpecIInv, PTL

(* ServeHTTP answers 503 only when no backend was alive through the whole   *)
(* of the scan: the loop of RoundRobbinNextBackend reads every place.       *)
THEOREM UnavailableOnlyIfDead == Spec => NoFalseUnavailable
<1>1. IInv /\ [Next]_vars => [scan > 0 /\ scan' = 0 /\ served' = served => steady = {}]_vars
  <2> SUFFICES ASSUME IInv, Next, scan > 0, scan' = 0, served' = served
               PROVE  steady = {}
    OBVIOUS
  <2>1. Scan
    <3>1. scan' # scan /\ scan' # 1
      OBVIOUS
    <3> QED
      BY <3>1 DEF Next, Change, Flip, WatchStep, Get, GetFails, Install, Watch, Receive,
                  WatchEnds, Tick, CheckStep, Probe, SetAlive, HealthEnds, Request
  <2>2. Current + 1 \in 1..Len(Backends) /\ Current + 1 \in Places
    BY <2>1, ReadTurns, Bounds DEF Scan, IInv
  <2>3. ~alive[Backends[Current + 1]]
    <3> SUFFICES ASSUME alive[Backends[Current + 1]] PROVE FALSE
      OBVIOUS
    <3>1. served' = [served EXCEPT ![Current + 1] = @ + 1]
      BY <2>1 DEF Scan
    <3>2. served'[Current + 1] = served[Current + 1] + 1
      BY <2>2, <3>1 DEF IInv, TypeOK
    <3>3. served[Current + 1] \in Nat
      BY <2>2, Bounds DEF IInv
    <3> QED
      BY <3>2, <3>3
  <2>4. scan = Len(Backends) + 1
    <3>1. scan' = IF LastReadOfScan THEN 0 ELSE scan + 1
      BY <2>1, <2>3 DEF Scan
    <3>2. scan \in Nat
      BY Bounds DEF IInv
    <3> QED
      BY <3>1, <3>2 DEF LastReadOfScan
  <2>5. ASSUME NEW o \in steady PROVE FALSE
    <3>1. PICK p \in 1..Len(Backends) : Backends[p] = o
      BY <2>5 DEF IInv, Ahead, ToSet
    <3>2. Distance(p) + scan <= Len(Backends)
      BY <2>5, <3>1 DEF IInv, Ahead
    <3>3. Distance(p) \in 0..Len(Backends) - 1 /\ Len(Backends) \in Nat
      BY Distances, Bounds DEF IInv
    <3> QED
      BY <2>4, <3>2, <3>3
  <2> QED
    BY <2>5
<1> QED
  BY <1>1, SpecIInv, PTL DEF Spec, NoFalseUnavailable
=============================================================================

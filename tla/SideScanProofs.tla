---------------------------- MODULE SideScanProofs ----------------------------
(***************************************************************************)
(* What TLAPS proves of SideScan: that the sides in view are those that    *)
(* have a read of the newest frame, through every join and removal that    *)
(* renumbers the groups, for any number of groups, of sides of a corner    *)
(* view and of looks.                                                      *)
(*                                                                         *)
(* AbsorbKeeps, MergeKeeps, JoinKeeps, DropKeeps and CountKeeps are what   *)
(* each operation on a scan keeps.  The joins after a read and the reads   *)
(* of a corner view are iterations (Iterates, Induct); that there is       *)
(* always a group to drop which is not in view rests on how many sides a   *)
(* frame can bring into view (MaxSides).                                   *)
(***************************************************************************)
EXTENDS SideScan, FiniteSetTheorems, SequenceTheorems, WellFoundedInduction, TLAPS

-----------------------------------------------------------------------------
(* Numbers: the least of some, the first in an order, and induction.       *)

LEMMA LeastExists ==
  ASSUME NEW S, S \subseteq Nat, S # {}
  PROVE  \E n \in S : \A m \in S : n <= m
<1>1. \E n \in S : \A m \in S : ~(<<m, n>> \in OpToRel(<, Nat))
  BY NatLessThanWellFounded, WFMin
<1>2. \A m, n \in Nat : <<m, n>> \in OpToRel(<, Nat) <=> m < n
  BY Zenon DEF OpToRel
<1>3. \E n \in S : \A m \in S : ~(m < n)
  BY <1>1, <1>2, Zenon
<1> QED
  BY <1>3

LEMMA LeastIs ==
  ASSUME NEW S, S \subseteq Nat, S # {}
  PROVE  Min(S) \in S /\ \A n \in S : Min(S) <= n
<1>1. PICK n \in S : \A m \in S : n <= m
  BY LeastExists
<1> QED
  BY <1>1 DEF Min

\* The first of some numbers, by what f makes of them and then by themselves.
LEMMA FirstExists ==
  ASSUME NEW S, S \subseteq Nat, S # {}, NEW f, \A i \in S : f[i] \in Nat
  PROVE  \E i \in S : \A j \in S : f[i] < f[j] \/ (f[i] = f[j] /\ i <= j)
<1>1. PICK v \in {f[i] : i \in S} : \A w \in {f[i] : i \in S} : v <= w
  <2>1. {f[i] : i \in S} \subseteq Nat /\ {f[i] : i \in S} # {}
    OBVIOUS
  <2> QED
    BY <2>1, LeastExists
<1>2. PICK i \in {j \in S : f[j] = v} : \A j \in {k \in S : f[k] = v} : i <= j
  <2>1. {j \in S : f[j] = v} \subseteq Nat /\ {j \in S : f[j] = v} # {}
    BY <1>1
  <2> QED
    BY <2>1, LeastExists
<1>3. ASSUME NEW j \in S PROVE f[i] < f[j] \/ (f[i] = f[j] /\ i <= j)
  <2>1. v <= f[j] /\ f[i] = v /\ v \in Nat /\ f[j] \in Nat
    BY <1>1, <1>2
  <2>2. f[j] = v => i <= j
    BY <1>2
  <2> QED
    BY <2>1, <2>2
<1> QED
  BY <1>2, <1>3

\* What holds of 0, and of the next number whenever of one, holds of all.
LEMMA Induct ==
  ASSUME NEW P, 0 \in P, \A n \in Nat : n \in P => n + 1 \in P
  PROVE  \A n \in Nat : n \in P
<1> SUFFICES ASSUME {n \in Nat : n \notin P} # {} PROVE FALSE
  OBVIOUS
<1>1. PICK n \in {m \in Nat : m \notin P} : \A m \in {k \in Nat : k \notin P} : n <= m
  BY LeastExists
<1>2. n # 0 /\ n - 1 \in Nat /\ (n - 1) + 1 = n
  BY <1>1
<1>3. n - 1 \in P
  BY <1>1, <1>2
<1> QED
  BY <1>1, <1>2, <1>3

\* A function that is one step further at each number than at the one before.
LEMMA Iterates ==
  ASSUME NEW S, NEW x \in S, NEW step \in [Nat -> [S -> S]]
  PROVE  \E f \in [Nat -> S] : f = [n \in Nat |-> IF n = 0 THEN x ELSE step[n][f[n - 1]]]
<1> DEFINE Upto(g, n) == /\ g \in [0..n -> S] /\ g[0] = x
                         /\ \A m \in 0..n : m # 0 => g[m] = step[m][g[m - 1]]
           Some == {n \in Nat : \E g : Upto(g, n)}
\* Two such functions are equal as far as both go.
<1>1. ASSUME NEW n \in Nat, NEW k \in Nat, NEW g, NEW h, Upto(g, n), Upto(h, k)
      PROVE  \A m \in Nat : m <= n /\ m <= k => g[m] = h[m]
  <2> DEFINE Same == {m \in Nat : m <= n /\ m <= k => g[m] = h[m]}
  <2>1. 0 \in Same
    BY <1>1
  <2>2. ASSUME NEW m \in Nat, m \in Same, m + 1 <= n, m + 1 <= k
        PROVE  g[m + 1] = h[m + 1]
    <3>1. m + 1 \in 0..n /\ m + 1 \in 0..k /\ m + 1 # 0 /\ (m + 1) - 1 = m
      BY <2>2
    <3>2. g[m + 1] = step[m + 1][g[m]] /\ h[m + 1] = step[m + 1][h[m]]
      BY <1>1, <3>1
    <3>3. g[m] = h[m]
      BY <2>2
    <3> QED
      BY <3>2, <3>3
  <2>3. \A m \in Nat : m \in Same => m + 1 \in Same
    BY <2>2
  <2> HIDE DEF Same
  <2>4. \A m \in Nat : m \in Same
    BY <2>1, <2>3, Induct
  <2> QED
    BY <2>4 DEF Same
<1>2. 0 \in Some
  <2>1. Upto([m \in 0..0 |-> x], 0)
    OBVIOUS
  <2> QED
    BY <2>1
<1>3. ASSUME NEW n \in Nat, n \in Some
      PROVE  n + 1 \in Some
  <2>1. PICK g : Upto(g, n)
    BY <1>3
  <2> DEFINE h == [m \in 0..(n + 1) |-> IF m = n + 1 THEN step[n + 1][g[n]] ELSE g[m]]
  <2>2. h \in [0..(n + 1) -> S] /\ h[0] = x
    <3>1. g[n] \in S /\ n + 1 \in Nat
      BY <2>1
    <3>2. step[n + 1][g[n]] \in S
      BY <3>1
    <3>3. \A m \in 0..(n + 1) : m # n + 1 => m \in 0..n
      OBVIOUS
    <3>4. \A m \in 0..(n + 1) : h[m] \in S
      BY <2>1, <3>2, <3>3
    <3> QED
      BY <2>1, <3>4
  <2>3. ASSUME NEW m \in 0..(n + 1), m # 0
        PROVE  h[m] = step[m][h[m - 1]]
    <3>1. m - 1 \in 0..(n + 1) /\ m - 1 # n + 1
      BY <2>3
    <3>2. h[m - 1] = g[m - 1]
      BY <3>1
    <3>3. CASE m = n + 1
      <4>1. h[m] = step[n + 1][g[n]] /\ m - 1 = n
        BY <3>3
      <4> QED
        BY <3>2, <3>3, <4>1
    <3>4. CASE m # n + 1
      <4>1. m \in 0..n /\ h[m] = g[m]
        BY <3>4
      <4> QED
        BY <2>1, <2>3, <3>2, <4>1
    <3> QED
      BY <3>3, <3>4
  <2> HIDE DEF h
  <2>4. Upto(h, n + 1)
    BY <2>2, <2>3
  <2> QED
    BY <2>4
<1>4. \A n \in Nat : \E g : Upto(g, n)
  <2>1. 0 \in Some /\ \A n \in Nat : n \in Some => n + 1 \in Some
    BY <1>2, <1>3
  <2> HIDE DEF Some
  <2>2. \A n \in Nat : n \in Some
    BY <2>1, Induct
  <2> QED
    BY <2>2 DEF Some
<1> DEFINE G(n) == CHOOSE g : Upto(g, n)
           f == [n \in Nat |-> G(n)[n]]
<1>5. \A n \in Nat : Upto(G(n), n)
  BY <1>4
<1> HIDE DEF G
<1>6. f \in [Nat -> S]
  <2>1. \A n \in Nat : G(n)[n] \in S
    BY <1>5
  <2> QED
    BY <2>1
<1>7. f[0] = x
  BY <1>5
<1>8. ASSUME NEW n \in Nat, n # 0
      PROVE  f[n] = step[n][f[n - 1]]
  <2>1. n - 1 \in Nat /\ n \in 0..n /\ n - 1 <= n
    BY <1>8
  <2>2. G(n)[n] = step[n][G(n)[n - 1]]
    BY <1>5, <1>8, <2>1
  <2>3. G(n)[n - 1] = G(n - 1)[n - 1]
    <3> HIDE DEF Upto
    <3> QED
      BY <1>1, <1>5, <2>1
  <2> QED
    BY <2>1, <2>2, <2>3
<1> HIDE DEF f
<1>9. f = [n \in Nat |-> IF n = 0 THEN x ELSE step[n][f[n - 1]]]
  BY <1>6, <1>7, <1>8
<1> QED
  BY <1>6, <1>9

\* The list without its k-th.
LEMMA RemovedIs ==
  ASSUME NEW S, NEW list \in Seq(S), NEW k \in 1..Len(list)
  PROVE  /\ RemoveAt(list, k) \in Seq(S) /\ Len(RemoveAt(list, k)) = Len(list) - 1
         /\ \A i \in 1..(Len(list) - 1) :
              RemoveAt(list, k)[i] = IF i < k THEN list[i] ELSE list[i + 1]
<1> DEFINE a == SubSeq(list, 1, k - 1)
           b == SubSeq(list, k + 1, Len(list))
<1>1. Len(list) \in Nat /\ k \in Nat /\ k >= 1 /\ k <= Len(list) /\ \A i \in 1..Len(list) : list[i] \in S
  OBVIOUS
<1>2. a \in Seq(S) /\ Len(a) = k - 1 /\ \A i \in 1..(k - 1) : a[i] = list[i]
  <2>1. 1 \in Int /\ k - 1 \in Int /\ \A i \in 1..(k - 1) : list[i] \in S
    BY <1>1
  <2>2. /\ a \in Seq(S) /\ Len(a) = IF 1 <= k - 1 THEN (k - 1) - 1 + 1 ELSE 0
        /\ \A i \in 1..((k - 1) - 1 + 1) : a[i] = list[1 + i - 1]
    BY <2>1, SubSeqProperties
  <2> HIDE DEF a
  <2> QED
    BY <1>1, <2>2
<1>3. b \in Seq(S) /\ Len(b) = Len(list) - k /\ \A i \in 1..(Len(list) - k) : b[i] = list[k + i]
  <2>1. PICK m \in Int : m = k + 1
    BY <1>1
  <2>2. Len(list) \in Int /\ \A i \in m..Len(list) : list[i] \in S
    BY <1>1, <2>1
  <2>3. /\ b \in Seq(S) /\ Len(b) = IF m <= Len(list) THEN Len(list) - m + 1 ELSE 0
        /\ \A i \in 1..(Len(list) - m + 1) : b[i] = list[m + i - 1]
    <3>1. b = SubSeq(list, m, Len(list))
      BY <2>1
    <3> HIDE DEF b
    <3> QED
      BY <1>1, <2>2, <3>1, SubSeqProperties
  <2> HIDE DEF b
  <2>4. Len(b) = Len(list) - k
    BY <1>1, <2>1, <2>3
  <2>5. ASSUME NEW i \in 1..(Len(list) - k) PROVE b[i] = list[k + i]
    <3>1. i \in 1..(Len(list) - m + 1) /\ m + i - 1 = k + i
      BY <1>1, <2>1
    <3> QED
      BY <2>3, <3>1
  <2> QED
    BY <2>3, <2>4, <2>5
<1> HIDE DEF a, b
<1>4. /\ a \o b \in Seq(S) /\ Len(a \o b) = Len(a) + Len(b)
      /\ \A i \in 1..(Len(a) + Len(b)) : (a \o b)[i] = IF i <= Len(a) THEN a[i] ELSE b[i - Len(a)]
  BY <1>2, <1>3, ConcatProperties
<1>5. RemoveAt(list, k) = a \o b
  BY DEF RemoveAt, a, b
<1>6. Len(a) + Len(b) = Len(list) - 1
  BY <1>1, <1>2, <1>3
<1>7. ASSUME NEW i \in 1..(Len(list) - 1)
      PROVE  (a \o b)[i] = IF i < k THEN list[i] ELSE list[i + 1]
  <2>1. CASE i < k
    <3>1. i <= Len(a) /\ i \in 1..(k - 1)
      BY <1>1, <1>2, <2>1
    <3> QED
      BY <1>2, <1>4, <1>6, <2>1, <3>1
  <2>2. CASE ~(i < k)
    <3>1. ~(i <= Len(a)) /\ i - Len(a) \in 1..(Len(list) - k) /\ k + (i - Len(a)) = i + 1
      BY <1>1, <1>2, <2>2
    <3> QED
      BY <1>3, <1>4, <1>6, <2>2, <3>1
  <2> QED
    BY <2>1, <2>2
<1> QED
  BY <1>4, <1>5, <1>6, <1>7

\* What a function makes of some things is no more than they are.
LEMMA ImageIsNoMore ==
  ASSUME NEW S, IsFiniteSet(S), NEW f, f = [x \in S |-> f[x]]
  PROVE  IsFiniteSet({f[x] : x \in S}) /\ Cardinality({f[x] : x \in S}) <= Cardinality(S)
<1> DEFINE T == {f[x] : x \in S}
<1>1. f \in Surjection(S, T)
  BY DEF Surjection
<1> QED
  BY <1>1, FS_Surjection

-----------------------------------------------------------------------------
(* The reads of a group, and their median                                  *)

Bags == [Looks -> Nat]

LEMMA SizeIs ==
  ASSUME NEW bag \in Bags
  PROVE  /\ IsFiniteSet(ReadsOf(bag)) /\ SizeOf(bag) \in Nat
         /\ SizeOf(bag) > 0 <=> \E v \in Looks : bag[v] > 0
         /\ \A r \in ReadsOf(bag) : r[1] \in Points
<1>1. IsFiniteSet(Looks)
  <2>1. IsFiniteSet(0..Furthest)
    BY FS_Interval, SidesAssumption
  <2> QED
    BY <2>1, FS_Subset, SidesAssumption DEF Points
<1> DEFINE of == [v \in Looks |-> {v} \X (1..bag[v])]
<1>2. {of[v] : v \in Looks} = {{v} \X (1..bag[v]) : v \in Looks}
  OBVIOUS
<1>3. IsFiniteSet({of[v] : v \in Looks})
  <2>1. of = [v \in Looks |-> of[v]]
    OBVIOUS
  <2> HIDE DEF of
  <2> QED
    BY <1>1, <2>1, ImageIsNoMore
<1>4. ASSUME NEW v \in Looks PROVE IsFiniteSet({v} \X (1..bag[v]))
  <2>1. IsFiniteSet({v})
    BY FS_Singleton
  <2>2. bag[v] \in Int /\ 1 \in Int
    BY DEF Bags
  <2>3. IsFiniteSet(1..bag[v])
    BY <2>2, FS_Interval
  <2> QED
    BY <2>1, <2>3, FS_Product
<1>5. IsFiniteSet(ReadsOf(bag))
  BY <1>2, <1>3, <1>4, FS_UNION DEF ReadsOf
<1>6. SizeOf(bag) \in Nat /\ (SizeOf(bag) = 0 <=> ReadsOf(bag) = {})
  BY <1>5, FS_CardinalityType, FS_EmptySet DEF SizeOf
<1>7. \A r \in ReadsOf(bag) : r[1] \in Looks
  BY DEF ReadsOf
<1>8. ASSUME NEW v \in Looks, bag[v] > 0 PROVE ReadsOf(bag) # {}
  <2>1. <<v, 1>> \in {v} \X (1..bag[v])
    BY <1>8 DEF Bags
  <2> QED
    BY <2>1 DEF ReadsOf
<1>9. ASSUME ReadsOf(bag) # {} PROVE \E v \in Looks : bag[v] > 0
  <2>0. PICK r : r \in ReadsOf(bag)
    BY <1>9
  <2>1. PICK v \in Looks : r \in {v} \X (1..bag[v])
    BY <2>0 DEF ReadsOf
  <2>2. r[2] \in 1..bag[v] /\ bag[v] \in Nat
    BY <2>1 DEF Bags
  <2> QED
    BY <2>2
<1>10. \A r \in ReadsOf(bag) : r[1] \in Points
  BY <1>7, SidesAssumption DEF Points
<1> QED
  BY <1>5, <1>6, <1>8, <1>9, <1>10

LEMMA RankedType ==
  ASSUME NEW bag \in Bags, NEW k \in Nat, k <= SizeOf(bag)
  PROVE  Ranked(bag, k) \in Points
<1> DEFINE upTo(p) == {r \in ReadsOf(bag) : r[1] <= p}
           reached == {p \in Points : Cardinality(upTo(p)) >= k}
<1>1. Furthest \in Points /\ Points \subseteq Nat
  BY SidesAssumption DEF Points
<1>2. upTo(Furthest) = ReadsOf(bag)
  BY SizeIs, SidesAssumption DEF Points
<1>3. Furthest \in reached
  BY <1>1, <1>2 DEF SizeOf
<1>4. reached \subseteq Nat /\ reached # {}
  BY <1>1, <1>3
<1> HIDE DEF reached
<1>5. Min(reached) \in reached
  BY <1>4, LeastIs
<1> QED
  BY <1>5 DEF Ranked, reached

LEMMA MedianType ==
  ASSUME NEW bag \in Bags, SizeOf(bag) > 0
  PROVE  Median(bag) \in Points
<1>1. PICK n \in Nat : n = SizeOf(bag) /\ n > 0
  BY SizeIs
<1>2. (n + 1) \div 2 \in Nat /\ (n + 1) \div 2 <= n /\ (n \div 2) + 1 \in Nat /\ (n \div 2) + 1 <= n
  BY <1>1
<1>3. Ranked(bag, (n + 1) \div 2) \in Points /\ Ranked(bag, (n \div 2) + 1) \in Points
  BY <1>1, <1>2, RankedType
<1>4. \A a, b \in Points : (a + b) \div 2 \in Points
  BY SidesAssumption DEF Points
<1> QED
  BY <1>1, <1>3, <1>4 DEF Median

\* A group that has been read.
Groups ==
  {g \in [reads : Bags, flat : Bags, fused : Points, now : BOOLEAN] : SizeOf(g.reads) > 0}

LEMMA FusedType ==
  ASSUME NEW group, group.reads \in Bags, group.flat \in Bags, SizeOf(group.reads) > 0
  PROVE  FusedOf(group) \in Points
<1>1. SizeOf(group.flat) >= MinReads => SizeOf(group.flat) > 0
  BY SizeIs, SidesAssumption
<1> QED
  BY <1>1, MedianType DEF FusedOf

LEMMA ReadAdded ==
  ASSUME NEW bag \in Bags, NEW v \in Looks
  PROVE  AddRead(bag, v) \in Bags /\ SizeOf(AddRead(bag, v)) > 0
<1>1. AddRead(bag, v) \in Bags /\ AddRead(bag, v)[v] > 0
  BY DEF AddRead, Bags
<1> QED
  BY <1>1, SizeIs

LEMMA ReadsAbsorbed ==
  ASSUME NEW bag \in Bags, NEW other \in Bags
  PROVE  /\ Absorbed(bag, other) \in Bags
         /\ SizeOf(bag) > 0 => SizeOf(Absorbed(bag, other)) > 0
<1>1. Absorbed(bag, other) \in Bags
  BY DEF Absorbed, Bags
<1>2. ASSUME NEW v \in Looks, bag[v] > 0 PROVE Absorbed(bag, other)[v] > 0
  BY <1>2 DEF Absorbed, Bags
<1> QED
  BY <1>1, <1>2, SizeIs


-----------------------------------------------------------------------------
(* Scans whose sides in view are those with a read of the newest frame     *)

Scans ==
  {s \in [groups : Seq(Groups), inView : SUBSET Nat] :
     s.inView = {i \in DOMAIN s.groups : s.groups[i].now}}

\* Iterates, of scans.
LEMMA ScansIterate ==
  ASSUME NEW x \in Scans, NEW step \in [Nat -> [Scans -> Scans]]
  PROVE  \E f \in [Nat -> Scans] : f = [n \in Nat |-> IF n = 0 THEN x ELSE step[n][f[n - 1]]]
BY Iterates

LEMMA ScanIs ==
  ASSUME NEW s \in Scans
  PROVE  /\ s.groups \in Seq(Groups) /\ Len(s.groups) \in Nat
         /\ DOMAIN s.groups = 1..Len(s.groups)
         /\ \A i \in 1..Len(s.groups) : s.groups[i] \in Groups
         /\ s.inView = {i \in 1..Len(s.groups) : s.groups[i].now}
         /\ IsFiniteSet(s.inView) /\ Cardinality(s.inView) \in Nat
         /\ Cardinality(s.inView) <= Len(s.groups)
         /\ s = [groups |-> s.groups, inView |-> s.inView]
<1>1. /\ s.groups \in Seq(Groups) /\ Len(s.groups) \in Nat
      /\ DOMAIN s.groups = 1..Len(s.groups)
      /\ s.inView = {i \in DOMAIN s.groups : s.groups[i].now}
      /\ s = [groups |-> s.groups, inView |-> s.inView]
  BY DEF Scans
<1>2. \A i \in 1..Len(s.groups) : s.groups[i] \in Groups
  BY <1>1
<1>3. IsFiniteSet(1..Len(s.groups)) /\ Cardinality(1..Len(s.groups)) = Len(s.groups)
  <2>1. PICK n \in Nat : n = Len(s.groups)
    BY <1>1
  <2>2. IsFiniteSet(1..n) /\ Cardinality(1..n) = IF 1 > n THEN 0 ELSE n - 1 + 1
    BY FS_Interval
  <2> QED
    BY <2>1, <2>2
<1>4. s.inView \subseteq 1..Len(s.groups)
  BY <1>1
<1>5. IsFiniteSet(s.inView) /\ Cardinality(s.inView) <= Len(s.groups)
  BY <1>3, <1>4, FS_Subset
<1>6. Cardinality(s.inView) \in Nat
  BY <1>5, FS_CardinalityType
<1> QED
  BY <1>1, <1>2, <1>5, <1>6

LEMMA ScanOf ==
  ASSUME NEW list \in Seq(Groups), NEW view, view = {i \in 1..Len(list) : list[i].now}
  PROVE  [groups |-> list, inView |-> view] \in Scans
<1>1. DOMAIN list = 1..Len(list) /\ Len(list) \in Nat
  OBVIOUS
<1>2. view \in SUBSET Nat
  BY <1>1
<1> QED
  BY <1>1, <1>2 DEF Scans

\* A removal renumbers those in view to what they are in the list that is left.
LEMMA RemovedView ==
  ASSUME NEW list \in Seq(Groups), NEW k \in 1..Len(list),
         NEW view, view = {j \in 1..Len(list) : j # k /\ list[j].now}
  PROVE  /\ [groups |-> RemoveAt(list, k), inView |-> Renumbered(view, k)] \in Scans
         /\ Cardinality(Renumbered(view, k)) <= Cardinality(view)
<1> DEFINE left == RemoveAt(list, k)
<1>1. Len(list) \in Nat /\ k \in Nat /\ k >= 1 /\ k <= Len(list)
  OBVIOUS
<1>2. /\ left \in Seq(Groups) /\ Len(left) = Len(list) - 1
      /\ \A i \in 1..(Len(list) - 1) : left[i] = IF i < k THEN list[i] ELSE list[i + 1]
  BY RemovedIs
<1> HIDE DEF left
<1>3. ASSUME NEW v \in view
      PROVE  LET j == IF v > k THEN v - 1 ELSE v IN j \in 1..Len(left) /\ left[j].now
  <2>1. v \in 1..Len(list) /\ v # k /\ list[v].now
    OBVIOUS
  <2>2. CASE v > k
    <3>1. v - 1 \in 1..(Len(list) - 1) /\ ~(v - 1 < k) /\ (v - 1) + 1 = v
      BY <1>1, <2>1, <2>2
    <3>2. left[v - 1] = list[v]
      BY <1>2, <3>1
    <3> QED
      BY <1>2, <2>1, <2>2, <3>1, <3>2
  <2>3. CASE ~(v > k)
    <3>1. v \in 1..(Len(list) - 1) /\ v < k
      BY <1>1, <2>1, <2>3
    <3>2. left[v] = list[v]
      BY <1>2, <3>1
    <3> QED
      BY <1>2, <2>1, <2>3, <3>1, <3>2
  <2> QED
    BY <2>2, <2>3
<1>4. ASSUME NEW j \in 1..Len(left), left[j].now
      PROVE  \E v \in view : j = IF v > k THEN v - 1 ELSE v
  <2>1. j \in 1..(Len(list) - 1)
    BY <1>2
  <2>2. CASE j < k
    <3>1. left[j] = list[j] /\ j \in 1..Len(list) /\ j # k /\ ~(j > k)
      BY <1>1, <1>2, <2>1, <2>2
    <3> QED
      BY <1>4, <3>1
  <2>3. CASE ~(j < k)
    <3>1. left[j] = list[j + 1] /\ j + 1 \in 1..Len(list) /\ j + 1 # k /\ j + 1 > k /\ (j + 1) - 1 = j
      BY <1>1, <1>2, <2>1, <2>3
    <3>2. j + 1 \in view
      BY <1>4, <3>1
    <3> QED
      BY <3>1, <3>2
  <2> QED
    BY <2>2, <2>3
<1>5. Renumbered(view, k) = {j \in 1..Len(left) : left[j].now}
  BY <1>3, <1>4 DEF Renumbered
<1>6. [groups |-> left, inView |-> Renumbered(view, k)] \in Scans
  BY <1>2, <1>5, ScanOf
<1>7. Cardinality(Renumbered(view, k)) <= Cardinality(view)
  <2> DEFINE f == [v \in view |-> IF v > k THEN v - 1 ELSE v]
  <2>1. {f[v] : v \in view} = Renumbered(view, k)
    BY DEF Renumbered
  <2>2. f = [v \in view |-> f[v]]
    OBVIOUS
  <2>3. IsFiniteSet(view)
    <3>1. IsFiniteSet(1..Len(list))
      BY <1>1, FS_Interval
    <3> QED
      BY <3>1, FS_Subset
  <2> HIDE DEF f
  <2> QED
    BY <2>1, <2>2, <2>3, ImageIsNoMore
<1> QED
  BY <1>6, <1>7 DEF left

\* absorb(): one group less, and no more in view.
LEMMA AbsorbKeeps ==
  ASSUME NEW s \in Scans, NEW keep \in 1..Len(s.groups),
         NEW other \in 1..Len(s.groups), keep < other
  PROVE  /\ Absorb(s, keep, other) \in Scans
         /\ Len(Absorb(s, keep, other).groups) = Len(s.groups) - 1
         /\ Cardinality(Absorb(s, keep, other).inView) <= Cardinality(s.inView)
<1> DEFINE a == s.groups[keep]
           b == s.groups[other]
           both == [a EXCEPT !.reads = Absorbed(@, b.reads),
                             !.flat = Absorbed(@, b.flat), !.now = @ \/ b.now]
           group == [both EXCEPT !.fused = FusedOf(both)]
           list == [s.groups EXCEPT ![keep] = group]
           view == {IF v = other THEN keep ELSE v : v \in s.inView}
<1>1. /\ s.groups \in Seq(Groups) /\ a \in Groups /\ b \in Groups
      /\ s.inView = {i \in 1..Len(s.groups) : s.groups[i].now}
      /\ IsFiniteSet(s.inView)
  BY ScanIs
<1>2. Absorb(s, keep, other) =
        [groups |-> RemoveAt(list, other), inView |-> Renumbered(view, other)]
  BY DEF Absorb
<1>3. /\ both = [reads |-> Absorbed(a.reads, b.reads), flat |-> Absorbed(a.flat, b.flat),
                 fused |-> a.fused, now |-> a.now \/ b.now]
      /\ a.reads \in Bags /\ b.reads \in Bags /\ a.flat \in Bags /\ b.flat \in Bags
      /\ a.fused \in Points /\ SizeOf(a.reads) > 0 /\ a.now \in BOOLEAN /\ b.now \in BOOLEAN
  <2>1. /\ a \in [reads : Bags, flat : Bags, fused : Points, now : BOOLEAN]
        /\ b \in [reads : Bags, flat : Bags, fused : Points, now : BOOLEAN]
        /\ SizeOf(a.reads) > 0
    BY <1>1, Zenon DEF Groups
  <2> HIDE DEF a, b
  <2>2. both = [reads |-> Absorbed(a.reads, b.reads), flat |-> Absorbed(a.flat, b.flat),
                fused |-> a.fused, now |-> a.now \/ b.now]
    <3> DEFINE n == a.now \/ b.now
               r == Absorbed(a.reads, b.reads)
               f == Absorbed(a.flat, b.flat)
    <3>1. both = [a EXCEPT !.reads = r, !.flat = f, !.now = n]
      OBVIOUS
    <3> HIDE DEF both, n, r, f
    <3>2. both = [reads |-> r, flat |-> f, fused |-> a.fused, now |-> n]
      BY <2>1, <3>1
    <3> QED
      BY <3>2, Zenon DEF n, r, f
  <2>3. /\ a.reads \in Bags /\ b.reads \in Bags /\ a.flat \in Bags /\ b.flat \in Bags
        /\ a.fused \in Points /\ a.now \in BOOLEAN /\ b.now \in BOOLEAN
    BY <2>1
  <2> QED
    BY <2>1, <2>2, <2>3
<1> HIDE DEF both
<1>4. /\ both.reads \in Bags /\ both.flat \in Bags /\ SizeOf(both.reads) > 0
      /\ both.now \in BOOLEAN /\ both.now = (a.now \/ b.now)
  BY <1>3, ReadsAbsorbed
<1>5. FusedOf(both) \in Points
  BY <1>4, FusedType
<1>6. group \in Groups /\ group.now = (a.now \/ b.now)
  <2>1. group = [reads |-> both.reads, flat |-> both.flat, fused |-> FusedOf(both), now |-> both.now]
    BY <1>3
  <2> HIDE DEF group
  <2> QED
    BY <1>4, <1>5, <2>1 DEF Groups
<1> HIDE DEF a, b, group
<1>7. list \in Seq(Groups) /\ Len(list) = Len(s.groups)
      /\ \A i \in 1..Len(s.groups) : list[i] = IF i = keep THEN group ELSE s.groups[i]
  BY <1>1, <1>6, ExceptSeq
<1> HIDE DEF list
<1>8. view = {j \in 1..Len(list) : j # other /\ list[j].now}
  <2>1. ASSUME NEW j \in view PROVE j \in 1..Len(list) /\ j # other /\ list[j].now
    <3>1. PICK v \in s.inView : j = IF v = other THEN keep ELSE v
      OBVIOUS
    <3>2. v \in 1..Len(s.groups) /\ s.groups[v].now /\ keep # other
      BY <1>1
    <3>3. j \in 1..Len(s.groups) /\ j # other
      BY <3>1, <3>2
    <3>4. j = keep => a.now \/ b.now
      BY <3>1, <3>2, Zenon DEF a, b
    <3>5. j = keep => list[j].now
      BY <1>6, <1>7, <3>4
    <3>6. j # keep => list[j].now
      BY <1>7, <3>1, <3>2
    <3> QED
      BY <1>7, <3>3, <3>5, <3>6
  <2>2. ASSUME NEW j \in 1..Len(list), j # other, list[j].now PROVE j \in view
    <3>1. CASE j = keep
      <4>1. s.groups[keep].now \/ s.groups[other].now
        BY <1>6, <1>7, <2>2, <3>1 DEF a, b
      <4> QED
        BY <1>1, <3>1, <4>1
    <3>2. CASE j # keep
      BY <1>1, <1>7, <2>2, <3>2
    <3> QED
      BY <3>1, <3>2
  <2> HIDE DEF view
  <2> QED
    BY <2>1, <2>2
<1>9. Cardinality(view) <= Cardinality(s.inView) /\ Cardinality(view) \in Nat
  <2> DEFINE f == [v \in s.inView |-> IF v = other THEN keep ELSE v]
  <2>1. {f[v] : v \in s.inView} = view
    OBVIOUS
  <2>2. f = [v \in s.inView |-> f[v]]
    OBVIOUS
  <2> HIDE DEF f, view
  <2>3. /\ IsFiniteSet({f[v] : v \in s.inView})
        /\ Cardinality({f[v] : v \in s.inView}) <= Cardinality(s.inView)
    BY <1>1, <2>2, ImageIsNoMore
  <2>4. Cardinality({f[v] : v \in s.inView}) \in Nat
    BY <2>3, FS_CardinalityType
  <2> QED
    BY <2>1, <2>3, <2>4
<1> HIDE DEF view
<1>10. other \in 1..Len(list)
  BY <1>7
<1>11. /\ [groups |-> RemoveAt(list, other), inView |-> Renumbered(view, other)] \in Scans
       /\ Cardinality(Renumbered(view, other)) <= Cardinality(view)
  BY <1>7, <1>8, <1>10, RemovedView
<1>12. Len(RemoveAt(list, other)) = Len(s.groups) - 1
  BY <1>7, <1>10, RemovedIs
<1>13. Cardinality(Renumbered(view, other)) \in Nat
  BY <1>11, ScanIs
<1>14. Cardinality(s.inView) \in Nat
  BY ScanIs
<1>15. Cardinality(Renumbered(view, other)) <= Cardinality(s.inView)
  BY <1>9, <1>11, <1>13, <1>14
<1> QED
  BY <1>2, <1>11, <1>12, <1>15

-----------------------------------------------------------------------------
(* Joining the groups that have come to be alike                           *)

LEMMA FirstOfIs ==
  ASSUME NEW pairs, pairs \subseteq Nat \X Nat, pairs # {}
  PROVE  FirstOf(pairs) \in pairs
<1> DEFINE firsts == {p[1] : p \in pairs}
<1>1. PICK a \in firsts : \A b \in firsts : a <= b
  <2>1. firsts \subseteq Nat /\ firsts # {}
    OBVIOUS
  <2> QED
    BY <2>1, LeastExists
<1> DEFINE seconds == {p[2] : p \in {q \in pairs : q[1] = a}}
<1>2. PICK c \in seconds : \A d \in seconds : c <= d
  <2>1. seconds \subseteq Nat /\ seconds # {}
    BY <1>1
  <2> QED
    BY <2>1, LeastExists
<1>3. PICK p \in pairs : p[1] = a /\ p[2] = c
  BY <1>2
<1>4. ASSUME NEW q \in pairs PROVE p[1] < q[1] \/ (p[1] = q[1] /\ p[2] <= q[2])
  <2>1. p[1] \in Nat /\ q[1] \in Nat /\ p[2] \in Nat /\ q[2] \in Nat /\ p[1] <= q[1]
    BY <1>1, <1>3
  <2>2. p[1] = q[1] => p[2] <= q[2]
    BY <1>2, <1>3
  <2> QED
    BY <2>1, <2>2
<1> QED
  BY <1>3, <1>4 DEF FirstOf

\* A step joins two groups, of no more sides in view, unless none are alike.
LEMMA MergeStep ==
  ASSUME NEW s \in Scans
  PROVE  /\ MergeFirst(s) \in Scans
         /\ Cardinality(MergeFirst(s).inView) <= Cardinality(s.inView)
         /\ \/ MergeFirst(s) = s /\ AlikePairs(s.groups) = {}
            \/ Len(MergeFirst(s).groups) = Len(s.groups) - 1 /\ Len(s.groups) > 0
<1> DEFINE pairs == AlikePairs(s.groups)
           p == FirstOf(pairs)
<1>1. DOMAIN s.groups = 1..Len(s.groups) /\ Len(s.groups) \in Nat /\ Cardinality(s.inView) \in Nat
  BY ScanIs
<1>2. CASE pairs = {}
  <2>1. MergeFirst(s) = s
    BY <1>2 DEF MergeFirst
  <2> QED
    BY <1>1, <1>2, <2>1
<1>3. CASE pairs # {}
  <2>1. pairs \subseteq Nat \X Nat
    BY <1>1 DEF AlikePairs
  <2>2. p \in pairs
    <3> HIDE DEF pairs
    <3> QED
      BY <1>3, <2>1, FirstOfIs
  <2>3. p[1] \in 1..Len(s.groups) /\ p[2] \in 1..Len(s.groups) /\ p[1] < p[2]
    BY <1>1, <2>2 DEF AlikePairs
  <2>4. MergeFirst(s) = Absorb(s, p[1], p[2])
    BY <1>3 DEF MergeFirst
  <2> HIDE DEF p, pairs
  <2>5. /\ MergeFirst(s) \in Scans /\ Len(MergeFirst(s).groups) = Len(s.groups) - 1
        /\ Cardinality(MergeFirst(s).inView) <= Cardinality(s.inView)
    BY <2>3, <2>4, AbsorbKeeps
  <2> QED
    BY <1>1, <2>3, <2>5
<1> QED
  BY <1>2, <1>3

\* The joins keep a scan, no longer and with no more in view, and go on until
\* no two of its groups are alike.
LEMMA MergeKeeps ==
  ASSUME NEW s \in Scans
  PROVE  /\ MergeAlike(s) \in Scans
         /\ Len(MergeAlike(s).groups) <= Len(s.groups)
         /\ Cardinality(MergeAlike(s).inView) <= Cardinality(s.inView)
         /\ AlikePairs(MergeAlike(s).groups) = {}
<1> DEFINE L == Len(s.groups)
           C == Cardinality(s.inView)
           F(f) == [n \in Nat |-> IF n = 0 THEN s ELSE MergeFirst(f[n - 1])]
<1>1. L \in Nat /\ C \in Nat
  BY ScanIs
<1>2. PICK g : g = (CHOOSE f : f = F(f)) /\ MergeAlike(s) = g[L]
  BY Zenon DEF MergeAlike
<1>3. \E f : f = F(f)
  <2> DEFINE step == [n \in Nat |-> [x \in Scans |-> MergeFirst(x)]]
  <2>1. step \in [Nat -> [Scans -> Scans]]
    BY MergeStep
  <2>2. \A n \in Nat, x \in Scans : step[n][x] = MergeFirst(x)
    OBVIOUS
  <2> HIDE DEF step
  <2>3. PICK f \in [Nat -> Scans] :
          f = [n \in Nat |-> IF n = 0 THEN s ELSE step[n][f[n - 1]]]
    BY <2>1, ScansIterate
  <2>4. ASSUME NEW n \in Nat
        PROVE  (IF n = 0 THEN s ELSE step[n][f[n - 1]]) = (IF n = 0 THEN s ELSE MergeFirst(f[n - 1]))
    <3>1. n # 0 => f[n - 1] \in Scans
      BY <2>3
    <3> QED
      BY <2>2, <3>1
  <2>5. f = F(f)
    BY <2>3, <2>4, Zenon
  <2> QED
    BY <2>5
<1>4. g = F(g)
  BY <1>2, <1>3, Zenon
<1>5. g[0] = s /\ \A n \in Nat : g[n + 1] = MergeFirst(g[n])
  <2>1. \A n \in Nat : g[n] = IF n = 0 THEN s ELSE MergeFirst(g[n - 1])
    BY <1>4, Zenon
  <2>2. \A n \in Nat : n + 1 \in Nat /\ n + 1 # 0 /\ (n + 1) - 1 = n
    OBVIOUS
  <2> QED
    BY <2>1, <2>2
<1> HIDE DEF F
<1> DEFINE Kept == {n \in Nat : /\ g[n] \in Scans
                                /\ Len(g[n].groups) <= L
                                /\ Cardinality(g[n].inView) <= C
                                /\ \/ AlikePairs(g[n].groups) = {}
                                   \/ Len(g[n].groups) <= L - n}
<1>6. 0 \in Kept
  <2>1. L <= L /\ C <= C /\ L <= L - 0
    BY <1>1
  <2> QED
    BY <1>5, <2>1, Zenon
<1>7. ASSUME NEW n \in Nat, n \in Kept PROVE n + 1 \in Kept
  <2> DEFINE x == g[n]
             y == g[n + 1]
  <2>1. /\ x \in Scans /\ Len(x.groups) <= L /\ Cardinality(x.inView) <= C
        /\ AlikePairs(x.groups) = {} \/ Len(x.groups) <= L - n
    BY <1>7
  <2>2. y = MergeFirst(x)
    BY <1>5
  <2> HIDE DEF x, y
  <2>3. /\ y \in Scans /\ Cardinality(y.inView) <= Cardinality(x.inView)
        /\ \/ y = x /\ AlikePairs(x.groups) = {}
           \/ Len(y.groups) = Len(x.groups) - 1 /\ Len(x.groups) > 0
    BY <2>1, <2>2, MergeStep
  <2>4. /\ Len(x.groups) \in Nat /\ Cardinality(x.inView) \in Nat
        /\ Len(y.groups) \in Nat /\ Cardinality(y.inView) \in Nat
    BY <2>1, <2>3, ScanIs
  <2>5. Cardinality(y.inView) <= C /\ Len(y.groups) <= L
    BY <1>1, <2>1, <2>3, <2>4
  <2>6. AlikePairs(y.groups) = {} \/ Len(y.groups) <= L - (n + 1)
    <3>1. CASE y = x /\ AlikePairs(x.groups) = {}
      BY <3>1
    <3>2. CASE Len(y.groups) = Len(x.groups) - 1 /\ Len(x.groups) > 0
      <4>1. CASE Len(x.groups) <= L - n
        BY <1>1, <2>4, <3>2, <4>1
      <4>2. CASE AlikePairs(x.groups) = {}
        <5>1. MergeFirst(x) = x
          BY <4>2 DEF MergeFirst
        <5> QED
          BY <2>2, <4>2, <5>1
      <4> QED
        BY <2>1, <4>1, <4>2
    <3> QED
      BY <2>3, <3>1, <3>2
  <2> QED
    BY <2>3, <2>5, <2>6 DEF y
<1> HIDE DEF Kept
<1>8. \A n \in Nat : n \in Kept
  BY <1>6, <1>7, Induct
<1>9. L \in Kept
  BY <1>1, <1>8
<1>10. /\ g[L] \in Scans /\ Len(g[L].groups) <= L /\ Cardinality(g[L].inView) <= C
       /\ AlikePairs(g[L].groups) = {} \/ Len(g[L].groups) <= L - L
  BY <1>9 DEF Kept
<1>11. AlikePairs(g[L].groups) = {}
  <2>1. CASE Len(g[L].groups) <= L - L
    <3>1. Len(g[L].groups) = 0 /\ DOMAIN g[L].groups = 1..Len(g[L].groups)
      BY <1>1, <1>10, <2>1, ScanIs
    <3>2. DOMAIN g[L].groups = {}
      BY <3>1
    <3> QED
      BY <3>2 DEF AlikePairs
  <2> QED
    BY <1>10, <2>1
<1> QED
  BY <1>2, <1>10, <1>11

-----------------------------------------------------------------------------
(* A read of a scan                                                        *)

\* The group dropped is not in view; there is one unless all are.
LEMMA DropKeeps ==
  ASSUME NEW s \in Scans, Len(s.groups) <= MaxGroups + 1,
         Cardinality(s.inView) <= MaxGroups
  PROVE  /\ DropWeakest(s) \in Scans
         /\ Len(DropWeakest(s).groups) <= MaxGroups
         /\ Cardinality(DropWeakest(s).inView) <= Cardinality(s.inView)
<1> DEFINE strays == DOMAIN s.groups \ s.inView
           reads(i) == SizeOf(s.groups[i].reads)
           Weakest(i) == \A j \in strays :
                           reads(i) < reads(j) \/ (reads(i) = reads(j) /\ i <= j)
           weakest == CHOOSE i \in strays : Weakest(i)
<1>1. /\ s.groups \in Seq(Groups) /\ Len(s.groups) \in Nat
      /\ DOMAIN s.groups = 1..Len(s.groups)
      /\ s.inView = {i \in 1..Len(s.groups) : s.groups[i].now}
      /\ Cardinality(s.inView) \in Nat /\ MaxGroups \in Nat
      /\ \A i \in 1..Len(s.groups) : s.groups[i] \in Groups
  BY ScanIs, SidesAssumption
<1>2. CASE Len(s.groups) <= MaxGroups
  <2>1. DropWeakest(s) = s
    BY <1>2 DEF DropWeakest
  <2>2. Cardinality(s.inView) <= Cardinality(s.inView)
    BY <1>1
  <2> QED
    BY <1>2, <2>1, <2>2, Zenon
<1>3. CASE ~(Len(s.groups) <= MaxGroups)
  <2>1. strays # {}
    <3> SUFFICES ASSUME strays = {} PROVE FALSE
      OBVIOUS
    <3>1. s.inView = 1..Len(s.groups)
      BY <1>1
    <3>2. Cardinality(1..Len(s.groups)) = Len(s.groups)
      <4>1. PICK n \in Nat : n = Len(s.groups)
        BY <1>1
      <4>2. Cardinality(1..n) = IF 1 > n THEN 0 ELSE n - 1 + 1
        BY FS_Interval
      <4> QED
        BY <4>1, <4>2
    <3> QED
      BY <1>1, <1>3, <3>1, <3>2
  <2>2. strays \subseteq Nat /\ strays \subseteq 1..Len(s.groups)
    BY <1>1
  <2>3. \E i \in strays : Weakest(i)
    <3> DEFINE f == [i \in strays |-> reads(i)]
    <3>1. \A i \in strays : f[i] \in Nat
      <4>1. ASSUME NEW i \in strays PROVE reads(i) \in Nat
        <5>1. s.groups[i] \in Groups
          BY <1>1, <2>2
        <5>2. s.groups[i].reads \in Bags
          BY <5>1 DEF Groups
        <5> QED
          BY <5>2, SizeIs
      <4> QED
        BY <4>1
    <3>2. \A i \in strays : f[i] = reads(i)
      OBVIOUS
    <3> HIDE DEF f, strays
    <3>3. PICK i \in strays : \A j \in strays : f[i] < f[j] \/ (f[i] = f[j] /\ i <= j)
      BY <2>1, <2>2, <3>1, FirstExists
    <3>4. Weakest(i)
      BY <3>2, <3>3
    <3> QED
      BY <3>4
  <2>4. weakest \in strays
    <3> HIDE DEF Weakest, strays
    <3> QED
      BY <2>3
  <2>5. DropWeakest(s) = [groups |-> RemoveAt(s.groups, weakest),
                          inView |-> Renumbered(s.inView, weakest)]
    BY <1>3, <2>1 DEF DropWeakest
  <2> HIDE DEF weakest
  <2>6. weakest \in 1..Len(s.groups) /\ weakest \notin s.inView
    BY <2>2, <2>4
  <2>7. s.inView = {j \in 1..Len(s.groups) : j # weakest /\ s.groups[j].now}
    BY <1>1, <2>6
  <2>8. /\ DropWeakest(s) \in Scans
        /\ Cardinality(DropWeakest(s).inView) <= Cardinality(s.inView)
    BY <1>1, <2>5, <2>6, <2>7, RemovedView
  <2>9. Len(DropWeakest(s).groups) = Len(s.groups) - 1
    BY <1>1, <2>5, <2>6, RemovedIs
  <2> QED
    BY <1>1, <2>8, <2>9
<1> QED
  BY <1>2, <1>3

\* The read joins a group or begins one, and that group is in view.
LEMMA JoinKeeps ==
  ASSUME NEW s \in Scans, NEW look \in Looks, NEW flat \in BOOLEAN
  PROVE  /\ Joined(s, look, flat) \in Scans
         /\ Len(Joined(s, look, flat).groups) <= Len(s.groups) + 1
         /\ Cardinality(Joined(s, look, flat).inView) <= Cardinality(s.inView) + 1
<1> DEFINE list == s.groups
           apart(i) == Apart(look, list[i].fused)
           claiming == {i \in DOMAIN list : apart(i) <= Near}
           Nearest(i) == \A j \in claiming :
                           apart(i) < apart(j) \/ (apart(i) = apart(j) /\ i <= j)
           nearest == CHOOSE i \in claiming : Nearest(i)
           group == IF claiming = {}
                    THEN [reads |-> NoReads, flat |-> NoReads, fused |-> look, now |-> TRUE]
                    ELSE list[nearest]
           more == [group EXCEPT !.reads = AddRead(@, look),
                                 !.flat = IF flat THEN AddRead(@, look) ELSE @,
                                 !.now = TRUE]
           fused == [more EXCEPT !.fused = FusedOf(more)]
<1>1. /\ list \in Seq(Groups) /\ Len(list) \in Nat /\ DOMAIN list = 1..Len(list)
      /\ \A i \in 1..Len(list) : list[i] \in Groups
      /\ s.inView = {i \in 1..Len(list) : list[i].now}
      /\ IsFiniteSet(s.inView) /\ Cardinality(s.inView) \in Nat
  BY ScanIs
<1>2. Joined(s, look, flat) =
        IF claiming = {}
        THEN [groups |-> Append(list, fused), inView |-> s.inView \cup {Len(list) + 1}]
        ELSE [groups |-> [list EXCEPT ![nearest] = fused], inView |-> s.inView \cup {nearest}]
  BY DEF Joined
<1>3. claiming # {} => nearest \in 1..Len(list)
  <2> SUFFICES ASSUME claiming # {} PROVE nearest \in 1..Len(list)
    OBVIOUS
  <2>1. claiming \subseteq Nat /\ claiming \subseteq 1..Len(list)
    BY <1>1
  <2> DEFINE f == [i \in claiming |-> apart(i)]
  <2>2. \A i \in claiming : f[i] \in Nat
    <3>1. ASSUME NEW i \in claiming PROVE apart(i) \in Nat
      <4>1. list[i] \in Groups
        BY <1>1, <2>1
      <4>2. list[i].fused \in Points
        BY <4>1 DEF Groups
      <4> QED
        BY <4>2, SidesAssumption DEF Apart, Points
    <3> QED
      BY <3>1
  <2>3. \A i \in claiming : f[i] = apart(i)
    OBVIOUS
  <2> HIDE DEF f, claiming
  <2>4. PICK i \in claiming : \A j \in claiming : f[i] < f[j] \/ (f[i] = f[j] /\ i <= j)
    BY <2>1, <2>2, FirstExists
  <2>5. Nearest(i)
    BY <2>3, <2>4
  <2> HIDE DEF Nearest
  <2>6. nearest \in claiming
    BY <2>5
  <2> QED
    BY <2>1, <2>6
<1> HIDE DEF nearest, claiming
<1>4. group \in [reads : Bags, flat : Bags, fused : Points, now : BOOLEAN]
  <2>1. CASE claiming = {}
    <3>1. NoReads \in Bags
      BY DEF NoReads, Bags
    <3>2. group = [reads |-> NoReads, flat |-> NoReads, fused |-> look, now |-> TRUE]
      BY <2>1
    <3>3. look \in Points
      BY SidesAssumption DEF Points
    <3> HIDE DEF group
    <3> QED
      BY <3>1, <3>2, <3>3
  <2>2. CASE claiming # {}
    <3>1. group = list[nearest] /\ list[nearest] \in Groups
      BY <1>1, <1>3, <2>2
    <3> HIDE DEF group
    <3> QED
      BY <3>1, Zenon DEF Groups
  <2> QED
    BY <2>1, <2>2
<1> HIDE DEF group
<1>5. /\ more \in [reads : Bags, flat : Bags, fused : Points, now : {TRUE}]
      /\ SizeOf(more.reads) > 0
  <2> DEFINE r == AddRead(group.reads, look)
             f == IF flat THEN AddRead(group.flat, look) ELSE group.flat
  <2>1. r \in Bags /\ SizeOf(r) > 0 /\ f \in Bags
    BY <1>4, ReadAdded
  <2>2. more = [group EXCEPT !.reads = r, !.flat = f, !.now = TRUE]
    OBVIOUS
  <2> HIDE DEF more, r, f
  <2>3. more \in [reads : Bags, flat : Bags, fused : Points, now : {TRUE}]
    BY <1>4, <2>1, <2>2
  <2>4. more.reads = r
    BY <1>4, <2>2
  <2> QED
    BY <2>1, <2>3, <2>4
<1> HIDE DEF more
<1>6. fused \in Groups /\ fused.now
  <2> DEFINE m == FusedOf(more)
  <2>1. m \in Points
    <3>1. more.reads \in Bags /\ more.flat \in Bags
      BY <1>5
    <3> QED
      BY <1>5, <3>1, FusedType
  <2>2. fused = [more EXCEPT !.fused = m]
    OBVIOUS
  <2> HIDE DEF fused, m
  <2>3. fused \in [reads : Bags, flat : Bags, fused : Points, now : BOOLEAN]
    BY <1>5, <2>1, <2>2
  <2>4. fused.reads = more.reads
    BY <1>5, <2>2
  <2>5. fused.now
    BY <1>5, <2>2
  <2> QED
    BY <1>5, <2>3, <2>4, <2>5 DEF Groups
<1> HIDE DEF fused, list
<1>7. CASE claiming = {}
  <2> DEFINE longer == Append(list, fused)
             view == s.inView \cup {Len(list) + 1}
  <2>1. /\ longer \in Seq(Groups) /\ Len(longer) = Len(list) + 1
        /\ \A i \in 1..Len(list) : longer[i] = list[i]
        /\ longer[Len(list) + 1] = fused
    BY <1>1, <1>6, AppendProperties
  <2> HIDE DEF longer
  <2>2. view = {i \in 1..Len(longer) : longer[i].now}
    <3>1. 1..Len(longer) = 1..Len(list) \cup {Len(list) + 1}
      BY <1>1, <2>1
    <3> QED
      BY <1>1, <1>6, <2>1, <3>1
  <2>3. Cardinality(view) <= Cardinality(s.inView) + 1
    <3>1. Cardinality(view) = Cardinality(s.inView) \/ Cardinality(view) = Cardinality(s.inView) + 1
      BY <1>1, FS_AddElement, Zenon
    <3> QED
      BY <1>1, <3>1
  <2>4. Joined(s, look, flat) = [groups |-> longer, inView |-> view]
    BY <1>2, <1>7 DEF longer
  <2> HIDE DEF view
  <2>5. [groups |-> longer, inView |-> view] \in Scans
    BY <2>1, <2>2, ScanOf
  <2> QED
    BY <1>1, <2>1, <2>3, <2>4, <2>5 DEF list
<1>8. CASE claiming # {}
  <2> DEFINE other == [list EXCEPT ![nearest] = fused]
             view == s.inView \cup {nearest}
  <2>1. /\ other \in Seq(Groups) /\ Len(other) = Len(list)
        /\ \A i \in 1..Len(list) : other[i] = IF i = nearest THEN fused ELSE list[i]
    BY <1>1, <1>3, <1>6, <1>8, ExceptSeq
  <2> HIDE DEF other
  <2>2. view = {i \in 1..Len(other) : other[i].now}
    <3>1. nearest \in 1..Len(list)
      BY <1>3, <1>8
    <3> QED
      BY <1>1, <1>6, <2>1, <3>1
  <2>3. Cardinality(view) <= Cardinality(s.inView) + 1
    <3>1. Cardinality(view) = Cardinality(s.inView) \/ Cardinality(view) = Cardinality(s.inView) + 1
      BY <1>1, FS_AddElement, Zenon
    <3> QED
      BY <1>1, <3>1
  <2>4. Joined(s, look, flat) = [groups |-> other, inView |-> view]
    BY <1>2, <1>8 DEF other
  <2> HIDE DEF view
  <2>5. [groups |-> other, inView |-> view] \in Scans
    BY <2>1, <2>2, ScanOf
  <2> QED
    BY <1>1, <2>1, <2>3, <2>4, <2>5 DEF list
<1> QED
  BY <1>7, <1>8

\* A read brings one more side into view at most, and the groups stay within
\* their number as long as fewer than that are in view.
LEMMA CountKeeps ==
  ASSUME NEW s \in Scans, Len(s.groups) <= MaxGroups,
         Cardinality(s.inView) < MaxGroups, NEW look \in Looks, NEW flat \in BOOLEAN
  PROVE  /\ CountRead(s, look, flat) \in Scans
         /\ Len(CountRead(s, look, flat).groups) <= MaxGroups
         /\ Cardinality(CountRead(s, look, flat).inView) <= Cardinality(s.inView) + 1
<1> DEFINE joined == Joined(s, look, flat)
           merged == MergeAlike(joined)
<1>1. Len(s.groups) \in Nat /\ Cardinality(s.inView) \in Nat /\ MaxGroups \in Nat
  BY ScanIs, SidesAssumption
<1>2. CASE ~flat /\ InDoubt(s, look)
  <2>1. CountRead(s, look, flat) = s
    BY <1>2 DEF CountRead
  <2> QED
    BY <1>1, <2>1
<1>3. CASE ~(~flat /\ InDoubt(s, look))
  <2>1. CountRead(s, look, flat) = DropWeakest(merged)
    BY <1>3 DEF CountRead
  <2>2. /\ joined \in Scans /\ Len(joined.groups) <= Len(s.groups) + 1
        /\ Cardinality(joined.inView) <= Cardinality(s.inView) + 1
    BY JoinKeeps
  <2> HIDE DEF joined
  <2>3. /\ merged \in Scans /\ Len(merged.groups) <= Len(joined.groups)
        /\ Cardinality(merged.inView) <= Cardinality(joined.inView)
    BY <2>2, MergeKeeps
  <2> HIDE DEF merged
  <2>4. /\ Len(joined.groups) \in Nat /\ Cardinality(joined.inView) \in Nat
        /\ Len(merged.groups) \in Nat /\ Cardinality(merged.inView) \in Nat
    BY <2>2, <2>3, ScanIs
  <2>5. /\ Len(merged.groups) <= MaxGroups + 1
        /\ Cardinality(merged.inView) <= MaxGroups
        /\ Cardinality(merged.inView) <= Cardinality(s.inView) + 1
    <3>1. Len(merged.groups) <= MaxGroups + 1
      BY <1>1, <2>2, <2>3, <2>4
    <3>2. Cardinality(merged.inView) <= Cardinality(s.inView) + 1
      BY <1>1, <2>2, <2>3, <2>4
    <3>3. Cardinality(merged.inView) <= MaxGroups
      BY <1>1, <2>4, <3>2
    <3> QED
      BY <3>1, <3>2, <3>3
  <2>6. /\ DropWeakest(merged) \in Scans /\ Len(DropWeakest(merged).groups) <= MaxGroups
        /\ Cardinality(DropWeakest(merged).inView) <= Cardinality(merged.inView)
    BY <2>3, <2>5, DropKeeps
  <2>7. Cardinality(DropWeakest(merged).inView) \in Nat
    BY <2>6, ScanIs
  <2>8. Cardinality(DropWeakest(merged).inView) <= Cardinality(s.inView) + 1
    BY <1>1, <2>4, <2>5, <2>6, <2>7
  <2> QED
    BY <2>1, <2>6, <2>8
<1> QED
  BY <1>2, <1>3

-----------------------------------------------------------------------------
(* The frames                                                              *)

\* The sides of the scan, and that they are within their number.
ScanInv ==
  /\ groups \in Seq(Groups) /\ Len(groups) <= MaxGroups
  /\ inView = {i \in DOMAIN groups : groups[i].now}

FramesInv == previous \in BOOLEAN /\ previousCorners \in BOOLEAN /\ frames \in 0..MaxFrames

SideInv == ScanInv /\ FramesInv

LEMMA NothingIs ==
  ASSUME ScanInv
  PROVE  /\ NothingInView \in Scans /\ Len(NothingInView.groups) <= MaxGroups
         /\ Cardinality(NothingInView.inView) = 0
<1> DEFINE list == [i \in DOMAIN groups |-> [groups[i] EXCEPT !.now = FALSE]]
<1>1. Len(groups) \in Nat /\ DOMAIN groups = 1..Len(groups)
      /\ \A i \in 1..Len(groups) : groups[i] \in Groups
  BY DEF ScanInv
<1>2. ASSUME NEW i \in 1..Len(groups)
      PROVE  list[i] \in Groups /\ ~list[i].now
  <2>1. groups[i] \in [reads : Bags, flat : Bags, fused : Points, now : BOOLEAN]
        /\ SizeOf(groups[i].reads) > 0
    BY <1>1, Zenon DEF Groups
  <2>2. list[i] = [groups[i] EXCEPT !.now = FALSE]
    BY <1>1
  <2> HIDE DEF list
  <2>3. /\ list[i] \in [reads : Bags, flat : Bags, fused : Points, now : BOOLEAN]
        /\ list[i].reads = groups[i].reads /\ list[i].now = FALSE
    BY <2>1, <2>2
  <2> QED
    BY <2>1, <2>3 DEF Groups
<1>3. list \in Seq(Groups) /\ Len(list) = Len(groups)
  <2>1. list = [i \in 1..Len(groups) |-> list[i]]
    BY <1>1
  <2> HIDE DEF list
  <2> QED
    BY <1>1, <1>2, <2>1
<1>4. NothingInView = [groups |-> list, inView |-> {}]
  BY DEF NothingInView
<1> HIDE DEF list
<1>5. [groups |-> list, inView |-> {}] \in Scans
  BY <1>2, <1>3, ScanOf
<1>6. Cardinality({}) = 0
  BY FS_EmptySet
<1> QED
  BY <1>3, <1>4, <1>5, <1>6 DEF ScanInv

\* A side of a corner view brings one more side into view at most.
LEMMA CornerKeeps ==
  ASSUME ScanInv, NEW looks \in Seq(Looks), Len(looks) <= MaxSides
  PROVE  CountCorner(looks) \in Scans /\ Len(CountCorner(looks).groups) <= MaxGroups
<1> DEFINE L == Len(looks)
           F(f) == [n \in 0..L |-> IF n = 0 THEN NothingInView
                                   ELSE CountRead(f[n - 1], looks[n], FALSE)]
           Fine(n) == {x \in Scans : /\ Len(x.groups) <= MaxGroups
                                     /\ Cardinality(x.inView) <= n}
<1>1. L \in Nat /\ L <= MaxGroups /\ MaxGroups \in Nat /\ \A n \in 1..L : looks[n] \in Looks
  BY SidesAssumption
<1>2. NothingInView \in Fine(0)
  BY NothingIs
<1>3. ASSUME NEW n \in 1..L, NEW x \in Fine(n - 1)
      PROVE  CountRead(x, looks[n], FALSE) \in Fine(n)
  <2>1. x \in Scans /\ Len(x.groups) <= MaxGroups /\ Cardinality(x.inView) <= n - 1
    BY <1>3
  <2>2. Cardinality(x.inView) \in Nat /\ n \in Nat /\ n <= MaxGroups
    BY <1>1, <2>1, ScanIs
  <2>3. Cardinality(x.inView) < MaxGroups
    BY <1>1, <2>1, <2>2
  <2> DEFINE y == CountRead(x, looks[n], FALSE)
  <2>4. /\ y \in Scans /\ Len(y.groups) <= MaxGroups
        /\ Cardinality(y.inView) <= Cardinality(x.inView) + 1
    BY <1>1, <2>1, <2>3, CountKeeps
  <2> HIDE DEF y
  <2>5. Cardinality(y.inView) \in Nat
    BY <2>4, ScanIs
  <2>6. Cardinality(y.inView) <= n
    BY <2>1, <2>2, <2>4, <2>5
  <2> QED
    BY <2>4, <2>6 DEF y
<1> HIDE DEF L, Fine
<1>4. PICK g : g = (CHOOSE f : f = F(f)) /\ CountCorner(looks) = g[L]
  BY Zenon DEF CountCorner, L
<1>5. \E f : f = F(f)
  <2> DEFINE Next1(n, x) == IF n \in 1..L /\ x \in Fine(n - 1)
                            THEN CountRead(x, looks[n], FALSE) ELSE x
             step == [n \in Nat |-> [x \in Scans |-> Next1(n, x)]]
  <2>1. \A n \in Nat, x \in Scans : Next1(n, x) \in Scans
    BY <1>3 DEF Fine
  <2>2. \A n \in Nat, x \in Scans : step[n][x] = Next1(n, x)
    OBVIOUS
  <2>3. step \in [Nat -> [Scans -> Scans]]
    BY <2>1
  <2>4. NothingInView \in Scans
    BY <1>2 DEF Fine
  <2> HIDE DEF step, Next1
  <2>5. PICK h \in [Nat -> Scans] :
          h = [n \in Nat |-> IF n = 0 THEN NothingInView ELSE step[n][h[n - 1]]]
    <3>1. PICK x \in Scans : x = NothingInView
      BY <2>4
    <3>2. PICK st \in [Nat -> [Scans -> Scans]] : st = step
      BY <2>3
    <3>3. \E f \in [Nat -> Scans] : f = [n \in Nat |-> IF n = 0 THEN x ELSE st[n][f[n - 1]]]
      <4> HIDE DEF F
      <4>1. x \in Scans
        BY <3>1
      <4>2. st \in [Nat -> [Scans -> Scans]]
        BY <3>2
      <4> QED
        BY <4>1, <4>2, ScansIterate
    <3> QED
      BY <3>1, <3>2, <3>3
  <2>6. h[0] = NothingInView /\ \A n \in Nat : h[n + 1] = step[n + 1][h[n]]
    <3>1. \A n \in Nat : h[n] = IF n = 0 THEN NothingInView ELSE step[n][h[n - 1]]
      BY <2>5, Zenon
    <3>2. \A n \in Nat : n + 1 \in Nat /\ n + 1 # 0 /\ (n + 1) - 1 = n
      OBVIOUS
    <3> QED
      BY <3>1, <3>2
  <2> DEFINE Good == {n \in Nat : n <= L => h[n] \in Fine(n)}
  <2>7. 0 \in Good
    BY <1>2, <2>6
  <2>8. ASSUME NEW n \in Nat, n \in Good, n + 1 <= L
        PROVE  /\ h[n] \in Fine(n)
               /\ h[n + 1] = CountRead(h[n], looks[n + 1], FALSE)
               /\ h[n + 1] \in Fine(n + 1)
    <3>1. n <= L /\ n + 1 \in 1..L /\ (n + 1) - 1 = n /\ n + 1 \in Nat
      BY <1>1, <2>8
    <3>2. h[n] \in Fine(n) /\ h[n] \in Scans
      BY <2>5, <2>8, <3>1
    <3>3. step[n + 1][h[n]] = Next1(n + 1, h[n])
      BY <2>2, <3>1, <3>2
    <3>4. Next1(n + 1, h[n]) = CountRead(h[n], looks[n + 1], FALSE)
      BY <3>1, <3>2 DEF Next1
    <3>5. CountRead(h[n], looks[n + 1], FALSE) \in Fine(n + 1)
      BY <1>3, <3>1, <3>2
    <3> QED
      BY <2>6, <3>2, <3>3, <3>4, <3>5
  <2>9. \A n \in Nat : n \in Good => n + 1 \in Good
    <3>1. \A n \in Nat : n \in Good /\ n + 1 <= L => h[n + 1] \in Fine(n + 1)
      BY <2>8
    <3> QED
      BY <3>1
  <2>10. \A n \in Nat : n \in Good
    <3> HIDE DEF Good
    <3> QED
      BY <2>7, <2>9, Induct
  <2> DEFINE k == [n \in 0..L |-> h[n]]
  <2>11. ASSUME NEW n \in 0..L
         PROVE  k[n] = IF n = 0 THEN NothingInView ELSE CountRead(k[n - 1], looks[n], FALSE)
    <3>1. CASE n = 0
      BY <2>6, <3>1
    <3>2. CASE n # 0
      <4>1. n - 1 \in Nat /\ (n - 1) + 1 = n /\ n <= L /\ n - 1 \in 0..L
        BY <1>1, <3>2
      <4>2. h[n] = CountRead(h[n - 1], looks[n], FALSE)
        <5>1. PICK m \in Nat : m = n - 1 /\ m + 1 = n
          BY <4>1
        <5>2. h[m + 1] = CountRead(h[m], looks[m + 1], FALSE)
          BY <2>8, <2>10, <4>1, <5>1
        <5> QED
          BY <5>1, <5>2
      <4>3. k[n] = h[n] /\ k[n - 1] = h[n - 1]
        BY <4>1
      <4> QED
        BY <3>2, <4>2, <4>3
    <3> QED
      BY <3>1, <3>2
  <2>12. k = [n \in 0..L |-> k[n]]
    OBVIOUS
  <2> HIDE DEF k
  <2>13. k = F(k)
    BY <2>11, <2>12
  <2> QED
    BY <2>13
<1>6. g = F(g)
  BY <1>4, <1>5, Zenon
<1>7. \A n \in 0..L : g[n] = IF n = 0 THEN NothingInView ELSE CountRead(g[n - 1], looks[n], FALSE)
  BY <1>6, Zenon
<1> HIDE DEF F
<1> DEFINE Good == {n \in Nat : n <= L => g[n] \in Fine(n)}
<1>8. 0 \in Good
  <2>1. 0 \in 0..L
    BY <1>1
  <2>2. g[0] = NothingInView
    BY <1>7, <2>1
  <2> QED
    BY <1>2, <2>2
<1>9. ASSUME NEW n \in Nat, n \in Good, n + 1 <= L PROVE g[n + 1] \in Fine(n + 1)
  <2>1. n <= L /\ n + 1 \in 1..L /\ n + 1 \in 0..L /\ n + 1 # 0 /\ (n + 1) - 1 = n
    BY <1>1, <1>9
  <2>2. g[n + 1] = CountRead(g[n], looks[n + 1], FALSE)
    BY <1>7, <2>1
  <2>3. g[n] \in Fine((n + 1) - 1)
    BY <1>9, <2>1
  <2> QED
    BY <1>3, <2>1, <2>2, <2>3
<1>10. \A n \in Nat : n \in Good
  <2>1. \A n \in Nat : n \in Good => n + 1 \in Good
    BY <1>9
  <2> HIDE DEF Good
  <2> QED
    BY <1>8, <2>1, Induct
<1>11. g[L] \in Fine(L)
  BY <1>1, <1>10
<1> QED
  BY <1>4, <1>11 DEF Fine

\* A scan that is within its number becomes the controller's.
LEMMA BecomesKeeps ==
  ASSUME NEW s \in Scans, Len(s.groups) <= MaxGroups, Becomes(s)
  PROVE  ScanInv'
<1>1. s.groups \in Seq(Groups) /\ s.inView = {i \in DOMAIN s.groups : s.groups[i].now}
  BY DEF Scans
<1> QED
  BY <1>1 DEF Becomes, ScanInv

LEMMA SideInit ==
  ASSUME SidesInit
  PROVE  SideInv
<1>1. groups \in Seq(Groups) /\ Len(groups) = 0 /\ DOMAIN groups = {}
  BY DEF SidesInit
<1>2. ScanInv
  BY <1>1, SidesAssumption DEF SidesInit, ScanInv
<1>3. FramesInv
  <2>1. frames \in 0..MaxFrames
    BY SidesAssumption DEF SidesInit
  <2> QED
    BY <2>1, Zenon DEF SidesInit, FramesInv
<1> QED
  BY <1>2, <1>3 DEF SideInv

LEMMA SideNext ==
  ASSUME SideInv, [SidesNext]_sidesVars
  PROVE  SideInv'
<1>0. ScanInv /\ FramesInv
  BY DEF SideInv
<1>1. ASSUME NEW look \in Looks, FlatFrame(look) PROVE SideInv'
  <2>1. FramesInv'
    <3>1. frames' \in 0..MaxFrames
      BY <1>0, <1>1, SidesAssumption DEF FlatFrame, FramesInv
    <3>2. previous' \in BOOLEAN /\ previousCorners' \in BOOLEAN
      BY <1>1, Zenon DEF FlatFrame
    <3> QED
      BY <3>1, <3>2, Zenon DEF FramesInv
  <2>2. /\ NothingInView \in Scans /\ Len(NothingInView.groups) <= MaxGroups
        /\ Cardinality(NothingInView.inView) < MaxGroups
    BY <1>0, NothingIs, SidesAssumption
  <2>3. ASSUME Becomes(NothingInView) PROVE ScanInv'
    BY <2>2, <2>3, BecomesKeeps
  <2>4. ASSUME Becomes(CountRead(NothingInView, look, TRUE)) PROVE ScanInv'
    <3>1. /\ CountRead(NothingInView, look, TRUE) \in Scans
          /\ Len(CountRead(NothingInView, look, TRUE).groups) <= MaxGroups
      BY <2>2, CountKeeps
    <3> QED
      BY <2>4, <3>1, BecomesKeeps
  <2> QED
    BY <1>1, <2>1, <2>3, <2>4 DEF FlatFrame, SideInv
<1>2. ASSUME NEW looks \in SeqOf(Looks, MaxSides), CornerFrame(looks) PROVE SideInv'
  <2>1. FramesInv'
    <3>1. frames' \in 0..MaxFrames
      BY <1>0, <1>2, SidesAssumption DEF CornerFrame, FramesInv
    <3>2. previous' \in BOOLEAN /\ previousCorners' \in BOOLEAN
      BY <1>2, Zenon DEF CornerFrame
    <3> QED
      BY <3>1, <3>2, Zenon DEF FramesInv
  <2>2. looks \in Seq(Looks) /\ Len(looks) <= MaxSides
    <3>1. PICK n \in 0..MaxSides : looks \in [1..n -> Looks]
      BY DEF SeqOf
    <3>2. n \in Nat /\ n <= MaxSides
      BY SidesAssumption
    <3> QED
      BY <3>1, <3>2
  <2>3. CountCorner(looks) \in Scans /\ Len(CountCorner(looks).groups) <= MaxGroups
    BY <1>0, <2>2, CornerKeeps
  <2>4. ScanInv'
    BY <1>2, <2>3, BecomesKeeps DEF CornerFrame
  <2> QED
    BY <2>1, <2>4 DEF SideInv
<1>3. ASSUME EmptyFrame PROVE SideInv'
  <2>1. FramesInv'
    <3>1. frames' \in 0..MaxFrames
      BY <1>0, <1>3, SidesAssumption DEF EmptyFrame, FramesInv
    <3>2. previous' \in BOOLEAN /\ previousCorners' \in BOOLEAN
      BY <1>3, Zenon DEF EmptyFrame
    <3> QED
      BY <3>1, <3>2, Zenon DEF FramesInv
  <2>2. NothingInView \in Scans /\ Len(NothingInView.groups) <= MaxGroups
    BY <1>0, NothingIs
  <2>3. ScanInv'
    BY <1>3, <2>2, BecomesKeeps DEF EmptyFrame
  <2> QED
    BY <2>1, <2>3 DEF SideInv
<1>4. ASSUME Reset PROVE SideInv'
  <2>1. groups' \in Seq(Groups) /\ Len(groups') = 0 /\ DOMAIN groups' = {}
    BY <1>4 DEF Reset
  <2>2. ScanInv'
    BY <1>4, <2>1, SidesAssumption DEF Reset, ScanInv
  <2>3. FramesInv'
    <3>1. frames' \in 0..MaxFrames
      BY <1>4, SidesAssumption DEF Reset
    <3>2. previous' \in BOOLEAN /\ previousCorners' \in BOOLEAN
      BY <1>4, Zenon DEF Reset
    <3> QED
      BY <3>1, <3>2, Zenon DEF FramesInv
  <2> QED
    BY <2>2, <2>3 DEF SideInv
<1>5. ASSUME UNCHANGED sidesVars PROVE SideInv'
  <2>1. ScanInv'
    BY <1>0, <1>5 DEF sidesVars, ScanInv
  <2>2. FramesInv'
    BY <1>0, <1>5 DEF sidesVars, FramesInv
  <2> QED
    BY <2>1, <2>2 DEF SideInv
<1> QED
  BY <1>1, <1>2, <1>3, <1>4, <1>5 DEF SidesNext

LEMMA SidesGoOn == SidesSpec => []SideInv
<1>1. SidesInit => SideInv
  BY SideInit
<1>2. SideInv /\ [SidesNext]_sidesVars => SideInv'
  BY SideNext
<1> QED
  BY <1>1, <1>2, PTL DEF SidesSpec

-----------------------------------------------------------------------------
(* In any scan, the sides said to be in view are those with a read of the  *)
(* newest frame, through every join, removal and corner view; the groups   *)
(* stay within kMaxGroups, so the one dropped was never in view; and no    *)
(* side is in view unread: SideScan::count_read, SideScan::add_corner.     *)
THEOREM SidesAlwaysInView == SidesSpec => []SidesInView
<1>1. SideInv => SidesInView
  <2> SUFFICES ASSUME ScanInv PROVE SidesInView
    BY DEF SideInv
  <2>1. ASSUME NEW i \in inView PROVE SizeOf(groups[i].reads) > 0
    <3>1. groups[i] \in Groups
      BY DEF ScanInv
    <3> QED
      BY <3>1 DEF Groups
  <2> QED
    BY <2>1 DEF ScanInv, SidesInView
<1> QED
  BY <1>1, SidesGoOn, PTL

(* Joining goes on until no two groups are alike: as many joins as there   *)
(* are groups are enough, whatever scan it begins from:                    *)
(* SideScan::merge_alike_groups.                                           *)
THEOREM NoGroupsStayAlike == \A s \in Scans : AlikePairs(MergeAlike(s).groups) = {}
BY MergeKeeps

(* A side's colours are always the median of reads there are, so a look    *)
(* like any other, however the groups are joined and dropped.              *)
THEOREM SidesStayTyped == SidesSpec => []SidesTypeOK
<1>1. SideInv => SidesTypeOK
  <2> SUFFICES ASSUME ScanInv, FramesInv PROVE SidesTypeOK
    BY DEF SideInv
  <2> DEFINE Kind == [reads : [Looks -> Nat], flat : [Looks -> Nat], fused : Points, now : BOOLEAN]
  <2>1. groups \in Seq(Groups) /\ Groups \subseteq Kind
    BY DEF ScanInv, Groups, Bags
  <2>2. groups \in [1..Len(groups) -> Groups] /\ Len(groups) \in Nat
    BY <2>1, LenProperties
  <2> HIDE DEF Kind
  <2>3. groups \in Seq(Kind)
    <3>1. groups \in [1..Len(groups) -> Kind]
      BY <2>1, <2>2
    <3> QED
      BY <2>2, <3>1
  <2>4. inView \subseteq Nat
    BY <2>2 DEF ScanInv
  <2> QED
    BY <2>3, <2>4 DEF SidesTypeOK, FramesInv, Kind
<1> QED
  BY <1>1, SidesGoOn, PTL
=============================================================================

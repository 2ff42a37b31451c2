-------------------------- MODULE SolveHistoryProofs --------------------------
(***************************************************************************)
(* What the history keeps, for any cubes, any methods, any capacity and    *)
(* any number of entries: the list is newest first and on disk, a solve    *)
(* makes one entry, a finished one stays, and the entry followed leads     *)
(* back to the cube in hand.                                               *)
(*                                                                         *)
(* The last needs the rest: that ids tell entries apart (Listed), that the *)
(* solution in place is of the cube handed over, which can be solved       *)
(* (Solvable), and that a resumed solve is the one being worked out, on    *)
(* the screen it cannot be scanned or stepped from (ResumingSolves,        *)
(* ResumedIsSolved).                                                       *)
(***************************************************************************)
EXTENDS SolveHistory, SolveControllerProofs, SequenceTheorems, WellFoundedInduction

\* What is asked of a list, in memory or on disk.
Listed(list) ==
  /\ list \in Seq(EntryType)
  /\ Len(list) <= Capacity
  /\ \A i, j \in DOMAIN list : i < j => list[i].id > list[j].id
  /\ \A i \in DOMAIN list : list[i].turn <= list[i].turns /\ list[i].from \notin Unsolvable

Store == Listed(entries) /\ Listed(file) /\ ListIsOnDisk /\ writeFailed \in BOOLEAN

\* The solution in place and the one being worked out are of solvable cubes.
Solvable ==
  /\ pending \notin Unsolvable /\ stepped.from \notin Unsolvable
  /\ scanned \in Cubes \cup {None} /\ (scanned # None <=> pending # None)

\* A solve that was resumed is being worked out, away from the scan.
ResumingSolves ==
  resuming # NoEntry =>
    isSolving /\ (screen = "solve" \/ (screen = "settings" /\ previous = "solve"))

Made == made \in Nat /\ made <= IF recorded THEN 1 ELSE 0

Shown ==
  /\ keep \in BOOLEAN /\ recorded \in BOOLEAN
  /\ current \in Nat /\ resuming \in Nat
  /\ screen \in {"launch", "history", "scan", "solve", "settings", "complete"}
  /\ previous \in {"launch", "history", "scan", "solve", "complete"}
  /\ scanComplete \in BOOLEAN

\* Neither the entry followed nor the one resumed is over.
Unfinished == \A e \in Entries : e.id \in {current, resuming} => ~e.finished

\* The entry resumed is of the solve being worked out.
ResumedIsSolved ==
  \A e \in Entries : e.id = resuming =>
    e.from = pending /\ e.scanned = scanned /\ (~Restless => e.method = method)

\* The entry followed says where the cube in hand is.
SaysHere(e) ==
  /\ e.method = stepped.method /\ e.from = stepped.from /\ e.turn = stepped.turn
  /\ ~isSolving \/ solvingCont => e.scanned = scanned
FollowedIsHere ==
  current # NoEntry => Kept(current) /\ \A e \in Entries : e.id = current => SaysHere(e)

HistoryInv ==
  /\ SolveInv /\ Store /\ Solvable /\ Shown /\ ResumingSolves /\ Made
  /\ Unfinished /\ ResumedIsSolved
  /\ ~Restless => FollowedIsHere

-----------------------------------------------------------------------------
(* Lists                                                                   *)

LEMMA EmptyListed == Listed(<<>>)
BY HistoryAssumption DEF Listed

\* The parts of an entry.
LEMMA EntryParts ==
  ASSUME NEW e \in EntryType
  PROVE  /\ e.id \in Nat /\ e.id # NoEntry /\ e.scanned \in Cubes /\ e.from \in Cubes
         /\ e.method \in Methods /\ e.turn \in Nat /\ e.turns \in Nat /\ e.finished \in BOOLEAN
BY DEF EntryType, NoEntry

\* An id is of one entry of a list.
LEMMA IdsDiffer ==
  ASSUME NEW list, Listed(list), NEW i \in DOMAIN list, NEW j \in DOMAIN list,
         list[i].id = list[j].id
  PROVE  i = j
<1>1. i \in Nat /\ j \in Nat /\ list[i] \in EntryType /\ list[j] \in EntryType
  BY DEF Listed
<1>2. list[i].id \in Nat /\ list[j].id \in Nat
  BY <1>1, EntryParts
<1>3. ~(i < j) /\ ~(j < i)
  BY <1>2 DEF Listed
<1> QED
  BY <1>1, <1>3

\* The entry looked for by its id is found.
LEMMA EntryFound ==
  ASSUME Listed(entries), NEW id, Kept(id)
  PROVE  /\ Entry(id) \in Entries /\ Entry(id) \in EntryType /\ Entry(id).id = id
         /\ Entry(id).turn <= Entry(id).turns /\ Entry(id).from \notin Unsolvable
         /\ \A e \in Entries : e.id = id => e = Entry(id)
<1>1. \E e \in Entries : e.id = id
  BY DEF Kept
<1>2. Entry(id) \in Entries /\ Entry(id).id = id
  BY <1>1 DEF Entry
<1>3. \A e \in Entries : e \in EntryType /\ e.turn <= e.turns /\ e.from \notin Unsolvable
  BY DEF Entries, Listed
<1>4. \A e \in Entries : e.id = id => e = Entry(id)
  BY <1>2, IdsDiffer DEF Entries
<1> QED
  BY <1>2, <1>3, <1>4

\* One entry written over its former self.
LEMMA UpdatedListed ==
  ASSUME NEW list, Listed(list), NEW x \in EntryType, x.turn <= x.turns, x.from \notin Unsolvable
  PROVE  Listed([i \in DOMAIN list |-> IF list[i].id = x.id THEN x ELSE list[i]])
<1> DEFINE new == [i \in DOMAIN list |-> IF list[i].id = x.id THEN x ELSE list[i]]
<1>1. list \in Seq(EntryType) /\ Len(list) \in Nat /\ DOMAIN list = 1..Len(list)
  BY DEF Listed
<1>2. \A i \in DOMAIN list : new[i] \in EntryType /\ new[i].id = list[i].id
  BY <1>1
<1>3. new \in Seq(EntryType) /\ DOMAIN new = DOMAIN list
  BY <1>1, <1>2
<1>4. Len(new) = Len(list)
  BY <1>1, <1>3
<1>5. \A i \in DOMAIN new : new[i].turn <= new[i].turns /\ new[i].from \notin Unsolvable
  BY <1>3 DEF Listed
<1>6. \A i, j \in DOMAIN new : i < j => new[i].id > new[j].id
  BY <1>2, <1>3 DEF Listed
<1> HIDE DEF new
<1>7. Listed(new)
  BY <1>3, <1>4, <1>5, <1>6 DEF Listed
<1> QED
  BY <1>7 DEF new

\* A newer entry put before the others, the oldest of which may go.
LEMMA AddedListed ==
  ASSUME NEW list, Listed(list), NEW x \in EntryType, x.turn <= x.turns, x.from \notin Unsolvable,
         \A i \in DOMAIN list : list[i].id < x.id,
         NEW n \in Nat \ {0}, n <= Len(list) + 1, n <= Capacity
  PROVE  LET new == SubSeq(<<x>> \o list, 1, n)
         IN /\ Listed(new)
            /\ 1 \in DOMAIN new /\ new[1] = x
            /\ \A i \in DOMAIN new : i # 1 => i - 1 \in DOMAIN list /\ new[i] = list[i - 1]
<1> DEFINE longer == <<x>> \o list
           new == SubSeq(longer, 1, n)
<1>1. list \in Seq(EntryType) /\ Len(list) \in Nat /\ DOMAIN list = 1..Len(list)
  BY DEF Listed
<1>2. /\ <<x>> \in Seq(EntryType) /\ Len(<<x>>) = 1 /\ <<x>>[1] = x
  OBVIOUS
<1>3. /\ longer \in Seq(EntryType) /\ Len(longer) = 1 + Len(list)
      /\ \A i \in 1..(1 + Len(list)) : longer[i] = IF i <= 1 THEN x ELSE list[i - 1]
  BY <1>1, <1>2, ConcatProperties
<1> HIDE DEF longer
<1>4. /\ new \in Seq(EntryType) /\ Len(new) = n
      /\ \A i \in 1..n : new[i] = longer[i]
  <2>1. \A i \in 1..n : longer[i] \in EntryType
    BY <1>1, <1>3
  <2>2. /\ new \in Seq(EntryType) /\ Len(new) = IF 1 <= n THEN n - 1 + 1 ELSE 0
        /\ \A i \in 1..(n - 1 + 1) : new[i] = longer[1 + i - 1]
    BY <2>1, SubSeqProperties
  <2> HIDE DEF new
  <2>3. \A i \in 1..n : i \in 1..(n - 1 + 1) /\ 1 + i - 1 = i
    OBVIOUS
  <2> QED
    BY <2>2, <2>3
<1> HIDE DEF new
<1>5. DOMAIN new = 1..n
  BY <1>4
<1>6. /\ 1 \in DOMAIN new /\ new[1] = x
      /\ \A i \in DOMAIN new : i # 1 => i - 1 \in DOMAIN list /\ new[i] = list[i - 1]
  BY <1>1, <1>3, <1>4, <1>5
<1>7. \A i \in DOMAIN new : new[i].turn <= new[i].turns /\ new[i].from \notin Unsolvable
  BY <1>6 DEF Listed
<1>8. ASSUME NEW i \in DOMAIN new, NEW j \in DOMAIN new, i < j
      PROVE  new[i].id > new[j].id
  <2>1. i \in Nat /\ j \in Nat /\ i >= 1 /\ j # 1
    BY <1>5, <1>8
  <2>2. j - 1 \in DOMAIN list /\ new[j] = list[j - 1]
    BY <1>6, <2>1
  <2>3. list[j - 1].id \in Nat /\ x.id \in Nat
    BY <1>1, <2>2, EntryParts
  <2>4. CASE i = 1
    BY <1>6, <2>2, <2>3, <2>4
  <2>5. CASE i # 1
    <3>1. i - 1 \in DOMAIN list /\ new[i] = list[i - 1] /\ i - 1 < j - 1
      BY <1>6, <1>8, <2>1, <2>5
    <3> QED
      BY <2>2, <3>1 DEF Listed
  <2> QED
    BY <2>4, <2>5
<1>9. Listed(new)
  BY <1>4, <1>7, <1>8 DEF Listed
<1> QED
  BY <1>6, <1>9 DEF new, longer

\* One entry taken out.
LEMMA RemovedListed ==
  ASSUME NEW list, Listed(list), NEW k \in DOMAIN list
  PROVE  LET new == RemoveAt(list, k)
         IN /\ Listed(new)
            /\ \A i \in DOMAIN new : \E j \in DOMAIN list : j # k /\ new[i] = list[j]
            /\ \A j \in DOMAIN list : j # k => \E i \in DOMAIN new : new[i] = list[j]
<1> DEFINE a == SubSeq(list, 1, k - 1)
           b == SubSeq(list, k + 1, Len(list))
           new == a \o b
           was(i) == IF i < k THEN i ELSE i + 1
<1>1. /\ list \in Seq(EntryType) /\ Len(list) \in Nat /\ DOMAIN list = 1..Len(list)
      /\ k \in Nat /\ k >= 1 /\ k <= Len(list)
  BY DEF Listed
<1>2. /\ a \in Seq(EntryType) /\ Len(a) = k - 1
      /\ \A i \in 1..(k - 1) : a[i] = list[i]
  <2>1. \A i \in 1..(k - 1) : list[i] \in EntryType
    BY <1>1
  <2>2. 1 \in Int /\ k - 1 \in Int
    BY <1>1
  <2>3. /\ a \in Seq(EntryType) /\ Len(a) = IF 1 <= k - 1 THEN (k - 1) - 1 + 1 ELSE 0
        /\ \A i \in 1..((k - 1) - 1 + 1) : a[i] = list[1 + i - 1]
    BY <2>1, <2>2, SubSeqProperties
  <2> HIDE DEF a
  <2> QED
    BY <1>1, <2>3
<1>3. /\ b \in Seq(EntryType) /\ Len(b) = Len(list) - k
      /\ \A i \in 1..(Len(list) - k) : b[i] = list[k + i]
  <2>1. PICK m \in Int : m = k + 1
    BY <1>1
  <2>2. /\ \A i \in m..Len(list) : list[i] \in EntryType
        /\ Len(list) \in Int
    BY <1>1, <2>1
  <2>3. /\ b \in Seq(EntryType)
        /\ Len(b) = IF m <= Len(list) THEN Len(list) - m + 1 ELSE 0
        /\ \A i \in 1..(Len(list) - m + 1) : b[i] = list[m + i - 1]
    <3>1. b = SubSeq(list, m, Len(list))
      BY <2>1
    <3> HIDE DEF b
    <3> QED
      BY <1>1, <2>2, <3>1, SubSeqProperties
  <2> HIDE DEF b
  <2>4. Len(b) = Len(list) - k
    BY <1>1, <2>1, <2>3
  <2>5. ASSUME NEW i \in 1..(Len(list) - k) PROVE b[i] = list[k + i]
    <3>1. i \in 1..(Len(list) - m + 1) /\ m + i - 1 = k + i
      BY <1>1, <2>1
    <3> QED
      BY <2>3, <3>1
  <2> QED
    BY <2>3, <2>4, <2>5
<1> HIDE DEF a, b
<1>4. /\ new \in Seq(EntryType) /\ Len(new) = Len(a) + Len(b)
      /\ \A i \in 1..(Len(a) + Len(b)) : new[i] = IF i <= Len(a) THEN a[i] ELSE b[i - Len(a)]
  BY <1>2, <1>3, ConcatProperties
<1> HIDE DEF new
<1>5. Len(new) = Len(list) - 1 /\ DOMAIN new = 1..(Len(list) - 1)
  BY <1>1, <1>2, <1>3, <1>4
<1>6. ASSUME NEW i \in DOMAIN new
      PROVE  was(i) \in DOMAIN list /\ was(i) # k /\ new[i] = list[was(i)]
  <2>1. i \in Nat /\ i >= 1 /\ i <= Len(list) - 1 /\ i \in 1..(Len(a) + Len(b))
    BY <1>1, <1>2, <1>3, <1>5
  <2>2. CASE i < k
    <3>1. i <= Len(a) /\ i \in 1..(k - 1)
      BY <1>1, <1>2, <2>1, <2>2
    <3>2. new[i] = list[i]
      BY <1>2, <1>4, <2>1, <3>1
    <3> QED
      BY <1>1, <2>1, <2>2, <3>2
  <2>3. CASE ~(i < k)
    <3>1. ~(i <= Len(a)) /\ i - Len(a) \in 1..(Len(list) - k) /\ k + (i - Len(a)) = i + 1
      BY <1>1, <1>2, <2>1, <2>3
    <3>2. new[i] = list[i + 1]
      BY <1>3, <1>4, <2>1, <3>1
    <3> QED
      BY <1>1, <2>1, <2>3, <3>2
  <2> QED
    BY <2>2, <2>3
<1>7. \A j \in DOMAIN list : j # k => \E i \in DOMAIN new : was(i) = j
  <2> SUFFICES ASSUME NEW j \in DOMAIN list, j # k PROVE \E i \in DOMAIN new : was(i) = j
    OBVIOUS
  <2>1. CASE j < k
    BY <1>1, <1>5, <2>1
  <2>2. CASE j > k
    <3>1. j - 1 \in DOMAIN new /\ was(j - 1) = j
      BY <1>1, <1>5, <2>2
    <3> QED
      BY <3>1
  <2> QED
    BY <1>1, <2>1, <2>2
<1>8. \A i, j \in DOMAIN new : i < j => was(i) < was(j)
  BY <1>1, <1>5
<1> HIDE DEF was
<1>9. Listed(new)
  <2>1. \A i, j \in DOMAIN new : i < j => new[i].id > new[j].id
    BY <1>6, <1>8 DEF Listed
  <2>2. \A i \in DOMAIN new : new[i].turn <= new[i].turns /\ new[i].from \notin Unsolvable
    BY <1>6 DEF Listed
  <2>3. Len(new) <= Capacity
    BY <1>1, <1>5, HistoryAssumption DEF Listed
  <2> QED
    BY <1>4, <2>1, <2>2, <2>3 DEF Listed
<1> QED
  BY <1>6, <1>7, <1>9 DEF new, a, b, RemoveAt

-----------------------------------------------------------------------------
(* What the store's operations make of the entries                         *)

\* Every write keeps the store as it should be.
LEMMA PutStore ==
  ASSUME Store, NEW list, Listed(list), Put(list)
  PROVE  Store' /\ entries' = list
<1>1. entries' = list /\ (file' = list \/ file' = file) /\ writeFailed' \in BOOLEAN
  BY DEF Put
<1>2. ~writeFailed' => file' = entries'
  BY DEF Put
<1>3. Listed(entries) /\ Listed(file)
  BY DEF Store
<1>4. Listed(entries)' /\ Listed(file)'
  BY <1>1, <1>3 DEF Listed
<1> QED
  BY <1>1, <1>2, <1>4 DEF Store, ListIsOnDisk

\* The others stay, and the entry is what it was written as.
LEMMA Updated ==
  ASSUME Store, NEW x, x \in EntryType, x.turn <= x.turns, x.from \notin Unsolvable, Update(x)
  PROVE  /\ Store'
         /\ \A f \in Entries' : f = x \/ (f \in Entries /\ f.id # x.id)
         /\ Kept(x.id) => x \in Entries'
<1> DEFINE new == [i \in DOMAIN entries |-> IF entries[i].id = x.id THEN x ELSE entries[i]]
<1>1. Listed(entries)
  BY DEF Store
<1>2. Listed(new)
  BY <1>1, UpdatedListed
<1>3. Store' /\ entries' = new
  BY <1>2, PutStore DEF Update
<1>4. \A f \in Entries' : f = x \/ (f \in Entries /\ f.id # x.id)
  BY <1>3 DEF Entries
<1>5. ASSUME Kept(x.id) PROVE x \in Entries'
  <2>1. PICK i \in DOMAIN entries : entries[i].id = x.id
    BY <1>5 DEF Kept, Entries
  <2>2. i \in DOMAIN new /\ new[i] = x
    BY <2>1
  <2> QED
    BY <1>3, <2>2 DEF Entries
<1> QED
  BY <1>3, <1>4, <1>5

\* The next id is above every one on the list.
LEMMA NewIdIsNewest ==
  ASSUME Listed(entries)
  PROVE  NewId \in Nat /\ NewId # NoEntry /\ \A i \in DOMAIN entries : entries[i].id < NewId
<1>1. entries \in Seq(EntryType)
  BY DEF Listed
<1>2. CASE entries = <<>>
  BY <1>2 DEF NewId, NoEntry
<1>3. CASE entries # <<>>
  <2>1. 1 \in DOMAIN entries /\ NewId = entries[1].id + 1
    BY <1>1, <1>3 DEF NewId
  <2>2. \A i \in DOMAIN entries : entries[i].id \in Nat
    BY <1>1, EntryParts
  <2>3. ASSUME NEW i \in DOMAIN entries PROVE entries[i].id <= entries[1].id
    <3>1. i = 1 \/ 1 < i
      BY <1>1
    <3> QED
      BY <2>1, <2>2, <3>1 DEF Listed
  <2> QED
    BY <2>1, <2>2, <2>3 DEF NoEntry
<1> QED
  BY <1>2, <1>3

\* The new entry is there, with none of its id among the others.
LEMMA Added ==
  ASSUME Store, NEW x, x \in EntryType, x.turn <= x.turns, x.from \notin Unsolvable,
         x.id = NewId, AddEntry(x)
  PROVE  /\ Store'
         /\ \A f \in Entries' : f = x \/ (f \in Entries /\ f.id # x.id)
         /\ x \in Entries'
         /\ ~Kept(x.id)
<1> DEFINE n == IF Len(<<x>> \o entries) > Capacity THEN Capacity ELSE Len(<<x>> \o entries)
           new == SubSeq(<<x>> \o entries, 1, n)
<1>1. Listed(entries) /\ entries \in Seq(EntryType) /\ Len(entries) \in Nat
  BY DEF Store, Listed
<1>2. \A i \in DOMAIN entries : entries[i].id < x.id /\ entries[i].id # x.id
  <2>1. \A i \in DOMAIN entries : entries[i].id \in Nat
    BY <1>1, EntryParts
  <2> QED
    BY <1>1, <2>1, NewIdIsNewest
<1>3. n \in Nat \ {0} /\ n <= Len(entries) + 1 /\ n <= Capacity
  <2>1. Len(<<x>> \o entries) = Len(entries) + 1
    BY <1>1
  <2> QED
    BY <1>1, <2>1, HistoryAssumption
<1> HIDE DEF n
<1>4. /\ Listed(new) /\ 1 \in DOMAIN new /\ new[1] = x
      /\ \A i \in DOMAIN new : i # 1 => i - 1 \in DOMAIN entries /\ new[i] = entries[i - 1]
  BY <1>1, <1>2, <1>3, AddedListed
<1>5. Put(new)
  BY DEF AddEntry, n
<1> HIDE DEF new
<1>6. Store' /\ entries' = new
  BY <1>4, <1>5, PutStore
<1>7. ASSUME NEW f \in Entries' PROVE f = x \/ (f \in Entries /\ f.id # x.id)
  <2>1. PICK i \in DOMAIN new : f = new[i]
    BY <1>6 DEF Entries
  <2> QED
    BY <1>2, <1>4, <2>1 DEF Entries
<1>8. x \in Entries'
  BY <1>4, <1>6 DEF Entries
<1> QED
  BY <1>2, <1>6, <1>7, <1>8 DEF Kept, Entries

\* The one taken out is gone, by its id, and the others stay.
LEMMA Removed ==
  ASSUME Store, NEW k \in DOMAIN entries, Put(RemoveAt(entries, k))
  PROVE  /\ Store'
         /\ \A f \in Entries' : f \in Entries /\ f.id # entries[k].id
         /\ \A e \in Entries : e.id # entries[k].id => e \in Entries'
<1> DEFINE new == RemoveAt(entries, k)
<1>1. Listed(entries)
  BY DEF Store
<1>2. /\ Listed(new)
      /\ \A i \in DOMAIN new : \E j \in DOMAIN entries : j # k /\ new[i] = entries[j]
      /\ \A j \in DOMAIN entries : j # k => \E i \in DOMAIN new : new[i] = entries[j]
  BY <1>1, RemovedListed
<1> HIDE DEF new
<1>3. Store' /\ entries' = new
  BY <1>2, PutStore DEF new
<1>4. ASSUME NEW f \in Entries' PROVE f \in Entries /\ f.id # entries[k].id
  <2>1. PICK i \in DOMAIN new : f = new[i]
    BY <1>3, <1>4 DEF Entries
  <2>2. PICK j \in DOMAIN entries : j # k /\ f = entries[j]
    BY <1>2, <2>1
  <2> QED
    BY <1>1, <2>2, IdsDiffer DEF Entries
<1>5. ASSUME NEW e \in Entries, e.id # entries[k].id PROVE e \in Entries'
  <2>1. PICK j \in DOMAIN entries : e = entries[j]
    BY <1>5 DEF Entries
  <2>2. PICK i \in DOMAIN new : new[i] = e
    BY <1>2, <1>5, <2>1
  <2> QED
    BY <1>3, <2>2 DEF Entries
<1> QED
  BY <1>3, <1>4, <1>5

\* Nothing is left of a list that was emptied.
LEMMA Emptied ==
  ASSUME Store, Put(<<>>)
  PROVE  Store' /\ Entries' = {}
<1>1. Store' /\ entries' = <<>>
  BY EmptyListed, PutStore
<1> QED
  BY <1>1 DEF Entries

-----------------------------------------------------------------------------
(* Reading and following                                                   *)

\* What is carried on from is the first unfinished entry of the list.
LEMMA CarryOnIsUnfinished ==
  ASSUME Listed(entries), NEW e \in Entries, ~e.finished
  PROVE  \E i \in DOMAIN entries :
           /\ ~entries[i].finished /\ \A j \in 1..(i - 1) : entries[j].finished
           /\ CarryOnId = entries[i].id
<1> DEFINE open == {i \in DOMAIN entries : ~entries[i].finished}
           IsFirst(i) == ~entries[i].finished /\ \A j \in 1..(i - 1) : entries[j].finished
<1>1. entries \in Seq(EntryType) /\ DOMAIN entries = 1..Len(entries) /\ Len(entries) \in Nat
  BY DEF Listed
<1>2. open \subseteq Nat /\ open # {}
  BY <1>1 DEF Entries
<1>3. IsWellFoundedOn(OpToRel(<, Nat), Nat)
  BY NatLessThanWellFounded
<1>4. PICK least \in open : \A k \in open : <<k, least>> \notin OpToRel(<, Nat)
  BY <1>2, <1>3, WFMin
<1>5. \A k \in open : ~(k < least)
  BY <1>2, <1>4 DEF OpToRel
<1>6. least \in DOMAIN entries /\ IsFirst(least)
  <2>1. ASSUME NEW j \in 1..(least - 1) PROVE entries[j].finished
    <3>1. j \in DOMAIN entries /\ j < least
      BY <1>1
    <3> QED
      BY <1>5, <3>1
  <2> QED
    BY <2>1
<1> DEFINE first == CHOOSE i \in DOMAIN entries : IsFirst(i)
<1>7. first \in DOMAIN entries /\ IsFirst(first)
  BY <1>6
<1>8. CarryOnId = entries[first].id
  BY DEF CarryOnId
<1> HIDE DEF first
<1> QED
  BY <1>7, <1>8

\* So it is on the list, and not over.
LEMMA CarryOnFound ==
  ASSUME Listed(entries), CarryOnId # NoEntry
  PROVE  /\ Kept(CarryOnId) /\ Entry(CarryOnId) \in EntryType
         /\ ~Entry(CarryOnId).finished /\ Entry(CarryOnId).from \notin Unsolvable
         /\ \A e \in Entries : e.id = CarryOnId => e = Entry(CarryOnId)
<1>1. PICK e \in Entries : ~e.finished
  BY DEF CarryOnId
<1>2. PICK i \in DOMAIN entries : ~entries[i].finished /\ CarryOnId = entries[i].id
  BY <1>1, CarryOnIsUnfinished
<1>3. entries[i] \in Entries /\ Kept(CarryOnId)
  BY <1>2 DEF Entries, Kept
<1> QED
  BY <1>2, <1>3, EntryFound

\* No entry has the id that stands for none.
LEMMA NoEntryIsNone ==
  ASSUME Store
  PROVE  \A e \in Entries : e \in EntryType /\ e.id # NoEntry
<1>1. \A i \in DOMAIN entries : entries[i] \in EntryType
  BY DEF Store, Listed
<1> QED
  BY <1>1, EntryParts DEF Entries

LEMMA NoEntryStaysNone ==
  ASSUME Store'
  PROVE  \A f \in Entries' : f \in EntryType /\ f.id # NoEntry
<1>1. \A i \in DOMAIN entries' : entries'[i] \in EntryType
  BY DEF Store, Listed
<1> QED
  BY <1>1, EntryParts DEF Entries

\* The turn reached is all that is written over an entry.
LEMMA ReachedParts ==
  ASSUME NEW e \in EntryType, stepped' \in Stepped
  PROVE  /\ Reached(e) \in EntryType /\ Reached(e).turn <= Reached(e).turns
         /\ Reached(e).turn = stepped'.turn
         /\ Reached(e).id = e.id /\ Reached(e).scanned = e.scanned /\ Reached(e).from = e.from
         /\ Reached(e).method = e.method /\ Reached(e).finished = e.finished
<1>1. TotalMoves(stepped') \in Nat /\ stepped'.turn \in Nat /\ stepped'.turn <= TotalMoves(stepped')
  BY TurnInside
<1> QED
  BY <1>1 DEF Reached, EntryType

\* The entry followed is written at the turn reached, and the others stay.
LEMMA Followed ==
  ASSUME Store, stepped' \in Stepped, NEW id, FollowEntry(id)
  PROVE  /\ Store'
         /\ current' = IF Kept(id) THEN id ELSE NoEntry
         /\ \A f \in Entries' :
              IF f.id = id THEN Kept(id) /\ f = Reached(Entry(id)) ELSE f \in Entries
         /\ Kept(id) => Reached(Entry(id)) \in Entries'
<1> DEFINE x == Reached(Entry(id))
<1>1. Listed(entries)
  BY DEF Store
<1>2. CASE ~Kept(id)
  <2>1. UNCHANGED storeVars
    BY <1>2 DEF FollowEntry
  <2>2. Store' /\ Entries' = Entries
    BY <2>1 DEF storeVars, Store, Listed, ListIsOnDisk, Entries
  <2> QED
    BY <1>2, <2>2 DEF FollowEntry, Kept
<1>3. CASE Kept(id)
  <2>1. /\ Entry(id) \in Entries /\ Entry(id) \in EntryType /\ Entry(id).id = id
        /\ Entry(id).from \notin Unsolvable
        /\ \A e \in Entries : e.id = id => e = Entry(id)
    BY <1>1, <1>3, EntryFound
  <2>2. x \in EntryType /\ x.id = id /\ x.turn <= x.turns /\ x.from \notin Unsolvable
    BY <2>1, ReachedParts
  <2>3. CASE x # Entry(id)
    <3>1. Update(x)
      BY <1>3, <2>3 DEF FollowEntry
    <3> HIDE DEF x
    <3>2. /\ Store'
          /\ \A f \in Entries' : f = x \/ (f \in Entries /\ f.id # x.id)
          /\ Kept(x.id) => x \in Entries'
      BY <2>2, <3>1, Updated
    <3>3. current' = IF Kept(id) THEN id ELSE NoEntry
      BY DEF FollowEntry
    <3> QED
      BY <1>3, <2>2, <3>2, <3>3 DEF x
  <2>4. CASE x = Entry(id)
    <3>1. UNCHANGED storeVars
      BY <1>3, <2>4 DEF FollowEntry
    <3>2. Store' /\ Entries' = Entries
      BY <3>1 DEF storeVars, Store, Listed, ListIsOnDisk, Entries
    <3>3. current' = IF Kept(id) THEN id ELSE NoEntry
      BY DEF FollowEntry
    <3> QED
      BY <1>3, <2>1, <2>4, <3>2, <3>3
  <2> QED
    BY <2>3, <2>4
<1> QED
  BY <1>2, <1>3

-----------------------------------------------------------------------------
(* One step of each kind                                                   *)

\* The screens, the settings and standing still: the solve and its entry are
\* as they were.
LEMMA ScreensKeep ==
  ASSUME HistoryInv, UNCHANGED <<solveVars, scanned, storeVars, followVars, made>>,
         Shown', ResumingSolves'
  PROVE  HistoryInv'
<1>1. SolveInv'
  BY StepInv DEF HistoryInv
<1>2. Store' /\ Entries' = Entries
  BY DEF HistoryInv, storeVars, Store, Listed, ListIsOnDisk, Entries
<1>3. Solvable' /\ Made'
  BY DEF HistoryInv, solveVars, followVars, Solvable, Made
<1>4. Unfinished' /\ ResumedIsSolved'
  BY <1>2 DEF HistoryInv, solveVars, followVars, Unfinished, ResumedIsSolved
<1>5. ~Restless => FollowedIsHere'
  BY <1>2 DEF HistoryInv, solveVars, followVars, FollowedIsHere, SaysHere, Kept
<1> QED
  BY <1>1, <1>2, <1>3, <1>4, <1>5 DEF HistoryInv

\* The first turn makes an entry that no other is mistaken for.
LEMMA Started ==
  ASSUME HistoryInv, stepped' \in Stepped, StartsEntry, StartEntry
  PROVE  LET x == [id |-> NewId, scanned |-> scanned, from |-> pending, method |-> method,
                   turn |-> stepped'.turn, turns |-> TotalMoves(stepped'), finished |-> FALSE]
         IN /\ Store' /\ x \in Entries' /\ ~Kept(x.id)
            /\ \A f \in Entries' : f = x \/ (f \in Entries /\ f.id # x.id)
<1> DEFINE x == [id |-> NewId, scanned |-> scanned, from |-> pending, method |-> method,
                 turn |-> stepped'.turn, turns |-> TotalMoves(stepped'), finished |-> FALSE]
<1>1. SolveInv /\ Solvable /\ Store
  BY DEF HistoryInv
<1>2. scanned \in Cubes /\ pending \in Cubes /\ method \in Methods
  BY <1>1 DEF StartsEntry, Solvable, SolveInv, SolveTypeOK
<1>3. NewId \in Nat /\ NewId # NoEntry
  BY <1>1, NewIdIsNewest DEF Store
<1>4. /\ TotalMoves(stepped') \in Nat /\ stepped'.turn \in Nat
      /\ stepped'.turn <= TotalMoves(stepped')
  BY TurnInside
<1>5. x \in EntryType /\ x.turn <= x.turns /\ x.from \notin Unsolvable /\ x.id = NewId
  BY <1>1, <1>2, <1>3, <1>4 DEF EntryType, NoEntry, Solvable
<1>6. AddEntry(x)
  BY DEF StartEntry
<1> HIDE DEF x
<1>7. /\ Store' /\ x \in Entries' /\ ~Kept(x.id)
      /\ \A f \in Entries' : f = x \/ (f \in Entries /\ f.id # x.id)
  BY <1>1, <1>5, <1>6, Added
<1> QED
  BY <1>7 DEF x

\* A turn is taken with nothing being solved, so nothing is being resumed.
LEMMA TurnKeeps == ASSUME HistoryInv, TakeTurn PROVE HistoryInv'
<1>1. /\ SolveInv /\ Store /\ Solvable /\ Shown /\ Made /\ Unfinished
      /\ ~Restless => FollowedIsHere
  BY DEF HistoryInv
<1>2. ~isSolving /\ resuming = NoEntry /\ resuming' = NoEntry
  BY DEF HistoryInv, ResumingSolves, TakeTurn, OnStateChanged
<1>3. SolveInv'
  BY <1>1, StepInv DEF TakeTurn, SolveNext
<1>4. stepped \in Stepped /\ stepped' \in Stepped /\ stepped'.turn \in Nat
  BY <1>1, <1>3 DEF SolveInv, SolveTypeOK, Stepped
<1>5. /\ stepped'.from = stepped.from /\ stepped'.method = stepped.method
      /\ UNCHANGED <<method, pending, isSolving, solvingCont, scanned>>
  BY <1>4 DEF TakeTurn, NextMove, PreviousMove, StepTo, Stepped
<1>6. Solvable' /\ Shown' /\ ResumingSolves'
  <2>1. current' \in Nat
    <3>1. NewId \in Nat /\ NoEntry \in Nat /\ current \in Nat
      BY <1>1, NewIdIsNewest DEF Store, NoEntry, Shown
    <3> QED
      BY <3>1 DEF TakeTurn, OnStateChanged, FollowEntry, StartEntry
  <2>2. recorded' = recorded \/ recorded' = TRUE
    BY DEF TakeTurn, OnStateChanged, StartEntry
  <2> QED
    BY <1>1, <1>2, <1>5, <2>1, <2>2
       DEF Solvable, Shown, ResumingSolves, TakeTurn, screenVars, NoEntry
<1>7. Store' => ResumedIsSolved'
  BY <1>2, NoEntryStaysNone DEF ResumedIsSolved
<1>8. CASE current # NoEntry /\ FollowEntry(current) /\ UNCHANGED <<recorded, made>>
  <2>1. /\ Store'
        /\ current' = IF Kept(current) THEN current ELSE NoEntry
        /\ \A f \in Entries' :
             IF f.id = current THEN Kept(current) /\ f = Reached(Entry(current)) ELSE f \in Entries
        /\ Kept(current) => Reached(Entry(current)) \in Entries'
    BY <1>1, <1>4, <1>8, Followed
  <2>2. Kept(current) =>
          /\ Entry(current) \in Entries /\ Entry(current) \in EntryType
          /\ Entry(current).id = current
    BY <1>1, EntryFound DEF Store
  <2>3. Made'
    BY <1>1, <1>8 DEF Made
  <2>4. Unfinished'
    <3>1. ASSUME NEW f \in Entries', f.id \in {current', resuming'} PROVE ~f.finished
      <4>1. f.id # NoEntry
        BY <2>1, NoEntryStaysNone
      <4>2. Kept(current) /\ f = Reached(Entry(current))
        BY <1>2, <2>1, <3>1, <4>1
      <4>3. ~Entry(current).finished
        BY <1>1, <2>2, <4>2 DEF Unfinished
      <4> QED
        BY <1>4, <2>2, <4>2, <4>3, ReachedParts
    <3> QED
      BY <3>1 DEF Unfinished
  <2>5. ASSUME ~Restless PROVE FollowedIsHere'
    <3>1. Kept(current) /\ SaysHere(Entry(current))
      BY <1>1, <1>8, <2>2, <2>5 DEF FollowedIsHere
    <3> DEFINE x == Reached(Entry(current))
    <3>2. /\ x.id = current /\ x.turn = stepped'.turn /\ x.method = Entry(current).method
          /\ x.from = Entry(current).from /\ x.scanned = Entry(current).scanned
      BY <1>4, <2>2, <3>1, ReachedParts
    <3> HIDE DEF x
    <3>3. x \in Entries' /\ \A f \in Entries' : f.id = current => f = x
      BY <2>1, <3>1 DEF x
    <3>4. current' = current /\ Kept(current)'
      BY <2>1, <3>1, <3>2, <3>3 DEF Kept
    <3>5. ASSUME NEW f \in Entries', f.id = current' PROVE SaysHere(f)'
      <4>1. f = x
        BY <3>3, <3>4, <3>5
      <4> QED
        BY <1>2, <1>4, <1>5, <3>1, <3>2, <4>1 DEF SaysHere
    <3> QED
      BY <3>4, <3>5 DEF FollowedIsHere
  <2> QED
    BY <1>3, <1>6, <1>7, <2>1, <2>3, <2>4, <2>5 DEF HistoryInv
<1>9. CASE current = NoEntry /\ StartsEntry /\ StartEntry
  <2> DEFINE x == [id |-> NewId, scanned |-> scanned, from |-> pending, method |-> method,
                   turn |-> stepped'.turn, turns |-> TotalMoves(stepped'), finished |-> FALSE]
  <2>1. current' = NewId /\ recorded' = TRUE /\ made' = made + 1 /\ ~recorded
    BY <1>9 DEF StartEntry, StartsEntry
  <2>2. /\ x.id = NewId /\ x.method = method /\ x.from = pending /\ x.turn = stepped'.turn
        /\ x.scanned = scanned /\ ~x.finished
    OBVIOUS
  <2>3. /\ Store' /\ x \in Entries' /\ scanned # None
        /\ \A f \in Entries' : f = x \/ (f \in Entries /\ f.id # x.id)
    BY <1>4, <1>9, Started DEF StartsEntry
  <2> HIDE DEF x
  <2>4. Made'
    BY <1>1, <2>1 DEF Made
  <2>5. Unfinished'
    BY <1>2, <2>1, <2>2, <2>3, NoEntryStaysNone DEF Unfinished
  <2>6. FollowedIsHere'
    <3>1. stepped.method = method /\ stepped.from = pending
      BY <1>1, <1>2, <2>3 DEF SolveInv, ShownSolutionIsLatest, Solvable
    <3>2. Kept(current)'
      BY <2>1, <2>2, <2>3 DEF Kept
    <3>3. ASSUME NEW f \in Entries', f.id = current' PROVE SaysHere(f)'
      <4>1. f = x
        BY <2>1, <2>2, <2>3, <3>3
      <4> QED
        BY <1>5, <2>2, <3>1, <4>1 DEF SaysHere
    <3> QED
      BY <3>2, <3>3 DEF FollowedIsHere
  <2> QED
    BY <1>3, <1>6, <1>7, <2>3, <2>4, <2>5, <2>6 DEF HistoryInv
<1>10. CASE current = NoEntry /\ UNCHANGED <<storeVars, current, recorded, made>>
  <2>1. Store' /\ Entries' = Entries
    BY <1>1, <1>10 DEF storeVars, Store, Listed, ListIsOnDisk, Entries
  <2>2. Made' /\ Unfinished' /\ FollowedIsHere'
    BY <1>1, <1>2, <1>10, <2>1 DEF Made, Unfinished, FollowedIsHere
  <2> QED
    BY <1>3, <1>6, <1>7, <2>1, <2>2 DEF HistoryInv
<1> QED
  BY <1>8, <1>9, <1>10 DEF TakeTurn, OnStateChanged

\* What lands is the solution of the cube handed over by the method chosen.
LEMMA LandedSolution ==
  ASSUME HistoryInv, ApplySolveResult
  PROVE  /\ SolveInv' /\ stepped' \in Stepped
         /\ stepped'.method = method /\ stepped'.from = pending
         /\ method \in Methods /\ pending \in Cubes /\ pending \notin Unsolvable
         /\ isSolving /\ ~isSolving' /\ UNCHANGED <<method, pending>>
         /\ continuation' = solvingCont
<1>1. SolveInv /\ Solvable
  BY DEF HistoryInv
<1>2. SolveInv'
  BY <1>1, StepInv DEF SolveNext
<1>3. isSolving /\ job = [method |-> method, cube |-> pending]
  BY <1>1 DEF ApplySolveResult, SolveInv, WatchedJobIsLatest
<1>4. method \in Methods /\ pending \in Cubes
  BY <1>1, <1>3, SolverAssumption DEF SolveInv, SolveTypeOK, ApplySolveResult
<1>5. pending # None /\ pending \notin Unsolvable
  BY <1>1, <1>4, SolverAssumption DEF Solvable
<1>6. ~isSolving' /\ UNCHANGED <<method, pending>> /\ continuation' = solvingCont
  BY DEF ApplySolveResult
<1>7. stepped' \in Stepped
  BY <1>2 DEF SolveInv, SolveTypeOK
<1>8. stepped'.method = method /\ stepped'.from = pending
  BY <1>2, <1>5, <1>6 DEF SolveInv, ShownSolutionIsLatest
<1> QED
  BY <1>2, <1>3, <1>4, <1>5, <1>6, <1>7, <1>8

\* What lands is written over the entry it is of, or starts afresh.
LEMMA LandKeeps == ASSUME HistoryInv, SolveLands PROVE HistoryInv'
<1>1. /\ SolveInv /\ Store /\ Solvable /\ Shown /\ Made /\ Unfinished /\ ResumedIsSolved
      /\ ~Restless => FollowedIsHere
  BY DEF HistoryInv
<1>2. /\ SolveInv' /\ stepped' \in Stepped
      /\ stepped'.method = method /\ stepped'.from = pending
      /\ method \in Methods /\ pending \in Cubes /\ pending \notin Unsolvable
      /\ isSolving /\ ~isSolving' /\ UNCHANGED <<method, pending, scanned>>
      /\ continuation' = solvingCont
  BY LandedSolution DEF SolveLands
<1>3. resuming' = NoEntry
  BY DEF SolveLands, Landed
<1>4. Solvable' /\ ResumingSolves'
  BY <1>1, <1>2, <1>3 DEF Solvable, ResumingSolves
<1>5. Shown'
  <2>1. current' \in Nat
    BY <1>1 DEF SolveLands, Landed, LandsContinuation, FollowEntry, Shown, NoEntry
  <2>2. recorded' = recorded \/ recorded' = TRUE \/ recorded' = FALSE
    BY DEF SolveLands, Landed
  <2>3. resuming' \in Nat
    BY <1>3 DEF NoEntry
  <2> QED
    BY <1>1, <2>1, <2>2, <2>3 DEF Shown, SolveLands, GoTo, screenVars
<1>6. Store' => ResumedIsSolved'
  BY <1>3, NoEntryStaysNone DEF ResumedIsSolved
<1>7. CASE resuming # NoEntry /\ recorded' = TRUE /\ FollowEntry(resuming) /\ UNCHANGED made
  <2>1. /\ Store'
        /\ current' = IF Kept(resuming) THEN resuming ELSE NoEntry
        /\ \A f \in Entries' :
             IF f.id = resuming THEN Kept(resuming) /\ f = Reached(Entry(resuming))
                                ELSE f \in Entries
        /\ Kept(resuming) => Reached(Entry(resuming)) \in Entries'
    BY <1>1, <1>2, <1>7, Followed
  <2>2. Kept(resuming) =>
          /\ Entry(resuming) \in Entries /\ Entry(resuming) \in EntryType
          /\ Entry(resuming).id = resuming
    BY <1>1, EntryFound DEF Store
  <2>3. Made'
    BY <1>1, <1>7 DEF Made
  <2>4. ASSUME NEW f \in Entries', f.id \in {current', resuming'}
        PROVE  /\ Kept(resuming) /\ f = Reached(Entry(resuming)) /\ ~Entry(resuming).finished
               /\ Entry(resuming).from = pending /\ Entry(resuming).scanned = scanned
               /\ ~Restless => Entry(resuming).method = method
    <3>1. f.id # NoEntry
      BY <2>1, NoEntryStaysNone
    <3>2. Kept(resuming) /\ f = Reached(Entry(resuming))
      BY <1>3, <2>1, <2>4, <3>1
    <3> QED
      BY <1>1, <2>2, <3>2 DEF Unfinished, ResumedIsSolved
  <2>5. Unfinished'
    <3>1. ASSUME NEW f \in Entries', f.id \in {current', resuming'} PROVE ~f.finished
      BY <1>2, <2>2, <2>4, <3>1, ReachedParts
    <3> QED
      BY <3>1 DEF Unfinished
  <2>6. ASSUME ~Restless PROVE FollowedIsHere'
    <3>1. ASSUME NEW f \in Entries', f.id = current' PROVE SaysHere(f)'
      <4>1. /\ f = Reached(Entry(resuming)) /\ Entry(resuming) \in EntryType
            /\ Entry(resuming).from = pending /\ Entry(resuming).scanned = scanned
            /\ Entry(resuming).method = method
        BY <2>2, <2>4, <2>6, <3>1
      <4>2. f.method = method /\ f.from = pending /\ f.turn = stepped'.turn /\ f.scanned = scanned
        BY <1>2, <4>1, ReachedParts
      <4> QED
        BY <1>2, <4>2 DEF SaysHere
    <3>2. ASSUME current' # NoEntry PROVE Kept(current)'
      <4>1. Kept(resuming) /\ current' = resuming
        BY <2>1, <3>2
      <4>2. Reached(Entry(resuming)).id = resuming
        BY <1>2, <2>2, <4>1, ReachedParts
      <4> QED
        BY <2>1, <4>1, <4>2 DEF Kept
    <3> QED
      BY <3>1, <3>2 DEF FollowedIsHere
  <2> QED
    BY <1>2, <1>4, <1>5, <1>6, <2>1, <2>3, <2>5, <2>6 DEF HistoryInv
<1>8. CASE current' = NoEntry /\ recorded' = FALSE /\ made' = 0 /\ UNCHANGED storeVars
  <2>1. Store' /\ Entries' = Entries
    BY <1>1, <1>8 DEF storeVars, Store, Listed, ListIsOnDisk, Entries
  <2>2. Made'
    BY <1>8 DEF Made
  <2>3. Unfinished' /\ FollowedIsHere'
    BY <1>3, <1>8, <2>1, NoEntryStaysNone DEF Unfinished, FollowedIsHere
  <2> QED
    BY <1>2, <1>4, <1>5, <1>6, <2>1, <2>2, <2>3 DEF HistoryInv
<1>9. CASE LandsContinuation /\ continuation' /\ UNCHANGED <<recorded, made>>
  <2>1. Made'
    BY <1>1, <1>9 DEF Made
  <2>2. CASE Kept(current)
    <3> DEFINE r == Reached(Entry(current))
               x == [r EXCEPT !.from = pending, !.method = method]
    <3>1. /\ Entry(current) \in Entries /\ Entry(current) \in EntryType
          /\ Entry(current).id = current
      BY <1>1, <2>2, EntryFound DEF Store
    <3>2. /\ r \in EntryType /\ r.turn <= r.turns /\ r.turn = stepped'.turn /\ r.id = current
          /\ r.scanned = Entry(current).scanned /\ r.finished = Entry(current).finished
      BY <1>2, <3>1, ReachedParts
    <3> HIDE DEF r
    <3>3. /\ x \in EntryType /\ x.turn <= x.turns /\ x.turn = stepped'.turn /\ x.id = current
          /\ x.from = pending /\ x.method = method
          /\ x.scanned = Entry(current).scanned /\ x.finished = Entry(current).finished
      BY <1>2, <3>2 DEF EntryType
    <3>4. Update(x) /\ current' = current
      BY <1>9, <2>2 DEF LandsContinuation, r
    <3> HIDE DEF x
    <3>5. /\ Store' /\ x \in Entries'
          /\ \A f \in Entries' : f = x \/ (f \in Entries /\ f.id # x.id)
      BY <1>1, <1>2, <2>2, <3>3, <3>4, Updated
    <3>6. Unfinished'
      <4>1. ASSUME NEW f \in Entries', f.id \in {current', resuming'} PROVE ~f.finished
        <5>1. f = x
          BY <1>3, <3>3, <3>4, <3>5, <4>1, NoEntryStaysNone
        <5>2. ~Entry(current).finished
          BY <1>1, <3>1 DEF Unfinished
        <5> QED
          BY <3>3, <5>1, <5>2
      <4> QED
        BY <4>1 DEF Unfinished
    <3>7. ASSUME ~Restless, current' # NoEntry PROVE FollowedIsHere'
      <4>1. SaysHere(Entry(current))
        BY <1>1, <3>1, <3>4, <3>7 DEF FollowedIsHere
      <4>2. ASSUME NEW f \in Entries', f.id = current' PROVE SaysHere(f)'
        <5>1. f = x
          BY <3>3, <3>4, <3>5, <4>2
        <5>2. Entry(current).scanned = scanned
          BY <1>2, <1>9, <4>1 DEF SaysHere
        <5> QED
          BY <1>2, <3>3, <5>1, <5>2 DEF SaysHere
      <4>3. Kept(current)'
        BY <3>3, <3>4, <3>5 DEF Kept
      <4> QED
        BY <4>2, <4>3 DEF FollowedIsHere
    <3>8. ~Restless => FollowedIsHere'
      BY <3>7 DEF FollowedIsHere
    <3> QED
      BY <1>2, <1>4, <1>5, <1>6, <2>1, <3>5, <3>6, <3>8 DEF HistoryInv
  <2>3. CASE ~Kept(current)
    <3>1. current' = NoEntry /\ UNCHANGED storeVars
      BY <1>9, <2>3 DEF LandsContinuation
    <3>2. Store' /\ Entries' = Entries
      BY <1>1, <3>1 DEF storeVars, Store, Listed, ListIsOnDisk, Entries
    <3>3. Unfinished' /\ FollowedIsHere'
      BY <1>3, <3>1, <3>2, NoEntryStaysNone DEF Unfinished, FollowedIsHere
    <3> QED
      BY <1>2, <1>4, <1>5, <1>6, <2>1, <3>2, <3>3 DEF HistoryInv
  <2> QED
    BY <2>2, <2>3
<1> QED
  BY <1>7, <1>8, <1>9 DEF SolveLands, Landed

\* The cube at the turn reached of a solvable one is solvable.
LEMMA CurrentCubeSolvable ==
  ASSUME SolveInv, Solvable
  PROVE  CurrentCube \in Cubes \ Unsolvable
<1>1. stepped \in Stepped
  BY DEF SolveInv, SolveTypeOK
<1>2. stepped.turn \in 0..Turns(stepped.method, stepped.from)
  BY <1>1, TurnInside DEF TotalMoves
<1>3. stepped.method \in Methods /\ stepped.from \in Cubes /\ stepped.from \notin Unsolvable
  BY <1>1 DEF Stepped, Solvable
<1> QED
  BY <1>2, <1>3, SolverAssumption DEF CurrentCube, CubeOf

\* Another method solves the same cube again, so the entry stays its entry.
LEMMA MethodKeeps == ASSUME HistoryInv, NEW m \in Methods, ChooseMethod(m) PROVE HistoryInv'
<1>1. /\ SolveInv /\ Store /\ Solvable /\ Shown /\ ResumingSolves /\ Made /\ Unfinished
      /\ ResumedIsSolved
      /\ ~Restless => FollowedIsHere
  BY DEF HistoryInv
<1>2. SolveInv'
  BY <1>1, StepInv DEF ChooseMethod, SolveNext
<1>3. /\ UNCHANGED <<storeVars, scanned, keep, followVars, screenVars, made>>
      /\ UNCHANGED stepped /\ (Resolve(m) \/ RecordMethod)
      /\ resuming # NoEntry => Restless
  BY DEF ChooseMethod, SetMethod, Resolve, RecordMethod, BeginSolve
<1>4. Store' /\ Entries' = Entries
  BY <1>1, <1>3 DEF storeVars, Store, Listed, ListIsOnDisk, Entries
<1>5. Shown' /\ Made' /\ Unfinished'
  BY <1>1, <1>3, <1>4 DEF Shown, Made, Unfinished, followVars, screenVars
<1>6. /\ isSolving => isSolving' /\ pending' = pending
      /\ pending' = pending \/ (pending # None /\ pending' = CurrentCube)
      /\ ~isSolving' \/ solvingCont' => ~isSolving \/ solvingCont
  <2>1. CASE RecordMethod
    BY <2>1 DEF RecordMethod
  <2>2. CASE Resolve(m)
    <3>1. CASE isSolving
      BY <2>2, <3>1 DEF Resolve, BeginSolve
    <3>2. CASE ~isSolving
      BY <2>2, <3>2 DEF Resolve, BeginSolve
    <3> QED
      BY <3>1, <3>2
  <2> QED
    BY <1>3, <2>1, <2>2
<1>7. Solvable'
  <2>1. CurrentCube \notin Unsolvable /\ CurrentCube # None
    BY <1>1, CurrentCubeSolvable, SolverAssumption
  <2> QED
    BY <1>1, <1>3, <1>6, <2>1 DEF Solvable
<1>8. ResumingSolves'
  BY <1>1, <1>3, <1>6 DEF ResumingSolves, followVars, screenVars
<1>9. ResumedIsSolved'
  <2>1. CASE resuming = NoEntry
    BY <1>3, <1>4, <2>1, NoEntryStaysNone DEF ResumedIsSolved, followVars
  <2>2. CASE resuming # NoEntry
    <3>1. isSolving /\ pending' = pending /\ Restless
      BY <1>1, <1>3, <1>6, <2>2 DEF ResumingSolves
    <3>2. resuming' = resuming /\ scanned' = scanned
      BY <1>3 DEF followVars
    <3> QED
      BY <1>1, <1>4, <3>1, <3>2 DEF ResumedIsSolved
  <2> QED
    BY <2>1, <2>2
<1>10. ~Restless => FollowedIsHere'
  <2>1. \A e : SaysHere(e) => SaysHere(e)'
    BY <1>3, <1>6 DEF SaysHere
  <2> QED
    BY <1>1, <1>3, <1>4, <2>1 DEF FollowedIsHere, Kept, followVars
<1> QED
  BY <1>2, <1>4, <1>5, <1>7, <1>8, <1>9, <1>10 DEF HistoryInv

\* Another cube is handed over: the entry says where the last one is.
LEMMA ScanKeeps == ASSUME HistoryInv, ScanCompletes PROVE HistoryInv'
<1>1. /\ SolveInv /\ Store /\ Solvable /\ Shown /\ ResumingSolves /\ Made /\ Unfinished
      /\ ~Restless => FollowedIsHere
  BY DEF HistoryInv
<1>2. PICK cube \in ScanCubes : SolveCube(cube) /\ scanned' = cube
  BY DEF ScanCompletes
<1>3. cube \in Cubes /\ cube \notin Unsolvable /\ cube # None
  BY HistoryAssumption, SolverAssumption
<1>4. /\ pending' = cube /\ isSolving' /\ ~solvingCont'
      /\ UNCHANGED <<stepped, storeVars, keep, followVars, screen, previous, made>>
  BY <1>2 DEF ScanCompletes, SolveCube, BeginSolve
<1>5. SolveInv'
  BY <1>1, <1>2, <1>3, StepInv DEF SolveNext
<1>6. Store' /\ Entries' = Entries
  BY <1>1, <1>4 DEF storeVars, Store, Listed, ListIsOnDisk, Entries
<1>7. scanComplete' \in BOOLEAN /\ resuming = NoEntry
  BY <1>1 DEF ScanCompletes, ResumingSolves
<1>8. Solvable' /\ Shown' /\ ResumingSolves' /\ Made' /\ Unfinished'
  BY <1>1, <1>2, <1>3, <1>4, <1>6, <1>7
     DEF Solvable, Shown, ResumingSolves, Made, Unfinished, followVars
<1>9. ResumedIsSolved'
  BY <1>4, <1>6, <1>7, NoEntryStaysNone DEF ResumedIsSolved, followVars
<1>10. ~Restless => FollowedIsHere'
  BY <1>1, <1>4, <1>6 DEF FollowedIsHere, SaysHere, Kept, followVars
<1> QED
  BY <1>5, <1>6, <1>8, <1>9, <1>10 DEF HistoryInv

\* A solve that is over is not followed any more.
LEMMA FinishKeeps == ASSUME HistoryInv, Finish PROVE HistoryInv'
<1>1. /\ SolveInv /\ Store /\ Solvable /\ Shown /\ ResumingSolves /\ Made
  BY DEF HistoryInv
<1>2. resuming = NoEntry
  BY <1>1 DEF Finish, ResumingSolves
<1>3. /\ UNCHANGED <<solveVars, scanned, keep, made, recorded, resuming, previous>>
      /\ current' = NoEntry /\ screen' = "complete" /\ scanComplete' = FALSE
  BY DEF Finish, FinishEntry, GoTo
<1>4. SolveInv'
  BY <1>1, <1>3, StepInv
<1>5. Store'
  <2>1. CASE Kept(current)
    <3> DEFINE r == Reached(Entry(current))
               x == [r EXCEPT !.finished = TRUE]
    <3>1. Entry(current) \in EntryType /\ Entry(current).from \notin Unsolvable
      BY <1>1, <2>1, EntryFound DEF Store
    <3>2. stepped' \in Stepped
      BY <1>4 DEF SolveInv, SolveTypeOK
    <3>3. r \in EntryType /\ r.turn <= r.turns /\ r.from \notin Unsolvable
      BY <3>1, <3>2, ReachedParts
    <3> HIDE DEF r
    <3>4. x \in EntryType /\ x.turn <= x.turns /\ x.from \notin Unsolvable
      BY <3>3 DEF EntryType
    <3>5. Update(x)
      BY <2>1 DEF Finish, FinishEntry, r
    <3> HIDE DEF x
    <3> QED
      BY <1>1, <3>4, <3>5, Updated
  <2>2. CASE ~Kept(current)
    BY <1>1, <2>2 DEF Finish, FinishEntry, storeVars, Store, Listed, ListIsOnDisk
  <2> QED
    BY <2>1, <2>2
<1>6. Solvable' /\ Shown' /\ ResumingSolves' /\ Made'
  BY <1>1, <1>2, <1>3 DEF Solvable, Shown, ResumingSolves, Made, solveVars, NoEntry
<1>7. Unfinished' /\ ResumedIsSolved' /\ FollowedIsHere'
  BY <1>2, <1>3, <1>5, NoEntryStaysNone DEF Unfinished, ResumedIsSolved, FollowedIsHere
<1> QED
  BY <1>4, <1>5, <1>6, <1>7 DEF HistoryInv

\* The newest unfinished entry is handed back as it was left.
LEMMA ResumeKeeps == ASSUME HistoryInv, Resume PROVE HistoryInv'
<1>1. /\ SolveInv /\ Store /\ Solvable /\ Shown /\ ResumingSolves /\ Made /\ Unfinished
      /\ ~Restless => FollowedIsHere
  BY DEF HistoryInv
<1> DEFINE e == Entry(CarryOnId)
<1>2. /\ ResumeCube(e.from, e.method, e.turn) /\ scanned' = e.scanned /\ resuming' = CarryOnId
      /\ CarryOnId # NoEntry /\ screen' = "solve" /\ scanComplete' = FALSE
      /\ UNCHANGED <<storeVars, keep, current, recorded, made, previous>>
  BY DEF Resume, GoTo
<1>3. /\ Kept(CarryOnId) /\ e \in EntryType /\ ~e.finished /\ e.from \notin Unsolvable
      /\ \A f \in Entries : f.id = CarryOnId => f = e
  BY <1>1, <1>2, CarryOnFound DEF Store
<1> HIDE DEF e
<1>4. e.from \in Cubes /\ e.scanned \in Cubes /\ e.method \in Methods /\ e.turn \in Nat
  BY <1>3, EntryParts
<1>5. BeginSolve(e.from, FALSE, e.turn) /\ method' = e.method
  <2>1. AtLeastZero(e.turn) = e.turn
    BY <1>4 DEF AtLeastZero
  <2> QED
    BY <1>2, <2>1 DEF ResumeCube
<1>6. SolveInv'
  BY <1>1, <1>4, <1>5, BeginSolveInv
<1>7. pending' = e.from /\ isSolving' /\ ~solvingCont' /\ UNCHANGED stepped
  BY <1>5 DEF BeginSolve
<1>8. Store' /\ Entries' = Entries
  BY <1>1, <1>2 DEF storeVars, Store, Listed, ListIsOnDisk, Entries
<1>9. resuming' \in Nat
  <2>1. PICK f \in Entries : f.id = CarryOnId
    BY <1>3 DEF Kept
  <2> QED
    BY <1>1, <1>2, <2>1, NoEntryIsNone, EntryParts
<1>10. Solvable'
  BY <1>1, <1>2, <1>3, <1>4, <1>7, SolverAssumption DEF Solvable
<1>11. Shown' /\ ResumingSolves' /\ Made'
  BY <1>1, <1>2, <1>7, <1>9 DEF Shown, ResumingSolves, Made
<1>12. Unfinished'
  BY <1>1, <1>2, <1>3, <1>8 DEF Unfinished
<1>13. ResumedIsSolved'
  BY <1>2, <1>3, <1>5, <1>7, <1>8 DEF ResumedIsSolved
<1>14. ~Restless => FollowedIsHere'
  BY <1>1, <1>2, <1>7, <1>8 DEF FollowedIsHere, SaysHere, Kept
<1> QED
  BY <1>6, <1>8, <1>10, <1>11, <1>12, <1>13, <1>14 DEF HistoryInv

\* The entry followed is left alone, or is forgotten with its entry.
LEMMA RemoveKeeps == ASSUME HistoryInv, RemoveEntry PROVE HistoryInv'
<1>1. /\ SolveInv /\ Store /\ Solvable /\ Shown /\ ResumingSolves /\ Made /\ Unfinished
      /\ ~Restless => FollowedIsHere
  BY DEF HistoryInv
<1>2. PICK k \in DOMAIN entries : Put(RemoveAt(entries, k)) /\ Forget({entries[k].id})
  BY DEF RemoveEntry
<1>3. /\ UNCHANGED <<solveVars, scanned, keep, screenVars, made, recorded, resuming>>
      /\ current' = IF current = entries[k].id THEN NoEntry ELSE current
  BY <1>2 DEF RemoveEntry, Forget
<1>4. SolveInv'
  BY <1>1, <1>3, StepInv
<1>5. /\ Store'
      /\ \A f \in Entries' : f \in Entries /\ f.id # entries[k].id
      /\ \A e \in Entries : e.id # entries[k].id => e \in Entries'
  BY <1>1, <1>2, Removed
<1>6. resuming = NoEntry
  BY <1>1 DEF RemoveEntry, ResumingSolves
<1>7. Solvable' /\ Shown' /\ ResumingSolves' /\ Made'
  BY <1>1, <1>3, <1>6 DEF Solvable, Shown, ResumingSolves, Made, solveVars, screenVars, NoEntry
<1>8. Unfinished' /\ ResumedIsSolved'
  BY <1>1, <1>3, <1>5, <1>6, NoEntryStaysNone DEF Unfinished, ResumedIsSolved
<1>9. ASSUME ~Restless, current' # NoEntry PROVE FollowedIsHere'
  <2>1. current' = current /\ current # NoEntry /\ current # entries[k].id
    BY <1>3, <1>9
  <2>2. Kept(current) /\ \A e \in Entries : e.id = current => SaysHere(e)
    BY <1>1, <1>9, <2>1 DEF FollowedIsHere
  <2>3. Kept(current)'
    BY <1>5, <2>1, <2>2 DEF Kept
  <2> QED
    BY <1>3, <1>5, <2>1, <2>2, <2>3 DEF FollowedIsHere, SaysHere, solveVars
<1>10. ~Restless => FollowedIsHere'
  BY <1>9 DEF FollowedIsHere
<1> QED
  BY <1>4, <1>5, <1>7, <1>8, <1>10 DEF HistoryInv

LEMMA ClearKeeps == ASSUME HistoryInv, Clear PROVE HistoryInv'
<1>1. /\ SolveInv /\ Store /\ Solvable /\ Shown /\ ResumingSolves /\ Made
      /\ ~Restless => FollowedIsHere
  BY DEF HistoryInv
<1>2. /\ UNCHANGED <<solveVars, scanned, keep, screenVars, made, recorded, resuming>>
      /\ current' = IF current \in {e.id : e \in Entries} THEN NoEntry ELSE current
  BY DEF Clear, Forget
<1>3. SolveInv'
  BY <1>1, <1>2, StepInv
<1>4. Store' /\ Entries' = {}
  BY <1>1, Emptied DEF Clear
<1>5. Solvable' /\ Shown' /\ ResumingSolves' /\ Made'
  BY <1>1, <1>2 DEF Solvable, Shown, ResumingSolves, Made, solveVars, screenVars, NoEntry
<1>6. Unfinished' /\ ResumedIsSolved'
  BY <1>4 DEF Unfinished, ResumedIsSolved
<1>7. ~Restless => FollowedIsHere'
  BY <1>1, <1>2 DEF FollowedIsHere, Kept
<1> QED
  BY <1>3, <1>4, <1>5, <1>6, <1>7 DEF HistoryInv

\* Started again, with the list the file held.
LEMMA RestartKeeps == ASSUME HistoryInv, Restart PROVE HistoryInv'
<1>1. SolveInv /\ Store /\ Shown
  BY DEF HistoryInv
<1>2. SolveInv'
  <2>1. stepped' \in Stepped
    BY SteppedFromType, SolverAssumption DEF Restart
  <2>2. SolveTypeOK'
    BY <1>1, <2>1 DEF Restart, SolveInv, SolveTypeOK
  <2> QED
    BY <2>2 DEF Restart, SolveInv, WatchedJobIsLatest, ShownSolutionIsLatest
<1>3. Store'
  BY <1>1 DEF Restart, Store, Listed, ListIsOnDisk
<1>4. Solvable'
  BY SolverAssumption DEF Restart, Solvable, SteppedFrom
<1>5. Shown' /\ ResumingSolves' /\ Made'
  <2>1. Made'
    BY DEF Restart, Made
  <2> QED
    BY <1>1, <2>1 DEF Restart, Shown, ResumingSolves, NoEntry
<1>6. Unfinished' /\ ResumedIsSolved' /\ FollowedIsHere'
  BY <1>3, NoEntryStaysNone DEF Restart, Unfinished, ResumedIsSolved, FollowedIsHere
<1> QED
  BY <1>2, <1>3, <1>4, <1>5, <1>6 DEF HistoryInv

LEMMA InitHistory == Init => HistoryInv
<1> SUFFICES ASSUME Init PROVE HistoryInv
  OBVIOUS
<1>1. SolveInv
  BY InitInv DEF Init
<1>2. Store /\ Entries = {}
  <2>1. entries = <<>> /\ file = <<>> /\ writeFailed = FALSE
    BY DEF Init
  <2>2. Listed(entries) /\ Listed(file)
    BY <2>1, EmptyListed
  <2>3. Entries = {}
    BY <2>1 DEF Entries
  <2> QED
    BY <2>1, <2>2, <2>3 DEF Store, ListIsOnDisk
<1>3. Solvable
  BY SolverAssumption DEF Init, SolveInit, Solvable, SteppedFrom
<1>4. Shown /\ ResumingSolves /\ Made
  <2>1. Made
    BY DEF Init, Made
  <2>2. Shown
    BY DEF Init, Shown, NoEntry
  <2> QED
    BY <2>1, <2>2 DEF Init, ResumingSolves
<1>5. Unfinished /\ ResumedIsSolved /\ FollowedIsHere
  BY <1>2 DEF Init, Unfinished, ResumedIsSolved, FollowedIsHere
<1> QED
  BY <1>1, <1>2, <1>3, <1>4, <1>5 DEF HistoryInv

\* Whatever is pressed, lands, is deleted or is cut short, in whatever order.
LEMMA StepHistory == HistoryInv /\ [Next]_vars => HistoryInv'
<1> SUFFICES ASSUME HistoryInv, [Next]_vars PROVE HistoryInv'
  OBVIOUS
<1>1. Shown /\ ResumingSolves
  BY DEF HistoryInv
<1>2. CASE ShowSolution \/ BeginScan \/ CancelScan \/ Rescan \/ OpenHistory \/ CloseHistory
  <2>1. UNCHANGED <<solveVars, scanned, storeVars, followVars, made, keep, previous>>
    BY <1>2 DEF ShowSolution, BeginScan, CancelScan, Rescan, OpenHistory, CloseHistory, Elsewhere
  <2>2. screen' \in {"launch", "history", "scan", "solve"} /\ scanComplete' = FALSE
    BY <1>2 DEF ShowSolution, BeginScan, CancelScan, Rescan, OpenHistory, CloseHistory, GoTo
  <2>3. Shown'
    BY <1>1, <2>1, <2>2 DEF Shown, followVars
  <2>4. resuming = NoEntry
    BY <1>1, <1>2
       DEF ResumingSolves, ShowSolution, BeginScan, CancelScan, Rescan, OpenHistory, CloseHistory
  <2>5. ResumingSolves'
    BY <2>1, <2>4 DEF ResumingSolves, followVars
  <2> QED
    BY <2>1, <2>3, <2>5, ScreensKeep
<1>3. CASE OpenSettings
  <2>1. /\ UNCHANGED <<solveVars, scanned, storeVars, followVars, made, keep>>
        /\ screen # "settings" /\ screen' = "settings" /\ previous' = screen
        /\ scanComplete' = FALSE
    BY <1>3 DEF OpenSettings, Elsewhere, GoTo
  <2>2. Shown' /\ ResumingSolves'
    BY <1>1, <2>1 DEF Shown, ResumingSolves, followVars, solveVars
  <2> QED
    BY <2>1, <2>2, ScreensKeep
<1>4. CASE CloseSettings
  <2>1. /\ UNCHANGED <<solveVars, scanned, storeVars, followVars, made, keep>>
        /\ screen = "settings" /\ screen' = previous /\ previous' = "launch"
        /\ scanComplete' = FALSE
    BY <1>4 DEF CloseSettings, Elsewhere, GoTo
  <2>2. Shown' /\ ResumingSolves'
    BY <1>1, <2>1 DEF Shown, ResumingSolves, followVars, solveVars
  <2> QED
    BY <2>1, <2>2, ScreensKeep
<1>5. CASE SetKeep
  <2>1. /\ UNCHANGED <<solveVars, scanned, storeVars, followVars, screenVars, made>>
        /\ keep' \in BOOLEAN
    BY <1>5 DEF SetKeep
  <2>2. Shown' /\ ResumingSolves'
    BY <1>1, <2>1 DEF Shown, ResumingSolves, followVars, solveVars, screenVars
  <2> QED
    BY <2>1, <2>2, ScreensKeep
<1>6. CASE UNCHANGED vars
  <2>1. Shown' /\ ResumingSolves'
    BY <1>1, <1>6 DEF vars, Shown, ResumingSolves, followVars, solveVars, screenVars
  <2> QED
    BY <1>6, <2>1, ScreensKeep DEF vars
<1> QED
  BY <1>2, <1>3, <1>4, <1>5, <1>6, TurnKeeps, LandKeeps, MethodKeeps, ScanKeeps, FinishKeeps,
     ResumeKeeps, RemoveKeeps, ClearKeeps, RestartKeeps DEF Next

-----------------------------------------------------------------------------
(* What a step does to a solve that is over                                *)

FinishedKept == \A e \in Entries : e.finished => \A f \in Entries' : f.id = e.id => f = e

\* Whatever changes one unfinished entry at most keeps the finished ones.
LEMMA OthersKept ==
  ASSUME Store, NEW id, \A e \in Entries : e.id = id => ~e.finished,
         \A f \in Entries' : f.id = id \/ f \in Entries
  PROVE  FinishedKept
<1> SUFFICES ASSUME NEW e \in Entries, e.finished, NEW f \in Entries', f.id = e.id
             PROVE  f = e
  BY DEF FinishedKept
<1>1. f \in Entries
  OBVIOUS
<1> QED
  BY <1>1, IdsDiffer DEF Store, Entries

LEMMA UpdateChangesOne ==
  ASSUME NEW x, Update(x)
  PROVE  \A f \in Entries' : f = x \/ f \in Entries
BY DEF Update, Put, Entries

LEMMA FinishedStep ==
  ASSUME HistoryInv, HistoryInv', [Next]_vars
  PROVE  (writeFailed /\ entries' = file) \/ FinishedKept
<1>1. /\ Store /\ Unfinished /\ stepped' \in Stepped
      /\ \A e \in Entries : e.id \in {current, resuming} => ~e.finished
  BY DEF HistoryInv, Unfinished, SolveInv, SolveTypeOK
<1>2. ASSUME Entries' \subseteq Entries PROVE FinishedKept
  BY <1>1, <1>2, NoEntryIsNone, OthersKept
<1>3. ASSUME NEW id \in {current, resuming}, FollowEntry(id) PROVE FinishedKept
  <2>1. \A f \in Entries' : f.id = id \/ f \in Entries
    BY <1>1, <1>3, Followed
  <2> QED
    BY <1>1, <2>1, OthersKept
<1>4. ASSUME NEW x, x.id = current, Update(x) PROVE FinishedKept
  BY <1>1, <1>4, OthersKept, UpdateChangesOne
<1>5. ASSUME Kept(current) PROVE Reached(Entry(current)).id = current
  BY <1>1, <1>5, EntryFound, ReachedParts DEF Store
<1>6. ASSUME UNCHANGED storeVars PROVE FinishedKept
  <2>1. Entries' \subseteq Entries
    BY <1>6 DEF storeVars, Entries
  <2> QED
    BY <1>2, <2>1
<1>7. CASE TakeTurn
  <2>1. CASE FollowEntry(current)
    BY <1>3, <2>1
  <2>2. CASE StartsEntry /\ StartEntry
    <3> DEFINE x == [id |-> NewId, scanned |-> scanned, from |-> pending, method |-> method,
                     turn |-> stepped'.turn, turns |-> TotalMoves(stepped'), finished |-> FALSE]
    <3>1. ~Kept(x.id) /\ \A f \in Entries' : f = x \/ (f \in Entries /\ f.id # x.id)
      BY <1>1, <2>2, Started
    <3> HIDE DEF x
    <3>2. \A e \in Entries : e.id = x.id => ~e.finished
      BY <3>1 DEF Kept
    <3> QED
      BY <1>1, <3>1, <3>2, OthersKept
  <2>3. CASE UNCHANGED storeVars
    BY <1>6, <2>3
  <2> QED
    BY <1>7, <2>1, <2>2, <2>3 DEF TakeTurn, OnStateChanged
<1>8. CASE SolveLands
  <2>1. CASE FollowEntry(resuming)
    BY <1>3, <2>1
  <2>2. CASE LandsContinuation
    <3>1. CASE Kept(current)
      <4> DEFINE r == Reached(Entry(current))
                 x == [r EXCEPT !.from = pending, !.method = method]
      <4>1. Update(x)
        BY <2>2, <3>1 DEF LandsContinuation
      <4>2. x.id = current
        BY <1>5, <3>1
      <4> QED
        BY <1>4, <4>1, <4>2
    <3>2. CASE ~Kept(current)
      BY <1>6, <2>2, <3>2 DEF LandsContinuation
    <3> QED
      BY <3>1, <3>2
  <2>3. CASE UNCHANGED storeVars
    BY <1>6, <2>3
  <2> QED
    BY <1>8, <2>1, <2>2, <2>3 DEF SolveLands, Landed
<1>9. CASE Finish
  <2>1. CASE Kept(current)
    <3> DEFINE r == Reached(Entry(current))
               x == [r EXCEPT !.finished = TRUE]
    <3>1. Update(x)
      BY <1>9, <2>1 DEF Finish, FinishEntry
    <3>2. x.id = current
      BY <1>5, <2>1
    <3> QED
      BY <1>4, <3>1, <3>2
  <2>2. CASE ~Kept(current)
    BY <1>6, <1>9, <2>2 DEF Finish, FinishEntry
  <2> QED
    BY <2>1, <2>2
<1>10. CASE RemoveEntry
  <2>1. Entries' \subseteq Entries
    BY <1>1, <1>10, Removed DEF RemoveEntry
  <2> QED
    BY <1>2, <2>1
<1>11. CASE Clear
  <2>1. Entries' \subseteq Entries
    BY <1>1, <1>11, Emptied DEF Clear
  <2> QED
    BY <1>2, <2>1
<1>12. CASE Restart
  <2>1. CASE ~writeFailed
    <3>1. Entries' \subseteq Entries
      BY <1>1, <1>12, <2>1 DEF Restart, Store, ListIsOnDisk, Entries
    <3> QED
      BY <1>2, <3>1
  <2>2. CASE writeFailed
    BY <1>12, <2>2 DEF Restart
  <2> QED
    BY <2>1, <2>2
<1>13. CASE \/ ScanCompletes \/ ShowSolution \/ BeginScan \/ CancelScan \/ Rescan \/ OpenHistory
            \/ CloseHistory \/ OpenSettings \/ CloseSettings \/ Resume \/ SetKeep
            \/ UNCHANGED vars \/ \E m \in Methods : ChooseMethod(m)
  <2>1. UNCHANGED storeVars
    BY <1>13
       DEF ScanCompletes, ShowSolution, BeginScan, CancelScan, Rescan, OpenHistory, CloseHistory,
           OpenSettings, CloseSettings, Resume, SetKeep, ChooseMethod, Elsewhere, vars
  <2> QED
    BY <1>6, <2>1
<1> QED
  BY <1>7, <1>8, <1>9, <1>10, <1>11, <1>12, <1>13 DEF Next

-----------------------------------------------------------------------------
(* The theorems                                                            *)

\* The history keeps its invariant through everything, restarts included.
THEOREM HistoryInvariant == Spec => []HistoryInv
BY InitHistory, StepHistory, PTL DEF Spec

\* Every part of the state keeps its type, and no entry is past the end of its
\* solution: whatever is read back is what load() asks of an entry.
THEOREM HistoryTypes == Spec => []TypeOK
<1>1. HistoryInv => TypeOK
  <2> SUFFICES ASSUME HistoryInv PROVE TypeOK
    OBVIOUS
  <2>1. SolveTypeOK /\ scanned \in Cubes \cup {None} /\ made \in Nat /\ writeFailed \in BOOLEAN
    BY DEF HistoryInv, SolveInv, Solvable, Made, Store
  <2>2. /\ entries \in Seq(EntryType) /\ file \in Seq(EntryType)
        /\ \A e \in Entries : e.turn <= e.turns
    BY DEF HistoryInv, Store, Listed, Entries
  <2>3. Shown
    BY DEF HistoryInv
  <2> QED
    BY <2>1, <2>2, <2>3 DEF TypeOK, Shown
<1> QED
  BY <1>1, HistoryInvariant, PTL

(* Through entries resumed, methods changed while they are, and restarts,  *)
(* what the controller says holds of a program with a history too: the     *)
(* answer to come is to the latest request, and the solution shown is of   *)
(* the cube last handed over, by the method in force.                      *)
THEOREM HistoryShowsTheLatest == Spec => [](WatchedJobIsLatest /\ ShownSolutionIsLatest)
<1>1. HistoryInv => WatchedJobIsLatest /\ ShownSolutionIsLatest
  BY DEF HistoryInv, SolveInv
<1> QED
  BY <1>1, HistoryInvariant, PTL

\* However the list was written, cut, read back or deleted from, an id on it is
\* one entry's.
THEOREM AlwaysNewestFirst == Spec => []NewestFirst
<1>1. HistoryInv => NewestFirst
  BY DEF HistoryInv, Store, Listed, NewestFirst
<1> QED
  BY <1>1, HistoryInvariant, PTL

\* Nothing that is done in the middle of a solve makes it a second entry.
THEOREM AlwaysOneEntry == Spec => []OneEntryPerSolve
<1>1. HistoryInv => OneEntryPerSolve
  BY DEF HistoryInv, Made, OneEntryPerSolve
<1> QED
  BY <1>1, HistoryInvariant, PTL

\* Unless the last write failed, stopping now loses nothing.
THEOREM ListAlwaysOnDisk == Spec => []ListIsOnDisk
<1>1. HistoryInv => ListIsOnDisk
  BY DEF HistoryInv, Store
<1> QED
  BY <1>1, HistoryInvariant, PTL

\* An entry that says where the cube in hand is leads back to it.
LEMMA LeadsBack ==
  ASSUME stepped \in Stepped, NEW e, SaysHere(e)
  PROVE  SteppedOn(SteppedFrom(e.method, e.from), e.turn) = stepped
<1>1. TotalMoves(stepped) \in Nat /\ stepped.turn \in 0..TotalMoves(stepped)
  BY TurnInside
<1>2. SteppedFrom(e.method, e.from) = [method |-> stepped.method, from |-> stepped.from, turn |-> 0]
  BY DEF SaysHere, SteppedFrom
<1>3. TotalMoves(SteppedFrom(e.method, e.from)) = TotalMoves(stepped)
  BY <1>2 DEF TotalMoves
<1>4. SteppedOn(SteppedFrom(e.method, e.from), e.turn) =
        [method |-> stepped.method, from |-> stepped.from, turn |-> stepped.turn]
  BY <1>1, <1>2, <1>3 DEF SteppedOn, SaysHere
<1> QED
  BY <1>4 DEF Stepped

\* With no method chosen while a resumed solve is worked out, the entry followed
\* leads back to the cube in hand at the turn it is at.
THEOREM EntryAlwaysLeadsHere == ~Restless => (Spec => []EntryLeadsHere)
<1> SUFFICES ASSUME ~Restless PROVE Spec => []EntryLeadsHere
  OBVIOUS
<1>1. HistoryInv => EntryLeadsHere
  <2> SUFFICES ASSUME HistoryInv, current # NoEntry PROVE EntryLeadsHere
    BY DEF EntryLeadsHere
  <2> DEFINE e == Entry(current)
  <2>1. stepped \in Stepped /\ Store
    BY DEF HistoryInv, SolveInv, SolveTypeOK
  <2>2. Kept(current) /\ SaysHere(e)
    <3>1. Kept(current) /\ \A f \in Entries : f.id = current => SaysHere(f)
      BY DEF HistoryInv, FollowedIsHere
    <3> QED
      BY <2>1, <3>1, EntryFound DEF Store
  <2> HIDE DEF e
  <2>3. SteppedOn(SteppedFrom(e.method, e.from), e.turn) = stepped
    BY <2>1, <2>2, LeadsBack
  <2>4. ~isSolving => e.scanned = scanned
    BY <2>2 DEF SaysHere
  <2> QED
    BY <2>2, <2>3, <2>4 DEF EntryLeadsHere, e
<1> QED
  BY <1>1, HistoryInvariant, PTL

\* Only starting again from the older list a failed write left behind changes
\* an entry of a solve that is over.
THEOREM FinishedAlwaysStays == Spec => FinishedStays
<1>1. HistoryInv /\ HistoryInv' /\ [Next]_vars =>
        [\/ writeFailed /\ entries' = file
         \/ \A e \in Entries : e.finished => \A f \in Entries' : f.id = e.id => f = e]_vars
  BY FinishedStep DEF FinishedKept
<1> QED
  BY <1>1, HistoryInvariant, PTL DEF Spec, FinishedStays

-----------------------------------------------------------------------------
(* What the program carries on from                                        *)

\* Nothing unfinished was begun after this entry.
FirstOpen(id) == \A e \in Entries : ~e.finished => e.id <= id

\* The entry followed is on the list, and neither it nor the one resumed has an
\* unfinished one before it.
FollowedFirst ==
  /\ current # NoEntry => Kept(current) /\ FirstOpen(current)
  /\ resuming # NoEntry => FirstOpen(resuming)

\* Nothing comes to be unfinished that was not.
NoneOpened == \A f \in Entries' : ~f.finished => \E e \in Entries : e.id = f.id /\ ~e.finished

\* The solve in hand is the one the history screen carries on: the entry
\* followed, and the one a solve was resumed from while that is worked out, are
\* the newest unfinished one.
FollowedIsCarriedOn ==
  /\ current # NoEntry => current = CarryOnId
  /\ resuming # NoEntry /\ Kept(resuming) => resuming = CarryOnId

\* The entry carried on from is the newest of the unfinished ones.
LEMMA CarryOnIsFirst ==
  ASSUME Store, NEW c \in Entries, ~c.finished
  PROVE  FirstOpen(CarryOnId) /\ \E e \in Entries : e.id = CarryOnId /\ ~e.finished
<1>1. /\ Listed(entries) /\ entries \in Seq(EntryType)
      /\ DOMAIN entries = 1..Len(entries) /\ Len(entries) \in Nat
  BY DEF Store, Listed
<1>2. PICK first \in DOMAIN entries :
        /\ ~entries[first].finished /\ \A j \in 1..(first - 1) : entries[j].finished
        /\ CarryOnId = entries[first].id
  BY <1>1, CarryOnIsUnfinished
<1>3. ASSUME NEW e \in Entries, ~e.finished PROVE e.id <= CarryOnId
  <2>1. PICK i \in DOMAIN entries : e = entries[i]
    BY DEF Entries
  <2>2. ~(i < first)
    BY <1>1, <1>2, <1>3, <2>1
  <2>3. entries[i].id \in Nat /\ entries[first].id \in Nat
    BY <1>1, <1>2, <2>1, EntryParts
  <2>4. CASE i = first
    BY <1>2, <2>1, <2>3, <2>4
  <2>5. CASE first < i
    <3>1. entries[first].id > entries[i].id
      BY <1>1, <1>2, <2>1, <2>5 DEF Listed
    <3> QED
      BY <1>2, <2>1, <2>3, <3>1
  <2> QED
    BY <1>1, <1>2, <2>1, <2>2, <2>4, <2>5
<1> QED
  BY <1>2, <1>3 DEF FirstOpen, Entries

\* And an unfinished one with none unfinished before it is that one.
LEMMA FirstIsCarryOn ==
  ASSUME Store, NEW id, Kept(id), \A e \in Entries : e.id = id => ~e.finished, FirstOpen(id)
  PROVE  id = CarryOnId
<1>1. PICK e \in Entries : e.id = id /\ ~e.finished
  BY DEF Kept
<1>2. PICK c \in Entries : c.id = CarryOnId /\ ~c.finished
  BY <1>1, CarryOnIsFirst
<1>3. c.id <= id /\ id <= c.id
  BY <1>1, <1>2, CarryOnIsFirst DEF FirstOpen
<1>4. id \in Nat /\ c.id \in Nat
  BY <1>1, NoEntryIsNone, EntryParts
<1> QED
  BY <1>2, <1>3, <1>4

\* What opens nothing leaves nothing unfinished before an entry.
LEMMA StaysFirst ==
  ASSUME NEW id, FirstOpen(id), NoneOpened
  PROVE  \A f \in Entries' : ~f.finished => f.id <= id
BY DEF FirstOpen, NoneOpened

\* Writing over one entry what is no more unfinished than it was opens nothing.
LEMMA UpdateOpensNone ==
  ASSUME NEW x, Update(x), NEW e \in Entries, e.id = x.id, ~x.finished => ~e.finished
  PROVE  NoneOpened
BY UpdateChangesOne DEF NoneOpened

LEMMA FollowOpensNone ==
  ASSUME Store, stepped' \in Stepped, NEW id, FollowEntry(id)
  PROVE  NoneOpened
<1> SUFFICES ASSUME NEW f \in Entries', ~f.finished
             PROVE  \E e \in Entries : e.id = f.id /\ ~e.finished
  BY DEF NoneOpened
<1>1. IF f.id = id THEN Kept(id) /\ f = Reached(Entry(id)) ELSE f \in Entries
  BY Followed
<1>2. CASE f.id = id
  <2>1. Entry(id) \in Entries /\ Entry(id) \in EntryType /\ Entry(id).id = id
    BY <1>1, <1>2, EntryFound DEF Store
  <2>2. ~Entry(id).finished
    BY <1>1, <1>2, <2>1, ReachedParts
  <2> QED
    BY <1>2, <2>1, <2>2
<1>3. CASE f.id # id
  BY <1>1, <1>3
<1> QED
  BY <1>2, <1>3

\* Only a first turn opens an entry: whatever else is done to the list, nothing
\* on it comes to be unfinished.
LEMMA OnlyATurnOpens ==
  ASSUME HistoryInv, HistoryInv', [Next]_vars
  PROVE  NoneOpened \/ (TakeTurn /\ current = NoEntry /\ StartsEntry /\ StartEntry)
         \/ (Restart /\ writeFailed)
<1>1. Store /\ stepped' \in Stepped
  BY DEF HistoryInv, SolveInv, SolveTypeOK
<1>2. ASSUME Entries' \subseteq Entries PROVE NoneOpened
  BY <1>2 DEF NoneOpened
<1>3. ASSUME UNCHANGED storeVars PROVE NoneOpened
  <2>1. Entries' \subseteq Entries
    BY <1>3 DEF storeVars, Entries
  <2> QED
    BY <1>2, <2>1
<1>4. ASSUME Kept(current)
      PROVE  /\ Entry(current) \in Entries /\ Entry(current).id = current
             /\ Reached(Entry(current)).id = current
             /\ Reached(Entry(current)).finished = Entry(current).finished
  BY <1>1, <1>4, EntryFound, ReachedParts DEF Store
<1>5. CASE TakeTurn
  <2>1. CASE FollowEntry(current)
    BY <1>1, <2>1, FollowOpensNone
  <2>2. CASE UNCHANGED storeVars
    BY <1>3, <2>2
  <2> QED
    BY <1>5, <2>1, <2>2 DEF TakeTurn, OnStateChanged
<1>6. CASE SolveLands
  <2>1. CASE FollowEntry(resuming)
    BY <1>1, <2>1, FollowOpensNone
  <2>2. CASE LandsContinuation
    <3>1. CASE Kept(current)
      <4> DEFINE r == Reached(Entry(current))
                 x == [r EXCEPT !.from = pending, !.method = method]
      <4>1. Update(x)
        BY <2>2, <3>1 DEF LandsContinuation
      <4>2. Entry(current).id = x.id /\ x.finished = Entry(current).finished
        BY <1>4, <3>1
      <4> HIDE DEF x
      <4> QED
        BY <1>4, <3>1, <4>1, <4>2, UpdateOpensNone
    <3>2. CASE ~Kept(current)
      BY <1>3, <2>2, <3>2 DEF LandsContinuation
    <3> QED
      BY <3>1, <3>2
  <2>3. CASE UNCHANGED storeVars
    BY <1>3, <2>3
  <2> QED
    BY <1>6, <2>1, <2>2, <2>3 DEF SolveLands, Landed
<1>7. CASE Finish
  <2>1. CASE Kept(current)
    <3> DEFINE r == Reached(Entry(current))
               x == [r EXCEPT !.finished = TRUE]
    <3>1. Update(x)
      BY <1>7, <2>1 DEF Finish, FinishEntry
    <3>2. Entry(current).id = x.id
      BY <1>4, <2>1
    <3>3. r \in EntryType
      BY <1>1, <2>1, EntryFound, ReachedParts DEF Store
    <3>4. x.finished
      BY <3>3 DEF EntryType
    <3> HIDE DEF x
    <3> QED
      BY <1>4, <2>1, <3>1, <3>2, <3>4, UpdateOpensNone
  <2>2. CASE ~Kept(current)
    BY <1>3, <1>7, <2>2 DEF Finish, FinishEntry
  <2> QED
    BY <2>1, <2>2
<1>8. CASE RemoveEntry
  <2>1. Entries' \subseteq Entries
    BY <1>1, <1>8, Removed DEF RemoveEntry
  <2> QED
    BY <1>2, <2>1
<1>9. CASE Clear
  <2>1. Entries' \subseteq Entries
    BY <1>1, <1>9, Emptied DEF Clear
  <2> QED
    BY <1>2, <2>1
<1>10. CASE Restart
  <2>1. CASE ~writeFailed
    <3>1. Entries' \subseteq Entries
      BY <1>1, <1>10, <2>1 DEF Restart, Store, ListIsOnDisk, Entries
    <3> QED
      BY <1>2, <3>1
  <2> QED
    BY <1>10, <2>1
<1>11. CASE \/ ScanCompletes \/ ShowSolution \/ BeginScan \/ CancelScan \/ Rescan \/ OpenHistory
            \/ CloseHistory \/ OpenSettings \/ CloseSettings \/ Resume \/ SetKeep
            \/ UNCHANGED vars \/ \E m \in Methods : ChooseMethod(m)
  <2>1. UNCHANGED storeVars
    BY <1>11
       DEF ScanCompletes, ShowSolution, BeginScan, CancelScan, Rescan, OpenHistory, CloseHistory,
           OpenSettings, CloseSettings, Resume, SetKeep, ChooseMethod, Elsewhere, vars
  <2> QED
    BY <1>3, <2>1
<1> QED
  BY <1>5, <1>6, <1>7, <1>8, <1>9, <1>10, <1>11 DEF Next

\* What is followed after a step was followed, or resumed, before it.
LEMMA FollowsOn ==
  ASSUME HistoryInv, HistoryInv', current # NoEntry => Kept(current), [Next]_vars, NoneOpened
  PROVE  /\ current' # NoEntry => current' \in {current, resuming} /\ Kept(current)'
         /\ resuming' # NoEntry => resuming' = resuming
                                   \/ (Resume /\ resuming' = CarryOnId /\ CarryOnId # NoEntry)
<1>1. Store /\ stepped' \in Stepped
  BY DEF HistoryInv, SolveInv, SolveTypeOK
<1>2. ASSUME UNCHANGED <<storeVars, current>>, current' # NoEntry
      PROVE  current' \in {current, resuming} /\ Kept(current)'
  BY <1>2 DEF storeVars, Kept, Entries
<1>3. ASSUME NEW id \in {current, resuming}, FollowEntry(id), current' # NoEntry
      PROVE  current' \in {current, resuming} /\ Kept(current)'
  <2>1. current' = id /\ Kept(id) /\ Reached(Entry(id)) \in Entries'
    BY <1>1, <1>3, Followed
  <2>2. Reached(Entry(id)).id = id
    BY <1>1, <2>1, EntryFound, ReachedParts DEF Store
  <2> QED
    BY <2>1, <2>2 DEF Kept
<1>4. CASE TakeTurn
  <2>1. resuming' = resuming
    BY <1>4 DEF TakeTurn, OnStateChanged
  <2>2. CASE FollowEntry(current)
    BY <1>3, <2>1, <2>2
  <2>3. CASE UNCHANGED <<storeVars, current>>
    BY <1>2, <2>1, <2>3
  <2>4. CASE StartsEntry /\ StartEntry
    <3> DEFINE x == [id |-> NewId, scanned |-> scanned, from |-> pending, method |-> method,
                     turn |-> stepped'.turn, turns |-> TotalMoves(stepped'), finished |-> FALSE]
    <3>1. x \in Entries' /\ ~Kept(x.id)
      BY <1>1, <2>4, Started
    <3>2. ~x.finished
      OBVIOUS
    <3> HIDE DEF x
    <3>3. FALSE
      BY <3>1, <3>2 DEF NoneOpened, Kept
    <3> QED
      BY <3>3
  <2> QED
    BY <1>4, <2>2, <2>3, <2>4 DEF TakeTurn, OnStateChanged
<1>5. CASE SolveLands
  <2>1. resuming' = NoEntry
    BY <1>5 DEF SolveLands, Landed
  <2>2. CASE FollowEntry(resuming)
    BY <1>3, <2>1, <2>2
  <2>3. CASE current' = NoEntry
    BY <2>1, <2>3
  <2>4. CASE LandsContinuation /\ current' # NoEntry
    <3>1. Kept(current)
      BY <2>4 DEF LandsContinuation
    <3> DEFINE r == Reached(Entry(current))
               x == [r EXCEPT !.from = pending, !.method = method]
    <3>2. Update(x) /\ current' = current
      BY <2>4, <3>1 DEF LandsContinuation
    <3>3. x.id = current
      BY <1>1, <3>1, EntryFound, ReachedParts DEF Store
    <3> HIDE DEF x
    <3>4. PICK i \in DOMAIN entries : entries[i].id = current
      BY <3>1 DEF Kept, Entries
    <3>5. entries' = [j \in DOMAIN entries |-> IF entries[j].id = x.id THEN x ELSE entries[j]]
      BY <3>2 DEF Update, Put
    <3>6. i \in DOMAIN entries' /\ entries'[i] = x
      BY <3>3, <3>4, <3>5
    <3>7. Kept(current)'
      BY <3>2, <3>3, <3>6 DEF Kept, Entries
    <3> QED
      BY <2>1, <3>2, <3>7
  <2> QED
    BY <1>5, <2>2, <2>3, <2>4 DEF SolveLands, Landed
<1>6. CASE Finish
  BY <1>6 DEF Finish, FinishEntry
<1>7. CASE RemoveEntry
  <2>1. PICK k \in DOMAIN entries : Put(RemoveAt(entries, k)) /\ Forget({entries[k].id})
    BY <1>7 DEF RemoveEntry
  <2>2. /\ resuming' = resuming
        /\ current' # NoEntry => current' = current /\ current # entries[k].id
    BY <2>1 DEF Forget
  <2>3. \A e \in Entries : e.id # entries[k].id => e \in Entries'
    BY <1>1, <2>1, Removed
  <2>4. current' # NoEntry => Kept(current)'
    BY <2>2, <2>3 DEF Kept
  <2> QED
    BY <2>2, <2>4
<1>8. CASE Clear
  <2>1. resuming' = resuming /\ current' = IF current \in {e.id : e \in Entries} THEN NoEntry ELSE current
    BY <1>8 DEF Clear, Forget
  <2>2. current' = NoEntry
    BY <2>1 DEF Kept
  <2> QED
    BY <2>1, <2>2
<1>9. CASE Restart
  BY <1>9 DEF Restart
<1>10. CASE Resume
  <2>1. UNCHANGED <<storeVars, current>> /\ resuming' = CarryOnId /\ CarryOnId # NoEntry
    BY <1>10 DEF Resume
  <2> QED
    BY <1>2, <1>10, <2>1
<1>11. CASE \/ ScanCompletes \/ ShowSolution \/ BeginScan \/ CancelScan \/ Rescan \/ OpenHistory
            \/ CloseHistory \/ OpenSettings \/ CloseSettings \/ SetKeep
            \/ UNCHANGED vars \/ \E m \in Methods : ChooseMethod(m)
  <2>1. UNCHANGED <<storeVars, current>> /\ resuming' = resuming
    BY <1>11
       DEF ScanCompletes, ShowSolution, BeginScan, CancelScan, Rescan, OpenHistory, CloseHistory,
           OpenSettings, CloseSettings, SetKeep, ChooseMethod, Elsewhere, vars, followVars
  <2> QED
    BY <1>2, <2>1
<1> QED
  BY <1>4, <1>5, <1>6, <1>7, <1>8, <1>9, <1>10, <1>11 DEF Next

LEMMA FollowedFirstStep ==
  ASSUME HistoryInv, HistoryInv', FollowedFirst, [Next]_vars
  PROVE  FollowedFirst'
<1>1. Store /\ Store' /\ ResumingSolves
  BY DEF HistoryInv
<1>2. CASE NoneOpened
  <2>1. /\ current' # NoEntry => current' \in {current, resuming} /\ Kept(current)'
        /\ resuming' # NoEntry => resuming' = resuming
                                  \/ (Resume /\ resuming' = CarryOnId /\ CarryOnId # NoEntry)
    BY <1>2, FollowsOn DEF FollowedFirst
  <2>2. ASSUME current' # NoEntry PROVE FirstOpen(current)'
    <3>1. FirstOpen(current')
      BY <2>1, <2>2 DEF FollowedFirst
    <3> QED
      BY <1>2, <3>1, StaysFirst DEF FirstOpen
  <2>3. ASSUME resuming' # NoEntry PROVE FirstOpen(resuming)'
    <3>1. CASE resuming' = resuming
      <4>1. FirstOpen(resuming')
        BY <2>3, <3>1 DEF FollowedFirst
      <4> QED
        BY <1>2, <4>1, StaysFirst DEF FirstOpen
    <3>2. CASE Resume /\ resuming' = CarryOnId /\ CarryOnId # NoEntry
      <4>1. PICK c \in Entries : ~c.finished
        BY <3>2 DEF CarryOnId
      <4>2. FirstOpen(resuming')
        BY <1>1, <3>2, <4>1, CarryOnIsFirst
      <4> QED
        BY <1>2, <4>2, StaysFirst DEF FirstOpen
    <3> QED
      BY <2>1, <2>3, <3>1, <3>2
  <2> QED
    BY <2>1, <2>2, <2>3 DEF FollowedFirst
<1>3. CASE TakeTurn /\ current = NoEntry /\ StartsEntry /\ StartEntry
  <2> DEFINE x == [id |-> NewId, scanned |-> scanned, from |-> pending, method |-> method,
                   turn |-> stepped'.turn, turns |-> TotalMoves(stepped'), finished |-> FALSE]
  <2>1. resuming' = NoEntry /\ current' = NewId
    BY <1>1, <1>3 DEF TakeTurn, OnStateChanged, ResumingSolves, StartEntry
  <2>2. stepped' \in Stepped
    BY DEF HistoryInv, SolveInv, SolveTypeOK
  <2>3. x \in Entries' /\ \A f \in Entries' : f = x \/ (f \in Entries /\ f.id # x.id)
    BY <1>3, <2>2, Started
  <2>4. x.id = NewId
    OBVIOUS
  <2> HIDE DEF x
  <2>5. NewId \in Nat /\ \A i \in DOMAIN entries : entries[i].id < NewId
    BY <1>1, NewIdIsNewest DEF Store
  <2>6. \A e \in Entries : e.id \in Nat /\ e.id < NewId
    BY <1>1, <2>5, NoEntryIsNone, EntryParts DEF Entries
  <2>7. ASSUME NEW f \in Entries' PROVE f.id <= current'
    BY <2>1, <2>3, <2>4, <2>5, <2>6
  <2>8. Kept(current)'
    BY <2>1, <2>3, <2>4 DEF Kept
  <2> QED
    BY <2>1, <2>7, <2>8 DEF FollowedFirst, FirstOpen
<1>4. CASE Restart /\ writeFailed
  BY <1>4 DEF Restart, FollowedFirst
<1> QED
  BY <1>2, <1>3, <1>4, OnlyATurnOpens

LEMMA FollowedFirstIsCarriedOn ==
  ASSUME HistoryInv, FollowedFirst
  PROVE  FollowedIsCarriedOn
<1>1. Store /\ Unfinished
  BY DEF HistoryInv
<1>2. ASSUME current # NoEntry PROVE current = CarryOnId
  BY <1>1, <1>2, FirstIsCarryOn DEF FollowedFirst, Unfinished
<1>3. ASSUME resuming # NoEntry, Kept(resuming) PROVE resuming = CarryOnId
  BY <1>1, <1>3, FirstIsCarryOn DEF FollowedFirst, Unfinished
<1> QED
  BY <1>2, <1>3 DEF FollowedIsCarriedOn

\* Whatever was resumed, deleted, finished or cut short before, the history
\* screen offers to carry on the very solve that is in hand, and a solve that is
\* being resumed is still the one it would offer.
THEOREM FollowedIsAlwaysCarriedOn == Spec => []FollowedIsCarriedOn
<1>1. Init => FollowedFirst
  BY DEF Init, FollowedFirst
<1>2. HistoryInv /\ HistoryInv' /\ FollowedFirst /\ [Next]_vars => FollowedFirst'
  BY FollowedFirstStep
<1>3. HistoryInv /\ FollowedFirst => FollowedIsCarriedOn
  BY FollowedFirstIsCarriedOn
<1> QED
  BY <1>1, <1>2, <1>3, HistoryInvariant, PTL DEF Spec

\* Stopping at any moment of a solve that is followed, and carrying on from the
\* file, leads back to the turn in hand: what ListIsOnDisk, EntryLeadsHere and
\* the choice of the entry carried on from come to together.
THEOREM CrashNeverLoses == ~Restless => (Spec => []CrashLosesNothing)
<1> SUFFICES ASSUME ~Restless PROVE Spec => []CrashLosesNothing
  OBVIOUS
<1>1. Init => FollowedFirst
  BY DEF Init, FollowedFirst
<1>2. HistoryInv /\ HistoryInv' /\ FollowedFirst /\ [Next]_vars => FollowedFirst'
  BY FollowedFirstStep
<1>3. HistoryInv /\ FollowedFirst => CrashLosesNothing
  <2> SUFFICES ASSUME HistoryInv, FollowedFirst, current # NoEntry, ~writeFailed
               PROVE  CrashLosesNothing
    BY DEF CrashLosesNothing
  <2>1. /\ Store /\ stepped \in Stepped
        /\ Kept(current) /\ \A e \in Entries : e.id = current => SaysHere(e)
    BY DEF HistoryInv, FollowedIsHere, SolveInv, SolveTypeOK
  <2>2. Listed(entries) /\ file = entries
    BY <2>1 DEF Store, ListIsOnDisk
  <2>3. PICK e \in Entries : e.id = current /\ ~e.finished
    BY <2>1 DEF HistoryInv, Unfinished, Kept
  <2>4. PICK i \in DOMAIN entries :
          /\ ~entries[i].finished /\ \A j \in 1..(i - 1) : entries[j].finished
          /\ CarryOnId = entries[i].id
    BY <2>2, <2>3, CarryOnIsUnfinished
  <2>5. CarryOnId = current
    BY FollowedFirstIsCarriedOn DEF FollowedIsCarriedOn
  <2>6. SaysHere(entries[i])
    BY <2>1, <2>4, <2>5 DEF Entries
  <2>7. SteppedOn(SteppedFrom(entries[i].method, entries[i].from), entries[i].turn) = stepped
    BY <2>1, <2>6, LeadsBack
  <2> QED
    BY <2>2, <2>4, <2>7 DEF CrashLosesNothing
<1> QED
  BY <1>1, <1>2, <1>3, HistoryInvariant, PTL DEF Spec

-----------------------------------------------------------------------------
(* What two sayings of the source come to                                  *)

\* With the history off, only the entry followed or resumed is still written,
\* and none is added.
KeepOffOnlyFollowed ==
  [][~keep /\ ~writeFailed =>
       \A f \in Entries' : f \in Entries \/ (Kept(f.id) /\ f.id \in {current, resuming})]_vars

\* What each step writes, with the history off.
OnlyFollowed == \A f \in Entries' : f \in Entries \/ (Kept(f.id) /\ f.id \in {current, resuming})

LEMMA KeepOffStep ==
  ASSUME HistoryInv, HistoryInv', [Next]_vars, ~keep, ~writeFailed
  PROVE  OnlyFollowed
<1>1. Store /\ stepped' \in Stepped
  BY DEF HistoryInv, SolveInv, SolveTypeOK
<1>2. ASSUME Entries' \subseteq Entries PROVE OnlyFollowed
  BY <1>2 DEF OnlyFollowed
<1>3. ASSUME NEW id \in {current, resuming}, FollowEntry(id) PROVE OnlyFollowed
  <2>1. \A f \in Entries' : IF f.id = id THEN Kept(id) ELSE f \in Entries
    BY <1>1, <1>3, Followed
  <2> QED
    BY <2>1 DEF OnlyFollowed
<1>4. ASSUME NEW x, x.id = current, Kept(current), Update(x) PROVE OnlyFollowed
  BY <1>4, UpdateChangesOne DEF OnlyFollowed
<1>5. ASSUME Kept(current) PROVE Reached(Entry(current)).id = current
  BY <1>1, <1>5, EntryFound, ReachedParts DEF Store
<1>6. ASSUME UNCHANGED storeVars PROVE OnlyFollowed
  <2>1. Entries' \subseteq Entries
    BY <1>6 DEF storeVars, Entries
  <2> QED
    BY <1>2, <2>1
<1>7. CASE TakeTurn
  <2>1. CASE FollowEntry(current)
    BY <1>3, <2>1
  <2>2. CASE UNCHANGED storeVars
    BY <1>6, <2>2
  <2>3. ~StartsEntry
    BY DEF StartsEntry
  <2> QED
    BY <1>7, <2>1, <2>2, <2>3 DEF TakeTurn, OnStateChanged
<1>8. CASE SolveLands
  <2>1. CASE FollowEntry(resuming)
    BY <1>3, <2>1
  <2>2. CASE LandsContinuation
    <3>1. CASE Kept(current)
      <4> DEFINE r == Reached(Entry(current))
                 x == [r EXCEPT !.from = pending, !.method = method]
      <4>1. Update(x)
        BY <2>2, <3>1 DEF LandsContinuation
      <4>2. x.id = current
        BY <1>5, <3>1
      <4> HIDE DEF x
      <4> QED
        BY <1>4, <3>1, <4>1, <4>2
    <3>2. CASE ~Kept(current)
      BY <1>6, <2>2, <3>2 DEF LandsContinuation
    <3> QED
      BY <3>1, <3>2
  <2>3. CASE UNCHANGED storeVars
    BY <1>6, <2>3
  <2> QED
    BY <1>8, <2>1, <2>2, <2>3 DEF SolveLands, Landed
<1>9. CASE Finish
  <2>1. CASE Kept(current)
    <3> DEFINE r == Reached(Entry(current))
               x == [r EXCEPT !.finished = TRUE]
    <3>1. Update(x)
      BY <1>9, <2>1 DEF Finish, FinishEntry
    <3>2. x.id = current
      BY <1>5, <2>1
    <3> HIDE DEF x
    <3> QED
      BY <1>4, <2>1, <3>1, <3>2
  <2>2. CASE ~Kept(current)
    BY <1>6, <1>9, <2>2 DEF Finish, FinishEntry
  <2> QED
    BY <2>1, <2>2
<1>10. CASE RemoveEntry
  <2>1. Entries' \subseteq Entries
    BY <1>1, <1>10, Removed DEF RemoveEntry
  <2> QED
    BY <1>2, <2>1
<1>11. CASE Clear
  <2>1. Entries' \subseteq Entries
    BY <1>1, <1>11, Emptied DEF Clear
  <2> QED
    BY <1>2, <2>1
<1>12. CASE Restart
  <2>1. Entries' \subseteq Entries
    BY <1>1, <1>12 DEF Restart, Store, ListIsOnDisk, Entries
  <2> QED
    BY <1>2, <2>1
<1>13. CASE \/ ScanCompletes \/ ShowSolution \/ BeginScan \/ CancelScan \/ Rescan \/ OpenHistory
            \/ CloseHistory \/ OpenSettings \/ CloseSettings \/ Resume \/ SetKeep
            \/ UNCHANGED vars \/ \E m \in Methods : ChooseMethod(m)
  <2>1. UNCHANGED storeVars
    BY <1>13
       DEF ScanCompletes, ShowSolution, BeginScan, CancelScan, Rescan, OpenHistory, CloseHistory,
           OpenSettings, CloseSettings, Resume, SetKeep, ChooseMethod, Elsewhere, vars
  <2> QED
    BY <1>6, <2>1
<1> QED
  BY <1>7, <1>8, <1>9, <1>10, <1>11, <1>12, <1>13 DEF Next

\* How far "nothing is added or changed" (solve_history.hpp) goes: with the
\* history off nothing is added, and all that is changed is the entry of the
\* solve in hand.
THEOREM KeepOffIsBounded == Spec => KeepOffOnlyFollowed
<1>1. HistoryInv /\ HistoryInv' /\ [Next]_vars =>
        [~keep /\ ~writeFailed =>
           \A f \in Entries' : f \in Entries \/ (Kept(f.id) /\ f.id \in {current, resuming})]_vars
  BY KeepOffStep DEF OnlyFollowed
<1> QED
  BY <1>1, HistoryInvariant, PTL DEF Spec, KeepOffOnlyFollowed

\* "The entry already says everything it should" (solve_history.cpp), of the
\* solve that resume() asked for: it does as long as the method is not changed
\* while that solve is worked out.
THEOREM ResumedSaysEverything == ~Restless => (Spec => ResumedEntrySaysEverything)
<1> SUFFICES ASSUME ~Restless PROVE Spec => ResumedEntrySaysEverything
  OBVIOUS
<1>1. HistoryInv /\ HistoryInv' /\ [Next]_vars =>
        [resuming # NoEntry /\ ~isSolving' /\ current' # NoEntry =>
           LET e == Entry(current)'
           IN e.method = stepped'.method /\ e.from = stepped'.from]_vars
  <2> SUFFICES ASSUME HistoryInv, HistoryInv', [Next]_vars,
                      resuming # NoEntry, ~isSolving', current' # NoEntry
               PROVE  LET e == Entry(current)'
                      IN e.method = stepped'.method /\ e.from = stepped'.from
    OBVIOUS
  <2>1. Kept(current)' /\ \A f \in Entries' : f.id = current' => SaysHere(f)'
    BY DEF HistoryInv, FollowedIsHere
  <2>2. \E f \in Entries' : f.id = current'
    BY <2>1 DEF Kept
  <2>3. Entry(current)' \in Entries' /\ Entry(current)'.id = current'
    BY <2>2 DEF Entry
  <2> QED
    BY <2>1, <2>3 DEF SaysHere
<1> QED
  BY <1>1, HistoryInvariant, PTL DEF Spec, ResumedEntrySaysEverything

=============================================================================

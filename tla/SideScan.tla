------------------------------ MODULE SideScan ------------------------------
(***************************************************************************)
(* How a scan sorts its reads into the sides of the cube (SideScan in      *)
(* lib/src/vision/direct_scan.cpp): each read joins the group it is most   *)
(* like or begins one, groups that have come to be alike are joined, and   *)
(* there are never more than a number of them. A list of indices says      *)
(* which are in view, and every removal renumbers it.                      *)
(*                                                                         *)
(* A side's nine colours, which the code compares under every quarter-turn,*)
(* are a point on a line, and their difference is the distance. The looks  *)
(* are even, so that the mean of two is one of the points.                 *)
(***************************************************************************)
EXTENDS Integers, Sequences, SequencesExt, FiniteSetsExt

CONSTANTS
  Furthest,   \* a look or a median is between 0 and this
  Looks,      \* what a side can look like, even
  Near,       \* two looks are of the same side
  Loose,      \* a look may be a side that is lit differently
  MinReads,   \* kMinReads
  MaxGroups,  \* kMaxGroups
  MaxSides,   \* sides of a corner view, not above MaxGroups
  MaxFrames   \* of a scan; bounds the frames added

\* Looks are points, a side is fused from one read at least (kMinReads is eight),
\* and there can be as many groups as a corner view has sides (kMaxGroups is 24,
\* and a corner view shows two sides or three).
ASSUME SidesAssumption ==
  /\ Furthest \in Nat /\ Looks \subseteq 0..Furthest
  /\ MinReads \in Nat \ {0} /\ MaxGroups \in Nat \ {0}
  /\ MaxSides \in Nat /\ MaxSides <= MaxGroups
  /\ MaxFrames \in Nat

VARIABLES
  groups,           \* groups_: reads, flat reads, their median; and whether
                    \*   one of the reads is of the newest frame
  inView,           \* in_view_: numbers of groups
  previous,         \* previous_centre_ is there
  previousCorners,  \* previous_corner_centres_ has any
  frames

sidesVars == <<groups, inView, previous, previousCorners, frames>>

-----------------------------------------------------------------------------
(* ReadSet: how many reads there are of each look.                         *)

Points == 0..Furthest

NoReads == [v \in Looks |-> 0]
AddRead(bag, v) == [bag EXCEPT ![v] = @ + 1]
Absorbed(bag, other) == [v \in Looks |-> bag[v] + other[v]]
ReadsOf(bag) == UNION {{v} \X (1..bag[v]) : v \in Looks}
SizeOf(bag) == Cardinality(ReadsOf(bag))

(* The k-th smallest, and the middle one or the mean of the middle two.    *)
Ranked(bag, k) == Min({p \in Points : Cardinality({r \in ReadsOf(bag) : r[1] <= p}) >= k})
Median(bag) ==
  LET n == SizeOf(bag) IN
  (Ranked(bag, (n + 1) \div 2) + Ranked(bag, n \div 2 + 1)) \div 2

FusedOf(group) ==
  Median(IF SizeOf(group.flat) >= MinReads THEN group.flat ELSE group.reads)

-----------------------------------------------------------------------------
(* A scan is its groups and those in view: [groups |-> , inView |-> ].     *)

Apart(a, b) == IF a < b THEN b - a ELSE a - b

\* Mutant of Renumbered: the groups behind keep their numbers.
RenumberedNot(view, i) == view \ {i}

(* Where a viewed group is once group i is gone.                           *)
Renumbered(view, i) == {IF v > i THEN v - 1 ELSE v : v \in view}

(* absorb(): the earlier group survives, with the reads of both.           *)
Absorb(scan, keep, other) ==
  LET a == scan.groups[keep]
      b == scan.groups[other]
      both == [a EXCEPT !.reads = Absorbed(@, b.reads),
                        !.flat = Absorbed(@, b.flat), !.now = @ \/ b.now]
      view == {IF v = other THEN keep ELSE v : v \in scan.inView}
  IN [groups |-> RemoveAt([scan.groups EXCEPT
                   ![keep] = [both EXCEPT !.fused = FusedOf(both)]], other),
      inView |-> Renumbered(view, other)]

AlikePairs(list) ==
  {p \in (DOMAIN list) \X (DOMAIN list) :
     p[1] < p[2] /\ Apart(list[p[1]].fused, list[p[2]].fused) <= Near}

FirstOf(pairs) ==
  CHOOSE p \in pairs :
    \A q \in pairs : p[1] < q[1] \/ (p[1] = q[1] /\ p[2] <= q[2])

MergeFirst(scan) ==
  LET pairs == AlikePairs(scan.groups)
      first == FirstOf(pairs)
  IN IF pairs = {} THEN scan ELSE Absorb(scan, first[1], first[2])

(* Until none are alike: every join leaves one group less.                 *)
MergeAlike(scan) ==
  LET merged[n \in Nat] == IF n = 0 THEN scan ELSE MergeFirst(merged[n - 1])
  IN merged[Len(scan.groups)]

(* The group with the fewest reads, the oldest of them, but none in view.  *)
DropWeakest(scan) ==
  LET strays == DOMAIN scan.groups \ scan.inView
      reads(i) == SizeOf(scan.groups[i].reads)
      weakest == CHOOSE i \in strays : \A j \in strays :
                   reads(i) < reads(j) \/ (reads(i) = reads(j) /\ i <= j)
  IN IF Len(scan.groups) <= MaxGroups \/ strays = {} THEN scan
     ELSE [groups |-> RemoveAt(scan.groups, weakest),
           inView |-> Renumbered(scan.inView, weakest)]

(* The read joins the nearest of the groups that claim it, the first of    *)
(* them, or begins one.                                                    *)
Joined(scan, look, flat) ==
  LET list == scan.groups
      apart(i) == Apart(look, list[i].fused)
      claiming == {i \in DOMAIN list : apart(i) <= Near}
      nearest == CHOOSE i \in claiming : \A j \in claiming :
                   apart(i) < apart(j) \/ (apart(i) = apart(j) /\ i <= j)
      group == IF claiming = {}
               THEN [reads |-> NoReads, flat |-> NoReads, fused |-> look, now |-> TRUE]
               ELSE list[nearest]
      more == [group EXCEPT !.reads = AddRead(@, look),
                            !.flat = IF flat THEN AddRead(@, look) ELSE @,
                            !.now = TRUE]
      fused == [more EXCEPT !.fused = FusedOf(more)]
  IN IF claiming = {}
     THEN [groups |-> Append(list, fused), inView |-> scan.inView \cup {Len(list) + 1}]
     ELSE [groups |-> [list EXCEPT ![nearest] = fused],
           inView |-> scan.inView \cup {nearest}]

(* A read at an angle that two groups claim, or that may be one of them    *)
(* lit differently, is not counted.                                        *)
InDoubt(scan, look) ==
  LET within(d) == {i \in DOMAIN scan.groups : Apart(look, scan.groups[i].fused) <= d}
  IN Cardinality(within(Near)) > 1 \/ (within(Near) = {} /\ within(Loose) # {})

CountRead(scan, look, flat) ==
  IF ~flat /\ InDoubt(scan, look) THEN scan
  ELSE DropWeakest(MergeAlike(Joined(scan, look, flat)))

-----------------------------------------------------------------------------
(* What the controller does with a frame: add(), and add_corner() when     *)
(* there was no side square to the camera.                                 *)

NothingInView ==
  [groups |-> [i \in DOMAIN groups |-> [groups[i] EXCEPT !.now = FALSE]],
   inView |-> {}]

Becomes(scan) == groups' = scan.groups /\ inView' = scan.inView

SidesInit ==
  /\ groups = <<>> /\ inView = {}
  /\ previous = FALSE /\ previousCorners = FALSE
  /\ frames = 0

(* Only a side that has not moved since the frame before counts.           *)
FlatFrame(look) ==
  /\ frames < MaxFrames
  /\ \/ previous /\ Becomes(CountRead(NothingInView, look, TRUE))
     \/ Becomes(NothingInView)
  /\ previous' = TRUE /\ previousCorners' = FALSE
  /\ frames' = frames + 1

(* The sides of a corner view are counted one after the other.             *)
CountCorner(looks) ==
  LET counted[n \in 0..Len(looks)] ==
        IF n = 0 THEN NothingInView ELSE CountRead(counted[n - 1], looks[n], FALSE)
  IN counted[Len(looks)]

(* looks: the sides of the corner view that are whole enough and still.    *)
CornerFrame(looks) ==
  /\ frames < MaxFrames
  /\ previousCorners \/ looks = <<>>
  /\ Becomes(CountCorner(looks))
  /\ previous' = FALSE /\ previousCorners' = TRUE
  /\ frames' = frames + 1

EmptyFrame ==
  /\ frames < MaxFrames
  /\ Becomes(NothingInView)
  /\ previous' = FALSE /\ previousCorners' = FALSE
  /\ frames' = frames + 1

(* reset(): a scan is begun afresh.                                        *)
Reset == groups' = <<>> /\ inView' = {} /\ previous' = FALSE
         /\ previousCorners' = FALSE /\ frames' = 0

SidesNext ==
  \/ \E look \in Looks : FlatFrame(look)
  \/ \E looks \in SeqOf(Looks, MaxSides) : CornerFrame(looks)
  \/ EmptyFrame \/ Reset

SidesSpec == SidesInit /\ [][SidesNext]_sidesVars

-----------------------------------------------------------------------------
SidesTypeOK ==
  /\ groups \in Seq([reads : [Looks -> Nat], flat : [Looks -> Nat],
                     fused : Points, now : BOOLEAN])
  /\ inView \subseteq Nat
  /\ previous \in BOOLEAN /\ previousCorners \in BOOLEAN
  /\ frames \in 0..MaxFrames

(* The sides said to be in view are those that have a read of the newest   *)
(* frame, and no others, through every join and removal that renumbers     *)
(* them; a side in view is never the one dropped; and the groups stay      *)
(* within their number.                                                    *)
SidesInView ==
  /\ inView = {i \in DOMAIN groups : groups[i].now}
  /\ Len(groups) <= MaxGroups
  /\ \A i \in inView : SizeOf(groups[i].reads) > 0
=============================================================================

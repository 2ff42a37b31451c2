-------------------------- MODULE AsyncRecorderProofs --------------------------
(***************************************************************************)
(* That a recording's accounts are exact and its index honest, for any     *)
(* capacity and any number of frames.  Accounting alone is not inductive:  *)
(* a writer that has returned must be known to have left nothing behind    *)
(* (WriterLeavesNothing), which holds because nothing is queued once a     *)
(* stop is asked for, or once the writer has failed.                       *)
(*                                                                         *)
(* That the recording keeps the log of FrameLog rests on the order of the  *)
(* frames on their way (Ordered): a frame written is the oldest that       *)
(* waits, and as many wait as are queued at least.  It also says that the  *)
(* files in a place of the ring are of a later frame than the rows whose   *)
(* place it was.                                                           *)
(***************************************************************************)
EXTENDS AsyncRecorder, FiniteSetTheorems, SequenceTheorems, TLAPS

\* Where the two threads can be together.
ThreadsAgree ==
  /\ running <=> writer # "none"
  /\ caller # "idle" => running
  /\ running => (stopping <=> caller \in {"stopping", "joining"})

\* A writer that has failed or drained leaves the queue empty, for good.
WriterLeavesNothing ==
  /\ ~running => queue = <<>>
  /\ writerFailed => queue = <<>>
  /\ writer = "done" => queue = <<>> /\ (writerFailed \/ stopping)

\* The rows are the frames written, the one not yet counted among them.
RowsAreWritten == Len(index) = stats.written + (IF writer = "count" THEN 1 ELSE 0)

\* The files of the pass in hand are there as far as the writer has come.
FilesReady ==
  /\ pass = Len(index)
  /\ writer = "full" => RecordFullRes
  /\ writer \in {"full", "row"} => images[Slot(pass)] = job
  /\ writer = "row" /\ RecordFullRes => fulls[Slot(pass)] = job

\* The two halves of RowsHaveImages: what a row that is not overwritten keeps,
\* and what one that is has lost.
RowsKeepTheirFiles ==
  \A i \in DOMAIN index :
    /\ index[i].pass = i - 1
    /\ FrameOverwritten(i) \/ HasItsFiles(i) \/ BeingReplaced(i)

OverwrittenAreLost == \A i \in DOMAIN index : FrameOverwritten(i) => HasLostItsFiles(i)

Stats == [pushed : Nat, written : Nat, dropped : Nat, failed : Nat, peak : Nat]

RecorderInv ==
  /\ TypeOK /\ ThreadsAgree /\ WriterLeavesNothing /\ Accounting /\ RowsAreWritten
  /\ FilesReady /\ RowsKeepTheirFiles

LEMMA RecorderInit == Init => RecorderInv
<1> SUFFICES ASSUME Init PROVE RecorderInv
  OBVIOUS
<1>1. stats \in Stats /\ queue \in Seq(Nat) /\ NoFiles \in [Slots -> Nat] /\ index \in Seq(Row)
  BY DEF Init, NoStats, Stats, NoFiles, NoFrame
<1>2. TypeOK
  BY <1>1 DEF Init, TypeOK, NoFrame, Stats
<1>3. Len(queue) = 0 /\ Len(index) = 0 /\ DOMAIN index = {}
  BY DEF Init
<1>4. Accounting /\ RowsAreWritten
  BY <1>3 DEF Init, Accounting, RowsAreWritten, InHand, Busy, NoStats
<1>5. ThreadsAgree /\ WriterLeavesNothing
  BY DEF Init, ThreadsAgree, WriterLeavesNothing
<1>6. FilesReady /\ RowsKeepTheirFiles
  BY <1>3 DEF Init, FilesReady, RowsKeepTheirFiles
<1> QED
  BY <1>2, <1>4, <1>5, <1>6 DEF RecorderInv

-----------------------------------------------------------------------------
(* The ring                                                                *)

\* A pass is its place in the ring, so many laps on.
LEMMA Division ==
  ASSUME NEW p \in Nat
  PROVE  /\ p % RingFrames \in 0..(RingFrames - 1) /\ p \div RingFrames \in Nat
         /\ p = RingFrames * (p \div RingFrames) + (p % RingFrames)
BY RecorderAssumption, SMTT(20)

\* A later lap begins a lap later at least.
LEMMA LapsApart ==
  ASSUME NEW a \in Nat, NEW b \in Nat, a < b
  PROVE  RingFrames * b >= RingFrames * a + RingFrames
<1>1. RingFrames \in Nat /\ b - a - 1 \in Nat
  BY RecorderAssumption
<1>2. RingFrames * (b - a - 1) \in Nat
  BY <1>1
<1>3. RingFrames * (b - a - 1) = RingFrames * b - RingFrames * a - RingFrames
  BY <1>1, SMTT(20)
<1>4. RingFrames * a \in Nat /\ RingFrames * b \in Nat
  BY <1>1
<1> QED
  BY <1>1, <1>2, <1>3, <1>4

\* Two passes less than a lap apart have different places.
LEMMA SlotsDiffer ==
  ASSUME NEW p \in Nat, NEW q \in Nat, p < q, q - p < RingFrames
  PROVE  Slot(p) # Slot(q)
<1> DEFINE a == p \div RingFrames  b == q \div RingFrames  s == p % RingFrames  t == q % RingFrames
           A == RingFrames * a  B == RingFrames * b
<1>1. /\ a \in Nat /\ b \in Nat /\ s \in Nat /\ t \in Nat /\ A \in Nat /\ B \in Nat /\ RingFrames \in Nat
      /\ p = A + s /\ q = B + t
  BY Division, RecorderAssumption
<1>2. a < b => B >= A + RingFrames
  BY <1>1, LapsApart
<1>3. b < a => A >= B + RingFrames
  BY <1>1, LapsApart
<1>4. a = b => A = B
  OBVIOUS
<1> HIDE DEF a, b, s, t, A, B
<1>5. s # t
  BY <1>1, <1>2, <1>3, <1>4, SMTT(20)
<1> QED
  BY <1>5 DEF s, t, Slot

\* A pass has the place of the one a lap before.
LEMMA SlotComesAgain ==
  ASSUME NEW p \in Nat
  PROVE  Slot(p + RingFrames) = Slot(p)
<1> DEFINE q == p + RingFrames
           a == p \div RingFrames  b == q \div RingFrames  s == p % RingFrames  t == q % RingFrames
           A == RingFrames * a  B == RingFrames * b  C == RingFrames * (a + 1)
<1>1. /\ a \in Nat /\ b \in Nat /\ s \in 0..(RingFrames - 1) /\ t \in 0..(RingFrames - 1)
      /\ A \in Nat /\ B \in Nat /\ RingFrames \in Nat /\ C = A + RingFrames
      /\ p = A + s /\ q = B + t /\ q = p + RingFrames
  <2>1. RingFrames \in Nat /\ q \in Nat
    BY RecorderAssumption
  <2>2. a \in Nat /\ b \in Nat /\ s \in 0..(RingFrames - 1) /\ t \in 0..(RingFrames - 1) /\ p = A + s /\ q = B + t
    BY <2>1, Division
  <2>3. A \in Nat /\ B \in Nat /\ C = A + RingFrames
    BY <2>1, <2>2, SMTT(20)
  <2> QED
    BY <2>1, <2>2, <2>3
<1>2. a + 1 < b => B >= C + RingFrames
  BY <1>1, LapsApart
<1>3. b < a + 1 => C >= B + RingFrames
  BY <1>1, LapsApart
<1>4. b = a + 1 => B = C
  OBVIOUS
<1> HIDE DEF a, b, s, t, A, B, C, q
<1>5. s = t
  BY <1>1, <1>2, <1>3, <1>4, SMTT(20)
<1> QED
  BY <1>5 DEF s, t, q, Slot

LEMMA SlotInRing == ASSUME NEW p \in Nat PROVE Slot(p) \in Slots
BY Division DEF Slot, Slots

\* A file written, or spoilt, changes its own place only.
LEMMA FileAdded ==
  ASSUME NEW files \in [Slots -> Nat], NEW changed, pass \in Nat, job \in Nat,
         changed = File(files) \/ changed \in Spoilt(files)
  PROVE  /\ changed \in [Slots -> Nat]
         /\ changed = File(files) => changed[Slot(pass)] = job
         /\ \A slot \in Slots \ {Slot(pass)} : changed[slot] = files[slot]
         /\ changed[Slot(pass)] \in {job, NoFrame, files[Slot(pass)]}
<1>1. Slot(pass) \in Slots
  BY SlotInRing
<1> QED
  BY <1>1 DEF File, Spoilt, NoFrame

\* What leaves the disk alone and ends no pass leaves the rows their files.
LEMMA RowsLeftAlone ==
  ASSUME RowsKeepTheirFiles, UNCHANGED <<disk, pass>>,
         writer \in {"full", "row", "fail"} \/ writerFailed
           => writer' \in {"full", "row", "fail"} \/ writerFailed'
  PROVE  RowsKeepTheirFiles'
BY DEF RowsKeepTheirFiles, FrameOverwritten, HasItsFiles, HoldsItsFrame, BeingReplaced, disk

\* The rows of a recording are numbered as its passes.
LEMMA RowsAreNumbered ==
  ASSUME TypeOK, FilesReady, RowsKeepTheirFiles, NEW i \in DOMAIN index
  PROVE  /\ i \in Nat /\ i >= 1 /\ i <= pass /\ pass \in Nat /\ RingFrames \in Nat \ {0}
         /\ index[i].pass = i - 1 /\ index[i].pass \in Nat /\ index[i].frame \in Nat
         /\ FrameOverwritten(i) <=> pass - i >= RingFrames
<1>1. index \in Seq(Row) /\ pass \in Nat /\ pass = Len(index)
  BY DEF TypeOK, FilesReady
<1>2. i \in Nat /\ i >= 1 /\ i <= pass /\ pass \in DOMAIN index /\ index[i] \in Row
  BY <1>1
<1>3. index[i].pass = i - 1 /\ index[pass].pass = pass - 1
  BY <1>2 DEF RowsKeepTheirFiles
<1>4. FrameOverwritten(i) <=> (pass - 1) - (i - 1) >= RingFrames
  BY <1>1, <1>3 DEF FrameOverwritten
<1> QED
  BY <1>1, <1>2, <1>3, <1>4, RecorderAssumption DEF Row

\* A pass whose files are begun takes them from no row but the one a lap before.
LEMMA RowsKept ==
  ASSUME RecorderInv, UNCHANGED <<index, pass>>,
         images' = images \/ images' = File(images) \/ images' \in Spoilt(images),
         fulls' = fulls \/ fulls' = File(fulls) \/ fulls' \in Spoilt(fulls),
         writer' \in {"full", "row", "fail"}
  PROVE  RowsKeepTheirFiles'
<1>1. images \in [Slots -> Nat] /\ fulls \in [Slots -> Nat] /\ pass \in Nat /\ job \in Nat
  BY DEF RecorderInv, TypeOK
<1>2. \A slot \in Slots \ {Slot(pass)} : images'[slot] = images[slot] /\ fulls'[slot] = fulls[slot]
  BY <1>1, FileAdded
<1>3. ASSUME NEW i \in DOMAIN index
      PROVE  /\ index[i].pass = i - 1
             /\ (FrameOverwritten(i) \/ HasItsFiles(i) \/ BeingReplaced(i))'
  <2>1. /\ i \in Nat /\ i >= 1 /\ i <= pass /\ RingFrames \in Nat
        /\ index[i].pass = i - 1 /\ index[i].pass \in Nat
        /\ FrameOverwritten(i) <=> pass - i >= RingFrames
    BY <1>3, RowsAreNumbered DEF RecorderInv
  <2>2. FrameOverwritten(i)' <=> FrameOverwritten(i)
    BY DEF FrameOverwritten
  <2>3. CASE pass - index[i].pass >= RingFrames
    <3>1. pass - i >= RingFrames \/ pass - index[i].pass = RingFrames
      BY <1>1, <2>1, <2>3
    <3>2. pass - index[i].pass = RingFrames => BeingReplaced(i)'
      BY DEF BeingReplaced
    <3> QED
      BY <2>1, <2>2, <3>1, <3>2
  <2>4. CASE pass - index[i].pass < RingFrames
    <3>1. ~FrameOverwritten(i) /\ ~BeingReplaced(i)
      BY <1>1, <2>1, <2>4 DEF BeingReplaced
    <3>2. HasItsFiles(i)
      BY <1>3, <3>1 DEF RecorderInv, RowsKeepTheirFiles
    <3>3. index[i].pass < pass
      BY <1>1, <2>1
    <3>4. Slot(index[i].pass) \in Slots \ {Slot(pass)}
      BY <1>1, <2>1, <2>4, <3>3, SlotsDiffer, SlotInRing
    <3>5. HasItsFiles(i)'
      BY <1>2, <3>2, <3>4 DEF HasItsFiles, HoldsItsFrame
    <3> QED
      BY <2>1, <3>5
  <2> QED
    BY <1>1, <2>1, <2>3, <2>4
<1> QED
  BY <1>3 DEF RowsKeepTheirFiles

-----------------------------------------------------------------------------
(* The caller *)

LEMMA StartInv == RecorderInv /\ Start => RecorderInv'
<1> SUFFICES ASSUME RecorderInv, Start PROVE RecorderInv'
  OBVIOUS
<1>1. stats' \in Stats /\ NoFiles \in [Slots -> Nat] /\ index' \in Seq(Row)
  BY DEF Start, NoStats, Stats, NoFiles, NoFrame
<1>2. TypeOK'
  BY <1>1 DEF Start, RecorderInv, TypeOK, Stats
<1>3. /\ queue' = <<>> /\ Len(queue') = 0 /\ Len(index') = 0
      /\ DOMAIN index' = {}
  BY DEF Start, RecorderInv, WriterLeavesNothing
<1>4. Accounting' /\ RowsAreWritten'
  BY <1>3 DEF Start, Accounting, RowsAreWritten, InHand, Busy, NoStats
<1>5. ThreadsAgree' /\ WriterLeavesNothing'
  BY <1>3 DEF Start, RecorderInv, ThreadsAgree, WriterLeavesNothing
<1>6. FilesReady' /\ RowsKeepTheirFiles'
  BY <1>3 DEF Start, FilesReady, RowsKeepTheirFiles
<1> QED
  BY <1>2, <1>4, <1>5, <1>6 DEF RecorderInv

LEMMA PushInv == RecorderInv /\ Push => RecorderInv'
<1> SUFFICES ASSUME RecorderInv, Push PROVE RecorderInv'
  OBVIOUS
<1> USE DEF RecorderInv, Push, control, disk
<1>1. FilesReady' /\ RowsKeepTheirFiles'
  BY RowsLeftAlone DEF FilesReady
<1>2. CASE Queue /\ ~writerFailed
  <2>1. Len(queue') = Len(queue) + 1 /\ queue' \in Seq(Nat)
    BY <1>2 DEF Queue, TypeOK
  <2>6. stats \in Stats /\ Len(queue) \in Nat
    BY DEF TypeOK, Stats
  <2>5. /\ stats' \in Stats
        /\ stats'.pushed = stats.pushed + 1 /\ stats'.written = stats.written
        /\ stats'.dropped = stats.dropped /\ stats'.failed = stats.failed
    <3> DEFINE peak == IF Len(queue') > stats.peak THEN Len(queue') ELSE stats.peak
    <3>1. peak \in Nat
      BY <2>1, <2>6 DEF Stats
    <3>2. stats' = [stats EXCEPT !.pushed = stats.pushed + 1, !.peak = peak]
      BY <1>2 DEF Queue
    <3> HIDE DEF peak
    <3>3. stats' = [pushed |-> stats.pushed + 1, written |-> stats.written,
                    dropped |-> stats.dropped, failed |-> stats.failed, peak |-> peak]
      BY <2>6, <3>2 DEF Stats
    <3> QED
      BY <2>6, <3>1, <3>3 DEF Stats
  <2>2. TypeOK'
    BY <1>2, <2>1, <2>5 DEF Queue, TypeOK, Stats
  <2>3. Accounting' /\ RowsAreWritten'
    <3>1. InHand' = InHand /\ InHand \in Nat
      BY <2>5 DEF InHand
    <3>2. RowsAreWritten'
      BY <2>5 DEF RowsAreWritten
    <3>3. Len(queue) \in Nat
      BY <2>1
    <3> QED
      BY SMTT(20), <2>1, <2>5, <2>6, <3>1, <3>2, <3>3 DEF Accounting, Stats
  <2>4. ThreadsAgree' /\ WriterLeavesNothing'
    BY <1>2 DEF Queue, ThreadsAgree, WriterLeavesNothing
  <2> QED
    BY <1>1, <2>2, <2>3, <2>4
<1>3. ASSUME NEW count \in {[stats EXCEPT !.failed = stats.failed + 1],
                            [stats EXCEPT !.dropped = stats.dropped + 1]},
             Refuse(count)
      PROVE  RecorderInv'
  <2>4. /\ stats \in Stats /\ Len(queue) \in Nat
        /\ stats.pushed = stats.written + stats.dropped + stats.failed + Len(queue) + InHand
    BY DEF TypeOK, Stats, Accounting
  <2>5. /\ stats' \in Stats
        /\ stats'.pushed = stats.pushed + 1 /\ stats'.written = stats.written
        /\ \/ stats'.dropped = stats.dropped + 1 /\ stats'.failed = stats.failed
           \/ stats'.dropped = stats.dropped /\ stats'.failed = stats.failed + 1
    BY SMTT(20), <1>3, <2>4 DEF Refuse, Stats
  <2>1. TypeOK'
    BY <1>3, <2>5 DEF Refuse, TypeOK, Stats
  <2>2. Accounting' /\ RowsAreWritten'
    <3> HIDE DEF RecorderInv, Push
    <3>1. InHand' = InHand /\ InHand \in Nat /\ queue' = queue /\ RowsAreWritten'
      BY <1>3, <2>5 DEF Refuse, InHand, RowsAreWritten, RecorderInv, Push
    <3>2. CASE stats'.dropped = stats.dropped + 1 /\ stats'.failed = stats.failed
      BY <2>4, <2>5, <3>1, <3>2, SMTT(60) DEF Accounting, Stats
    <3>3. CASE stats'.dropped = stats.dropped /\ stats'.failed = stats.failed + 1
      BY SMTT(20), <2>4, <2>5, <3>1, <3>3 DEF Accounting, Stats
    <3> QED
      BY <2>5, <3>1, <3>2, <3>3
  <2>3. ThreadsAgree' /\ WriterLeavesNothing'
    BY <1>3 DEF Refuse, ThreadsAgree, WriterLeavesNothing
  <2> QED
    BY <1>1, <2>1, <2>2, <2>3
<1> QED
  BY <1>2, <1>3

\* What only moves the caller or the writer between two places, neither of them
\* one where a frame is in hand, leaves the accounts as they were.
LEMMA PlacesInv ==
  ASSUME RecorderInv, UNCHANGED <<writerFailed, queue, stats, pass, disk, job>>,
         writer' \in {"none", "ready", "asleep", "done"} \/ writer' = writer,
         writer \in {"none", "ready", "asleep", "done"} \/ writer' = writer,
         caller' \in {"idle", "pushed", "stopping", "joining"},
         running' \in BOOLEAN, stopping' \in BOOLEAN,
         ThreadsAgree', WriterLeavesNothing'
  PROVE  RecorderInv'
<1> USE DEF RecorderInv, disk
<1>1. TypeOK'
  BY DEF TypeOK
<1>2. Accounting' /\ RowsAreWritten'
  BY DEF Accounting, RowsAreWritten, InHand, Busy
<1>3. FilesReady' /\ RowsKeepTheirFiles'
  BY RowsLeftAlone DEF FilesReady
<1> QED
  BY <1>1, <1>2, <1>3

LEMMA RequestStopInv == RecorderInv /\ RequestStop => RecorderInv'
<1> SUFFICES ASSUME RecorderInv, RequestStop PROVE RecorderInv'
  OBVIOUS
<1>1. ThreadsAgree' /\ WriterLeavesNothing'
  BY DEF RecorderInv, RequestStop, ThreadsAgree, WriterLeavesNothing
<1> QED
  BY <1>1, PlacesInv DEF RequestStop, RecorderInv, TypeOK

LEMMA NotifyInv == RecorderInv /\ Notify => RecorderInv'
<1> SUFFICES ASSUME RecorderInv, Notify PROVE RecorderInv'
  OBVIOUS
<1>1. ThreadsAgree' /\ WriterLeavesNothing'
  BY DEF RecorderInv, Notify, ThreadsAgree, WriterLeavesNothing, control
<1> QED
  BY <1>1, PlacesInv DEF Notify, RecorderInv, TypeOK, control

LEMMA JoinInv == RecorderInv /\ Join => RecorderInv'
<1> SUFFICES ASSUME RecorderInv, Join PROVE RecorderInv'
  OBVIOUS
<1>1. ThreadsAgree' /\ WriterLeavesNothing'
  BY DEF RecorderInv, Join, ThreadsAgree, WriterLeavesNothing
<1> QED
  BY <1>1, PlacesInv DEF Join, RecorderInv, TypeOK

-----------------------------------------------------------------------------
(* The writer *)

LEMMA WaitInv == RecorderInv /\ (Sleep \/ WakeSpuriously \/ Drained) => RecorderInv'
<1> SUFFICES ASSUME RecorderInv, Sleep \/ WakeSpuriously \/ Drained PROVE RecorderInv'
  OBVIOUS
<1>1. ThreadsAgree' /\ WriterLeavesNothing'
  BY DEF RecorderInv, Sleep, WakeSpuriously, Drained, WriterAt, ThreadsAgree, WriterLeavesNothing
<1> QED
  BY <1>1, PlacesInv DEF Sleep, WakeSpuriously, Drained, WriterAt, RecorderInv, TypeOK

LEMMA TakeJobInv == RecorderInv /\ TakeJob => RecorderInv'
<1> SUFFICES ASSUME RecorderInv, TakeJob PROVE RecorderInv'
  OBVIOUS
<1> USE DEF RecorderInv, TakeJob, WriterAt, disk
<1>1. Len(queue) = Len(queue') + 1 /\ queue' \in Seq(Nat) /\ job' \in Nat
  BY DEF TypeOK
<1>2. TypeOK'
  BY <1>1 DEF TypeOK, Busy
<1>3. Accounting' /\ RowsAreWritten'
  BY <1>1 DEF Accounting, RowsAreWritten, InHand, Busy, TypeOK
<1>4. ThreadsAgree' /\ WriterLeavesNothing'
  BY DEF ThreadsAgree, WriterLeavesNothing
<1>5. FilesReady' /\ RowsKeepTheirFiles'
  BY RowsLeftAlone DEF FilesReady
<1> QED
  BY <1>2, <1>3, <1>4, <1>5

\* The writer goes from one place where a frame is in hand to another.
LEMMA InHandInv ==
  ASSUME RecorderInv, writer \in Busy \ {"count"}, writer' \in Busy \ {"count"},
         UNCHANGED <<running, stopping, caller, writerFailed, queue, stats, index, job>>
  PROVE  Accounting' /\ RowsAreWritten' /\ ThreadsAgree' /\ WriterLeavesNothing'
BY DEF RecorderInv, Accounting, RowsAreWritten, InHand, Busy, ThreadsAgree, WriterLeavesNothing

LEMMA WriteImageInv == RecorderInv /\ WriteImage => RecorderInv'
<1> SUFFICES ASSUME RecorderInv, WriteImage PROVE RecorderInv'
  OBVIOUS
<1>1. /\ images \in [Slots -> Nat] /\ fulls \in [Slots -> Nat] /\ pass \in Nat /\ job \in Nat
      /\ images' = File(images) \/ images' \in Spoilt(images)
      /\ UNCHANGED <<running, stopping, caller, writerFailed, queue, stats, pass, fulls, index, job>>
      /\ writer \in Busy \ {"count"} /\ writer' \in {"full", "row", "fail"}
      /\ writer' \in Busy \ {"count"}
  BY DEF RecorderInv, TypeOK, WriteImage, WriterAt, Busy
<1>2. Accounting' /\ RowsAreWritten' /\ ThreadsAgree' /\ WriterLeavesNothing'
  BY <1>1, InHandInv
<1>3. /\ images' \in [Slots -> Nat]
      /\ images' = File(images) => images'[Slot(pass)] = job
  BY <1>1, FileAdded
<1>4. TypeOK'
  BY <1>1, <1>3 DEF RecorderInv, TypeOK
<1>5. RowsKeepTheirFiles'
  BY <1>1, RowsKept
<1>6. FilesReady'
  BY <1>1, <1>3 DEF RecorderInv, FilesReady, WriteImage, WriterAt
<1> QED
  BY <1>2, <1>4, <1>5, <1>6 DEF RecorderInv

LEMMA WriteFullInv == RecorderInv /\ WriteFull => RecorderInv'
<1> SUFFICES ASSUME RecorderInv, WriteFull PROVE RecorderInv'
  OBVIOUS
<1>1. /\ images \in [Slots -> Nat] /\ fulls \in [Slots -> Nat] /\ pass \in Nat /\ job \in Nat
      /\ fulls' = File(fulls) \/ fulls' \in Spoilt(fulls)
      /\ UNCHANGED <<running, stopping, caller, writerFailed, queue, stats, pass, images, index, job>>
      /\ writer \in Busy \ {"count"} /\ writer' \in {"full", "row", "fail"}
      /\ writer' \in Busy \ {"count"}
  BY DEF RecorderInv, TypeOK, WriteFull, WriterAt, Busy
<1>2. Accounting' /\ RowsAreWritten' /\ ThreadsAgree' /\ WriterLeavesNothing'
  BY <1>1, InHandInv
<1>3. /\ fulls' \in [Slots -> Nat]
      /\ fulls' = File(fulls) => fulls'[Slot(pass)] = job
  BY <1>1, FileAdded
<1>4. TypeOK'
  BY <1>1, <1>3 DEF RecorderInv, TypeOK
<1>5. RowsKeepTheirFiles'
  BY <1>1, RowsKept
<1>6. FilesReady'
  BY <1>1, <1>3 DEF RecorderInv, FilesReady, WriteFull, WriterAt
<1> QED
  BY <1>2, <1>4, <1>5, <1>6 DEF RecorderInv

\* The row goes in when its files are there.
LEMMA WriteRowInv == RecorderInv /\ WriteRow => RecorderInv'
<1> SUFFICES ASSUME RecorderInv, WriteRow PROVE RecorderInv'
  OBVIOUS
<1> USE DEF RecorderInv, WriteRow, WriterAt
<1>1. CASE index' = index /\ pass' = pass /\ writer' = "fail"
  <2>1. Accounting' /\ RowsAreWritten' /\ ThreadsAgree' /\ WriterLeavesNothing'
    BY <1>1, InHandInv DEF Busy
  <2>2. TypeOK'
    BY <1>1 DEF TypeOK, Busy
  <2>3. FilesReady' /\ RowsKeepTheirFiles'
    BY <1>1, RowsLeftAlone DEF FilesReady, disk
  <2> QED
    BY <2>1, <2>2, <2>3
<1>2. CASE /\ index' = Append(index, [pass |-> pass, frame |-> job])
           /\ pass' = pass + 1 /\ writer' = "count"
  <2>1. [pass |-> pass, frame |-> job] \in Row
    BY DEF TypeOK, Row
  <2>2. /\ index' \in Seq(Row) /\ Len(index') = Len(index) + 1 /\ DOMAIN index' = 1..(Len(index) + 1)
        /\ \A i \in 1..Len(index) : index'[i] = index[i]
        /\ index'[Len(index) + 1] = [pass |-> pass, frame |-> job]
    BY <1>2, <2>1 DEF TypeOK
  <2>3. TypeOK'
    BY <1>2, <2>2 DEF TypeOK, Busy
  <2>4. Accounting' /\ RowsAreWritten'
    BY <1>2, <2>2 DEF Accounting, RowsAreWritten, InHand, Busy, TypeOK
  <2>5. ThreadsAgree' /\ WriterLeavesNothing'
    BY <1>2 DEF ThreadsAgree, WriterLeavesNothing
  <2>6. FilesReady'
    BY <1>2, <2>2 DEF FilesReady, TypeOK
  <2>7. RowsKeepTheirFiles'
    <3>1. /\ index \in Seq(Row) /\ pass = Len(index) /\ pass \in Nat /\ RingFrames \in Nat \ {0}
          /\ UNCHANGED <<images, fulls>> /\ pass' = pass + 1
      BY <1>2, RecorderAssumption DEF TypeOK, FilesReady
    <3>2. ASSUME NEW i \in 1..(Len(index) + 1)
          PROVE  /\ index'[i].pass = i - 1
                 /\ (FrameOverwritten(i) \/ HasItsFiles(i) \/ BeingReplaced(i))'
      <4>1. CASE i \in 1..Len(index)
        <5>1. index'[i] = index[i] /\ i \in DOMAIN index
          BY <2>2, <3>1, <4>1
        <5>2. /\ i \in Nat /\ index[i].pass = i - 1 /\ index[i].pass \in Nat
              /\ FrameOverwritten(i) <=> pass - i >= RingFrames
          BY <5>1, RowsAreNumbered
        <5>3. FrameOverwritten(i)' <=> pass - (i - 1) >= RingFrames
          BY <2>2, <3>1, <5>1, <5>2 DEF FrameOverwritten
        <5>4. FrameOverwritten(i) \/ HasItsFiles(i) \/ BeingReplaced(i)
          BY <5>1 DEF RowsKeepTheirFiles
        <5>5. FrameOverwritten(i) \/ BeingReplaced(i) => FrameOverwritten(i)'
          BY <3>1, <5>2, <5>3 DEF BeingReplaced
        <5>6. HasItsFiles(i) => HasItsFiles(i)'
          BY <3>1, <5>1 DEF HasItsFiles, HoldsItsFrame
        <5> QED
          BY <5>1, <5>2, <5>4, <5>5, <5>6
      <4>2. CASE i = Len(index) + 1
        <5>1. index'[i].pass = pass /\ index'[i].frame = job /\ i - 1 = pass
          BY <2>2, <3>1, <4>2
        <5>2. images[Slot(pass)] = job /\ (RecordFullRes => fulls[Slot(pass)] = job)
          BY DEF FilesReady
        <5>3. HasItsFiles(i)'
          BY <3>1, <5>1, <5>2 DEF HasItsFiles, HoldsItsFrame
        <5> QED
          BY <5>1, <5>3
      <4> QED
        BY <3>1, <4>1, <4>2
    <3> QED
      BY <2>2, <3>2 DEF RowsKeepTheirFiles
  <2> QED
    BY <2>3, <2>4, <2>5, <2>6, <2>7
<1> QED
  BY <1>1, <1>2

LEMMA CountWrittenInv == RecorderInv /\ CountWritten => RecorderInv'
<1> SUFFICES ASSUME RecorderInv, CountWritten PROVE RecorderInv'
  OBVIOUS
<1> USE DEF RecorderInv, CountWritten, WriterAt, disk, NoFrame
<1>5. stats \in Stats /\ Len(queue) \in Nat
  BY DEF TypeOK, Stats
<1>6. /\ stats' \in Stats
      /\ stats'.pushed = stats.pushed /\ stats'.written = stats.written + 1
      /\ stats'.dropped = stats.dropped /\ stats'.failed = stats.failed
  BY <1>5 DEF Stats
<1>1. TypeOK'
  BY <1>6 DEF TypeOK, Stats
<1>2. Accounting' /\ RowsAreWritten'
  BY SMTT(20), <1>5, <1>6 DEF Accounting, RowsAreWritten, InHand, Busy, Stats
<1>3. ThreadsAgree' /\ WriterLeavesNothing'
  BY DEF ThreadsAgree, WriterLeavesNothing
<1>4. FilesReady' /\ RowsKeepTheirFiles'
  BY RowsLeftAlone DEF FilesReady
<1> QED
  BY <1>1, <1>2, <1>3, <1>4

LEMMA FailWriterInv == RecorderInv /\ FailWriter => RecorderInv'
<1> SUFFICES ASSUME RecorderInv, FailWriter PROVE RecorderInv'
  OBVIOUS
<1> USE DEF RecorderInv, FailWriter, WriterAt, disk, NoFrame
<1>1. Len(queue) \in Nat /\ Len(queue') = 0 /\ stats \in Stats
  BY DEF TypeOK, Stats
<1>6. stats' \in Stats /\ queue' \in Seq(Nat)
  BY <1>1 DEF Stats
<1>2. TypeOK'
  BY <1>6 DEF TypeOK, Stats
<1>3. Accounting' /\ RowsAreWritten'
  BY <1>1 DEF Accounting, RowsAreWritten, InHand, Busy, TypeOK
<1>4. ThreadsAgree' /\ WriterLeavesNothing'
  BY DEF ThreadsAgree, WriterLeavesNothing
<1>5. FilesReady' /\ RowsKeepTheirFiles'
  BY RowsLeftAlone DEF FilesReady
<1> QED
  BY <1>2, <1>3, <1>4, <1>5

LEMMA RecorderStep == RecorderInv /\ [Next]_vars => RecorderInv'
<1> SUFFICES ASSUME RecorderInv, [Next]_vars PROVE RecorderInv'
  OBVIOUS
<1>1. CASE UNCHANGED vars
  BY <1>1, RowsLeftAlone DEF vars, disk, RecorderInv, TypeOK, ThreadsAgree, WriterLeavesNothing,
     Accounting, RowsAreWritten, InHand, FilesReady
<1> QED
  BY <1>1, StartInv, PushInv, RequestStopInv, NotifyInv, JoinInv, WaitInv, TakeJobInv,
     WriteImageInv, WriteFullInv, WriteRowInv, CountWrittenInv, FailWriterInv DEF Next, Writer

-----------------------------------------------------------------------------
\* The recorder keeps its invariant.
THEOREM RecorderInvariant == Spec => []RecorderInv
BY RecorderInit, RecorderStep, PTL DEF Spec

\* At every moment every frame pushed is counted once.
THEOREM AccountingHolds == Spec => []Accounting
<1>1. RecorderInv => Accounting
  BY DEF RecorderInv
<1> QED
  BY <1>1, RecorderInvariant, PTL

\* "After stop(), pushed == written + dropped + failed", and the index has a row
\* for every frame said to be written.
THEOREM StoppedStatsHold == Spec => []StoppedStatsAreExact
<1>1. RecorderInv => StoppedStatsAreExact
  <2> SUFFICES ASSUME RecorderInv, ~running PROVE StoppedStatsAreExact
    BY DEF StoppedStatsAreExact
  <2>1. writer = "none" /\ Len(queue) = 0
    BY DEF RecorderInv, ThreadsAgree, WriterLeavesNothing
  <2> QED
    BY <2>1 DEF RecorderInv, TypeOK, Accounting, RowsAreWritten, InHand, Busy, StoppedStatsAreExact
<1> QED
  BY <1>1, RecorderInvariant, PTL

\* The recorder's state keeps its type.
THEOREM RecorderTypes == Spec => []TypeOK
<1>1. RecorderInv => TypeOK
  BY DEF RecorderInv
<1> QED
  BY <1>1, RecorderInvariant, PTL

\* However the two threads are interleaved, the queue never holds more frames
\* than it may, nor has held more than its peak says.
THEOREM QueueAlwaysBounded == Spec => []QueueBounded
<1>1. Init => QueueBounded
  BY RecorderAssumption DEF Init, QueueBounded, NoStats
<1>2. RecorderInv /\ QueueBounded /\ [Next]_vars => QueueBounded'
  <2> SUFFICES ASSUME RecorderInv, QueueBounded, [Next]_vars PROVE QueueBounded'
    OBVIOUS
  <2>1. queue \in Seq(Nat) /\ stats \in Stats /\ Capacity \in Nat
    BY RecorderAssumption DEF RecorderInv, TypeOK, Stats
  <2>2. CASE Start
    BY <2>1, <2>2 DEF Start, RecorderInv, WriterLeavesNothing, QueueBounded, NoStats
  <2>3. CASE Push
    <3>1. CASE Queue /\ Len(queue) < Capacity
      <4>1. Len(queue') = Len(queue) + 1 /\ Len(queue) \in Nat
        BY <2>1, <3>1 DEF Queue
      <4>2. stats'.peak = IF Len(queue') > stats.peak THEN Len(queue') ELSE stats.peak
        BY <2>1, <3>1 DEF Queue, Stats
      <4> QED
        BY <2>1, <3>1, <4>1, <4>2 DEF QueueBounded, Stats
    <3>2. ASSUME NEW count \in Stats, count.peak = stats.peak, Refuse(count)
          PROVE  QueueBounded'
      BY <3>2 DEF Refuse, QueueBounded, Stats
    <3>3. [stats EXCEPT !.failed = stats.failed + 1] \in Stats
      BY <2>1 DEF Stats
    <3>4. [stats EXCEPT !.dropped = stats.dropped + 1] \in Stats
      BY SMTT(20), <2>1 DEF Stats
    <3>5. [stats EXCEPT !.failed = stats.failed + 1].peak = stats.peak
      BY <2>1 DEF Stats
    <3>6. [stats EXCEPT !.dropped = stats.dropped + 1].peak = stats.peak
      BY <2>1 DEF Stats
    <3>7. CASE writerFailed
      BY <2>3, <3>2, <3>3, <3>5, <3>7 DEF Push
    <3>8. CASE ~writerFailed /\ Len(queue) >= Capacity
      BY <2>3, <3>2, <3>4, <3>6, <3>8 DEF Push
    <3> QED
      BY <2>1, <2>3, <3>1, <3>7, <3>8 DEF Push
  <2>4. CASE TakeJob
    <3>1. Len(queue') = Len(queue) - 1 /\ Len(queue) \in Nat
      BY <2>1, <2>4 DEF TakeJob
    <3> QED
      BY <2>1, <2>4, <3>1 DEF TakeJob, QueueBounded, Stats
  <2>5. CASE CountWritten
    BY <2>1, <2>5 DEF CountWritten, QueueBounded, Stats
  <2>6. CASE FailWriter
    <3>1. Len(queue') = 0 /\ stats'.peak = stats.peak
      BY <2>1, <2>6 DEF FailWriter, Stats
    <3> QED
      BY <2>1, <3>1 DEF QueueBounded, Stats
  <2>7. CASE UNCHANGED <<queue, stats>>
    BY <2>7 DEF QueueBounded
  <2> QED
    BY <2>2, <2>3, <2>4, <2>5, <2>6, <2>7 DEF Next, Writer, vars, RequestStop, Notify, Join,
       Sleep, Drained, WakeSpuriously, WriteImage, WriteFull, WriteRow
<1> QED
  BY <1>1, <1>2, RecorderInvariant, PTL DEF Spec

-----------------------------------------------------------------------------
(* The recording keeps the log                                             *)

\* Frames move through the recorder in the order they were pushed: those of
\* the index, the one in hand, those queued.  A writer that has failed is gone.
Ordered ==
  /\ writerFailed => writer \in {"none", "done"}
  /\ writer \in Busy => job \in 1..stats.pushed
  /\ \A i \in DOMAIN queue :
       queue[i] \in 1..stats.pushed /\ (writer \in Busy => job < queue[i])
  /\ \A i, j \in DOMAIN queue : i < j => queue[i] < queue[j]
  /\ \A i \in DOMAIN index :
       /\ index[i].frame \in 1..stats.pushed
       /\ writer \in Busy \ {"count"} => index[i].frame < job
       /\ \A j \in DOMAIN queue : index[i].frame < queue[j]

LEMMA OrderedInit == Init => Ordered
BY DEF Init, Ordered, Busy

\* Pushing a frame keeps the order: its number is the largest yet.
LEMMA OrderedPush == RecorderInv /\ Ordered /\ Push => Ordered'
<1> SUFFICES ASSUME RecorderInv, Ordered, Push PROVE Ordered'
  OBVIOUS
<1>1. /\ queue \in Seq(Nat) /\ stats \in Stats /\ index \in Seq(Row)
      /\ UNCHANGED <<writerFailed, index, writer, job>>
  BY DEF RecorderInv, TypeOK, Stats, Push, control, disk
<1>2. stats'.pushed = stats.pushed + 1
  BY <1>1 DEF Push, Refuse, Queue, Stats
<1>3. stats.pushed \in Nat /\ \A f \in 1..stats.pushed : f \in 1..stats'.pushed
  BY <1>1, <1>2 DEF Stats
<1>4. CASE queue' = queue
  BY <1>1, <1>3, <1>4 DEF Ordered
<1>5. CASE queue' = Append(queue, stats.pushed + 1)
  <2>1. /\ DOMAIN queue' = 1..(Len(queue) + 1) /\ DOMAIN queue = 1..Len(queue)
        /\ \A i \in DOMAIN queue : queue'[i] = queue[i]
        /\ queue'[Len(queue) + 1] = stats.pushed + 1
    BY <1>1, <1>3, <1>5
  <2>2. Len(queue) \in Nat
    BY <1>1
  <2>3. \A i \in DOMAIN queue' : i \in DOMAIN queue \/ i = Len(queue) + 1
    BY <2>1, <2>2
  <2>4. \A i \in DOMAIN queue' :
          queue'[i] \in 1..stats'.pushed /\ (writer \in Busy => job < queue'[i])
    BY <1>1, <1>2, <1>3, <2>1, <2>3 DEF Ordered
  <2>5. \A i, j \in DOMAIN queue' : i < j => queue'[i] < queue'[j]
    BY <1>3, <2>1, <2>2, <2>3 DEF Ordered
  <2>6. \A i \in DOMAIN index : \A j \in DOMAIN queue' : index[i].frame < queue'[j]
    BY <1>3, <2>1, <2>3 DEF Ordered
  <2> QED
    BY <1>1, <1>3, <2>4, <2>5, <2>6 DEF Ordered
<1> QED
  BY <1>4, <1>5 DEF Push, Refuse, Queue

\* So does taking the oldest of the queue in hand.
LEMMA OrderedTakeJob == RecorderInv /\ Ordered /\ TakeJob => Ordered'
<1> SUFFICES ASSUME RecorderInv, Ordered, TakeJob PROVE Ordered'
  OBVIOUS
<1>1. /\ queue \in Seq(Nat) /\ queue # <<>> /\ job' = queue[1] /\ writer' = "image"
      /\ writer = "ready" /\ UNCHANGED <<writerFailed, index, stats>>
  BY DEF RecorderInv, TypeOK, TakeJob, WriterAt, disk
<1>2. /\ 1 \in DOMAIN queue
      /\ \A i \in DOMAIN queue' : i \in Nat /\ i > 0 /\ i + 1 \in DOMAIN queue /\ queue'[i] = queue[i + 1]
  BY <1>1 DEF TakeJob
<1>3. \A i \in DOMAIN queue' : queue[1] < queue'[i] /\ queue'[i] \in 1..stats.pushed
  BY <1>2 DEF Ordered
<1>4. \A i, j \in DOMAIN queue' : i < j => queue'[i] < queue'[j]
  <2> SUFFICES ASSUME NEW i \in DOMAIN queue', NEW j \in DOMAIN queue', i < j
               PROVE  queue'[i] < queue'[j]
    OBVIOUS
  <2>1. i + 1 < j + 1
    BY <1>2
  <2> QED
    BY <1>2, <2>1 DEF Ordered
<1>5. \A i \in DOMAIN index : /\ index[i].frame < job'
                              /\ \A j \in DOMAIN queue' : index[i].frame < queue'[j]
  BY <1>1, <1>2 DEF Ordered
<1> QED
  BY <1>1, <1>2, <1>3, <1>4, <1>5 DEF Ordered, Busy

\* So does writing its row.
LEMMA OrderedWriteRow == RecorderInv /\ Ordered /\ WriteRow => Ordered'
<1> SUFFICES ASSUME RecorderInv, Ordered, WriteRow PROVE Ordered'
  OBVIOUS
<1>1. /\ index \in Seq(Row) /\ job \in Nat /\ pass \in Nat /\ stats \in Stats
      /\ writer = "row" /\ UNCHANGED <<writerFailed, queue, stats, job>>
  BY DEF RecorderInv, TypeOK, Stats, WriteRow
<1>2. CASE UNCHANGED index /\ writer' = "fail"
  BY <1>1, <1>2 DEF Ordered, Busy
<1>3. CASE index' = Append(index, [pass |-> pass, frame |-> job]) /\ writer' = "count"
  <2>1. [pass |-> pass, frame |-> job] \in Row
    BY <1>1 DEF Row
  <2>2. \A i \in DOMAIN index' :
          \/ i \in DOMAIN index /\ index'[i] = index[i]
          \/ index'[i].frame = job
    BY <1>1, <1>3, <2>1
  <2>3. \A i \in DOMAIN index' : /\ index'[i].frame \in 1..stats.pushed
                                 /\ \A j \in DOMAIN queue : index'[i].frame < queue[j]
    BY <1>1, <2>2 DEF Ordered, Busy
  <2> QED
    BY <1>1, <1>3, <2>3 DEF Ordered, Busy
<1> QED
  BY <1>2, <1>3 DEF WriteRow, WriterAt

\* And every other step.
LEMMA OrderedStep == RecorderInv /\ Ordered /\ [Next]_vars => Ordered'
<1> SUFFICES ASSUME RecorderInv, Ordered, [Next]_vars PROVE Ordered'
  OBVIOUS
<1>1. CASE Start
  <2>1. queue' = <<>> /\ index' = <<>> /\ writer' = "ready" /\ writerFailed' = FALSE
    BY <1>1 DEF Start, RecorderInv, WriterLeavesNothing
  <2> QED
    BY <2>1 DEF Ordered, Busy
<1>2. CASE RequestStop \/ UNCHANGED vars
  BY <1>2 DEF RequestStop, disk, vars, Ordered
<1>3. CASE Notify \/ Join \/ Sleep \/ WakeSpuriously \/ Drained
  <2>1. /\ (writer \notin Busy /\ writer' \notin Busy) \/ writer' = writer
        /\ UNCHANGED <<writerFailed, queue, index, stats, job>>
        /\ writerFailed => writer' \in {"none", "done"}
    BY <1>3 DEF Notify, Join, Sleep, WakeSpuriously, Drained, WriterAt, control, disk, Busy, Ordered
  <2> QED
    BY <2>1 DEF Ordered
<1>4. CASE WriteImage \/ WriteFull
  <2>1. /\ writer \in Busy \ {"count"} /\ writer' \in Busy \ {"count"}
        /\ UNCHANGED <<writerFailed, queue, index, stats, job>>
    BY <1>4 DEF WriteImage, WriteFull, WriterAt, Busy
  <2> QED
    BY <2>1 DEF Ordered, Busy
<1>5. CASE CountWritten
  <2>1. /\ writer' = "ready" /\ writer = "count" /\ UNCHANGED <<writerFailed, queue, index>>
        /\ stats'.pushed = stats.pushed
    BY <1>5 DEF CountWritten, WriterAt, disk, RecorderInv, TypeOK
  <2> QED
    BY <2>1 DEF Ordered, Busy
<1>6. CASE FailWriter
  <2>1. /\ writer' = "done" /\ queue' = <<>> /\ UNCHANGED index
        /\ stats'.pushed = stats.pushed
    BY <1>6 DEF FailWriter, WriterAt, disk, RecorderInv, TypeOK
  <2> QED
    BY <2>1 DEF Ordered, Busy
<1> QED
  BY <1>1, <1>2, <1>3, <1>4, <1>5, <1>6, OrderedPush, OrderedTakeJob, OrderedWriteRow
     DEF Next, Writer

\* A row that is, or becomes, overwritten has lost its files: its place holds a
\* later frame's, or nothing that can be read.
LEMMA OverwrittenStep ==
  ASSUME RecorderInv, Ordered, OverwrittenAreLost, [Next]_vars
  PROVE  OverwrittenAreLost'
<1>1. /\ images \in [Slots -> Nat] /\ fulls \in [Slots -> Nat] /\ pass \in Nat /\ job \in Nat
      /\ index \in Seq(Row) /\ pass = Len(index) /\ stats.pushed \in Nat
      /\ TypeOK /\ FilesReady /\ RowsKeepTheirFiles
  BY DEF RecorderInv, TypeOK, FilesReady
<1>2. CASE Start
  BY <1>2 DEF Start, OverwrittenAreLost
<1>3. CASE WriteImage \/ WriteFull
  <2>1. /\ UNCHANGED index /\ writer \in Busy \ {"count"}
        /\ images' = images \/ images' = File(images) \/ images' \in Spoilt(images)
        /\ fulls' = fulls \/ fulls' = File(fulls) \/ fulls' \in Spoilt(fulls)
    BY <1>3 DEF WriteImage, WriteFull, Busy
  <2>2. ASSUME NEW i \in DOMAIN index, FrameOverwritten(i)' PROVE HasLostItsFiles(i)'
    <3>1. FrameOverwritten(i) /\ HasLostItsFiles(i)
      BY <2>1, <2>2 DEF FrameOverwritten, OverwrittenAreLost
    <3>2. index[i].pass \in Nat
      BY <1>1, RowsAreNumbered
    <3>3. index[i].frame \in Nat /\ index[i].frame # job /\ index[i].frame # NoFrame
      BY <1>1, <2>1 DEF Ordered, NoFrame
    <3>4. Slot(index[i].pass) \in Slots
      BY <3>2, SlotInRing
    <3>5. ASSUME NEW files \in [Slots -> Nat], NEW changed,
                 changed = files \/ changed = File(files) \/ changed \in Spoilt(files),
                 ~HoldsItsFrame(files, i)
          PROVE  ~HoldsItsFrame(changed, i)
      <4>1. changed[Slot(index[i].pass)] \in {job, NoFrame, files[Slot(index[i].pass)]}
        <5>1. CASE changed = files
          BY <5>1
        <5>2. CASE changed = File(files) \/ changed \in Spoilt(files)
          <6>1. /\ \A slot \in Slots \ {Slot(pass)} : changed[slot] = files[slot]
                /\ changed[Slot(pass)] \in {job, NoFrame, files[Slot(pass)]}
            BY <1>1, <5>2, FileAdded
          <6> QED
            BY <3>4, <6>1
        <5> QED
          BY <3>5, <5>1, <5>2
      <4> QED
        BY <3>3, <3>5, <4>1 DEF HoldsItsFrame
    <3>6. ~HoldsItsFrame(images', i) /\ (RecordFullRes => ~HoldsItsFrame(fulls', i))
      BY <1>1, <2>1, <3>1, <3>5 DEF HasLostItsFiles
    <3> QED
      BY <2>1, <3>6 DEF HasLostItsFiles, HoldsItsFrame
  <2> QED
    BY <2>1, <2>2 DEF OverwrittenAreLost
<1>4. CASE WriteRow /\ index' # index
  <2>1. [pass |-> pass, frame |-> job] \in Row
    BY <1>1 DEF Row
  <2>2. /\ Len(index') = pass + 1 /\ DOMAIN index' = 1..(pass + 1)
        /\ \A i \in 1..pass : index'[i] = index[i] /\ i \in DOMAIN index
        /\ index'[pass + 1].pass = pass
        /\ UNCHANGED <<images, fulls>> /\ writer = "row" /\ RingFrames \in Nat \ {0}
    <3>1. /\ index' = Append(index, [pass |-> pass, frame |-> job])
          /\ UNCHANGED <<images, fulls>> /\ writer = "row"
      BY <1>4 DEF WriteRow
    <3>2. /\ Len(index') = pass + 1 /\ DOMAIN index' = 1..(pass + 1)
          /\ \A i \in 1..pass : index'[i] = index[i] /\ i \in DOMAIN index
          /\ index'[pass + 1] = [pass |-> pass, frame |-> job]
      BY <1>1, <2>1, <3>1
    <3> QED
      BY <3>1, <3>2, RecorderAssumption
  <2>3. ASSUME NEW i \in DOMAIN index', FrameOverwritten(i)' PROVE HasLostItsFiles(i)'
    <3>1. pass - index'[i].pass >= RingFrames
      BY <2>2, <2>3 DEF FrameOverwritten
    <3>2. i \in 1..pass
      BY <1>1, <2>2, <3>1
    <3>3. /\ i \in DOMAIN index /\ index'[i] = index[i] /\ index[i].pass = i - 1
          /\ index[i].pass \in Nat /\ i \in Nat
          /\ FrameOverwritten(i) <=> pass - i >= RingFrames
      BY <1>1, <2>2, <3>2, RowsAreNumbered
    <3>4. CASE FrameOverwritten(i)
      BY <2>2, <3>3, <3>4 DEF OverwrittenAreLost, HasLostItsFiles, HoldsItsFrame
    <3>5. CASE pass = index[i].pass + RingFrames
      <4>1. Slot(index[i].pass) = Slot(pass)
        BY <3>3, <3>5, SlotComesAgain
      <4>2. images[Slot(pass)] = job /\ (RecordFullRes => fulls[Slot(pass)] = job)
        BY <1>1, <2>2 DEF FilesReady
      <4>3. index[i].frame # job
        BY <1>1, <2>2, <3>3 DEF Ordered, Busy
      <4> QED
        BY <2>2, <3>3, <4>1, <4>2, <4>3 DEF HasLostItsFiles, HoldsItsFrame
    <3> QED
      BY <1>1, <2>2, <3>1, <3>3, <3>4, <3>5
  <2> QED
    BY <2>3 DEF OverwrittenAreLost
<1>5. CASE UNCHANGED disk
  BY <1>5 DEF disk, OverwrittenAreLost, FrameOverwritten, HasLostItsFiles, HoldsItsFrame
<1> QED
  BY <1>2, <1>3, <1>4, <1>5 DEF Next, Writer, vars, disk, Push, RequestStop, Notify, Join, Sleep,
     WakeSpuriously, TakeJob, Drained, WriteRow, CountWritten, FailWriter

\* Wherever the program stops, and however often the ring of files has come
\* round: a row its index does not call overwritten has its own frame's files,
\* but for the one row whose files a pass without a row is taking, and a row it
\* does call overwritten has lost them.
THEOREM RowsAlwaysHaveImages == Spec => []RowsHaveImages
<1>1. Init => Ordered /\ OverwrittenAreLost
  BY OrderedInit DEF Init, OverwrittenAreLost
<1>2. /\ RecorderInv /\ Ordered /\ OverwrittenAreLost /\ [Next]_vars
         => Ordered' /\ OverwrittenAreLost'
  BY OrderedStep, OverwrittenStep
<1>3. RecorderInv /\ OverwrittenAreLost => RowsHaveImages
  BY DEF RecorderInv, RowsKeepTheirFiles, OverwrittenAreLost, RowsHaveImages
<1> QED
  BY <1>1, <1>2, <1>3, RecorderInvariant, PTL DEF Spec

-----------------------------------------------------------------------------
\* The fate of the frames, as the log has it.
Fate ==
  [f \in 1..stats.pushed |->
     IF f \in WrittenFrames THEN "written"
     ELSE IF f \in WaitingFrames THEN "waiting" ELSE "lost"]

\* The frames that wait were pushed, and none of them is written.
LEMMA WaitingApart ==
  ASSUME RecorderInv, Ordered
  PROVE  /\ WaitingFrames \subseteq 1..stats.pushed
         /\ WaitingFrames \cap WrittenFrames = {}
         /\ Log!Waiting = WaitingFrames
<1>1. \A i \in DOMAIN queue : queue[i] \in 1..stats.pushed
  BY DEF Ordered
<1>2. WaitingFrames \subseteq 1..stats.pushed
  BY <1>1 DEF WaitingFrames, InHands
<1>3. ASSUME NEW i \in DOMAIN index
      PROVE  index[i].frame \notin InHands /\ \A j \in DOMAIN queue : index[i].frame # queue[j]
  <2>1. \A j \in DOMAIN queue : index[i].frame < queue[j] /\ index[i].frame \in Nat /\ queue[j] \in Nat
    BY <1>3, <1>1 DEF Ordered
  <2>2. writer \in Busy \ {"count"} => index[i].frame < job /\ index[i].frame \in Nat
    BY <1>3 DEF Ordered
  <2>3. job \in Nat
    BY DEF RecorderInv, TypeOK
  <2> QED
    BY <2>1, <2>2, <2>3 DEF InHands
<1>4. WaitingFrames \cap WrittenFrames = {}
  BY <1>3 DEF WaitingFrames, WrittenFrames
<1> QED
  BY <1>2, <1>4 DEF Log!Waiting

\* At least as many frames wait as are queued: each is queued once.
LEMMA QueueWaits ==
  ASSUME RecorderInv, Ordered
  PROVE  Cardinality(WaitingFrames) \in Nat /\ Len(queue) <= Cardinality(WaitingFrames)
<1>1. queue \in Seq(Nat) /\ stats.pushed \in Nat
  BY DEF RecorderInv, TypeOK
<1>2. IsFiniteSet(WaitingFrames)
  <2>1. IsFiniteSet(1..stats.pushed)
    BY <1>1, FS_Interval
  <2> QED
    BY <2>1, WaitingApart, FS_Subset
<1>3. 1..Len(queue) = DOMAIN queue /\ Len(queue) \in Nat
  BY <1>1
<1>4. queue \in Injection(1..Len(queue), WaitingFrames)
  <2>1. queue \in [DOMAIN queue -> WaitingFrames]
    BY <1>1 DEF WaitingFrames
  <2>2. ASSUME NEW i \in DOMAIN queue, NEW j \in DOMAIN queue, queue[i] = queue[j]
        PROVE  i = j
    <3>1. i \in Nat /\ j \in Nat /\ queue[i] \in Nat
      BY <1>1
    <3>2. ~(i < j) /\ ~(j < i)
      BY <2>2, <3>1 DEF Ordered
    <3> QED
      BY <3>1, <3>2
  <2> QED
    BY <1>3, <2>1, <2>2 DEF Injection, IsInjective
<1>5. Cardinality(1..Len(queue)) <= Cardinality(WaitingFrames)
  BY <1>2, <1>4, FS_Injection
<1>6. Cardinality(1..Len(queue)) = Len(queue)
  <2>1. Cardinality(1..Len(queue)) = IF 1 > Len(queue) THEN 0 ELSE Len(queue) - 1 + 1
    <3>1. Len(queue) \in Int
      BY <1>3
    <3> QED
      BY <3>1, FS_Interval, SMTT(20)
  <2> QED
    BY <1>3, <2>1
<1> QED
  BY <1>2, <1>5, <1>6, FS_CardinalityType

\* What leaves these alone leaves the log alone.
LEMMA LogStutters ==
  ASSUME UNCHANGED <<running, writerFailed, WrittenFrames, WaitingFrames>>,
         stats'.pushed = stats.pushed
  PROVE  UNCHANGED Log!logVars
BY DEF Log!logVars

LEMMA LogInits == Init => Log!LogInit
<1> SUFFICES ASSUME Init PROVE Log!LogInit
  OBVIOUS
<1>1. 1..stats.pushed = {}
  BY DEF Init, NoStats
<1> QED
  BY <1>1 DEF Init, Log!LogInit

\* Starting a recording opens an empty log.
LEMMA StartOpens == RecorderInv /\ Start => Log!Open
<1> SUFFICES ASSUME RecorderInv, Start PROVE Log!Open
  OBVIOUS
<1>1. 1..stats'.pushed = {}
  BY DEF Start, NoStats
<1> QED
  BY <1>1 DEF Start, Log!Open

\* A frame pushed is accepted, or is lost for want of room or of a writer.
LEMMA PushOffers == RecorderInv /\ Ordered /\ Push => Log!Offer
<1> SUFFICES ASSUME RecorderInv, Ordered, Push PROVE Log!Offer
  OBVIOUS
<1> DEFINE new == stats.pushed + 1
           Fates == {"waiting", "written", "lost"}
<1>1. /\ queue \in Seq(Nat) /\ stats \in Stats /\ stats.pushed \in Nat
      /\ running /\ UNCHANGED <<running, writerFailed, index, writer, job>>
  BY DEF RecorderInv, TypeOK, Stats, Push, control, disk
<1>2. stats'.pushed = new
  BY <1>1 DEF Push, Refuse, Queue, Stats
<1>3. new \notin 1..stats.pushed /\ 1..new = 1..stats.pushed \cup {new}
  BY <1>1
<1>4. InHands' = InHands
  <2>1. writer \in Busy \ {"count"} => job \in 1..stats.pushed
    BY DEF Ordered
  <2> QED
    BY <1>1, <1>2, <1>3, <2>1 DEF InHands
<1>5. WrittenFrames' = WrittenFrames /\ WrittenFrames \subseteq 1..stats.pushed
  BY <1>1 DEF WrittenFrames, Ordered
<1>6. Fate \in Seq(Fates) /\ Len(Fate) = stats.pushed
  <2>1. \A f \in 1..stats.pushed :
          (IF f \in WrittenFrames THEN "written"
           ELSE IF f \in WaitingFrames THEN "waiting" ELSE "lost") \in Fates
    OBVIOUS
  <2>2. Fate \in [1..stats.pushed -> Fates]
    BY <2>1 DEF Fate
  <2>3. Fate \in Seq(Fates)
    BY <1>1, <2>2
  <2> QED
    BY <1>1, <2>2, <2>3
<1>7. ASSUME NEW end \in {"waiting", "lost"},
             WaitingFrames' = IF end = "waiting" THEN WaitingFrames \cup {new}
                                                 ELSE WaitingFrames
      PROVE  Fate' = Append(Fate, end)
  <2>1. WaitingFrames \subseteq 1..stats.pushed
    BY WaitingApart
  <2>2. Fate' = [f \in 1..new |-> IF f = new THEN end ELSE Fate[f]]
    BY <1>2, <1>3, <1>5, <1>7, <2>1 DEF Fate
  <2>3. Append(Fate, end) = [f \in 1..new |-> IF f = new THEN end ELSE Fate[f]]
    <3> DEFINE longer == Append(Fate, end)
    <3> HIDE DEF Fates
    <3>1. end \in Fates
      BY DEF Fates
    <3>2. /\ longer \in Seq(Fates) /\ Len(longer) = new
          /\ \A f \in 1..stats.pushed : longer[f] = Fate[f]
          /\ longer[new] = end
      BY <1>6, <3>1, AppendProperties
    <3> HIDE DEF longer
    <3>3. longer = [f \in 1..new |-> longer[f]]
      BY <3>2
    <3>4. \A f \in 1..new : longer[f] = IF f = new THEN end ELSE Fate[f]
      BY <1>3, <3>2
    <3>5. longer = [f \in 1..new |-> IF f = new THEN end ELSE Fate[f]]
      BY <3>3, <3>4
    <3> QED
      BY <3>5 DEF longer
  <2> QED
    BY <2>2, <2>3
<1>8. CASE Queue /\ ~writerFailed
  <2>1. queue' = Append(queue, new)
    BY <1>8 DEF Queue
  <2>2. {queue'[i] : i \in DOMAIN queue'} = {queue[i] : i \in DOMAIN queue} \cup {new}
    <3>1. /\ \A i \in DOMAIN queue : i \in DOMAIN queue' /\ queue'[i] = queue[i]
          /\ Len(queue) + 1 \in DOMAIN queue' /\ queue'[Len(queue) + 1] = new
          /\ \A i \in DOMAIN queue' : i \in DOMAIN queue \/ i = Len(queue) + 1
      BY <1>1, <2>1
    <3> QED
      BY <3>1
  <2>3. WaitingFrames' = WaitingFrames \cup {new}
    BY <1>4, <2>2 DEF WaitingFrames
  <2>4. Fate' = Append(Fate, "waiting")
    BY <1>7, <2>3
  <2> QED
    BY <1>1, <1>8, <2>4 DEF Log!Offer, Log!Accept, Fate
<1>9. CASE queue' = queue /\ (writerFailed \/ Len(queue) >= Capacity)
  <2>1. WaitingFrames' = WaitingFrames
    BY <1>4, <1>9 DEF WaitingFrames
  <2>2. Fate' = Append(Fate, "lost")
    BY <1>7, <2>1
  <2>3. writerFailed \/ Log!Cardinality(Log!Waiting) >= Capacity
    <3>1. Capacity \in Nat /\ Len(queue) \in Nat
      BY <1>1, RecorderAssumption
    <3>2. Log!Cardinality(Log!Waiting) = Cardinality(WaitingFrames)
      BY WaitingApart DEF Log!Cardinality, Cardinality
    <3> QED
      BY <1>9, <3>1, <3>2, QueueWaits
  <2> QED
    BY <1>1, <2>2, <2>3 DEF Log!Offer, Log!Lose, Fate
<1> QED
  BY <1>8, <1>9 DEF Push, Refuse

\* Joining the writer closes the log, with nothing waiting.
LEMMA JoinCloses == RecorderInv /\ Ordered /\ Join => Log!Close
<1> SUFFICES ASSUME RecorderInv, Ordered, Join PROVE Log!Close
  OBVIOUS
<1>1. queue = <<>> /\ writer = "done" /\ running
  BY DEF RecorderInv, WriterLeavesNothing, ThreadsAgree, Join
<1>2. /\ WaitingFrames = {} /\ WaitingFrames' = {} /\ WrittenFrames' = WrittenFrames
      /\ stats' = stats
  BY <1>1 DEF WaitingFrames, InHands, Busy, WrittenFrames, Join, disk
<1> QED
  BY <1>1, <1>2, WaitingApart DEF Log!Close, Join

\* A row written is the frame that has waited longest.
LEMMA RowWrites == RecorderInv /\ Ordered /\ WriteRow => Log!Write \/ UNCHANGED Log!logVars
<1> SUFFICES ASSUME RecorderInv, Ordered, WriteRow PROVE Log!Write \/ UNCHANGED Log!logVars
  OBVIOUS
<1>1. /\ index \in Seq(Row) /\ job \in Nat /\ pass \in Nat
      /\ writer = "row" /\ UNCHANGED <<running, writerFailed, queue, stats, job>>
  BY DEF RecorderInv, TypeOK, WriteRow, WriterAt
<1>2. job \in 1..stats.pushed /\ InHands = {job} /\ ~writerFailed
  BY <1>1 DEF Ordered, InHands, Busy
<1>3. CASE UNCHANGED index /\ writer' = "fail"
  <2>1. WaitingFrames' = WaitingFrames /\ WrittenFrames' = WrittenFrames
    BY <1>1, <1>3 DEF WaitingFrames, InHands, Busy, WrittenFrames
  <2> QED
    BY <1>1, <2>1, LogStutters
<1>4. CASE index' = Append(index, [pass |-> pass, frame |-> job]) /\ writer' = "count"
  <2>1. [pass |-> pass, frame |-> job] \in Row
    BY <1>1 DEF Row
  <2>2. WrittenFrames' = WrittenFrames \cup {job}
    <3>1. /\ \A i \in DOMAIN index : i \in DOMAIN index' /\ index'[i] = index[i]
          /\ Len(index) + 1 \in DOMAIN index' /\ index'[Len(index) + 1].frame = job
          /\ \A i \in DOMAIN index' : i \in DOMAIN index \/ i = Len(index) + 1
      BY <1>1, <1>4, <2>1
    <3> QED
      BY <3>1 DEF WrittenFrames
  <2>3. InHands' = {} /\ WaitingFrames = WaitingFrames' \cup {job}
    BY <1>1, <1>2, <1>4 DEF WaitingFrames, InHands
  <2>4. job \in Log!Waiting /\ \A j \in Log!Waiting : job <= j
    <3>1. \A i \in DOMAIN queue : job < queue[i] /\ queue[i] \in Nat
      BY <1>1 DEF Ordered, Busy
    <3>2. \A j \in WaitingFrames : job <= j
      BY <1>1, <1>2, <3>1 DEF WaitingFrames
    <3> QED
      BY <2>3, <3>2, WaitingApart
  <2>5. Fate' = [Fate EXCEPT ![job] = "written"]
    BY <1>1, <1>2, <2>2, <2>3 DEF Fate
  <2> QED
    BY <1>1, <1>2, <2>4, <2>5 DEF Log!Write, Fate
<1> QED
  BY <1>3, <1>4 DEF WriteRow, WriterAt

\* A writer that fails breaks the log: what waits is lost.
LEMMA FailBreaks == RecorderInv /\ Ordered /\ FailWriter => Log!Break
<1> SUFFICES ASSUME RecorderInv, Ordered, FailWriter PROVE Log!Break
  OBVIOUS
<1>1. /\ writer = "fail" /\ writer' = "done" /\ queue' = <<>> /\ UNCHANGED <<running, index>>
      /\ writerFailed' = TRUE /\ stats'.pushed = stats.pushed
  BY DEF RecorderInv, TypeOK, FailWriter, WriterAt, disk
<1>2. job \in InHands /\ ~writerFailed
  BY <1>1 DEF Ordered, InHands, Busy
<1>3. WaitingFrames' = {} /\ WrittenFrames' = WrittenFrames
  BY <1>1 DEF WaitingFrames, InHands, Busy, WrittenFrames
<1>4. job \in Log!Waiting
  BY <1>2, WaitingApart DEF WaitingFrames
<1>5. Fate' = [f \in DOMAIN Fate |-> IF f \in Log!Waiting THEN "lost" ELSE Fate[f]]
  BY <1>1, <1>3, WaitingApart DEF Fate
<1> QED
  BY <1>1, <1>2, <1>4, <1>5 DEF Log!Break, Fate

\* The other steps are not seen in the log: a frame that is taken in hand still
\* waits, and one that is counted had its row.
LEMMA OthersStutter ==
  ASSUME RecorderInv, Ordered,
         \/ RequestStop \/ Notify \/ Sleep \/ WakeSpuriously \/ Drained
         \/ TakeJob \/ WriteImage \/ WriteFull \/ CountWritten \/ UNCHANGED vars
  PROVE  UNCHANGED Log!logVars
<1>1. CASE RequestStop \/ UNCHANGED vars
  BY <1>1, LogStutters DEF RequestStop, disk, vars, WaitingFrames, InHands, WrittenFrames
<1>2. CASE Notify \/ Sleep \/ WakeSpuriously \/ Drained
  <2>1. /\ (writer \notin Busy /\ writer' \notin Busy) \/ writer' = writer
        /\ UNCHANGED <<running, writerFailed, queue, index, stats, job>>
    BY <1>2 DEF Notify, Sleep, WakeSpuriously, Drained, WriterAt, control, disk, Busy
  <2> QED
    BY <2>1, LogStutters DEF WaitingFrames, InHands, WrittenFrames
<1>3. CASE WriteImage \/ WriteFull
  <2>1. /\ writer \in Busy \ {"count"} /\ writer' \in Busy \ {"count"}
        /\ UNCHANGED <<running, writerFailed, queue, index, stats, job>>
    BY <1>3 DEF WriteImage, WriteFull, WriterAt, Busy
  <2> QED
    BY <2>1, LogStutters DEF WaitingFrames, InHands, WrittenFrames
<1>4. CASE CountWritten
  <2>1. /\ writer = "count" /\ writer' = "ready"
        /\ UNCHANGED <<running, writerFailed, queue, index>> /\ stats'.pushed = stats.pushed
    BY <1>4 DEF CountWritten, WriterAt, disk, RecorderInv, TypeOK
  <2> QED
    BY <2>1, LogStutters DEF WaitingFrames, InHands, WrittenFrames, Busy
<1>5. CASE TakeJob
  <2>1. /\ queue \in Seq(Nat) /\ queue # <<>> /\ job' = queue[1] /\ queue' = Tail(queue)
        /\ writer = "ready" /\ writer' = "image"
        /\ UNCHANGED <<running, writerFailed, index, stats>>
    BY <1>5 DEF RecorderInv, TypeOK, TakeJob, WriterAt, disk
  <2>2. InHands = {} /\ InHands' = {queue[1]}
    <3>1. 1 \in DOMAIN queue
      BY <2>1
    <3> QED
      BY <2>1, <3>1 DEF InHands, Busy, Ordered
  <2>3. {queue[i] : i \in DOMAIN queue} = {queue'[i] : i \in DOMAIN queue'} \cup {queue[1]}
    <3>1. /\ 1 \in DOMAIN queue
          /\ \A i \in DOMAIN queue' : i + 1 \in DOMAIN queue /\ queue'[i] = queue[i + 1]
      BY <2>1
    <3>2. \A i \in DOMAIN queue : i = 1 \/ (i - 1 \in DOMAIN queue' /\ queue[i] = queue'[i - 1])
      BY <2>1
    <3> QED
      BY <3>1, <3>2
  <2>4. WaitingFrames' = WaitingFrames
    BY <2>2, <2>3 DEF WaitingFrames
  <2> QED
    BY <2>1, <2>4, LogStutters DEF WrittenFrames
<1> QED
  BY <1>1, <1>2, <1>3, <1>4, <1>5

\* A recording keeps what the log promises: every frame is decided once, in the
\* order pushed, one is lost only for want of room or of a writer, and a
\* recording that has been stopped has decided every frame.
THEOREM RecorderKeepsTheLog == Spec => KeepsTheLog
<1>1. Init => Ordered /\ Log!LogInit
  BY OrderedInit, LogInits
<1>2. RecorderInv /\ Ordered /\ [Next]_vars => Ordered' /\ [Log!LogNext]_(Log!logVars)
  BY OrderedStep, StartOpens, PushOffers, JoinCloses, RowWrites, FailBreaks, OthersStutter
     DEF Next, Writer, Log!LogNext
<1> QED
  BY <1>1, <1>2, RecorderInvariant, PTL DEF Spec, KeepsTheLog, Log!LogSpec

-----------------------------------------------------------------------------
(* No wake-up is lost                                                      *)

\* A writer that is asleep with something to do has a call on its way to wake
\* it: the caller is between the mutex and notify_one.
NoWakeupLost ==
  writer = "asleep" =>
    /\ queue # <<>> => caller = "pushed"
    /\ stopping => caller = "stopping"

\* A caller that joins waits for a writer that is at work, that has a reason
\* not to sleep, or that has returned.
JoinIsAnswered ==
  caller = "joining" => writer \in Busy \cup {"ready", "done"} /\ stopping

LEMMA NoWakeupLostStep ==
  ASSUME RecorderInv, NoWakeupLost, [Next]_vars
  PROVE  NoWakeupLost'
<1> USE DEF NoWakeupLost
<1>1. CASE Start
  BY <1>1 DEF Start
<1>2. CASE Push
  <2>1. caller = "idle" /\ running /\ writer' = writer /\ stopping' = stopping
    BY <1>2 DEF Push, control
  <2>2. ~stopping
    BY <2>1 DEF RecorderInv, ThreadsAgree
  <2>3. queue' = queue \/ caller' = "pushed"
    BY <1>2 DEF Push, Refuse, Queue
  <2> QED
    BY <2>1, <2>2, <2>3
<1>3. CASE RequestStop
  \* Nothing is queued for a writer that sleeps and a caller that is idle.
  BY <1>3 DEF RequestStop
<1>4. CASE Notify
  BY <1>4 DEF Notify
<1>5. CASE Join
  BY <1>5 DEF Join
<1>6. CASE Sleep
  BY <1>6 DEF Sleep, WriterAt
<1>7. CASE TakeJob \/ Drained \/ WakeSpuriously
  BY <1>7 DEF TakeJob, Drained, WakeSpuriously, WriterAt
<1>8. CASE WriteImage \/ WriteFull \/ WriteRow \/ CountWritten \/ FailWriter
  BY <1>8 DEF WriteImage, WriteFull, WriteRow, CountWritten, FailWriter, WriterAt
<1>9. CASE UNCHANGED vars
  BY <1>9 DEF vars
<1> QED
  BY <1>1, <1>2, <1>3, <1>4, <1>5, <1>6, <1>7, <1>8, <1>9 DEF Next, Writer

\* What StopReturns and EveryFrameIsDecided rest on, for any capacity and any
\* number of frames: the writer never sleeps through a push or a stop, although
\* notify_one comes after the mutex is released and is lost on a writer that
\* is not asleep yet.
THEOREM WakeupsAreNeverLost == Spec => [](NoWakeupLost /\ JoinIsAnswered)
<1>1. Init => NoWakeupLost
  BY DEF Init, NoWakeupLost
<1>2. RecorderInv /\ NoWakeupLost /\ [Next]_vars => NoWakeupLost'
  BY NoWakeupLostStep
<1>3. RecorderInv /\ NoWakeupLost => JoinIsAnswered
  BY DEF RecorderInv, TypeOK, ThreadsAgree, NoWakeupLost, JoinIsAnswered
<1> QED
  BY <1>1, <1>2, <1>3, RecorderInvariant, PTL DEF Spec
=============================================================================

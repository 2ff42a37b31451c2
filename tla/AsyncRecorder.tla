----------------------------- MODULE AsyncRecorder -----------------------------
(***************************************************************************)
(* AsyncRecorder: frames pushed by the GUI thread, a bounded queue, and a  *)
(* writer thread that writes each frame's files and then its index row.    *)
(*                                                                         *)
(* One caller starts, pushes and stops (DirectScan, on the GUI thread).  A *)
(* step is what happens under the mutex, or one file write.  Waiting on    *)
(* the condition variable is explicit: the writer that found nothing to do *)
(* is asleep until it is notified, or wakes for no reason.                 *)
(*                                                                         *)
(* A frame is its number among those pushed.  Every recording has a new    *)
(* directory, as DirectScan names it for when it began; a start() that is  *)
(* refused changes nothing.                                                *)
(*                                                                         *)
(* The files of a pass are named by its place in a ring of RingFrames, so  *)
(* a pass replaces those of the pass a lap before, while the index keeps   *)
(* every row.  A file is one step; one whose write fails, or is cut short, *)
(* may have left its place unreadable.                                     *)
(***************************************************************************)
EXTENDS Naturals, Sequences, FiniteSets

CONSTANTS
  Capacity,        \* kQueueCapacity
  RecordFullRes,   \* record_full_res_
  RingFrames,      \* kRecordRingFrames
  MaxFrames        \* bound: the frames pushed to one recording

ASSUME RecorderAssumption ==
  /\ Capacity \in Nat \ {0} /\ RingFrames \in Nat \ {0}
  /\ RecordFullRes \in BOOLEAN /\ MaxFrames \in Nat

VARIABLES
  running,        \* running_
  stopping,       \* stopping_
  writerFailed,   \* writer_failed_
  queue,          \* queue_
  stats,          \* stats_, without the error's wording
  pass,           \* pass_
  images, fulls,  \* the frame whose file is in each place of the ring
  index,          \* the rows of index.csv
  writer,         \* where the writer thread is
  job,            \* the frame it has in hand
  caller          \* where the caller is inside push() or stop()

vars == <<running, stopping, writerFailed, queue, stats, pass, images, fulls,
          index, writer, job, caller>>

disk == <<images, fulls, index>>
control == <<running, stopping, writerFailed>>

NoFrame == 0
Slots == 0..(RingFrames - 1)
NoFiles == [slot \in Slots |-> NoFrame]
NoStats == [pushed |-> 0, written |-> 0, dropped |-> 0, failed |-> 0, peak |-> 0]

Init ==
  /\ running = FALSE
  /\ stopping = FALSE
  /\ writerFailed = FALSE
  /\ queue = <<>>
  /\ stats = NoStats
  /\ pass = 0
  /\ images = NoFiles /\ fulls = NoFiles /\ index = <<>>
  /\ writer = "none"
  /\ job = NoFrame
  /\ caller = "idle"

-----------------------------------------------------------------------------
(* The caller *)

Start ==
  /\ caller = "idle" /\ ~running
  /\ running' = TRUE
  /\ stopping' = FALSE
  /\ writerFailed' = FALSE
  /\ stats' = NoStats
  /\ pass' = 0
  /\ images' = NoFiles /\ fulls' = NoFiles /\ index' = <<>>
  /\ writer' = "ready"
  /\ UNCHANGED <<queue, job, caller>>

\* push() under the mutex: the frame is failed, dropped or queued.
Refuse(count) ==
  /\ stats' = [count EXCEPT !.pushed = stats.pushed + 1]
  /\ UNCHANGED <<queue, caller>>

\* Mutant of Queue: nobody is notified.
QueueQuietly ==
  /\ queue' = Append(queue, stats.pushed + 1)
  /\ stats' = [stats EXCEPT !.pushed = stats.pushed + 1,
                            !.peak = IF Len(queue') > stats.peak THEN Len(queue') ELSE stats.peak]
  /\ UNCHANGED caller

Queue ==
  /\ queue' = Append(queue, stats.pushed + 1)
  /\ stats' = [stats EXCEPT !.pushed = stats.pushed + 1,
                            !.peak = IF Len(queue') > stats.peak THEN Len(queue') ELSE stats.peak]
  /\ caller' = "pushed"

\* Mutant of Push: the queue takes one frame too many.
PushPastCapacity ==
  /\ caller = "idle" /\ running
  /\ stats.pushed < MaxFrames
  /\ IF writerFailed THEN Refuse([stats EXCEPT !.failed = stats.failed + 1])
     ELSE IF Len(queue) > Capacity THEN Refuse([stats EXCEPT !.dropped = stats.dropped + 1])
     ELSE Queue
  /\ UNCHANGED <<control, pass, disk, writer, job>>

Push ==
  /\ caller = "idle" /\ running
  /\ stats.pushed < MaxFrames
  /\ IF writerFailed THEN Refuse([stats EXCEPT !.failed = stats.failed + 1])
     ELSE IF Len(queue) >= Capacity THEN Refuse([stats EXCEPT !.dropped = stats.dropped + 1])
     ELSE Queue
  /\ UNCHANGED <<control, pass, disk, writer, job>>

\* stop() under the mutex.
RequestStop ==
  /\ caller = "idle" /\ running
  /\ stopping' = TRUE
  /\ caller' = "stopping"
  /\ UNCHANGED <<running, writerFailed, queue, stats, pass, disk, writer, job>>

\* Mutant of Notify: stop() does not notify.
NotifyOfPushes ==
  /\ \/ caller = "pushed" /\ caller' = "idle"
     \/ caller = "stopping" /\ caller' = "joining"
  /\ writer' = IF writer = "asleep" /\ caller = "pushed" THEN "ready" ELSE writer
  /\ UNCHANGED <<control, queue, stats, pass, disk, job>>

\* notify_one(), after the mutex is released: it wakes a writer that is asleep
\* now, and is lost on any other.
Notify ==
  /\ \/ caller = "pushed" /\ caller' = "idle"
     \/ caller = "stopping" /\ caller' = "joining"
  /\ writer' = IF writer = "asleep" THEN "ready" ELSE writer
  /\ UNCHANGED <<control, queue, stats, pass, disk, job>>

\* join() returns, and stop() writes recording_stats.json.
Join ==
  /\ caller = "joining" /\ writer = "done"
  /\ caller' = "idle"
  /\ writer' = "none"
  /\ running' = FALSE
  /\ UNCHANGED <<stopping, writerFailed, queue, stats, pass, disk, job>>

-----------------------------------------------------------------------------
(* The writer *)

WriterAt(place) ==
  /\ writer' = place
  /\ UNCHANGED <<running, stopping, caller>>

\* cv_.wait: nothing queued and not stopping.
Sleep ==
  /\ writer = "ready" /\ queue = <<>> /\ ~stopping
  /\ WriterAt("asleep")
  /\ UNCHANGED <<writerFailed, queue, stats, pass, disk, job>>

\* A condition variable may wake without being notified.
WakeSpuriously ==
  /\ writer = "asleep"
  /\ WriterAt("ready")
  /\ UNCHANGED <<writerFailed, queue, stats, pass, disk, job>>

TakeJob ==
  /\ writer = "ready" /\ queue # <<>>
  /\ job' = Head(queue)
  /\ queue' = Tail(queue)
  /\ WriterAt("image")
  /\ UNCHANGED <<writerFailed, stats, pass, disk>>

\* Mutant of Drained: the queue is not drained first.
LeaveAtOnce ==
  /\ writer = "ready" /\ stopping
  /\ WriterAt("done")
  /\ UNCHANGED <<writerFailed, queue, stats, pass, disk, job>>

\* Stopping, and drained.
Drained ==
  /\ writer = "ready" /\ queue = <<>> /\ stopping
  /\ WriterAt("done")
  /\ UNCHANGED <<writerFailed, queue, stats, pass, disk, job>>

\* frame_filename(): the place in the ring of a pass's files.
Slot(p) == p % RingFrames

\* The file of this pass takes the place of the one a lap before; one that
\* fails leaves that as it was, or spoils it.
File(files) == [files EXCEPT ![Slot(pass)] = job]
Spoilt(files) == {files, [files EXCEPT ![Slot(pass)] = NoFrame]}

\* Mutant of WriteImage: a frame that was not written gets its row.
WriteImageOrNot ==
  /\ writer = "image"
  /\ images' \in {File(images)} \cup Spoilt(images)
  /\ WriterAt(IF RecordFullRes THEN "full" ELSE "row")
  /\ UNCHANGED <<writerFailed, queue, stats, pass, fulls, index, job>>

WriteImage ==
  /\ writer = "image"
  /\ \/ /\ images' = File(images)
        /\ WriterAt(IF RecordFullRes THEN "full" ELSE "row")
     \/ images' \in Spoilt(images) /\ WriterAt("fail")
  /\ UNCHANGED <<writerFailed, queue, stats, pass, fulls, index, job>>

WriteFull ==
  /\ writer = "full"
  /\ \/ fulls' = File(fulls) /\ WriterAt("row")
     \/ fulls' \in Spoilt(fulls) /\ WriterAt("fail")
  /\ UNCHANGED <<writerFailed, queue, stats, pass, images, index, job>>

\* The index row comes last.
WriteRow ==
  /\ writer = "row"
  /\ \/ /\ index' = Append(index, [pass |-> pass, frame |-> job])
        /\ pass' = pass + 1
        /\ WriterAt("count")
     \/ UNCHANGED <<index, pass>> /\ WriterAt("fail")
  /\ UNCHANGED <<writerFailed, queue, stats, images, fulls, job>>

CountWritten ==
  /\ writer = "count"
  /\ stats' = [stats EXCEPT !.written = stats.written + 1]
  /\ job' = NoFrame
  /\ WriterAt("ready")
  /\ UNCHANGED <<writerFailed, queue, pass, disk>>

\* Mutant of FailWriter: the frame in hand is taken off a queue it has left.
FailLessInHand ==
  /\ writer = "fail"
  /\ writerFailed' = TRUE
  /\ stats' = [stats EXCEPT !.failed = stats.failed + Len(queue) - 1]
  /\ queue' = <<>>
  /\ job' = NoFrame
  /\ WriterAt("done")
  /\ UNCHANGED <<pass, disk>>

\* Mutant of FailWriter: the frame in hand is not counted.
FailQueueOnly ==
  /\ writer = "fail"
  /\ writerFailed' = TRUE
  /\ stats' = [stats EXCEPT !.failed = stats.failed + Len(queue)]
  /\ queue' = <<>>
  /\ job' = NoFrame
  /\ WriterAt("done")
  /\ UNCHANGED <<pass, disk>>

\* Mutant of FailWriter: the writer goes on to the next frame.
FailFrameOnly ==
  /\ writer = "fail"
  /\ stats' = [stats EXCEPT !.failed = stats.failed + 1]
  /\ job' = NoFrame
  /\ WriterAt("ready")
  /\ UNCHANGED <<writerFailed, queue, pass, disk>>

\* fail_writer: the job in hand and every one behind it have failed.
FailWriter ==
  /\ writer = "fail"
  /\ writerFailed' = TRUE
  /\ stats' = [stats EXCEPT !.failed = stats.failed + 1 + Len(queue)]
  /\ queue' = <<>>
  /\ job' = NoFrame
  /\ WriterAt("done")
  /\ UNCHANGED <<pass, disk>>

Writer ==
  \/ Sleep \/ TakeJob \/ Drained
  \/ WriteImage \/ WriteFull \/ WriteRow \/ CountWritten \/ FailWriter

Next == Start \/ Push \/ RequestStop \/ Notify \/ Join \/ Writer \/ WakeSpuriously

\* Both threads run; nobody has to push or stop, and nothing wakes the writer
\* but a notification.
Fairness == WF_vars(Writer) /\ WF_vars(Notify) /\ WF_vars(Join)

Spec == Init /\ [][Next]_vars
FairSpec == Spec /\ Fairness

-----------------------------------------------------------------------------
Busy == {"image", "full", "row", "count", "fail"}
Row == [pass : Nat, frame : Nat]

\* The type of the recorder's state.
TypeOK ==
  /\ running \in BOOLEAN /\ stopping \in BOOLEAN /\ writerFailed \in BOOLEAN
  /\ queue \in Seq(Nat)
  /\ stats \in [pushed : Nat, written : Nat, dropped : Nat, failed : Nat, peak : Nat]
  /\ pass \in Nat
  /\ images \in [Slots -> Nat] /\ fulls \in [Slots -> Nat] /\ index \in Seq(Row)
  /\ writer \in {"none", "ready", "asleep", "done"} \cup Busy
  /\ job \in Nat
  /\ caller \in {"idle", "pushed", "stopping", "joining"}

InHand == IF writer \in Busy THEN 1 ELSE 0

\* Every frame pushed is accounted for, at every moment: counted once as
\* written, dropped or failed, queued, or in the writer's hand.
Accounting ==
  stats.pushed = stats.written + stats.dropped + stats.failed + Len(queue) + InHand

\* "After stop(), pushed == written + dropped + failed", and the rows of the
\* index are the frames written.  What recording_stats.json says is true.
StoppedStatsAreExact ==
  ~running =>
    /\ stats.pushed = stats.written + stats.dropped + stats.failed
    /\ stats.written = Len(index)

\* The queue is bounded, so memory is, and its peak is what it has been.
QueueBounded == Len(queue) <= stats.peak /\ stats.peak <= Capacity

\* frame_overwritten(): the row is a lap or more behind the newest.
FrameOverwritten(i) == index[Len(index)].pass - index[i].pass >= RingFrames

\* What the files of a row's place hold is its own frame, or is another's.
HoldsItsFrame(files, i) == files[Slot(index[i].pass)] = index[i].frame
HasItsFiles(i) == HoldsItsFrame(images, i) /\ (RecordFullRes => HoldsItsFrame(fulls, i))
HasLostItsFiles(i) ==
  ~HoldsItsFrame(images, i) /\ (RecordFullRes => ~HoldsItsFrame(fulls, i))

\* The row a lap behind the pass in hand, once that pass's files are begun.
BeingReplaced(i) ==
  /\ pass - index[i].pass = RingFrames
  /\ writer \in {"full", "row", "fail"} \/ writerFailed

\* A row claims its frames are on disk, and the index is "the authoritative
\* wrap detector": at every moment, should the program die there, the passes
\* are contiguous, a row the index calls overwritten has indeed lost its files,
\* and any other has those of its own frame.  One row is excepted, the one whose
\* files a pass without a row is taking: the index does not tell it.
RowsHaveImages ==
  \A i \in DOMAIN index :
    /\ index[i].pass = i - 1
    /\ IF FrameOverwritten(i) THEN HasLostItsFiles(i)
                              ELSE HasItsFiles(i) \/ BeingReplaced(i)

\* The recording keeps what FrameLog promises.  A frame is written when its row
\* is; until then it waits, queued or in hand.
InHands == {job} \cap (IF writer \in Busy \ {"count"} THEN 1..stats.pushed ELSE {})
WaitingFrames == {queue[i] : i \in DOMAIN queue} \cup InHands
WrittenFrames == {index[i].frame : i \in DOMAIN index}

Log == INSTANCE FrameLog WITH
  RoomFor <- Capacity,
  open <- running,
  broken <- writerFailed,
  fate <- [f \in 1..stats.pushed |->
             IF f \in WrittenFrames THEN "written"
             ELSE IF f \in WaitingFrames THEN "waiting" ELSE "lost"]

KeepsTheLog == Log!LogSpec

\* stop() returns: the writer is never left asleep with a stop to answer.
StopReturns == caller = "stopping" ~> ~running

\* No frame is left lying in the queue: a push always wakes the writer, which
\* writes the frame or gives it up.
EveryFrameIsDecided ==
  \A f \in 1..MaxFrames : f \in WaitingFrames ~> f \notin WaitingFrames

=============================================================================

# Cubeulator in TLA+

Cubeulator scans a Rubik's cube with a camera, solves it and shows the solution
one turn at a time on a 3D cube, while the camera goes on watching to see each
turn being made. This directory holds TLA+ modules for the parts of the program
where order, concurrency and failure decide whether it is right, the TLC
configurations that check them on small instances, and proofs, checked by
TLAPS, of the properties that matter most for every value of the constants.

Contents: [the system](#the-system), [modules](#the-modules-and-the-code),
[runs](#runs-and-bounds), [fairness](#fairness), [proofs](#what-is-proved),
[disagreements found](#where-the-code-and-its-documentation-disagree),
[not modelled](#what-is-not-modelled-and-why), [plan](#plan),
[running it](#running-it). All source paths below start at `src/`.

## The system

The library (`src/lib`, C++23, no Qt) has the vision, the solvers and the
recorders. The application (`src/app`, Qt and QML) has the screens, the
controllers the screens are bound to, and one platform layer per operating
system. Four kinds of thread run:

- the GUI thread: every controller, every screen, every signal. Signals are
  direct connections: a slot has run when `emit` returns;
- workers (`QtConcurrent::run`): one per solve, one to open a camera, one to
  list the cameras; their results come back through a `QFutureWatcher` as an
  event on the GUI thread;
- the capture thread of a desktop camera, which owns the device;
- the writer thread of a session recorder.

In the browser the GUI thread is the page's main thread, a camera is opened by
a worker that calls into the page and waits for its answer, and the page's own
promises and timers run between the events of the GUI. A service worker, shared
by every tab, adds the headers the threads need.

| Part | State it keeps | Operations | Talks to |
| --- | --- | --- | --- |
| `SolveController` | solution in place and turn reached, method, cube pending, solve in flight | solve, resume, setMethod, next, previous, result lands | emits `stateChanged`, `solutionChanged` |
| `HeldCube` | hold shown, verdict and its streak, what was announced | a frame, cube/solution changed, watching stopped | hears the controller and the scan; emits `moveSeen` |
| `AppState.qml`, `SolveScreen.qml`, `Cube3DView.qml` | screen, beat after a scan, turn being animated | the buttons, a turn landing, a screen entered | calls every controller; hears `scanCompleted`, `stateChanged`, `moveSeen` |
| `SolveHistory`, `SolveHistoryStore` | list, its file, entry followed, keep on or off | follow a turn, land, finish, resume, remove, clear, load | hears the controller |
| `DirectScan` | camera opening, running, watching, lock awaited, sides, cube | start, watch, stop, opened, poll | camera interface; `SideScan`; recorder; emits `scanCompleted` |
| `SideScan` | groups of reads, side in view | add, add corner, sides, cube | pure, called by `DirectScan` |
| capture loop, photometry lock | device, mailbox, pending lock or restore, report | start, stop, pop, request, take report; the capture thread | called by `DirectScan` |
| `camera_web` (C++ and JavaScript) | request numbers, waits and answers; the page's sessions, locks and held modes | enumerate, start, stop, lock; the page's promises and callbacks | called by `DirectScan` |
| isolation script | a service worker; whether each page is controlled by it | load, register, activate, claim, reload | the browser |
| `AsyncRecorder` | queue, statistics, writer thread, files | start, push, stop; the writer's steps | called by `DirectScan` |
| profile `Recorder` | lock-free ring of events | record, snapshot, clear | any thread |
| solvers (3x3 and NxN), scan assembly, colours, corner views | none | pure functions | called by workers and `SideScan` |

What is hard, part by part, and what makes each right:

- **Solving.** A solve can be replaced while it runs, by another method,
  another cube or an entry resumed; the worker replaced still finishes.
  *Right when* the solution on screen is of the latest cube by the method in
  force, and a method change does not move the cube.
- **Stepping.** A step is taken when its animation lands, so there is a time
  when a turn is promised and not made, and everything can happen in it.
  *Right when* a turn shown belongs to the solution shown, and "complete"
  means solved.
- **Watching.** Every frame may be misread, hidden by a finger, or of a cube
  rolled in the hand; verdicts need several frames running, and the cube
  expected can change between two of them. *Right when* no move is announced
  that was not made, evidence is about the move it is used for, and a correct
  move is never called wrong.
- **Moving on.** A scan's beat and its solve end in either order. *Right when*
  a scan that completed always gives way to its solution.
- **The history.** It follows a solve it does not drive, is edited while it
  does, and is written at each change to a file a write to which may fail.
  *Right when* an entry leads back to the cube in hand, at every moment.
- **Recording.** Two threads, a bounded queue, a condition variable notified
  outside the mutex, a disk that fails, and files that are a ring while the index
  only grows. *Right when* every frame is accounted for once, the index tells which
  rows still have their files, and `stop()` returns.
- **The browser's camera.** Opening, locking and closing are promises that any
  other event can run between; a start that timed out is answered later; a lock
  is cut short by a stop or by the next opening; the camera may not answer what it
  is asked. *Right when* no camera stays on that nobody uses, and one that was let
  go is back in the modes it was found in, as far as the page could read them.
- **Profiling.** Any thread writes to a ring without a lock while another reads
  it. *Right when* an event read is whole.
- **Sides.** Every read joins, begins or joins up groups, and each removal
  renumbers the rest. *Right when* the sides in view are those of the newest frame.
- **Merging moves.** Runs of turns of one face are made one across the stages of a
  solution. *Right when* the cube ends the same and nothing is left to merge.
- **Isolation.** Several tabs register, are claimed and reload. *Right when* no
  page reloads itself for ever.
- **The camera.** Opened on a worker, locked on the capture thread between two
  frames, stopped from the GUI, its settings outliving the program and its driver
  free to refuse a write. *Right when* a scan counts only frames of a camera that
  has settled, and what the lock wrote is written back whenever the camera stops.

`PROJECT.json` lists each hazard at its line, with the properties that cover it.

## The modules and the code

```
SolveController <-- HeldCube <-- SolveSession <-- MCSolveSession
      ^                                ^
      |                                +--- SolveSessionProofs (with SolveControllerProofs)
      +-- SolveControllerProofs
      +-- SolveHistory <-- MCSolveHistory
                ^
                +--- SolveHistoryProofs (with SolveControllerProofs)
CaptureLoop <-- ScanSession <-- MCScanSession, ScanSessionProofs
FrameLog <..refines.. AsyncRecorder <-- MCAsyncRecorder, AsyncRecorderProofs
WebCamera <-- WebCameraProofs
SideScan <-- SideScanProofs
WebCamera, ProfileRecorder, PageIsolation, SideScan, MoveMerging <-- Parts
Parts <-- MCParts, PartsProofs (with WebCameraProofs and SideScanProofs)
```

An arrow is EXTENDS. `PROJECT.json` maps each definition to its lines.

**`SolveController`** (`src/app/qt/solve_controller.cpp`,
`src/lib/src/solver/stepped_solution.cpp`). The variables are the fields.
A cube is an opaque value, and a solution is three constant operators: how many
turns (`Turns`), which (`MoveAt`), and the cube after each (`CubeAfter`). The
watcher's future is `job`: the method and cube the watched worker was given.
`setFuture` replaces it, which is how a superseded answer is dropped. An
unsolvable cube lands as the solved cube with no turns, as `solve_stepped` does.
`SolverAssumption` is what the solver tests in the repository check: solutions
start at the cube asked for, end solved, and a solved cube needs no turns.

**`HeldCube`** (`src/app/qt/controllers/held_cube.cpp`,
`src/lib/src/vision/held_cube.cpp`). `Judge` is `judge()`, verdict by verdict in
its order; `FrameSteady` and its siblings are `onFrameWatched`. A read is the
stickers of one side and which of them were found; the distance of a read from a
hold, which the code measures in Lab units, is the number of found stickers that
differ, and `FitOff` of them is the most that still fits. Two thresholds are kept
apart as in the code: fitting at all, and being clearly nearer than the next best.
The streak is capped at the largest threshold.

**`SolveSession`** (`AppState.qml`, `SolveScreen.qml`, `Cube3DView.qml`,
`DesktopShell.qml`, `SettingsState.qml`) composes the two with the screens and the
person. One action is one event of the GUI thread with every slot it reaches: a
solve that lands (`SolveLands`) tells `HeldCube`, repaints the 3D cube and may
change the screen, in one step. The solve screen is in a Loader: leaving it drops
a turn being shown (`Enter`). The person may turn or roll the cube at any moment;
two turns ahead of the solution is the bound of `TurnCube`, which keeps the cube
in hand next to the cube shown (one of the two cubes of the turn is the current
one). `fresh` is a history variable: the steady frames since another cube came to
be expected.

**`SolveHistory`** (`src/app/qt/controllers/solve_history.cpp`,
`solve_history_store.cpp`, and the history's part of `AppState.qml`) extends the
controller with the list, the file, and the screens it is reached from. The two
signals a landing solve emits are one step (`Landed`), and the branch taken is
decided before them, as in `onSolutionChanged`. `Restart` ends the program at any
moment and loads the file. A write is whole or not at all (`QSaveFile`); the file
a failed one leaves is the list before. Any write may fail, and any number of them
running; `FailId` only bounds the ids up to which TLC tries it, and the theorems
hold for every value of it.

**`AsyncRecorder`** (`src/lib/src/vision/recording_v2.cpp`). One action per critical
section or file written: `Push` and `RequestStop` under the mutex, `Notify` after it,
`Sleep` and `TakeJob` for the wait, then each file. Sleeping is a state, so a
notification that reaches no sleeper is lost, and a spurious wake-up is an action
without fairness. A pass's files go to place `pass % RingFrames` of a ring, `images` and
`fulls`, which hold the frame whose file is there: a write takes the place of the pass a
lap before (`File`), and one that fails leaves what was there or nothing readable
(`Spoilt`), while `index` keeps every row. `FrameOverwritten` is `frame_overwritten()`,
by which a reader of a recording tells the rows that have lost their files. A file is
written in one step: dying in the middle of one is dying after a write that failed.
**`FrameLog`** is what a recording promises: each frame offered is decided once, in
order, and a recording closed has decided all. `KeepsTheLog` is the refinement, with the
fate of a frame read off the queue, the writer's hand and the index.

**`CaptureLoop`** (`opencv_capture_loop.cpp`, `photometry_lock.cpp`) is one camera of a
desktop: its thread at each place of its loop, the one-frame mailbox, the request and
the report of a lock, and the driver. A step is one critical section, or the writes for
one control, so a stop can fall between any two. The frames read while the white balance
is measured are published as they come (`PublishMeasured`). `driver` is what each of the
driver's properties is at, as found or as a lock wrote it; it outlives the opening, and
`asFound`, the snapshot, does not. Besides the controls of the lock there are the two
properties a lock changes on the way: the temperature, written once the white balance is
held, and the automatic exposure, which the driver may drop at any write to the
exposure, taken or not (`Aside`). `Asides` names which of the two a device has. `Joined`
is `restore`: it writes every number kept back and forgets it, and the driver may refuse
those in `MayRefuse`, which nobody looks at; `refused` is the history of that. A control
refused is remembered by the next lock as found the way the last one left it. A driver
that refuses leaves the control as it is. Frames and reports carry the opening they are
from, and frames whether the camera had settled: both are history, and no guard reads
them.

**`ScanSession`** (`direct_scan.cpp`, the camera's part of `AppState.qml`,
`DirectScanScreen.qml`) puts `DirectScan` over it. `opening` is the
`QFutureWatcher`: the worker may have ended ("landed") with its event still to be
delivered, when `isRunning()` already says no; and a new future takes the event
away. `stop()` has two steps, around the join; `poll()` has two, since the capture
thread runs between taking the frame and taking the report. What a frame shows is
left out: any frame that counts may complete the scan. The solver is in
`SolveSession`, so here the solution may show at any time after a scan completes.
`sources` and `early` are history.

**`WebCamera`** (`src/app/platform/web/camera_web.cpp`, `camera_web.js`) is both
sides of the browser's camera. The C++ side is the `Session` behind its mutex; the
calls the worker has had proxied to the main thread are a queue (`calls`), and the
wait for an answer ends with it or with the time (`Woken`, `TimedOut`). The page
side is the sessions it has opened: each has its stage, its place in a lock
(`lock.pc`, one value for each promise the lock waits on) and the modes it has
changed (`held`). An action is what runs between two awaits, so that a stop, a
late answer or the next opening falls between any two. The driver answers each
request by doing it whole, not at all, holding only some of the values, or not in
time. What is read back after a request (`Checked`) is the mode the camera is in, or,
for the openings in `MayMisread`, nothing at all: `controls()` resolves to no
settings when it fails or takes too long, no control then counts as held or is
reverted, and none is put back at the end, though the driver did as it was asked. It
fails whole, never name by name. `mode` is the device's and outlives every session.
`obeyed`, `overlapped` and `unread` are history: the driver did in time what it was
told to undo; no lock read the modes of a camera that was still being put back, or
one did; and the controls a lock put in manual without being able to read it.

**`ProfileRecorder`** (`src/lib/src/profile/recorder.cpp`) is the ring, an atomic
access to a step: `Claim` is the `fetch_add`, then the odd number, the words one by
one, the even number; the reader looks at the number, the words, and the number
again. The fences order the accesses to one slot as they are written here. That no
writer is a whole lap behind another is the recorder's own assumption
(`recorder.hpp`), and is `Claim`'s guard.

**`SideScan`** (`src/lib/src/vision/direct_scan.cpp`) is the bookkeeping of groups:
`CountRead` is what one read does, with the joins and the drop that follow it
(`MergeAlike`, `DropWeakest`) in the same step, and `FlatFrame`, `CornerFrame` and
`EmptyFrame` are the frames. A side's colours are a point on a line, and the
difference of two sides their distance, which keeps what the grouping depends on:
that being alike is not transitive, and that a group's median moves as it is read.
The code joins alike groups until there are none (`merge_alike_groups`) and counts
the sides of a corner view in a loop; both are recursive functions here
(`MergeAlike`, `CountCorner`), the first as long as there were groups, which
`NoGroupsStayAlike` proves to be enough.
`now` is history: the group has a read of the newest frame.

**`MoveMerging`** (`src/lib/src/solver/solver.cpp`) is `merge_adjacent_moves` over a
solution put together move by move. A solution is one line of moves, each with the
number of its step, which is what the nested lists come to: entries go back to their
steps in the order of the stack, so the steps are as they were as long as that order is
theirs, and `MergedDoesTheSame` says that it is. What turns do to a cube, to compare
with, is taken from the edges alone: two faces that share one edge do not commute, which
is what a wrong merge would show in. Outside the one to three quarter-turns that `Move`
allows, merging and turning differ (a turn back is three quarters to `merge_adjacent_moves`
and nothing to `Cube::apply`), but no such move is made; a move of no quarters, which is
nothing to both, is among the inputs.

**`PageIsolation`** (`src/app/platform/web/shell/cubeulator-isolation.js`) is the
script of each page and the worker it registers. The browser's part is external: a
load is controlled when the worker is active and the load is not a hard one, and a
worker that activates claims the pages that are open. `honoured` says whether the
browser isolates a page whose headers a worker added.

**`Parts`** puts the five modules above, from `WebCamera` to `PageIsolation`, into one
specification for one run. They share no state in the program: a behaviour of `Parts`
is one of one of them, chosen at the start, while the others stand still.
`PartsAreTheirOwn` proves that it is then a behaviour of each one's own specification,
so nothing is lost or gained by putting them together.

## Runs and bounds

| Run | Shows | Bounds |
| --- | --- | --- |
| `session` | the solve, the turn and the screen shown belong together; a completed scan moves on | 8 cubes, 2 methods with solutions of up to 3 turns, 2 holds, reads of one sticker |
| `camera` | announcements and accusations against the cube in the hand | 3 holds (two a roll apart, one of another side), 3 stickers, all or one found, one misread, `Trust = Accuse = Doubt = 2` |
| `recorder` | both threads, all failures | queue of 2, 5 frames, a ring of 2, full-resolution images on; 2,646 states |
| `history` | the list against the cube in hand, and what the next start makes of its file | list of 2, ids to 3, 3 cubes, 2 methods; any write may fail up to id 2 (`FailId`); 4,456,872 states, about two minutes |
| `scan` | opening, locking, polling and stopping the camera, from any screen | 2 openings, 2 controls of which the driver may refuse the exposure back, 1 frame to settle, a wait of 1 frame; 624,093 states, about three minutes |
| `parts` | the browser's camera, the profile recorder, the isolation script, the grouping of sides, the merging of moves | see below; 378,313 states, about two minutes |
| `lost`, `seen`, `keep`, `resumed`, `screen`, `left` | disagreements, see below | as the run they come from |

*Why they are enough.* In `session` a solution has a beginning, a middle and an end, a
method change in the middle finds a different number of turns left, and one method
solves the cube at once, so that the solution can be replaced by a shorter one under a
turn being shown. One sticker is enough there, since only the order of frames and steps
matters; `camera` is where the sides matter, and its cube has a side whose turn looks
like a roll, a side it carries stickers to, and a hold whose two sides share colours,
which is what the verdicts have to tell apart. With two frames to trust, one frame can
be evidence for the move before and one for the move after. The queue of 2 against 5
frames fills, empties and fills again, with a frame in hand, and goes two and a half
times round the ring of 2, so that a row is overwritten, has its place spoilt, or loses
it to a pass that never gets a row, with both files, one or none of that pass written. A
list of 2 with 3 ids drops its oldest entry, and ids can be reused after deletions;
writes that fail up to the second id are those of a new entry, of its turns, of its
finish and of its deletion, alone and running. `MaxResume` leaves a turn at the end of
the longest solution. In `history` a method change while a resumed solve is in flight is
switched off by `Restless`, because it breaks `EntryLeadsHere`: that is the finding of
run `resumed`, which switches it on.

In `scan` the second opening is what could read the first one's leftovers; the two
controls are the white balance, whose lock measures and publishes, and one that is only
written and may be refused when it is written back, in the first opening, the second or
both; the wait is shorter than the lock, so it runs out before, at and after the report.
What a lock changes beside its controls is in run `left` only (`Asides`): nothing in the
session reads it. `EarlyFramesAreFew` is reached (with `EarlyMost` at 2 it fails).

In `parts` one part moves in a behaviour, so the states are the sum of the five and not
the product. Their bounds:

- the camera: three requests of which two reach the page, so that a start that timed out
  is answered after the next has begun, and two sessions of one device overlap; two
  controls, one found manual, so that a set can be vetoed and tried one at a time, and
  putting back can put back too much; the first opening's lock may fail to read back,
  any of its reads, so that what it did not see is found in manual by the second.
  `ModesPutBack` is about the interesting case: a lock cut short at each of its awaits;
- the recorder: two writers, two slots, two words, four events: each slot is lapped
  while a reader is in it, and a clear makes numbers repeat;
- the isolation: two tabs loaded twice each by a person;
- the sides: four looks, at 0, 4, 6 and 12, alike within 5 and in doubt within 7, so
  that 0 and 6 are two sides which a look at 4 is like both of, and one group's
  median can come to be like another's; at most two groups, two sides of a corner
  and six frames, flat reads counting from two;
- the moves: none, one and three quarter-turns, of two faces, up to four moves in
  three steps.

`MCAsyncRecorder.cfg` says CHECK_DEADLOCK FALSE because a caller that has pushed
`MaxFrames` frames, or never calls again, is at rest, and `MCParts.cfg` because openings,
loads, frames and moves are bounded.

## Fairness

Nothing is assumed of the person, the camera or the timing of frames. In
`SolveSession`, a worker that solves ends (`WF SolveLands`) and a timer that was
started fires (`WF BeatEnds`). In `AsyncRecorder`, the writer thread runs and a
call of `push()` or `stop()` returns once it can (`WF` of the writer, of the
notification and of the join); a spurious wake-up is never assumed, so a lost
notification would show as a frame waiting for ever. In `ScanSession`, the capture
thread runs, the GUI thread finishes what it is in the middle of, and the timer
polls; a frame is grabbed, and found by a poll, again and again (`SF Grab`,
`SF PollFrame`), since a read may return nothing now and then, and the mailbox is
empty between frames. Were the device to stop delivering for good, the wait
for the lock, which is counted in frames, would not end.

In `WebCamera`, the steps of a lock and of putting back run (`WF` of `PageStep`): each
waits for a promise of the driver that the script races with a timer. Nothing is
assumed of the prompt for permission, of `play()`, of frames, or of the person. One
condition for all the steps is enough, since a session has finitely many:
`LettingGoNeverTurnsBack` counts them.

## What is proved

TLAPS proves, for every value of the constants that the named assumptions allow:

- **`SolveControllerProofs`**: `SolveTypeCorrect`, `WatchedJobIsAlwaysLatest`,
  `ShownSolutionIsAlwaysLatest`. The inductive invariant is the three together,
  `SolveInv`: that the answer landing is the latest needs that the watched job is,
  which needs the types, since `job` is compared with a record of the state. From
  `SolverAssumption` alone.
- **`SolveSessionProofs`**: `SessionIsSolve` (a session is a behaviour of the
  controller's specification, so all of the above holds in a session),
  `ShownTurnAlwaysBelongs`, `CompleteAlwaysSolved` and
  `ContinuationAlwaysKeepsCube`. The invariant `SessionInv` adds two facts no
  property states: while a method change is solved, the cube on screen is the cube
  it was asked for (`SolvingKeepsCube`), and under settings opened from "complete"
  the cube stays solved (`SolvedBehindSettings`). None of these depends on what the
  camera sees: frames are abstracted to what they leave alone.

  The rest is about what the camera sees. `SessionTypesHold` is the types, the last
  verdict's choice of a hold included. `EvidenceIsAlwaysFresh`: a move is announced on
  as many frames as are trusted, all of them of that move, since the streak never
  counts more frames than were seen since the cube expected changed (`FreshInv`).
  What one frame can be taken for is then worked out of `Judge` (`ReadsShow` and the
  lemmas after it): a read that shows a cube held some way, whole or but for the one
  sticker misread, fits that cube and hold best, unless that sticker is all that tells
  the hold from another (`InDoubt`). From it, with no hypothesis on the cubes:
  `PhantomIsRolledOrInDoubt`, where a move that was not made can come from, and
  `HeldAsShownNeverAccused`. The two properties the run `camera` checks follow under a
  hypothesis on how the cubes look, each written out before its theorem:
  `NoPhantomMoveEver` when a sticker is never misread or no move of a solution makes a
  sticker one that is not in doubt any more (`DoubtOutlivesMoves`), and
  `NoFalseAccusationEver` when a sticker is never misread or no hold differs from
  another in one sticker of a side seen whole (`SidesAreTold`). The cubes of the run
  `camera` satisfy both with a misread sticker among the reads, so the run is an
  instance of the theorems; where a cube and its holds do not, the unconditional
  theorems say what is left.

  Two more are about what follows the frames. `CompleteScanNeverStuck`: a completed scan
  that is still on the screen has its beat to come or a solve that is under way, so the
  step that moves it on is there. `SeenOncePerMove`: an announced move is announced again
  only after the cube shown or the solution has changed. `SilenceIsBounded` is below, with
  the run `seen`.
- **`AsyncRecorderProofs`**: `AccountingHolds`, `StoppedStatsHold`,
  `RowsAlwaysHaveImages`, for any capacity. `RecorderInv` strengthens them with what is
  true of each place the writer can be at: a frame in hand exactly while it is busy, an
  image of this pass between its writing and its row, one row more than written frames
  while it counts, and a writer that is done only when the queue is empty.
  `RowsAlwaysHaveImages` is for any size of the ring too. That a row not a lap behind
  has its files, but for the one being replaced, is inductive with the rest
  (`RowsKeepTheirFiles`): two passes less than a lap apart never share a place
  (`SlotsDiffer`), so a write touches no row but the one a lap behind. That a row the
  index calls overwritten has lost them (`OverwrittenAreLost`) needs that the frames in
  the index are in order (`Ordered`, below): what took its place is a later frame, and
  none of a later frame's is its own. `RecorderTypes` and `QueueAlwaysBounded` follow,
  the second with the bound of the peak. `RecorderKeepsTheLog` is the refinement
  `KeepsTheLog`: with the frames on their way in order, those in the index before the
  one in hand and that one before the queue (`Ordered`), as many frames are undecided as
  wait or are in hand, so pushing offers a frame, a row decides one, a writer that fails
  breaks the log, the join closes it, and every other step is a stutter.
  `WakeupsAreNeverLost`: a writer sleeps only on an empty queue, or with the
  notification for what is there still to come, and a join waits for a writer that was
  told to stop and is not asleep.
- **`SolveHistoryProofs`**: `HistoryTypes`, `AlwaysNewestFirst`, `AlwaysOneEntry`,
  `ListAlwaysOnDisk`, `EntryAlwaysLeadsHere`, `FinishedAlwaysStays`, `CrashNeverLoses`,
  `FollowedIsAlwaysCarriedOn` and `HistoryShowsTheLatest`, for any cubes, methods,
  capacity and number of entries. `HistoryInv` holds together what each needs of the
  others: a list, in memory or on disk, tells its entries apart by their ids and leaves
  none past its solution (`Listed`); the solution in place is of a cube that can be
  solved (`Solvable`); what was resumed is being worked out, on a screen no turn is
  taken on (`ResumingSolves`), and is what its entry says (`ResumedIsSolved`); neither
  the entry followed nor the one resumed is over (`Unfinished`); and the entry followed
  says where the cube is (`FollowedIsHere`). `EntryAlwaysLeadsHere` is under
  `~Restless`: the run `resumed` shows what a method changed while a resumed solve is
  worked out does to its entry. `FollowedIsAlwaysCarriedOn` says that the entry of the
  solve in hand is the one the history screen would carry on: the newest unfinished one.
  It needs that no unfinished entry stands before it (`FollowedFirst`), and that only
  the first turn of a solve makes an entry unfinished (`OnlyATurnOpens`). With
  `FollowedIsHere` and the file, it gives `CrashNeverLoses`: a program ended at any
  moment carries on from the very turn, unless its last write failed.
  `HistoryShowsTheLatest` is the controller's two properties once more, through restarts
  and resumed entries.
- **`ScanSessionProofs`**: `LeavesAsFound`, `NothingIsStale`, `ScansOneOpening`, for any
  list of controls and any number of openings. The first is for any set of controls the
  driver may refuse and any property changed on the way. It needs only that a control at
  the lock's number is one whose own number is in the snapshot, or one the driver
  refused before (`HeldWasFound`), which every step of the loop keeps whoever calls it.
  The other two need which states of the GUI thread and of the worker exclude each other
  (`OneCamera`: no camera opens while one runs), that every frame and report on the way
  is of the camera opened last (`FromThisOpening`), and that a scan waiting for its
  camera has read nothing (`ScanFromOneOpening`). `ScanTypes` is the types.
  `EarlyFramesStayFew` is the bound of three: a lock is answered once (`AnsweredOnce`),
  a scan that no longer waits for it has its report or waited all it would
  (`WaitedOrReported`), and the early frames counted and those still on their way
  (grabbed, in the mailbox, in hand) are three together (`EarlyAndInFlight`).
  `WaitsAreAnswered`: a GUI thread that waits for the capture thread has told it to
  stop, and a lock is awaited of a camera that runs, for so many frames.
  `OpeningIsAlwaysWanted`: a camera being opened is one the screen wants, or one that
  will be stopped as soon as it is open. `LostOnlyByReopening`, `MismatchIsBounded`,
  `DarkOnlyByOldStop` and `LeftBehindIsBounded` are below, with the runs `screen` and
  `left`.
- **`SideScanProofs`**: `SidesAlwaysInView`, `SidesStayTyped` and `NoGroupsStayAlike`,
  for any looks, number of groups and sides of a corner view of no more than that
  (`SidesAssumption`). The invariant of the frames is little more than the property. The
  work is what each operation keeps of a scan: that a removal renumbers those in view to
  what they are in the list left (`RemovedView`), that a join leaves one group less and
  no more in view (`AbsorbKeeps`), that a read brings one more into view at most
  (`CountKeeps`), and that while fewer are in view than there can be groups, there is
  one to drop that is not in view (`DropKeeps`). The recursion of `MergeAlike` and
  `CountCorner` is unfolded with two lemmas, each proved from the well-foundedness of
  the numbers with a set in place of a predicate: `Induct`, and `Iterates`, that a
  function defined from its value one before exists.
- **`PartsProofs`**, the composition: `PartsAreTheirOwn`, and from it and the theorems of
  each part `PartsStayTyped` and `PartsKeepTheirPromises`, which are all the safety
  properties of the run `parts`.
- **`PartsProofs`**, the page's isolation: `OneReloadEach` and `IsolationStaysTyped`,
  for any number of tabs and loads. A page that has reloaded itself did it for an active
  worker, is loaded through it, and for want of nothing a reload would give
  (`ReloadedForGood`).
- **`PartsProofs`**, the merging of moves: `MergingKeepsTheEffect` and
  `MergingStaysTyped`, for any faces, edges and number of moves (`MergingAssumption`: a
  face has four edges, a move three quarters at most). What is reached is a line whose
  steps are in order (`MergingInv`); the rest is about every such line. What `Merged`
  and `Effect` make of a line is what they make of it without its last move, and then of
  that (`MergedStep`, `EffectStep`). By induction over the line with `Induct`, the stack
  stays one without two moves of a face in a row and with its steps in order, and does
  what the line does (`PushedWell`, by the four cases of `Push`; two turns of a face are
  their sum, `TurnedTwice`), and a stack pushed on anew is itself (`MergedAgain`).
- **`PartsProofs`**, the profile recorder: `RecorderTypes` and `NothingTorn`, for any
  number of writing threads, slots and words of an event. A slot with an even number
  holds that event whole (`EvenIsWhole`); the number of a slot only grows, so a reader
  that finds the number it found before knows that nothing was written in between
  (`ReadSoFar`); and no two writers are on one slot (`OwnSlots`). All of it until
  `clear()`, which is what the property says.
- **`WebCameraProofs`**: `CameraTypes` and `NothingStaysOn`, for any number of openings
  and any controls. The invariant says what the calls on their way can be
  (`CallsInOrder`), that no session is ahead of the last request (`Unasked`), that a
  failed start has no current camera (`FailedIsGone`), and how current and on go
  together (`OnIsCurrent`, `NoneCurrent`). `LeavesModesAsFound` and `ReportsAreSo` are
  under the two conditions of the properties, for any openings whose read-backs may
  fail. The invariant of the first is that one session at a time has anything to put
  back or a lock that asked for it (`OneHolds`), that what differs from what was found
  is that session's, or was left by a read-back that failed (`ChangedIsSomeones`), that
  a lock knows what was manual when it read, and takes for so no more than what was left
  like that (`KnowsWhatWas`), and that a lock under way is of a camera that is on
  (`OnWhenOpen`). It is proved step by step for each await of the lock. The second adds
  that a caller who was told of a camera has it open (`AnswersLive`), that a report is
  of a lock that is over (`Told`), that what a lock has down as held is held, but for
  what it has just asked for again (`HeldIsHeld`), and that no other session has the
  device open while a lock is at work or is reported (`Alone`). `LettingGoIsUnderWay`
  and `LettingGoNeverTurnsBack` are what `LetGoIsOff` rests on: a camera being let go of
  waits for a lock that is under way or for its modes to be put back, never for nothing
  (`Quiet`), is never taken back into use, and has fewer steps left (`StepsLeft`) after
  whatever happens to it.

What is assumed of the constants, besides sizes (`SidesAssumption` says there can be as
many groups as a corner view shows sides: 24 and three in the code) and
`MergingAssumption`, and `LoadsCounted`, that the bound on loads is a number:
`SolverAssumption` and `ScanAssumption`, above; `TurnAssumption`, that the cubes of a
solution follow one another by its turns, which is how `SteppedSolution::from` makes
them, and that a turn of a cube is a cube; and `ViewAssumption`, that holds and stickers
are few and that what a misread sticker comes out as is a colour no sticker has. The
last is the model's own choice of what glare is: a sticker misread as another sticker's
colour is not modelled.

Every invariant and action property of a passing run has its theorem. Only model-checked
is liveness (`CompleteScanMovesOn`, both `StopReturns`, `EveryFrameIsDecided`,
`LockIsNotAwaitedForGood`, `LetGoIsOff`), which with fairness and ENABLED is out of the
prover's reach. The part of each that is safety is proved, that whoever waits waits for
something that is still to come: `CompleteScanNeverStuck`, `WakeupsAreNeverLost`,
`WaitsAreAnswered`, and `LettingGoIsUnderWay` with `LettingGoNeverTurnsBack`. What is left
to TLC is that, under the fairness above, it comes. No module that is proved about reaches
a RECURSIVE operator.

## Where the code and its documentation disagree

Six runs each check one sentence of the source and find it violated; for five of them a
theorem says how far it goes.

- `lost`: "Changing it re-solves from the cube as it stands, so nothing already
  turned is lost" (`solve_controller.hpp:41-43`). A turn already made on the cube
  and being shown is lost, because the animation is dropped and the new solution
  starts before it.
- `seen`: `moveSeen` is "Emitted once per move; whoever listens steps the solution
  on" (`held_cube.hpp:124-125`). Leaving the screen during the step loses it, and
  the camera does not say it again. That it is said once is so (`SeenOncePerMove`).
  It is left unstepped in these cases only (`SilenceIsBounded`): the solve screen is
  entered with the move announced; a step was dropped before and its move is announced
  after that; or a step lands on a cube that looks the same, which no turn of a real cube
  does. The second is another way to it: a method chosen while a step is shown drops the
  animation, but `pendingStep` stays set, and the next move seen is not stepped, since
  `onMoveSeen` asks for `pendingStep === 0` (`SolveScreen.qml:169-172`), until a button is
  pressed.
- `keep`: switched off, "nothing is added or changed" (`solve_history.hpp:25-26`).
  The entry being followed is, or the one resumed, and no other (`KeepOffIsBounded`).
- `resumed`: "The entry already says everything it should"
  (`solve_history.cpp:229-236`). Not when the method was changed while the resumed
  solve was worked out; and in no other case (`ResumedSaysEverything`, under `~Restless`).
- `screen`: "Starts/stops the live capture to match the screen shown"
  (`AppState.qml:38`). A scan cancelled in the moment between the end of the worker
  that opened the camera and its event on the GUI thread stops nothing, because the
  future is no longer running and `running_` is not yet set; the camera goes on
  capturing on the launch screen. `MismatchIsBounded`: this and a camera lost are the only
  ways. A camera is lost when a scan is begun again in that same moment, and only then
  (`LostOnlyByReopening`): the new future drops the first one's event, the second start
  fails because the camera captures (`opencv_capture_loop.cpp:61`), and the camera is
  neither read nor stopped from then on, nor can any retry open it. The reverse, a scan
  screen with no camera and no error, takes a stop queued while a camera opened that then
  failed: `start()` does not take that stop back when nothing is opening
  (`direct_scan.cpp:305-321`), and the next camera is dropped for it
  (`DarkOnlyByOldStop`). And a scan that completes on another screen, with a camera that
  came late, sets `scanComplete` all the same (`AppState.qml:74-77`).
- `left`: "Records what it overwrote in `as_found`" (`photometry_lock.hpp:44`). The
  white-balance temperature is overwritten, not recorded and not put back, by a driver
  that refuses nothing. `LeftBehindIsBounded` lists what else stays: the automatic
  exposure, which a write to the exposure drops (`interfaces/camera.hpp:94-98`,
  `photometry_lock.cpp:125-131`) and writing the number back cannot give again, though
  `direct_scan.cpp:409` says that stopping "puts the camera's exposure and white balance
  back as found"; and a control the driver refuses to take back, since `restore` does not
  read its writes back as `apply_one` does, and forgets the number all the same, so that
  the next lock takes what was left for what was found. The numbers of the four controls
  are otherwise put back, which is what `LeftAsFound` says.

Others have no run of their own. Of the recorders and of the browser build:

- the index is "the authoritative wrap detector" of a recording
  (`frame_recording.hpp:19`): a row a lap or more behind the newest has lost its files,
  and any other has them. Not the row a lap behind a pass whose image was written and
  whose row was not, because the second write failed or the program died between them:
  nothing in the index says so, and a replay pairs it with a later frame's picture.
  `RowsHaveImages` names that one row (`BeingReplaced`), and only once a recording is
  longer than the ring;
- a camera is put back in the modes it was found in when it is let go of
  (`camera_web.js:121-125`). Not a mode whose read-back after the request failed or took
  longer than the script waits: it is neither reverted nor recorded, and the next lock
  finds it in manual and takes it for the camera's own. `ModesPutBack` is stated of the
  others (`unread`);
- a snapshot returns "either a whole event or none" (`recorder.hpp:119-121`). After
  `clear()` the numbers start again and the slots keep theirs, so a reader can take an
  event of before for one of after, or one half overwritten for a whole one.
  `NoTornEvent` is stated of a ring that has not been cleared. `profile_web.js` can clear
  while other threads record;
- a lock is answered, always (`camera_web.js:626-630`, `camera_web.cpp:461-463`). Not
  once the track has ended: `Settled` finds the session inactive and reports nothing.
  `DirectScan` counts frames while it waits, and none come;
- a camera opened while the one before is still being put back can be read by its lock in
  modes that are not its own, and it then leaves them so. It takes a stop and a start
  within the time the driver needs. `ModesPutBack` and `WhatIsReportedIsSo` are stated
  without it (`overlapped`).

In `cubeulator-isolation.js`, a page that another tab's worker claims before its own
`register()` has answered is told that the headers did not help, instead of reloading;
and nobody listens for a worker that cannot be installed, so that page waits for good.
A person's reload mends both.

Two more are harmless. `direct_scan.cpp:516-517` says of the frames a scan is built
from "none before the camera has settled": the frame being polled when the report
comes, one in the mailbox and one in the capture thread's hand are from before it.
There are never more than three (`EarlyFramesAreFew`), and a side needs eight reads.
And `solve_controller.cpp:154-156` says a scan cannot complete
while a solve is in flight. It can (cancel the scan during its beat and scan
again), and the model shows that the later cube wins, as it should.

## What is not modelled and why

The solvers, colour resolution, corner views, the assembly of a cube from its sides and
the image processing are numerical or search a state space out of TLC's reach; their
contract is `SolverAssumption`, and that a completed scan can be solved
(`ScanAssumption`). The mobile cameras answer every call with an error. A program
killed while a lock is held leaves the driver as it is; no code runs that could do
otherwise. Of the modelled parts, left out are the list of cameras and its enumeration,
`request_photometry_restore` (nothing calls it), the text outputs of the recorders, a
history file that cannot be read, and of `SideScan` the list of corner views.
`profile_web.js`, `settings_web.js` and `driver_web.js` are thin bridges that keep
nothing. Languages, diagnostics, window geometry, theming, layout and packaging have
no state the properties are about.

The `.ts` files of the repository are not TypeScript: `src/app/i18n/translations/*.ts`,
22,094 lines, are Qt message catalogues (generated XML). The JavaScript is the browser
platform layer, some 1,000 lines, of which the camera and the isolation script are
modelled, and a prototype under `docs`. The program is C++ and QML.

## Plan

1. `SolveController`, `HeldCube`, `SolveSession`, `AsyncRecorder` with `FrameLog`,
   `SolveHistory`, `CaptureLoop` and `ScanSession`: done.
2. `WebCamera`, `ProfileRecorder`, `SideScan`, `MoveMerging`, `PageIsolation`: done.
3. `Parts`, and what it makes of the theorems of its parts: done.
4. Proofs: every invariant and action property that a run finds to hold is proved, and the
   safety part of each liveness property: done.
5. Left for another time: the device list a scan needs, and another device chosen while
   one opens; the list of corner views; a history file that cannot be read; a common
   abstract camera, with the refinements of it by `CaptureLoop` and `WebCamera`.

## Running it

```
tlc -workers 2 -config MCSolveSession.cfg MCSolveSession
tlc -workers 2 -config MCSolveSession_camera.cfg MCSolveSession
tlc -workers 2 -config MCAsyncRecorder.cfg MCAsyncRecorder
tlc -workers 2 -config MCSolveHistory.cfg MCSolveHistory
tlc -workers 2 -config MCScanSession.cfg MCScanSession
tlc -workers 2 -config MCParts.cfg MCParts
tlapm SolveControllerProofs.tla
tlapm SolveSessionProofs.tla
tlapm AsyncRecorderProofs.tla
tlapm SolveHistoryProofs.tla
tlapm ScanSessionProofs.tla
tlapm WebCameraProofs.tla
tlapm SideScanProofs.tla
tlapm PartsProofs.tla
```

------------------------------ MODULE ScanSession ------------------------------
(***************************************************************************)
(* DirectScan and the screens that start, watch and stop it, over the      *)
(* capture loop it drives.                                                 *)
(*                                                                         *)
(* The camera is opened on a worker.  When the worker has ended, its       *)
(* result waits as an event for the GUI thread; QFutureWatcher::isRunning  *)
(* already says no, since it asks the future and not the event.  A new     *)
(* future takes the event away.  Stopping the camera makes the GUI thread  *)
(* wait for the capture thread, and polling it takes the frame and the     *)
(* report one after the other.                                             *)
(*                                                                         *)
(* What the frames show is left out: a frame that counts may be the one    *)
(* that completes the scan.  The solver, and the beat after a scan, are in *)
(* SolveSession; here the solution shows some time after the scan is       *)
(* complete.                                                               *)
(***************************************************************************)
EXTENDS CaptureLoop, FiniteSets

CONSTANTS
  LockWait,   \* kLockWaitFrames
  EarlyMost   \* bound: early frames are counted to one more than this

ASSUME ScanAssumption == LockWait \in Nat /\ EarlyMost \in Nat

VARIABLES
  opening,      \* start_watcher_: "no", "working", or "landed" with its event to come
  openResult,   \* its result: did the camera open?
  stopQueued,   \* stop_requested_while_starting_
  running,      \* running_, and poll_timer_'s
  watching,     \* watching_
  awaiting,     \* awaiting_lock_
  waited,       \* frames_awaiting_lock_, counted to one more than LockWait
  lockReport,   \* lock_report_
  scanned,      \* scanned_ is set
  failed,       \* camera_error_ is set
  gui,          \* what the GUI thread is in the middle of
  hand,         \* the frame poll() holds
  screen, previous, scanComplete, solveCamera,   \* AppState's
  sources,      \* history: the openings the frames of this scan are from
  early         \* history: frames of this scan from before the camera had settled

scanVars == <<opening, openResult, stopQueued, running, watching, awaiting, waited,
              lockReport, scanned, failed>>
guiVars == <<gui, hand>>
screenVars == <<screen, previous, scanComplete, solveCamera>>
seenVars == <<sources, early>>
vars == <<captureVars, scanVars, guiVars, screenVars, seenVars>>

Screens == {"launch", "scan", "solve", "settings", "history", "complete"}

Init ==
  /\ CaptureInit
  /\ opening = "no" /\ openResult = FALSE
  /\ stopQueued = FALSE /\ running = FALSE /\ watching = FALSE
  /\ awaiting = FALSE /\ waited = 0 /\ lockReport = None
  /\ scanned = FALSE /\ failed = FALSE
  /\ gui = "idle" /\ hand = None
  /\ screen = "launch" /\ previous = "launch"
  /\ scanComplete = FALSE /\ solveCamera = TRUE
  /\ sources = {} /\ early = 0

-----------------------------------------------------------------------------
(* DirectScan *)

\* Mutant of Restart: the sides read so far stay.
RestartNothing == UNCHANGED <<scanned, sources, early>>

\* restart(): every side read so far is forgotten.
Restart == scanned' = FALSE /\ sources' = {} /\ early' = 0

\* openCamera: a worker starts, and what the one before had to say is dropped.
OpenOnWorker ==
  /\ opening' = "working"
  /\ lockReport' = None
  /\ failed' = FALSE

\* stop(), up to the join.  The GUI thread goes on in `next'.
StopCamera(next) == AskToStop /\ gui' = next

\* start(): a camera still opening is kept, one that runs is stopped first.
Start ==
  /\ watching' = FALSE
  /\ UNCHANGED <<openResult, running, awaiting, waited>>
  /\ \/ /\ opening = "working"
        /\ stopQueued' = FALSE
        /\ Restart
        /\ UNCHANGED <<captureVars, gui, opening, lockReport, failed>>
     \/ /\ opening # "working" /\ running
        /\ StopCamera("reopening")
        /\ UNCHANGED <<opening, stopQueued, lockReport, failed, scanned, sources, early>>
     \/ /\ opening # "working" /\ ~running
        /\ Restart
        /\ OpenOnWorker
        /\ UNCHANGED <<captureVars, gui, stopQueued>>

\* watch()
Watch ==
  /\ watching' = TRUE
  /\ IF opening = "working" THEN stopQueued' = FALSE ELSE UNCHANGED stopQueued
  /\ IF opening # "working" /\ ~running
     THEN OpenOnWorker ELSE UNCHANGED <<opening, lockReport, failed>>
  /\ UNCHANGED <<captureVars, gui, openResult, running, awaiting, waited, scanned, sources, early>>

\* stop(), called while the camera runs or is opening.
Stop ==
  /\ \/ opening = "working" /\ stopQueued' = TRUE /\ UNCHANGED <<captureVars, gui>>
     \/ opening # "working" /\ running /\ StopCamera("stopping") /\ UNCHANGED stopQueued
  /\ UNCHANGED <<opening, openResult, running, watching, awaiting, waited, lockReport,
                 scanned, failed, sources, early>>

\* The camera has stopped: the rest of stop(), and of the start() it was for.
Stopped ==
  /\ gui \in {"stopping", "reopening"}
  /\ Joined
  /\ gui' = "idle"
  /\ running' = FALSE /\ watching' = FALSE /\ awaiting' = FALSE
  /\ IF gui = "reopening" THEN Restart /\ OpenOnWorker
     ELSE UNCHANGED <<opening, lockReport, failed, scanned, sources, early>>
  /\ UNCHANGED <<openResult, stopQueued, waited, hand, screenVars>>

\* The worker: the camera opens, or does not.  It cannot while it is capturing.
WorkerOpens ==
  /\ opening = "working"
  /\ opening' = "landed"
  /\ \/ OpenCamera /\ openResult' = TRUE
     \/ UNCHANGED captureVars /\ openResult' = FALSE
  /\ UNCHANGED <<stopQueued, running, watching, awaiting, waited, lockReport, scanned, failed,
                 guiVars, screenVars, seenVars>>

\* Mutant of Opened: the lock is not waited for.
OpenedForScanning ==
  /\ openResult /\ ~stopQueued
  /\ RequestLock
  /\ awaiting' = FALSE /\ waited' = 0
  /\ running' = TRUE
  /\ UNCHANGED <<gui, failed>>

\* handleStartFinished, the camera open and wanted: its lock is asked for.
Opened ==
  /\ openResult /\ ~stopQueued
  /\ RequestLock
  /\ awaiting' = TRUE /\ waited' = 0
  /\ running' = TRUE
  /\ UNCHANGED <<gui, failed>>

OpenFailed ==
  /\ ~openResult
  /\ failed' = TRUE
  /\ UNCHANGED <<captureVars, gui, running, awaiting, waited>>

\* The camera is open, and was to be stopped meanwhile.
OpenedInVain ==
  /\ openResult /\ stopQueued
  /\ StopCamera("dropping")
  /\ UNCHANGED <<failed, running, awaiting, waited>>

StartFinished ==
  /\ gui = "idle" /\ opening = "landed"
  /\ opening' = "no"
  /\ stopQueued' = FALSE
  /\ Opened \/ OpenFailed \/ OpenedInVain
  /\ UNCHANGED <<openResult, watching, lockReport, scanned, hand, screenVars, seenVars>>

Dropped ==
  /\ gui = "dropping"
  /\ Joined
  /\ gui' = "idle"
  /\ UNCHANGED <<scanVars, hand, screenVars, seenVars>>

-----------------------------------------------------------------------------
(* Frames *)

\* poll(): the frame first.
PollFrame ==
  /\ gui = "idle" /\ running
  /\ PopFrame
  /\ hand' = mailbox
  /\ gui' = "polling"
  /\ UNCHANGED <<scanVars, screenVars, seenVars>>

\* The wait for the lock ends with its report, or after LockWait frames without.
LockAwaited ==
  /\ waited' = IF report # None \/ waited > LockWait THEN waited ELSE waited + 1
  /\ awaiting' = (awaiting /\ report = None /\ waited' <= LockWait)

\* processFrame: is it one the scan is built from?
Counts == ~watching /\ ~scanned /\ ~awaiting'

\* Frames that count because the wait has run out are no early ones, until the
\* report comes all the same.
Early(frame) == ~frame.settled /\ (waited' <= LockWait \/ lockReport' # None)

\* A frame that counts, which may complete the scan.
CountFrame ==
  /\ sources' = sources \cup {hand.opening}
  /\ early' = IF Early(hand) /\ early <= EarlyMost THEN early + 1 ELSE early
  /\ scanned' \in BOOLEAN
  /\ scanComplete' = (scanComplete \/ scanned')

\* Mutant of PollReport: while the lock is awaited a frame is only shown.
PollPreview ==
  /\ gui = "polling"
  /\ IF awaiting THEN UNCHANGED <<captureVars, lockReport, awaiting, waited>>
     ELSE TakeReport /\ LockAwaited /\ lockReport' = IF report # None THEN report ELSE lockReport
  /\ IF Counts THEN CountFrame ELSE UNCHANGED <<sources, early, scanned, scanComplete>>
  /\ hand' = None
  /\ gui' = "idle"
  /\ UNCHANGED <<opening, openResult, stopQueued, running, watching, failed,
                 screen, previous, solveCamera>>

\* poll() goes on: the report, and the frame.
PollReport ==
  /\ gui = "polling"
  /\ TakeReport
  /\ lockReport' = IF report # None THEN report ELSE lockReport
  /\ LockAwaited
  /\ IF Counts THEN CountFrame ELSE UNCHANGED <<sources, early, scanned, scanComplete>>
  /\ hand' = None
  /\ gui' = "idle"
  /\ UNCHANGED <<opening, openResult, stopQueued, running, watching, failed,
                 screen, previous, solveCamera>>

-----------------------------------------------------------------------------
(* Screens *)

\* onScreenChanged: the camera is started, kept or stopped for the screen.
Camera(s) ==
  IF s = "scan" THEN Start
  ELSE IF s = "solve" /\ solveCamera' THEN Watch
  ELSE IF running \/ opening = "working" THEN Stop
  ELSE UNCHANGED <<captureVars, scanVars, gui, sources, early>>

GoTo(s) ==
  /\ gui = "idle"
  /\ screen' = s
  /\ scanComplete' = (scanComplete /\ s = "scan")
  /\ Camera(s)
  /\ UNCHANGED hand

Keep == solveCamera' = solveCamera /\ UNCHANGED previous

\* Entering the scan screen.
Scan == GoTo("scan") /\ solveCamera' = TRUE /\ UNCHANGED previous

BeginScan == screen \in {"launch", "complete", "solve"} /\ Scan
CancelScan == screen = "scan" /\ Keep /\ GoTo("launch")
ShowSolution == screen = "scan" /\ scanComplete /\ Keep /\ GoTo("solve")
Finish == screen = "solve" /\ Keep /\ GoTo("complete")
OpenHistory == screen = "launch" /\ Keep /\ GoTo("history")
CloseHistory == screen = "history" /\ Keep /\ GoTo("launch")

\* resumeSolve: nothing was scanned for the camera to be matched against.
Resume == screen = "history" /\ solveCamera' = FALSE /\ GoTo("solve") /\ UNCHANGED previous

OpenSettings ==
  /\ screen # "settings"
  /\ previous' = screen /\ solveCamera' = solveCamera
  /\ GoTo("settings")

CloseSettings ==
  /\ screen = "settings"
  /\ solveCamera' = (solveCamera \/ previous = "scan")
  /\ GoTo(previous)
  /\ UNCHANGED previous

\* "Start over" on the scan screen, and "Try again" in its place.
StartOver ==
  /\ screen = "scan" /\ gui = "idle" /\ ~scanComplete /\ ~failed
  /\ Restart
  /\ UNCHANGED <<captureVars, opening, openResult, stopQueued, running, watching, awaiting,
                 waited, lockReport, failed, guiVars, screenVars>>

TryAgain ==
  /\ screen = "scan" /\ gui = "idle" /\ failed /\ opening # "working"
  /\ Start
  /\ UNCHANGED <<hand, screenVars>>

Navigate ==
  \/ BeginScan \/ CancelScan \/ ShowSolution \/ Finish
  \/ OpenHistory \/ CloseHistory \/ Resume
  \/ OpenSettings \/ CloseSettings
  \/ StartOver \/ TryAgain

\* The capture thread goes on by itself.
ElseUnchanged == UNCHANGED <<scanVars, guiVars, screenVars, seenVars>>

Next ==
  \/ Navigate
  \/ WorkerOpens \/ StartFinished \/ Stopped \/ Dropped
  \/ PollFrame \/ PollReport
  \/ (CaptureThread \/ Grab \/ GrabFails \/ PublishMeasured) /\ ElseUnchanged

\* The capture thread runs, and its camera may fail to deliver a frame now and
\* then but not for ever.  The GUI thread goes on with what it is in the middle
\* of, and its timer polls.
Fairness ==
  /\ WF_vars(CaptureThread /\ ElseUnchanged) /\ SF_vars(Grab /\ ElseUnchanged)
  /\ WF_vars(Stopped \/ Dropped \/ PollReport) /\ SF_vars(PollFrame)

Spec == Init /\ [][Next]_vars
FairSpec == Spec /\ Fairness

-----------------------------------------------------------------------------
\* The type of the session's state.
TypeOK ==
  /\ CaptureTypeOK
  /\ opening \in {"no", "working", "landed"}
  /\ openResult \in BOOLEAN /\ stopQueued \in BOOLEAN /\ running \in BOOLEAN
  /\ watching \in BOOLEAN /\ awaiting \in BOOLEAN /\ waited \in 0..(LockWait + 1)
  /\ lockReport \in Reports \cup {None}
  /\ scanned \in BOOLEAN /\ failed \in BOOLEAN
  /\ gui \in {"idle", "stopping", "reopening", "dropping", "polling"}
  /\ hand \in Frames \cup {None}
  /\ screen \in Screens /\ previous \in Screens \ {"settings"}
  /\ scanComplete \in BOOLEAN /\ solveCamera \in BOOLEAN
  /\ sources \subseteq 1..MaxOpens /\ early \in 0..(EarlyMost + 1)

\* A scan is of one opening of the camera, whose exposure and white balance
\* were fixed for it: whatever screens were visited on the way, sides measured
\* under another exposure are never put together with these.
OneOpeningPerScan == Cardinality(sources) <= 1

\* The frames and the report DirectScan works with are those of the camera it
\* has now: nothing of the session before is read as this one's.
NothingStale ==
  /\ hand # None => hand.opening = opened
  /\ running /\ lockReport # None => lockReport.opening = opened

\* At most three frames grabbed before the camera had settled are counted after
\* its report: the one poll() had taken when the report came, one left in the
\* mailbox while the white balance was measured, and the one the capture thread
\* held while it applied the lock.  A side needs more reads to count (kMinReads).
EarlyFramesAreFew == early <= EarlyMost

\* The wait for the lock ends, by its report or because enough frames have been
\* waited for, unless the camera is stopped first.
LockIsNotAwaitedForGood == awaiting ~> ~awaiting

\* stop() returns: the capture thread always comes to see that it is to stop.
StopReturns == gui \in {"stopping", "reopening", "dropping"} ~> gui = "idle"

\* AppState.qml: onScreenChanged "Starts/stops the live capture to match the
\* screen shown".  With nothing still opening or stopping, the camera captures
\* only for a screen that shows it.
CaptureMatchesScreen ==
  IsCapturing /\ opening = "no" /\ gui \in {"idle", "polling"} =>
    screen \in {"scan", "solve"}

=============================================================================

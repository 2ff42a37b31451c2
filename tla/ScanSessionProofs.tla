--------------------------- MODULE ScanSessionProofs ---------------------------
(***************************************************************************)
(* What a scan session keeps, for any camera, however often it opens and   *)
(* however long its lock takes.                                            *)
(***************************************************************************)
EXTENDS ScanSession, FiniteSetTheorems, TLAPS

\* A control with nothing kept of it is as it was found, unless it was refused
\* once; of one that the lock has taken, what was kept is what it was.
ControlKept(c) ==
  /\ asFound[c] = None => (driver[c] = "locked" <=> c \in refused)
  /\ asFound[c] = "found" => c \notin refused
  /\ asFound[c] = "locked" => c \in refused
  /\ asFound[c] # None => driver[c] = "locked"

DriverTypeOK ==
  /\ driver \in [Properties -> {"found", "locked"}]
  /\ asFound \in [ControlSet -> {"found", "locked", None}]
  /\ place \in 1..(Len(Controls) + 1)

\* Nothing is kept once the camera has stopped, so that the next lock keeps what
\* it finds.
HeldWasFound ==
  /\ DriverTypeOK
  /\ \A c \in ControlSet : ControlKept(c)
  /\ ~IsCapturing => asFound = Untouched

\* The camera runs only while it captures, and never while one is opening; the
\* GUI thread holds a frame, or waits for the thread, only of a camera that is
\* there.
OneCamera ==
  /\ thread # "none" \/ ~running
  /\ opening # "no" => ~running
  /\ opening = "landed" /\ openResult => thread # "none"
  /\ gui \in {"polling", "stopping", "reopening"} => running
  /\ gui = "dropping" => ~running /\ opening = "no"
  /\ hand # None <=> gui = "polling"
  /\ gui \in {"idle", "polling", "stopping", "reopening", "dropping"}
  /\ opening \in {"no", "working", "landed"}

\* Frames and reports are of the camera opened last.
FromThisOpening ==
  /\ grabbed # None => grabbed.opening = opened
  /\ mailbox # None => mailbox.opening = opened
  /\ hand # None => hand.opening = opened
  /\ report # None => report.opening = opened
  /\ lockReport # None => lockReport.opening = opened
  /\ opening # "no" => lockReport = None

\* A scan that is being read is of the camera that runs; one that waits for its
\* camera has read nothing.
ScanFromOneOpening ==
  /\ \E n \in Nat : sources \subseteq {n}
  /\ ~watching /\ opening # "no" => sources = {}
  /\ ~watching /\ running /\ gui \in {"idle", "polling"} => sources \subseteq {opened}
  /\ opened \in Nat

SessionInv == OneCamera /\ FromThisOpening /\ ScanFromOneOpening

\* What a step of the session does to the capture loop.
ThreadSteps == LoopOn \/ Service \/ ApplyOne \/ Report \/ Publish
               \/ Grab \/ GrabFails \/ PublishMeasured
CallerSteps == \/ OpenCamera \/ AskToStop \/ Joined \/ PopFrame \/ TakeReport
               \/ RequestLock /\ opening = "landed" /\ openResult

\* A screen shown starts, keeps or stops the camera, or leaves it as it is.
LEMMA NavigateIs ==
  ASSUME Navigate
  PROVE  /\ gui = "idle" /\ hand' = hand
         /\ Start \/ Watch \/ Stop \/ StartOver
            \/ UNCHANGED <<captureVars, scanVars, gui, sources, early>>
<1>1. ASSUME NEW s, GoTo(s)
      PROVE  /\ gui = "idle" /\ hand' = hand
             /\ Start \/ Watch \/ Stop
                \/ UNCHANGED <<captureVars, scanVars, gui, sources, early>>
  BY <1>1 DEF GoTo, Camera
<1>2. CASE BeginScan
  BY <1>1, <1>2 DEF BeginScan, Scan
<1>3. CASE CancelScan \/ ShowSolution \/ Finish \/ OpenHistory \/ CloseHistory
  BY <1>1, <1>3 DEF CancelScan, ShowSolution, Finish, OpenHistory, CloseHistory
<1>4. CASE Resume \/ OpenSettings \/ CloseSettings
  BY <1>1, <1>4 DEF Resume, OpenSettings, CloseSettings
<1>5. CASE StartOver
  BY <1>5 DEF StartOver, guiVars
<1>6. CASE TryAgain
  BY <1>6 DEF TryAgain
<1> QED
  BY <1>2, <1>3, <1>4, <1>5, <1>6 DEF Navigate

-----------------------------------------------------------------------------
(* The driver's controls *)

LEMMA CaptureStep ==
  ASSUME Next
  PROVE  ThreadSteps \/ CallerSteps \/ UNCHANGED captureVars
<1>1. CASE Navigate
  BY <1>1, NavigateIs DEF Start, Watch, Stop, StartOver, StopCamera, CallerSteps
<1>2. CASE WorkerOpens
  BY <1>2 DEF WorkerOpens, CallerSteps
<1>3. CASE StartFinished
  BY <1>3 DEF StartFinished, Opened, OpenFailed, OpenedInVain, StopCamera, CallerSteps
<1>4. CASE Stopped \/ Dropped
  BY <1>4 DEF Stopped, Dropped, CallerSteps
<1>5. CASE PollFrame \/ PollReport
  BY <1>5 DEF PollFrame, PollReport, CallerSteps
<1>6. CASE (CaptureThread \/ Grab \/ GrabFails \/ PublishMeasured) /\ ElseUnchanged
  BY <1>6 DEF CaptureThread, ThreadSteps
<1> QED
  BY <1>1, <1>2, <1>3, <1>4, <1>5, <1>6 DEF Next

LEMMA HeldWasFoundInit == CaptureInit => HeldWasFound
<1> SUFFICES ASSUME CaptureInit PROVE HeldWasFound
  OBVIOUS
<1>1. Len(Controls) \in Nat /\ \A c \in ControlSet : c \in Properties
  BY CaptureAssumption DEF Properties
<1>2. DriverTypeOK
  BY <1>1 DEF CaptureInit, DriverTypeOK, Untouched
<1>3. \A c \in ControlSet : ControlKept(c)
  BY <1>1, CaptureAssumption DEF CaptureInit, ControlKept, Untouched
<1> QED
  BY <1>2, <1>3 DEF CaptureInit, HeldWasFound

\* Holding a control changes no other, and keeps what it was.
LEMMA ApplyOneKeeps ==
  ASSUME HeldWasFound, ApplyOne
  PROVE  HeldWasFound'
<1> DEFINE control == Controls[place]
<1>1. /\ Len(Controls) \in Nat /\ place \in DOMAIN Controls /\ place' \in 1..(Len(Controls) + 1)
      /\ UNCHANGED <<refused, thread>> /\ thread = "apply"
  BY CaptureAssumption DEF HeldWasFound, DriverTypeOK, ApplyOne, ThreadAt
<1>2. control \in ControlSet /\ control \in Properties
  BY <1>1 DEF ControlSet, Properties
<1>3. "temperature" \notin ControlSet /\ "autoExposure" \notin ControlSet
  BY CaptureAssumption DEF ControlSet
<1>4. \A aside \in Aside(control) : aside \subseteq {"temperature", "autoExposure"}
  BY CaptureAssumption DEF Aside
<1>5. \A aside \in AsideOfRefused(control) : aside \subseteq {"temperature", "autoExposure"}
  BY <1>4 DEF AsideOfRefused
<1>6. driver \in [Properties -> {"found", "locked"}] /\ asFound \in [ControlSet -> {"found", "locked", None}]
  BY DEF HeldWasFound, DriverTypeOK
<1>7. CASE /\ \E aside \in Aside(control) : driver' = Locking({control} \cup aside)
           /\ asFound' = IF asFound[control] # None THEN asFound
                         ELSE [asFound EXCEPT ![control] = driver[control]]
  <2>1. PICK aside \in Aside(control) : driver' = Locking({control} \cup aside)
    BY <1>7
  <2>2. driver' \in [Properties -> {"found", "locked"}]
    BY <1>6, <2>1 DEF Locking
  <2>3. driver'[control] = "locked" /\ \A c \in ControlSet \ {control} : driver'[c] = driver[c]
    BY <1>2, <1>3, <1>4, <2>1 DEF Locking, Properties
  <2>4. asFound' \in [ControlSet -> {"found", "locked", None}]
    BY <1>2, <1>6, <1>7
  <2>5. /\ asFound'[control] = IF asFound[control] # None THEN asFound[control] ELSE driver[control]
        /\ \A c \in ControlSet \ {control} : asFound'[c] = asFound[c]
    BY <1>2, <1>6, <1>7
  <2>6. driver[control] \in {"found", "locked"} /\ None \notin {"found", "locked"}
    BY <1>2, <1>6, CaptureAssumption
  <2>7. \A c \in ControlSet : ControlKept(c)'
    <3>1. ASSUME NEW c \in ControlSet, c # control PROVE ControlKept(c)'
      <4>1. driver'[c] = driver[c] /\ asFound'[c] = asFound[c] /\ ControlKept(c)
        BY <2>3, <2>5, <3>1 DEF HeldWasFound
      <4> QED
        BY <1>1, <4>1 DEF ControlKept
    <3>2. ControlKept(control)
      BY <1>2 DEF HeldWasFound
    <3>3. ASSUME NEW c \in ControlSet, c = control PROVE ControlKept(c)'
      <4>1. /\ driver'[c] = "locked" /\ ControlKept(c) /\ driver[c] \in {"found", "locked"}
            /\ asFound'[c] = IF asFound[c] # None THEN asFound[c] ELSE driver[c]
        BY <2>3, <2>5, <2>6, <3>2, <3>3
      <4> QED
        BY <1>1, <2>6, <4>1 DEF ControlKept
    <3> QED
      BY <3>1, <3>3
  <2> QED
    BY <1>1, <2>2, <2>4, <2>7 DEF HeldWasFound, DriverTypeOK, IsCapturing
<1>8. CASE (\E aside \in AsideOfRefused(control) : driver' = Locking(aside)) /\ UNCHANGED asFound
  <2>1. PICK aside \in AsideOfRefused(control) : driver' = Locking(aside)
    BY <1>8
  <2>2. driver' \in [Properties -> {"found", "locked"}]
    BY <1>6, <2>1 DEF Locking
  <2>3. \A c \in ControlSet : driver'[c] = driver[c]
    BY <1>3, <1>5, <2>1 DEF Locking, Properties
  <2>4. \A c \in ControlSet : ControlKept(c)'
    BY <1>1, <1>8, <2>3 DEF HeldWasFound, ControlKept
  <2> QED
    BY <1>1, <1>6, <1>8, <2>2, <2>4 DEF HeldWasFound, DriverTypeOK, IsCapturing
<1> QED
  BY <1>7, <1>8 DEF ApplyOne

\* What stop() writes back is what the control was, if the driver takes it.
LEMMA JoinedKeeps ==
  ASSUME HeldWasFound, Joined
  PROVE  HeldWasFound'
<1> DEFINE kept == {c \in ControlSet : asFound[c] # None}
<1>1. PICK taken \in SUBSET kept :
        /\ driver' = [p \in Properties |-> IF p \in taken THEN asFound[p] ELSE driver[p]]
        /\ refused' = refused \cup (kept \ taken)
  BY DEF Joined
<1>2. /\ driver \in [Properties -> {"found", "locked"}]
      /\ asFound \in [ControlSet -> {"found", "locked", None}]
      /\ asFound' = Untouched /\ place' = place
  BY DEF HeldWasFound, DriverTypeOK, Joined
<1>3. \A c \in ControlSet : asFound[c] \in {"found", "locked", None} /\ c \in Properties
  BY <1>2 DEF Properties
<1>4. driver' \in [Properties -> {"found", "locked"}]
  BY <1>1, <1>2, <1>3
<1>5. ASSUME NEW c \in ControlSet PROVE asFound'[c] = None /\ ControlKept(c)'
  <2>1. asFound'[c] = None /\ ControlKept(c)
    BY <1>2 DEF Untouched, HeldWasFound
  <2>2. driver'[c] = (IF c \in taken THEN asFound[c] ELSE driver[c])
    BY <1>1, <1>3
  <2>3. c \in refused' <=> c \in refused \/ (asFound[c] # None /\ c \notin taken)
    BY <1>1
  <2>4. c \in taken => asFound[c] # None
    OBVIOUS
  <2> QED
    BY <1>3, <2>1, <2>2, <2>3, <2>4, CaptureAssumption DEF ControlKept
<1>6. asFound' \in [ControlSet -> {"found", "locked", None}]
  BY <1>2 DEF Untouched
<1> QED
  BY <1>2, <1>4, <1>5, <1>6 DEF HeldWasFound, DriverTypeOK

\* A control is only held once what it was has been kept, and what was kept is
\* what stop() puts back: so none is held when the camera opens again, but those
\* the driver would not take back.
LEMMA HeldWasFoundStep ==
  ASSUME HeldWasFound, [Next]_vars
  PROVE  HeldWasFound'
<1>1. CASE OpenCamera
  <2>1. asFound = Untouched /\ asFound' = Untouched /\ UNCHANGED <<driver, refused, place>>
    BY <1>1 DEF OpenCamera, HeldWasFound
  <2> QED
    BY <2>1 DEF HeldWasFound, DriverTypeOK, ControlKept
<1>2. CASE ApplyOne \/ Joined
  BY <1>2, ApplyOneKeeps, JoinedKeeps
<1>3. CASE /\ UNCHANGED <<driver, asFound, refused>> /\ place' \in 1..(Len(Controls) + 1)
           /\ IsCapturing' <=> IsCapturing
  BY <1>3 DEF HeldWasFound, DriverTypeOK, ControlKept
<1>4. 1 \in 1..(Len(Controls) + 1) /\ place \in 1..(Len(Controls) + 1)
  BY CaptureAssumption DEF HeldWasFound, DriverTypeOK
<1>5. CASE AskToStop \/ RequestLock \/ PopFrame \/ TakeReport
  BY <1>3, <1>4, <1>5 DEF AskToStop, RequestLock, PopFrame, TakeReport, IsCapturing
<1>6. CASE LoopOn \/ Grab \/ GrabFails \/ Service
  BY <1>3, <1>4, <1>6 DEF LoopOn, Grab, GrabFails, Service, ThreadAt, IsCapturing
<1>7. CASE PublishMeasured \/ Report \/ Publish
  BY <1>3, <1>4, <1>7 DEF PublishMeasured, Report, Publish, ThreadAt, IsCapturing
<1>8. CASE UNCHANGED captureVars
  BY <1>3, <1>4, <1>8 DEF captureVars, IsCapturing
<1> QED
  BY <1>1, <1>2, <1>5, <1>6, <1>7, <1>8, CaptureStep
  DEF CallerSteps, ThreadSteps, vars

\* Whenever the camera is not capturing the numbers of its controls are as they
\* were found, but for exactly those that the driver refused to take back once,
\* whatever the capture thread was doing when it was stopped: for any list of
\* controls, any part of it that the driver refuses to have held, and any part
\* that it refuses to have put back.
THEOREM LeavesAsFound == Spec => []LeftAsFound
<1>1. Init => HeldWasFound
  BY HeldWasFoundInit DEF Init
<1>2. HeldWasFound /\ [Next]_vars => HeldWasFound'
  BY HeldWasFoundStep
<1>3. HeldWasFound => LeftAsFound
  <2> SUFFICES ASSUME HeldWasFound, ~IsCapturing, NEW c \in ControlSet
               PROVE  driver[c] = "locked" <=> c \in refused
    BY DEF LeftAsFound
  <2>1. asFound[c] = None /\ ControlKept(c)
    BY DEF HeldWasFound, Untouched
  <2> QED
    BY <2>1 DEF ControlKept
<1> QED
  BY <1>1, <1>2, <1>3, PTL DEF Spec

-----------------------------------------------------------------------------
(* Openings, frames and scans *)

USE DEF SessionInv, OneCamera, FromThisOpening, ScanFromOneOpening, IsCapturing

LEMMA SessionInit == Init => SessionInv
<1> SUFFICES ASSUME Init PROVE SessionInv
  OBVIOUS
<1>1. \E n \in Nat : sources \subseteq {n}
  BY 0 \in Nat DEF Init
<1> QED
  BY <1>1 DEF Init, CaptureInit

\* Starting, keeping or stopping the camera: a scan that was not being read
\* begins with no side.
LEMMA StartKeeps ==
  ASSUME SessionInv, gui = "idle", hand' = hand, Start
  PROVE  SessionInv'
<1>1. CASE opening = "working"
  BY <1>1 DEF Start, Restart, captureVars
<1>2. CASE opening # "working" /\ running
  BY <1>2 DEF Start, StopCamera, AskToStop
<1>3. CASE opening # "working" /\ ~running
  BY <1>3 DEF Start, Restart, OpenOnWorker, captureVars
<1> QED
  BY <1>1, <1>2, <1>3

LEMMA NavigateKeeps ==
  ASSUME SessionInv, Navigate
  PROVE  SessionInv'
<1>1. CASE Start
  BY <1>1, NavigateIs, StartKeeps
<1>2. CASE Watch
  BY <1>2, NavigateIs DEF Watch, OpenOnWorker, captureVars
<1>3. CASE Stop
  BY <1>3, NavigateIs DEF Stop, StopCamera, AskToStop, captureVars
<1>4. CASE StartOver
  BY <1>4, NavigateIs DEF StartOver, Restart, captureVars, guiVars
<1>5. CASE UNCHANGED <<captureVars, scanVars, gui, sources, early>>
  BY <1>5, NavigateIs DEF captureVars, scanVars
<1> QED
  BY <1>1, <1>2, <1>3, <1>4, <1>5, NavigateIs

\* A camera opens only when none runs, so that no frame is in the GUI thread's
\* hand, and with nothing of the one before in the mailbox.
LEMMA OpeningKeeps ==
  ASSUME SessionInv, WorkerOpens
  PROVE  SessionInv'
<1>1. hand = None /\ lockReport = None /\ opened + 1 \in Nat
  BY DEF WorkerOpens
<1>2. CASE OpenCamera
  BY <1>1, <1>2 DEF WorkerOpens, OpenCamera, guiVars, seenVars
<1>3. CASE UNCHANGED captureVars /\ openResult' = FALSE
  BY <1>1, <1>3 DEF WorkerOpens, captureVars, guiVars, seenVars
<1> HIDE DEF SessionInv
<1> QED
  BY <1>2, <1>3 DEF WorkerOpens

LEMMA StartFinishedKeeps ==
  ASSUME SessionInv, StartFinished
  PROVE  SessionInv'
<1>1. CASE Opened
  BY <1>1 DEF StartFinished, Opened, RequestLock, seenVars
<1>2. CASE OpenFailed
  BY <1>2 DEF StartFinished, OpenFailed, captureVars, seenVars
<1>3. CASE OpenedInVain
  BY <1>3 DEF StartFinished, OpenedInVain, StopCamera, AskToStop, seenVars
<1> HIDE DEF SessionInv
<1> QED
  BY <1>1, <1>2, <1>3 DEF StartFinished

LEMMA StoppedKeeps ==
  ASSUME SessionInv, Stopped \/ Dropped
  PROVE  SessionInv'
<1>1. CASE Dropped
  BY <1>1 DEF Dropped, Joined, scanVars, seenVars
<1>2. CASE Stopped /\ gui = "reopening"
  BY <1>2 DEF Stopped, Joined, Restart, OpenOnWorker
<1>3. CASE Stopped /\ gui = "stopping"
  BY <1>3 DEF Stopped, Joined
<1> QED
  BY <1>1, <1>2, <1>3 DEF Stopped

\* A frame that counts is of the camera that runs, as those before it were.
LEMMA PollKeeps ==
  ASSUME SessionInv, PollFrame \/ PollReport
  PROVE  SessionInv'
<1>1. CASE PollFrame
  BY <1>1 DEF PollFrame, PopFrame, scanVars, seenVars
<1>2. CASE PollReport
  <2>1. hand.opening = opened /\ running /\ gui = "polling" /\ opening = "no"
    BY <1>2 DEF PollReport
  <2>2. sources' = sources \/ (~watching /\ sources' = sources \cup {opened})
    BY <1>2, <2>1 DEF PollReport, Counts, CountFrame
  <2>3. ~watching => sources \subseteq {opened}
    BY <2>1
  <2>4. \E n \in Nat : sources' \subseteq {n}
    BY <2>2, <2>3
  <2> QED
    BY <1>2, <2>1, <2>2, <2>3, <2>4 DEF PollReport, TakeReport
<1> QED
  BY <1>1, <1>2

LEMMA ThreadKeeps ==
  ASSUME SessionInv, ThreadSteps, ElseUnchanged
  PROVE  SessionInv'
<1> USE DEF ElseUnchanged, scanVars, guiVars, seenVars
<1>1. CASE LoopOn \/ GrabFails \/ Service
  BY <1>1 DEF LoopOn, GrabFails, Service, ThreadAt
<1>2. CASE ApplyOne
  <2>1. UNCHANGED <<mailbox, pendingLock, report, grabbed>> /\ ThreadAt("apply")
    BY <1>2 DEF ApplyOne
  <2> QED
    BY <2>1 DEF ThreadAt
<1>3. CASE Grab \/ PublishMeasured
  BY <1>3 DEF Grab, PublishMeasured, ThreadAt, FrameNow
<1>4. CASE Report
  BY <1>4 DEF Report, ThreadAt
<1>5. CASE Publish
  BY <1>5 DEF Publish, ThreadAt
<1> QED
  BY <1>1, <1>2, <1>3, <1>4, <1>5 DEF ThreadSteps

HIDE DEF SessionInv, OneCamera, FromThisOpening, ScanFromOneOpening, IsCapturing

LEMMA SessionStep ==
  ASSUME SessionInv, [Next]_vars
  PROVE  SessionInv'
<1>1. CASE Navigate
  BY <1>1, NavigateKeeps
<1>2. CASE WorkerOpens \/ StartFinished \/ Stopped \/ Dropped
  BY <1>2, OpeningKeeps, StartFinishedKeeps, StoppedKeeps
<1>3. CASE PollFrame \/ PollReport
  BY <1>3, PollKeeps
<1>4. CASE (CaptureThread \/ Grab \/ GrabFails \/ PublishMeasured) /\ ElseUnchanged
  BY <1>4, ThreadKeeps DEF CaptureThread, ThreadSteps
<1>5. CASE UNCHANGED vars
  BY <1>5 DEF vars, captureVars, scanVars, guiVars, seenVars,
              SessionInv, OneCamera, FromThisOpening, ScanFromOneOpening
<1> QED
  BY <1>1, <1>2, <1>3, <1>4, <1>5 DEF Next

\* The frame in the GUI thread's hand and the report it has taken are of the
\* camera it has now, however often it was opened before.
THEOREM NothingIsStale == Spec => []NothingStale
<1>1. SessionInv => NothingStale
  BY DEF NothingStale, SessionInv, FromThisOpening
<1> QED
  BY <1>1, SessionInit, SessionStep, PTL DEF Spec

\* However the screens are visited while the camera opens, runs or stops, the
\* sides of a scan are of one opening of it.
THEOREM ScansOneOpening == Spec => []OneOpeningPerScan
<1>1. ASSUME SessionInv
      PROVE  OneOpeningPerScan
  <2>1. PICK n \in Nat : sources \subseteq {n}
    BY <1>1 DEF SessionInv, ScanFromOneOpening
  <2>2. IsFiniteSet({n}) /\ Cardinality({n}) = 1
    BY FS_Singleton
  <2>3. Cardinality(sources) <= Cardinality({n})
    BY <2>1, <2>2, FS_Subset
  <2> QED
    BY <2>2, <2>3 DEF OneOpeningPerScan
<1> QED
  BY <1>1, SessionInit, SessionStep, PTL DEF Spec

-----------------------------------------------------------------------------
(* Types *)

\* A camera that captures has been opened.
OpenedToCapture == IsCapturing => opened >= 1

\* The capture loop keeps its type whoever acts on it; the lock is only asked of
\* a camera that has opened.
LEMMA CaptureTypes ==
  ASSUME CaptureTypeOK, OpenedToCapture, SessionInv,
         ThreadSteps \/ CallerSteps \/ UNCHANGED captureVars
  PROVE  CaptureTypeOK' /\ OpenedToCapture'
<1> USE DEF CaptureTypeOK, OpenedToCapture, IsCapturing
<1>len. Len(Controls) \in Nat /\ 1 \in 1..(Len(Controls) + 1)
  BY CaptureAssumption
<1>open. MaxOpens \in Nat /\ Settle \in Nat
  BY CaptureAssumption
<1>frame. ASSUME IsCapturing, NEW settled \in BOOLEAN
          PROVE  FrameNow(settled) \in Frames /\ [opening |-> opened] \in Reports
  BY <1>frame, <1>open DEF FrameNow, Frames, Reports
<1> HIDE DEF Frames, Reports
<1>1. CASE OpenCamera
  <2>1. answered' \in BOOLEAN
    BY <1>1 DEF OpenCamera
  <2>2. opened' \in 0..MaxOpens /\ opened' >= 1 /\ settle' \in 0..Settle
    BY <1>1, <1>open DEF OpenCamera
  <2>3. asFound' \in [ControlSet -> {"found", "locked", None}]
    BY <1>1 DEF OpenCamera, Untouched
  <2> QED
    BY <1>1, <2>1, <2>2, <2>3 DEF OpenCamera
<1>2. CASE AskToStop \/ PopFrame \/ TakeReport
  BY <1>2 DEF AskToStop, PopFrame, TakeReport
<1>3. CASE Joined
  <2>1. PICK taken \in SUBSET {c \in ControlSet : asFound[c] # None} :
          /\ driver' = [p \in Properties |-> IF p \in taken THEN asFound[p] ELSE driver[p]]
          /\ refused' = refused \cup ({c \in ControlSet : asFound[c] # None} \ taken)
    BY <1>3 DEF Joined
  <2>2. \A c \in taken : asFound[c] \in {"found", "locked"}
    OBVIOUS
  <2>3. driver' \in [Properties -> {"found", "locked"}] /\ refused' \subseteq ControlSet
    BY <2>1, <2>2
  <2>4. asFound' \in [ControlSet -> {"found", "locked", None}]
    BY <1>3 DEF Joined, Untouched
  <2> QED
    BY <1>3, <2>3, <2>4 DEF Joined
<1>4. CASE RequestLock /\ opening = "landed" /\ openResult
  <2>1. IsCapturing
    BY <1>4 DEF SessionInv, OneCamera
  <2>2. settle' \in 0..Settle
    BY <1>4, <1>open DEF RequestLock
  <2>3. pendingLock' \in BOOLEAN
    BY <1>4 DEF RequestLock
  <2>4. report' \in Reports \cup {None}
    BY <1>4, <1>frame, <2>1 DEF RequestLock
  <2> QED
    BY <1>4, <2>2, <2>3, <2>4 DEF RequestLock
<1>5. CASE LoopOn \/ GrabFails
  BY <1>5 DEF LoopOn, GrabFails, ThreadAt
<1>6. CASE Grab
  BY <1>6, <1>frame DEF Grab, ThreadAt
<1>7. CASE PublishMeasured
  BY <1>7, <1>frame DEF PublishMeasured, ThreadAt
<1>8. CASE Service
  BY <1>8, <1>open DEF Service, ThreadAt
<1>9. CASE ApplyOne
  <2>1. place \in 1..Len(Controls) /\ Controls[place] \in ControlSet /\ place + 1 \in 1..(Len(Controls) + 1)
    BY <1>9, <1>len, CaptureAssumption DEF ApplyOne, ControlSet
  <2>2. \A written : Locking(written) \in [Properties -> {"found", "locked"}]
    BY DEF Locking
  <2>3. driver' \in [Properties -> {"found", "locked"}]
    <3>1. CASE \E aside \in Aside(Controls[place]) : driver' = Locking({Controls[place]} \cup aside)
      BY <2>2, <3>1
    <3>2. CASE \E aside \in AsideOfRefused(Controls[place]) : driver' = Locking(aside)
      BY <2>2, <3>2
    <3> QED
      BY <1>9, <3>1, <3>2 DEF ApplyOne
  <2>4. asFound' \in [ControlSet -> {"found", "locked", None}]
    <3>1. driver[Controls[place]] \in {"found", "locked"}
      BY <2>1 DEF Properties
    <3> QED
      BY <1>9, <2>1, <3>1 DEF ApplyOne
  <2> QED
    BY <1>9, <2>1, <2>3, <2>4 DEF ApplyOne, ThreadAt
<1>10. CASE Report
  BY <1>10, <1>len, <1>frame DEF Report, ThreadAt
<1>11. CASE Publish
  BY <1>11 DEF Publish, ThreadAt
<1>12. CASE UNCHANGED captureVars
  BY <1>12 DEF captureVars
<1> QED
  BY <1>1, <1>2, <1>3, <1>4, <1>5, <1>6, <1>7, <1>8, <1>9, <1>10, <1>11, <1>12
  DEF ThreadSteps, CallerSteps

ScanTypeInv == TypeOK /\ OpenedToCapture

LEMMA ScanTypeInit == Init => ScanTypeInv
<1> SUFFICES ASSUME Init PROVE ScanTypeInv
  OBVIOUS
<1>1. Len(Controls) \in Nat /\ 1 \in 1..(Len(Controls) + 1)
  BY CaptureAssumption
<1>2. settle \in 0..Settle /\ opened \in 0..MaxOpens
  BY CaptureAssumption DEF Init, CaptureInit
<1>3. CaptureTypeOK /\ OpenedToCapture
  <2>1. /\ [p \in Properties |-> "found"] \in [Properties -> {"found", "locked"}]
        /\ Untouched \in [ControlSet -> {"found", "locked", None}]
    BY DEF Untouched
  <2> QED
    BY <1>1, <1>2, <2>1 DEF Init, CaptureInit, CaptureTypeOK, OpenedToCapture, IsCapturing
<1>4. waited \in 0..(LockWait + 1) /\ early \in 0..(EarlyMost + 1)
  BY ScanAssumption DEF Init
<1> QED
  BY <1>3, <1>4 DEF Init, ScanTypeInv, TypeOK, Screens

\* What the screens and the GUI thread keep has its type after every step.
LEMMA ScreenTypes ==
  ASSUME TypeOK, Navigate
  PROVE  /\ screen' \in Screens /\ previous' \in Screens \ {"settings"}
         /\ scanComplete' \in BOOLEAN /\ solveCamera' \in BOOLEAN
<1> USE DEF TypeOK, Screens, Keep
<1>1. CASE BeginScan \/ CancelScan
  BY <1>1 DEF BeginScan, CancelScan, Scan, GoTo
<1>2. CASE ShowSolution \/ Finish \/ OpenHistory \/ CloseHistory
  BY <1>2 DEF ShowSolution, Finish, OpenHistory, CloseHistory, GoTo
<1>3. CASE Resume \/ OpenSettings
  BY <1>3 DEF Resume, OpenSettings, GoTo
<1>4. CASE CloseSettings
  BY <1>4 DEF CloseSettings, GoTo
<1>5. CASE StartOver \/ TryAgain
  BY <1>5 DEF StartOver, TryAgain, screenVars
<1> QED
  BY <1>1, <1>2, <1>3, <1>4, <1>5 DEF Navigate

\* DirectScan's own state.
ScanTypeOK ==
  /\ opening \in {"no", "working", "landed"}
  /\ openResult \in BOOLEAN /\ stopQueued \in BOOLEAN /\ running \in BOOLEAN
  /\ watching \in BOOLEAN /\ awaiting \in BOOLEAN /\ waited \in 0..(LockWait + 1)
  /\ lockReport \in Reports \cup {None}
  /\ scanned \in BOOLEAN /\ failed \in BOOLEAN
  /\ gui \in {"idle", "stopping", "reopening", "dropping", "polling"}
  /\ hand \in Frames \cup {None}
  /\ sources \subseteq 1..MaxOpens /\ early \in 0..(EarlyMost + 1)

LEMMA NavigateTypes ==
  ASSUME ScanTypeOK, Navigate
  PROVE  ScanTypeOK'
<1> USE DEF ScanTypeOK
<1>0. hand' = hand /\ 0 \in 0..(EarlyMost + 1)
  BY NavigateIs, ScanAssumption
<1>1. CASE Start
  <2>1. CASE opening = "working"
    BY <1>0, <1>1, <2>1 DEF Start, Restart
  <2>2. CASE opening # "working" /\ running
    BY <1>0, <1>1, <2>2 DEF Start, StopCamera
  <2>3. CASE opening # "working" /\ ~running
    BY <1>0, <1>1, <2>3 DEF Start, Restart, OpenOnWorker
  <2> QED
    BY <2>1, <2>2, <2>3
<1>2. CASE Watch
  <2>1. opening' \in {"no", "working", "landed"} /\ stopQueued' \in BOOLEAN
    BY <1>2 DEF Watch, OpenOnWorker
  <2>2. lockReport' \in Reports \cup {None} /\ failed' \in BOOLEAN
    BY <1>2 DEF Watch, OpenOnWorker
  <2> QED
    BY <1>0, <1>2, <2>1, <2>2 DEF Watch
<1>3. CASE Stop
  <2>1. stopQueued' \in BOOLEAN /\ gui' \in {gui, "stopping"}
    BY <1>3 DEF Stop, StopCamera
  <2> QED
    BY <1>0, <1>3, <2>1 DEF Stop
<1>4. CASE StartOver
  BY <1>0, <1>4 DEF StartOver, Restart, guiVars
<1>5. CASE UNCHANGED <<captureVars, scanVars, gui, sources, early>>
  BY <1>0, <1>5 DEF scanVars
<1> QED
  BY <1>1, <1>2, <1>3, <1>4, <1>5, NavigateIs

LEMMA OpeningTypes ==
  ASSUME ScanTypeOK, WorkerOpens \/ StartFinished \/ Stopped \/ Dropped
  PROVE  ScanTypeOK'
<1> USE DEF ScanTypeOK
<1>0. 0 \in 0..(LockWait + 1) /\ 0 \in 0..(EarlyMost + 1)
  BY ScanAssumption
<1>1. CASE WorkerOpens
  <2>1. opening' \in {"no", "working", "landed"} /\ openResult' \in BOOLEAN
    BY <1>1 DEF WorkerOpens
  <2>2. UNCHANGED <<guiVars, seenVars>>
    BY <1>1 DEF WorkerOpens
  <2>3. UNCHANGED <<stopQueued, running, watching, awaiting, waited, lockReport, scanned, failed>>
    BY <1>1 DEF WorkerOpens
  <2> QED
    BY <2>1, <2>2, <2>3 DEF guiVars, seenVars
<1>2. CASE StartFinished
  <2>1. CASE Opened
    <3>1. running' \in BOOLEAN /\ awaiting' \in BOOLEAN /\ waited' \in 0..(LockWait + 1)
      BY <1>0, <2>1 DEF Opened
    <3>2. opening' \in {"no", "working", "landed"} /\ stopQueued' \in BOOLEAN
      BY <1>2 DEF StartFinished
    <3> QED
      BY <1>2, <2>1, <3>1, <3>2 DEF StartFinished, Opened, seenVars
  <2>2. CASE OpenFailed
    <3>1. opening' \in {"no", "working", "landed"} /\ stopQueued' \in BOOLEAN
      BY <1>2 DEF StartFinished
    <3> QED
      BY <1>2, <2>2, <3>1 DEF StartFinished, OpenFailed, seenVars
  <2>3. CASE OpenedInVain
    BY <1>2, <2>3 DEF StartFinished, OpenedInVain, StopCamera, seenVars
  <2> QED
    BY <1>2, <2>1, <2>2, <2>3 DEF StartFinished
<1>3. CASE Stopped
  <2>1. CASE gui = "reopening"
    BY <1>0, <1>3, <2>1 DEF Stopped, Restart, OpenOnWorker
  <2>2. CASE gui # "reopening"
    BY <1>3, <2>2 DEF Stopped
  <2> QED
    BY <2>1, <2>2
<1>4. CASE Dropped
  BY <1>4 DEF Dropped, scanVars, seenVars
<1> QED
  BY <1>1, <1>2, <1>3, <1>4

LEMMA PollTypes ==
  ASSUME SessionInv, CaptureTypeOK, ScanTypeOK, scanComplete \in BOOLEAN, PollFrame \/ PollReport
  PROVE  ScanTypeOK' /\ scanComplete' \in BOOLEAN
<1> USE ScanAssumption DEF ScanTypeOK
<1>1. CASE PollFrame
  BY <1>1 DEF PollFrame, scanVars, screenVars, seenVars, CaptureTypeOK
<1>2. CASE PollReport
  <2>1. hand \in Frames /\ hand.opening \in 1..MaxOpens
    BY <1>2 DEF PollReport, SessionInv, OneCamera, Frames
  <2>2. /\ sources' \subseteq 1..MaxOpens /\ early' \in 0..(EarlyMost + 1)
        /\ scanned' \in BOOLEAN /\ scanComplete' \in BOOLEAN
    <3>1. CASE Counts
      <4>1. CountFrame
        BY <1>2, <3>1 DEF PollReport
      <4>2. early' \in 0..(EarlyMost + 1)
        BY <4>1 DEF CountFrame
      <4>3. scanComplete' \in BOOLEAN /\ scanned' \in BOOLEAN
        BY <4>1 DEF CountFrame
      <4> QED
        BY <2>1, <4>1, <4>2, <4>3 DEF CountFrame
    <3>2. CASE ~Counts
      BY <1>2, <3>2 DEF PollReport
    <3> QED
      BY <3>1, <3>2
  <2>3. waited' \in 0..(LockWait + 1) /\ awaiting' \in BOOLEAN
    <3>1. waited' \in 0..(LockWait + 1)
      BY <1>2 DEF PollReport, LockAwaited
    <3>2. awaiting' \in BOOLEAN
      BY <1>2 DEF PollReport, LockAwaited
    <3> QED
      BY <3>1, <3>2
  <2>4. lockReport' \in Reports \cup {None}
    BY <1>2 DEF PollReport, CaptureTypeOK
  <2> QED
    BY <1>2, <2>2, <2>3, <2>4 DEF PollReport
<1> QED
  BY <1>1, <1>2

LEMMA ScanTypeStep ==
  ASSUME SessionInv, ScanTypeInv, [Next]_vars
  PROVE  ScanTypeInv'
<1> USE DEF ScanTypeInv
<1>1. CaptureTypeOK' /\ OpenedToCapture'
  BY CaptureTypes, CaptureStep DEF TypeOK, vars
<1>2. TypeOK => ScanTypeOK /\ CaptureTypeOK /\ scanComplete \in BOOLEAN
  BY DEF TypeOK, ScanTypeOK
<1> SUFFICES /\ ScanTypeOK'
             /\ screen' \in Screens /\ previous' \in Screens \ {"settings"}
             /\ scanComplete' \in BOOLEAN /\ solveCamera' \in BOOLEAN
  BY <1>1 DEF TypeOK, ScanTypeOK
<1>3. CASE Navigate
  BY <1>2, <1>3, ScreenTypes, NavigateTypes
<1>4. CASE WorkerOpens \/ StartFinished \/ Stopped \/ Dropped
  <2>1. UNCHANGED screenVars
    BY <1>4 DEF WorkerOpens, StartFinished, Stopped, Dropped
  <2> QED
    BY <1>2, <1>4, <2>1, OpeningTypes DEF screenVars, TypeOK
<1>5. CASE PollFrame \/ PollReport
  <2>1. UNCHANGED <<screen, previous, solveCamera>>
    BY <1>5 DEF PollFrame, PollReport, screenVars
  <2> QED
    BY <1>2, <1>5, <2>1, PollTypes DEF TypeOK
<1>6. CASE (CaptureThread \/ Grab \/ GrabFails \/ PublishMeasured) /\ ElseUnchanged
  BY <1>2, <1>6 DEF ElseUnchanged, scanVars, guiVars, screenVars, seenVars, TypeOK, ScanTypeOK
<1>7. CASE UNCHANGED vars
  BY <1>2, <1>7 DEF vars, scanVars, guiVars, screenVars, seenVars, TypeOK, ScanTypeOK
<1> QED
  BY <1>3, <1>4, <1>5, <1>6, <1>7 DEF Next

\* Every variable of the scan session and of the capture loop under it keeps its
\* type, and the frames to settle never count below none.
THEOREM ScanTypes == Spec => []TypeOK
<1>1. Init => SessionInv /\ ScanTypeInv
  BY SessionInit, ScanTypeInit
<1>2. SessionInv /\ ScanTypeInv /\ [Next]_vars => (SessionInv /\ ScanTypeInv)'
  BY SessionStep, ScanTypeStep
<1>3. ScanTypeInv => TypeOK
  BY DEF ScanTypeInv
<1> QED
  BY <1>1, <1>2, <1>3, PTL DEF Spec

-----------------------------------------------------------------------------
(* Early frames *)

\* A frame from before the camera had settled.
Unsettled(frame) == IF frame # None /\ ~frame.settled THEN 1 ELSE 0

LEMMA UnsettledIs ==
  /\ Unsettled(None) = 0
  /\ \A frame : Unsettled(frame) \in {0, 1}
  /\ \A n : Unsettled([opening |-> n, settled |-> TRUE]) = 0
BY DEF Unsettled

\* The lock is asked for once in an opening, and applied before it is answered;
\* nothing has been reported until then.
AnsweredOnce ==
  /\ report # None \/ lockReport # None => answered
  /\ pendingLock \/ thread = "apply" => ~answered
  /\ thread = "apply" => ~pendingLock
  /\ opening = "landed" /\ openResult =>
       ~pendingLock /\ thread # "apply" /\ (answered <=> ~supported)

\* Once the wait for the lock is over its report is there, or enough frames
\* have been waited for.
WaitedOrReported == running /\ ~awaiting => lockReport # None \/ waited > LockWait

\* The early frames that count, with those that still may: the one the capture
\* thread holds, the one in the mailbox and the one in the GUI thread's hand.
EarlyAndInFlight ==
  /\ early <= 3
  /\ ~watching /\ opening # "no" => early = 0
  /\ ~watching /\ running /\ gui \in {"idle", "polling"} =>
       /\ ~answered => early = 0
       /\ early + Unsettled(grabbed) + Unsettled(mailbox) + Unsettled(hand) <= 3

EarlyInv == AnsweredOnce /\ WaitedOrReported /\ EarlyAndInFlight

LEMMA EarlyInit == Init => EarlyInv
<1> SUFFICES ASSUME Init PROVE EarlyInv
  OBVIOUS
<1> QED
  BY UnsettledIs DEF Init, CaptureInit, EarlyInv, AnsweredOnce, WaitedOrReported, EarlyAndInFlight

\* Screens come and go: a scan only goes on with the frames of a camera that
\* was running for it, and none is asked for its lock.
LEMMA NavigateEarly ==
  ASSUME SessionInv, ScanTypeInv, EarlyInv, Navigate
  PROVE  EarlyInv'
<1> USE DEF EarlyInv, AnsweredOnce, WaitedOrReported, EarlyAndInFlight, SessionInv, OneCamera
<1>0. gui = "idle" /\ hand' = hand
  BY NavigateIs
<1>1. CASE Start
  <2>1. CASE opening = "working"
    BY <1>0, <1>1, <2>1 DEF Start, Restart, captureVars
  <2>2. CASE opening # "working" /\ running
    BY <1>0, <1>1, <2>2 DEF Start, StopCamera, AskToStop
  <2>3. CASE opening # "working" /\ ~running
    BY <1>0, <1>1, <2>3 DEF Start, Restart, OpenOnWorker, captureVars
  <2> QED
    BY <2>1, <2>2, <2>3
<1>2. CASE Watch
  BY <1>0, <1>2 DEF Watch, OpenOnWorker, captureVars
<1>3. CASE Stop
  <2>1. CASE opening = "working"
    BY <1>0, <1>3, <2>1 DEF Stop, captureVars
  <2>2. CASE opening # "working" /\ running
    BY <1>0, <1>3, <2>2 DEF Stop, StopCamera, AskToStop
  <2> QED
    BY <1>3, <2>1, <2>2 DEF Stop
<1>4. CASE StartOver
  <2>1. UNCHANGED captureVars /\ early' = 0
    BY <1>4 DEF StartOver, Restart
  <2>2. UNCHANGED <<opening, openResult, running, watching, awaiting, waited, lockReport, gui>>
    BY <1>4 DEF StartOver, guiVars
  <2>3. \A frame : Unsettled(frame) \in {0, 1}
    BY UnsettledIs
  <2> QED
    BY <1>0, <2>1, <2>2, <2>3 DEF captureVars
<1>5. CASE UNCHANGED <<captureVars, scanVars, gui, sources, early>>
  BY <1>0, <1>5 DEF captureVars, scanVars
<1> QED
  BY <1>1, <1>2, <1>3, <1>4, <1>5, NavigateIs

\* A camera opens with no frame on its way.
LEMMA OpeningEarly ==
  ASSUME SessionInv, ScanTypeInv, EarlyInv, WorkerOpens \/ StartFinished \/ Stopped \/ Dropped
  PROVE  EarlyInv'
<1> USE DEF EarlyInv, AnsweredOnce, WaitedOrReported, EarlyAndInFlight, SessionInv, OneCamera
<1>0. supported \in BOOLEAN /\ answered \in BOOLEAN /\ LockWait \in Nat
  BY ScanAssumption DEF ScanTypeInv, TypeOK, CaptureTypeOK
<1>1. CASE WorkerOpens /\ OpenCamera
  <2>1. lockReport = None /\ hand = None /\ ~running
    BY <1>1 DEF WorkerOpens, FromThisOpening
  <2> QED
    BY <1>0, <1>1, <2>1 DEF WorkerOpens, OpenCamera, guiVars, seenVars
<1>2. CASE WorkerOpens /\ UNCHANGED captureVars
  <2>1. ~running /\ openResult' \in BOOLEAN
    BY <1>2 DEF WorkerOpens
  <2>2. openResult' = FALSE
    BY <1>2 DEF WorkerOpens, OpenCamera, captureVars, ScanTypeInv, TypeOK, CaptureTypeOK
  <2> QED
    BY <1>2, <2>1, <2>2 DEF WorkerOpens, captureVars, guiVars, seenVars
<1>3. CASE StartFinished /\ Opened
  <2>1. opening = "landed" /\ openResult /\ gui = "idle" /\ hand = None
    BY <1>3 DEF StartFinished, Opened
  <2>2. \A frame : Unsettled(frame) \in {0, 1}
    BY UnsettledIs
  <2>3. ~watching => early = 0
    BY <2>1
  <2>4. Unsettled(grabbed) + Unsettled(mailbox) + Unsettled(hand) <= 3
    BY <2>2
  <2>5. AnsweredOnce'
    BY <1>0, <1>3, <2>1 DEF StartFinished, Opened, RequestLock
  <2>6. WaitedOrReported'
    BY <1>3 DEF StartFinished, Opened
  <2>7. EarlyAndInFlight'
    <3>1. UNCHANGED <<early, grabbed, mailbox, hand, answered, watching>> /\ opening' = "no"
      BY <1>3 DEF StartFinished, Opened, RequestLock, seenVars
    <3> QED
      BY <2>2, <2>3, <3>1
  <2> QED
    BY <2>5, <2>6, <2>7
<1>4. CASE StartFinished /\ OpenFailed
  BY <1>4 DEF StartFinished, OpenFailed, captureVars, seenVars
<1>5. CASE StartFinished /\ OpenedInVain
  BY <1>5 DEF StartFinished, OpenedInVain, StopCamera, AskToStop, seenVars
<1>6. CASE Stopped
  <2>1. CASE gui = "reopening"
    BY <1>6, <2>1 DEF Stopped, Joined, Restart, OpenOnWorker
  <2>2. CASE gui = "stopping"
    BY <1>6, <2>2 DEF Stopped, Joined
  <2> QED
    BY <1>6, <2>1, <2>2 DEF Stopped
<1>7. CASE Dropped
  BY <1>7 DEF Dropped, Joined, scanVars, seenVars
<1> QED
  BY <1>1, <1>2, <1>3, <1>4, <1>5, <1>6, <1>7 DEF WorkerOpens, StartFinished

\* A frame polled is counted early only once the lock has been answered, and is
\* then no longer on its way.
LEMMA PollEarly ==
  ASSUME SessionInv, ScanTypeInv, EarlyInv, PollFrame \/ PollReport
  PROVE  EarlyInv'
<1> USE DEF EarlyInv
<1>0. /\ waited \in Nat /\ LockWait \in Nat /\ early \in Nat /\ awaiting \in BOOLEAN
      /\ \A frame : Unsettled(frame) \in {0, 1}
  BY ScanAssumption, UnsettledIs DEF ScanTypeInv, TypeOK
<1>1. CASE PollFrame
  <2>1. hand = None /\ UNCHANGED <<scanVars, early>>
    BY <1>1 DEF PollFrame, SessionInv, OneCamera, seenVars
  <2>2. AnsweredOnce' /\ WaitedOrReported'
    BY <1>1, <2>1 DEF PollFrame, PopFrame, scanVars, AnsweredOnce, WaitedOrReported
  <2>3. hand' = mailbox /\ mailbox' = None /\ UNCHANGED <<grabbed, answered>> /\ gui = "idle"
    BY <1>1 DEF PollFrame, PopFrame
  <2>4. EarlyAndInFlight'
    BY <1>0, <2>1, <2>3, UnsettledIs DEF scanVars, EarlyAndInFlight
  <2> QED
    BY <2>2, <2>4
<1>2. CASE PollReport
  <2>1. /\ gui = "polling" /\ running /\ hand # None
        /\ UNCHANGED <<opening, openResult, running, watching>>
        /\ UNCHANGED <<supported, thread, grabbed, mailbox, pendingLock, answered>>
        /\ hand' = None /\ gui' = "idle" /\ report' = None
    BY <1>2 DEF PollReport, TakeReport, SessionInv, OneCamera
  <2>2. /\ lockReport' = IF report # None THEN report ELSE lockReport
        /\ LockAwaited
    BY <1>2 DEF PollReport
  <2>3. AnsweredOnce'
    BY <2>1, <2>2 DEF AnsweredOnce
  <2>4. WaitedOrReported'
    BY <1>0, <2>1, <2>2 DEF WaitedOrReported, LockAwaited
  <2>5. Counts /\ ~answered => ~(waited' <= LockWait) /\ lockReport' = None
    BY <1>0, <2>1, <2>2 DEF AnsweredOnce, WaitedOrReported, LockAwaited, Counts
  <2>6. /\ early' \in Nat
        /\ early' <= early + Unsettled(hand)
        /\ ~answered => early' = early
        /\ watching => early' = early
    <3>1. CASE ~Counts
      BY <1>0, <1>2, <3>1 DEF PollReport, Counts
    <3>2. CASE Counts
      <4>1. early' = IF Early(hand) /\ early <= EarlyMost THEN early + 1 ELSE early
        BY <1>2, <3>2 DEF PollReport, CountFrame
      <4>2. Early(hand) => Unsettled(hand) = 1 /\ answered
        BY <1>0, <2>1, <2>5, <3>2 DEF Early, Unsettled
      <4> QED
        BY <1>0, <3>2, <4>1, <4>2 DEF Counts
    <3> QED
      BY <3>1, <3>2
  <2>7. EarlyAndInFlight'
    BY <1>0, <2>1, <2>6, UnsettledIs DEF EarlyAndInFlight, SessionInv, OneCamera
  <2> QED
    BY <2>3, <2>4, <2>7
<1> QED
  BY <1>1, <1>2

\* The capture thread: once the lock is answered every frame grabbed is settled.
LEMMA ThreadEarly ==
  ASSUME SessionInv, ScanTypeInv, EarlyInv, ThreadSteps, ElseUnchanged
  PROVE  EarlyInv'
<1> USE DEF EarlyInv, ElseUnchanged, scanVars, guiVars, seenVars
<1>0. /\ early \in Nat /\ answered \in BOOLEAN /\ supported \in BOOLEAN /\ pendingLock \in BOOLEAN
      /\ \A frame : Unsettled(frame) \in {0, 1}
  BY UnsettledIs DEF ScanTypeInv, TypeOK, CaptureTypeOK
<1>1. CASE LoopOn \/ GrabFails \/ ApplyOne
  BY <1>1 DEF LoopOn, GrabFails, ApplyOne, ThreadAt, AnsweredOnce, WaitedOrReported, EarlyAndInFlight
<1>2. CASE Service
  <2>1. AnsweredOnce'
    BY <1>0, <1>2 DEF Service, ThreadAt, AnsweredOnce
  <2> QED
    BY <1>2, <2>1 DEF Service, ThreadAt, WaitedOrReported, EarlyAndInFlight
<1>3. CASE Grab
  <2>1. grabbed' = [opening |-> opened, settled |-> answered]
    BY <1>3 DEF Grab, FrameNow
  <2>2. answered => Unsettled(grabbed') = 0
    BY <2>1 DEF Unsettled
  <2>3. EarlyAndInFlight'
    BY <1>0, <1>3, <2>2 DEF Grab, ThreadAt, EarlyAndInFlight
  <2> QED
    BY <1>3, <2>3 DEF Grab, ThreadAt, AnsweredOnce, WaitedOrReported
<1>4. CASE PublishMeasured
  <2>1. ~answered
    BY <1>4 DEF PublishMeasured, AnsweredOnce
  <2>2. UNCHANGED <<early, grabbed, hand, gui, opening, running, watching, answered>>
    BY <1>4 DEF PublishMeasured, ThreadAt
  <2>3. EarlyAndInFlight'
    BY <1>0, <2>1, <2>2 DEF EarlyAndInFlight
  <2> QED
    BY <1>4, <2>3 DEF PublishMeasured, ThreadAt, AnsweredOnce, WaitedOrReported
<1>5. CASE Report
  <2>1. ~answered /\ ~pendingLock /\ ~(opening = "landed" /\ openResult)
    BY <1>5 DEF Report, AnsweredOnce
  <2> QED
    BY <1>5, <2>1 DEF Report, ThreadAt, AnsweredOnce, WaitedOrReported, EarlyAndInFlight
<1>6. CASE Publish
  <2>1. EarlyAndInFlight'
    BY <1>0, <1>6, UnsettledIs DEF Publish, ThreadAt, EarlyAndInFlight
  <2> QED
    BY <1>6, <2>1 DEF Publish, ThreadAt, AnsweredOnce, WaitedOrReported
<1> QED
  BY <1>1, <1>2, <1>3, <1>4, <1>5, <1>6 DEF ThreadSteps

LEMMA EarlyStep ==
  ASSUME SessionInv, ScanTypeInv, EarlyInv, [Next]_vars
  PROVE  EarlyInv'
<1>1. CASE Navigate
  BY <1>1, NavigateEarly
<1>2. CASE WorkerOpens \/ StartFinished \/ Stopped \/ Dropped
  BY <1>2, OpeningEarly
<1>3. CASE PollFrame \/ PollReport
  BY <1>3, PollEarly
<1>4. CASE (CaptureThread \/ Grab \/ GrabFails \/ PublishMeasured) /\ ElseUnchanged
  BY <1>4, ThreadEarly DEF CaptureThread, ThreadSteps
<1>5. CASE UNCHANGED vars
  BY <1>5 DEF vars, captureVars, scanVars, guiVars, seenVars,
              EarlyInv, AnsweredOnce, WaitedOrReported, EarlyAndInFlight
<1> QED
  BY <1>1, <1>2, <1>3, <1>4, <1>5 DEF Next

\* However long the camera takes to settle and however many frames are waited
\* for, at most three frames from before the lock's report came are counted
\* after it: a count that runs to three or more never passes three.
THEOREM EarlyFramesStayFew == EarlyMost >= 3 => (Spec => []EarlyFramesAreFew)
<1> SUFFICES ASSUME EarlyMost >= 3 PROVE Spec => []EarlyFramesAreFew
  OBVIOUS
<1>1. Init => SessionInv /\ ScanTypeInv /\ EarlyInv
  BY SessionInit, ScanTypeInit, EarlyInit
<1>2. SessionInv /\ ScanTypeInv /\ EarlyInv /\ [Next]_vars => (SessionInv /\ ScanTypeInv /\ EarlyInv)'
  BY SessionStep, ScanTypeStep, EarlyStep
<1>3. ScanTypeInv /\ EarlyInv => EarlyFramesAreFew
  BY ScanAssumption DEF ScanTypeInv, TypeOK, EarlyInv, EarlyAndInFlight, EarlyFramesAreFew
<1> QED
  BY <1>1, <1>2, <1>3, PTL DEF Spec

-----------------------------------------------------------------------------
(* How far a camera strays from the screen                                  *)

\* A screen that is shown brings its camera with it; the scan screen may also
\* start over, or start its camera again.
LEMMA NavigateShows ==
  ASSUME Navigate
  PROVE  \/ screen = "scan" /\ gui = "idle" /\ UNCHANGED <<hand, screenVars>> /\ (StartOver \/ Start)
         \/ \E s : GoTo(s)
<1>1. CASE BeginScan \/ Resume \/ OpenSettings \/ CloseSettings
  BY <1>1 DEF BeginScan, Scan, Resume, OpenSettings, CloseSettings
<1>2. CASE CancelScan \/ ShowSolution \/ Finish \/ OpenHistory \/ CloseHistory
  BY <1>2 DEF CancelScan, ShowSolution, Finish, OpenHistory, CloseHistory
<1>3. CASE StartOver
  BY <1>3 DEF StartOver, guiVars
<1>4. CASE TryAgain
  BY <1>4 DEF TryAgain
<1> QED
  BY <1>1, <1>2, <1>3, <1>4 DEF Navigate

\* The camera captures, and DirectScan neither reads it nor is about to: it does
\* not take the camera to be running, no event is to come that says so, and the
\* GUI thread is not stopping it.
Lost ==
  /\ IsCapturing /\ ~running
  /\ ~(opening = "landed" /\ openResult)
  /\ gui # "dropping"

\* What a screen shown does to the camera: it may begin an opening if none is
\* under way, or ask a camera that runs to stop.
LEMMA NavigateCamera ==
  ASSUME Navigate
  PROVE  /\ UNCHANGED <<thread, running, openResult, awaiting, waited>>
         /\ opening' = opening \/ (opening # "working" /\ opening' = "working")
         /\ gui = "idle"
         /\ gui' = gui \/ (stopRequested' /\ running)
<1>1. CASE Start
  BY <1>1, NavigateIs DEF Start, StopCamera, AskToStop, OpenOnWorker, captureVars
<1>2. CASE Watch
  BY <1>2, NavigateIs DEF Watch, OpenOnWorker, captureVars
<1>3. CASE Stop
  BY <1>3, NavigateIs DEF Stop, StopCamera, AskToStop, captureVars
<1>4. CASE StartOver
  BY <1>4, NavigateIs DEF StartOver, captureVars, guiVars
<1>5. CASE UNCHANGED <<captureVars, scanVars, gui, sources, early>>
  BY <1>5, NavigateIs DEF captureVars, scanVars
<1> QED
  BY <1>1, <1>2, <1>3, <1>4, <1>5, NavigateIs

\* Only the end of a capture thread that is waited for ends the capturing.
LEMMA CapturingGoesOn ==
  ASSUME Next
  PROVE  /\ Stopped \/ Dropped \/ (IsCapturing => IsCapturing')
         /\ WorkerOpens \/ (IsCapturing' => IsCapturing)
<1> USE DEF IsCapturing
<1>1. CASE Navigate
  BY <1>1, NavigateCamera
<1>2. CASE WorkerOpens
  BY <1>2 DEF WorkerOpens, OpenCamera, captureVars
<1>3. CASE StartFinished
  <2>1. thread' = thread
    BY <1>3 DEF StartFinished, Opened, OpenFailed, OpenedInVain, StopCamera, AskToStop,
       RequestLock, captureVars
  <2> QED
    BY <2>1
<1>4. CASE Stopped \/ Dropped
  BY <1>4 DEF Stopped, Dropped, Joined
<1>5. CASE PollFrame \/ PollReport
  BY <1>5 DEF PollFrame, PollReport, PopFrame, TakeReport
<1>6. CASE (CaptureThread \/ Grab \/ GrabFails \/ PublishMeasured) /\ ElseUnchanged
  BY <1>6 DEF CaptureThread, LoopOn, Service, ApplyOne, Report, Publish, Grab, GrabFails,
     PublishMeasured, ThreadAt
<1> QED
  BY <1>1, <1>2, <1>3, <1>4, <1>5, <1>6 DEF Next

\* A camera is lost by one thing only: a screen begins a new opening while the
\* event that says the last one succeeded is still to come, and takes it away.
LEMMA LostByStep ==
  ASSUME SessionInv, [Next]_vars, ~Lost, Lost'
  PROVE  Navigate /\ opening = "landed" /\ openResult /\ opening' = "working"
<1> USE DEF Lost, SessionInv, OneCamera
<1>1. CASE Navigate
  BY <1>1, NavigateCamera DEF IsCapturing
<1>2. CASE WorkerOpens
  BY <1>2 DEF WorkerOpens, IsCapturing, captureVars, guiVars
<1>3. CASE StartFinished
  <2>1. CASE Opened
    BY <1>3, <2>1 DEF Opened
  <2>2. CASE OpenFailed
    BY <1>3, <2>2 DEF StartFinished, OpenFailed, IsCapturing, captureVars
  <2>3. CASE OpenedInVain
    BY <1>3, <2>3 DEF OpenedInVain, StopCamera
  <2> QED
    BY <1>3, <2>1, <2>2, <2>3 DEF StartFinished
<1>4. CASE Stopped \/ Dropped
  BY <1>4 DEF Stopped, Dropped, Joined, IsCapturing
<1>5. CASE PollFrame \/ PollReport
  BY <1>5 DEF PollFrame, PollReport, scanVars
<1>6. CASE (CaptureThread \/ Grab \/ GrabFails \/ PublishMeasured) /\ ElseUnchanged
  <2>1. ~WorkerOpens => IsCapturing
    BY <1>6, CapturingGoesOn DEF Next
  <2>2. UNCHANGED <<opening, openResult, running, gui>>
    BY <1>6 DEF ElseUnchanged, scanVars, guiVars
  <2>3. ~WorkerOpens
    BY <2>2 DEF WorkerOpens
  <2> QED
    BY <2>1, <2>2, <2>3
<1>7. CASE UNCHANGED vars
  BY <1>7 DEF vars, captureVars, scanVars, guiVars, IsCapturing
<1> QED
  BY <1>1, <1>2, <1>3, <1>4, <1>5, <1>6, <1>7 DEF Next

\* A lost camera cannot be opened, and what is not running is not stopped.
LEMMA LostForGoodStep ==
  ASSUME SessionInv, [Next]_vars, Lost
  PROVE  Lost'
<1> USE DEF Lost, SessionInv, OneCamera
<1>0. gui = "idle"
  BY DEF Lost
<1>1. CASE Navigate
  BY <1>1, NavigateCamera DEF IsCapturing
<1>2. CASE WorkerOpens
  BY <1>2 DEF WorkerOpens, OpenCamera, IsCapturing, captureVars, guiVars
<1>3. CASE StartFinished
  <2>1. CASE OpenFailed
    BY <1>0, <1>3, <2>1 DEF StartFinished, OpenFailed, IsCapturing, captureVars
  <2> QED
    BY <1>3, <2>1 DEF StartFinished, Opened, OpenedInVain
<1>4. CASE Stopped \/ Dropped \/ PollFrame \/ PollReport
  BY <1>0, <1>4 DEF Stopped, Dropped, PollFrame, PollReport
<1>5. CASE (CaptureThread \/ Grab \/ GrabFails \/ PublishMeasured) /\ ElseUnchanged
  <2>1. UNCHANGED <<opening, openResult, running, gui>>
    BY <1>5 DEF ElseUnchanged, scanVars, guiVars
  <2>2. IsCapturing'
    BY <1>0, <1>5, <2>1, CapturingGoesOn DEF Next, Stopped, Dropped
  <2> QED
    BY <2>1, <2>2
<1>6. CASE UNCHANGED vars
  BY <1>6 DEF vars, captureVars, scanVars, guiVars, IsCapturing
<1> QED
  BY <1>1, <1>2, <1>3, <1>4, <1>5, <1>6 DEF Next

\* DirectScan::openCamera: setFuture "drops" the result of the future before it.
\* That is the one way the camera is left capturing with nobody to stop it, and
\* it is left so for good: every opening after that fails, for camera::start
\* refuses while it captures.
THEOREM LostOnlyByReopening ==
  Spec => /\ [][~Lost /\ Lost' => Navigate /\ opening = "landed" /\ openResult /\ opening' = "working"]_vars
          /\ [][Lost => Lost']_vars
<1>1. SessionInv /\ [Next]_vars =>
        [~Lost /\ Lost' => Navigate /\ opening = "landed" /\ openResult /\ opening' = "working"]_vars
  BY LostByStep
<1>2. SessionInv /\ [Next]_vars => [Lost => Lost']_vars
  BY LostForGoodStep
<1> QED
  BY <1>1, <1>2, SessionInit, SessionStep, PTL DEF Spec

-----------------------------------------------------------------------------
\* The screens that want a camera.
Wanted == screen = "scan" \/ (screen = "solve" /\ solveCamera)

\* A camera that is being opened is one the screen shown wants, or is to be
\* stopped as soon as it has opened.  The camera is stopped to be opened again
\* for the scan screen, and stopped for good for another one.
OpeningIsWanted ==
  /\ opening = "working" => stopQueued \/ Wanted
  /\ gui = "reopening" => screen = "scan"
  /\ gui = "stopping" => screen # "scan"

\* A screen asks for the camera with the same step that shows it.
LEMMA WantedStep ==
  ASSUME SessionInv, OpeningIsWanted, [Next]_vars
  PROVE  OpeningIsWanted'
<1> USE DEF OpeningIsWanted, Wanted
<1>1. ASSUME NEW s, GoTo(s)
      PROVE  OpeningIsWanted'
  <2>1. CASE s = "scan"
    BY <1>1, <2>1 DEF GoTo, Camera, Start, StopCamera, OpenOnWorker
  <2>2. CASE s = "solve" /\ solveCamera'
    BY <1>1, <2>2 DEF GoTo, Camera, Watch, OpenOnWorker
  <2>3. CASE s # "scan" /\ ~(s = "solve" /\ solveCamera')
    <3>1. CASE Stop
      BY <1>1, <2>3, <3>1 DEF GoTo, Stop, StopCamera
    <3>2. CASE opening # "working" /\ UNCHANGED <<scanVars, gui>>
      BY <1>1, <2>3, <3>2 DEF GoTo, scanVars
    <3> QED
      BY <1>1, <2>3, <3>1, <3>2 DEF GoTo, Camera
  <2> QED
    BY <2>1, <2>2, <2>3
<1>2. CASE Navigate
  <2>1. CASE screen = "scan" /\ gui = "idle" /\ UNCHANGED screenVars /\ Start
    BY <2>1 DEF Start, StopCamera, OpenOnWorker, screenVars
  <2>2. CASE StartOver
    BY <2>2 DEF StartOver, guiVars, screenVars
  <2> QED
    BY <1>1, <1>2, <2>1, <2>2, NavigateShows
<1>3. CASE WorkerOpens \/ Dropped \/ PollFrame
  BY <1>3 DEF WorkerOpens, Dropped, PollFrame, guiVars, screenVars, scanVars
<1>4. CASE StartFinished
  BY <1>4 DEF StartFinished, Opened, OpenFailed, OpenedInVain, StopCamera, screenVars
<1>5. CASE Stopped
  BY <1>5 DEF Stopped, OpenOnWorker, screenVars, SessionInv, OneCamera
<1>6. CASE PollReport
  BY <1>6 DEF PollReport, SessionInv, OneCamera
<1>7. CASE (CaptureThread \/ Grab \/ GrabFails \/ PublishMeasured) /\ ElseUnchanged
  BY <1>7 DEF ElseUnchanged, scanVars, guiVars, screenVars
<1>8. CASE UNCHANGED vars
  BY <1>8 DEF vars, scanVars, guiVars, screenVars
<1> QED
  BY <1>2, <1>3, <1>4, <1>5, <1>6, <1>7, <1>8 DEF Next

\* onScreenChanged and handleStartFinished together: however quickly the screens
\* change while a camera is being opened, it is one that is wanted or one that
\* will be dropped.
THEOREM OpeningIsAlwaysWanted == Spec => []OpeningIsWanted
<1>1. Init => OpeningIsWanted
  BY DEF Init, OpeningIsWanted
<1>2. SessionInv /\ OpeningIsWanted /\ [Next]_vars => OpeningIsWanted'
  BY WantedStep
<1> QED
  BY <1>1, <1>2, SessionInit, SessionStep, PTL DEF Spec

\* How far CaptureMatchesScreen is from being kept: the camera is only found to
\* capture for no screen when it is lost, or when the event of an opening that
\* succeeded comes after the screen that wanted it has gone.
MismatchOnlyBy ==
  [][CaptureMatchesScreen /\ ~CaptureMatchesScreen' => Lost \/ (StartFinished /\ running')]_vars

\* The screen left stops the camera if DirectScan takes it to be running.
LEMMA MismatchStep ==
  ASSUME SessionInv, [Next]_vars, CaptureMatchesScreen, ~CaptureMatchesScreen'
  PROVE  Lost \/ (StartFinished /\ running')
<1> USE DEF CaptureMatchesScreen
<1>1. ASSUME NEW s, GoTo(s)
      PROVE  Lost
  <2>1. s \notin {"scan", "solve"} /\ gui = "idle"
    BY <1>1 DEF GoTo
  <2>2. ~Stop
    BY <2>1 DEF Stop, StopCamera
  <2>3. ~running /\ opening # "working" /\ UNCHANGED <<captureVars, scanVars>>
    BY <1>1, <2>1, <2>2 DEF GoTo, Camera
  <2> QED
    BY <2>1, <2>3 DEF Lost, IsCapturing, captureVars, scanVars
<1>2. CASE Navigate
  <2>1. CASE screen = "scan" /\ UNCHANGED screenVars
    BY <2>1 DEF screenVars
  <2> QED
    BY <1>1, <1>2, <2>1, NavigateShows
<1>3. CASE WorkerOpens
  BY <1>3 DEF WorkerOpens
<1>4. CASE StartFinished
  <2>1. CASE Opened
    BY <1>4, <2>1 DEF Opened
  <2>2. CASE OpenFailed
    BY <1>4, <2>2 DEF StartFinished, OpenFailed, Lost, IsCapturing, captureVars, SessionInv, OneCamera
  <2>3. CASE OpenedInVain
    BY <2>3 DEF OpenedInVain, StopCamera
  <2>4. Opened \/ OpenFailed \/ OpenedInVain
    BY <1>4 DEF StartFinished
  <2> QED
    BY <2>1, <2>2, <2>3, <2>4
<1>5. CASE Stopped \/ Dropped
  BY <1>5 DEF Stopped, Dropped, Joined, IsCapturing
<1>6. CASE PollFrame \/ PollReport
  BY <1>6 DEF PollFrame, PollReport, PopFrame, TakeReport, IsCapturing, scanVars, screenVars
<1>7. CASE (CaptureThread \/ Grab \/ GrabFails \/ PublishMeasured) /\ ElseUnchanged
  <2>1. UNCHANGED <<opening, gui, screen>>
    BY <1>7 DEF ElseUnchanged, scanVars, guiVars, screenVars
  <2>2. ~WorkerOpens
    BY <2>1 DEF WorkerOpens
  <2>3. IsCapturing' => IsCapturing
    BY <1>7, <2>2, CapturingGoesOn DEF Next
  <2> QED
    BY <2>1, <2>3
<1>8. CASE UNCHANGED vars
  BY <1>8 DEF vars, captureVars, scanVars, guiVars, screenVars, IsCapturing
<1> QED
  BY <1>2, <1>3, <1>4, <1>5, <1>6, <1>7, <1>8 DEF Next

\* The camera and the screen only come apart in the two ways MismatchOnlyBy
\* names, both through an event that is late.
THEOREM MismatchIsBounded == Spec => MismatchOnlyBy
<1>1. SessionInv /\ [Next]_vars =>
        [CaptureMatchesScreen /\ ~CaptureMatchesScreen' => Lost \/ (StartFinished /\ running')]_vars
  BY MismatchStep
<1> QED
  BY <1>1, SessionInit, SessionStep, PTL DEF Spec, MismatchOnlyBy

\* The scan screen is up with no camera, none on its way and no error to show.
Dark == screen = "scan" /\ opening = "no" /\ ~running /\ ~failed

\* The scan screen opens a camera, keeps the one that opens, or stops one to open
\* it again.
LEMMA DarkStep ==
  ASSUME SessionInv, OpeningIsWanted, [Next]_vars, ~Dark, Dark'
  PROVE  StartFinished /\ gui' = "dropping"
<1> USE DEF Dark
<1>1. ASSUME Start
      PROVE  opening' # "no" \/ running'
  BY <1>1 DEF Start, OpenOnWorker
<1>2. CASE Navigate
  <2>1. ~Start
    BY <1>1
  <2>2. ~StartOver
    BY DEF StartOver, guiVars, screenVars
  <2>3. PICK s : GoTo(s)
    BY <1>2, <2>1, <2>2, NavigateShows
  <2> QED
    BY <2>1, <2>3 DEF GoTo, Camera
<1>3. CASE WorkerOpens \/ Dropped \/ PollFrame \/ PollReport
  BY <1>3 DEF WorkerOpens, Dropped, PollFrame, PollReport, screenVars, scanVars
<1>4. CASE StartFinished
  BY <1>4 DEF StartFinished, Opened, OpenFailed, OpenedInVain, StopCamera
<1>5. CASE Stopped
  BY <1>5 DEF Stopped, OpenOnWorker, screenVars, OpeningIsWanted
<1>6. CASE (CaptureThread \/ Grab \/ GrabFails \/ PublishMeasured) /\ ElseUnchanged
  BY <1>6 DEF ElseUnchanged, scanVars, screenVars
<1>7. CASE UNCHANGED vars
  BY <1>7 DEF vars, scanVars, screenVars
<1> QED
  BY <1>2, <1>3, <1>4, <1>5, <1>6, <1>7 DEF Next

\* The scan screen is only left dark by a stop() asked for while an earlier
\* camera opened, which start() has not taken back (openCamera leaves
\* stop_requested_while_starting_ as it is) and which drops the new one.
THEOREM DarkOnlyByOldStop == Spec => [][~Dark /\ Dark' => StartFinished /\ gui' = "dropping"]_vars
<1> DEFINE Inv == SessionInv /\ OpeningIsWanted
<1>1. Init => Inv
  BY SessionInit DEF Init, OpeningIsWanted
<1>2. Inv /\ [Next]_vars => Inv'
  BY SessionStep, WantedStep
<1>3. Inv /\ [Next]_vars => [~Dark /\ Dark' => StartFinished /\ gui' = "dropping"]_vars
  BY DarkStep
<1> QED
  BY <1>1, <1>2, <1>3, PTL DEF Spec

-----------------------------------------------------------------------------
(* What the waits rest on, and what a restore leaves                        *)

\* The GUI thread waits for a capture thread that is there and has been asked to
\* stop, and nothing takes the request back before the thread has ended.
StopIsUnderWay ==
  gui \in {"stopping", "reopening", "dropping"} => stopRequested /\ IsCapturing

\* The lock is awaited of a camera that runs, and of so many frames only.
AwaitIsBounded == awaiting => running /\ waited <= LockWait

\* Both are set together with what they wait for.
LEMMA WaitStep ==
  ASSUME SessionInv, ScanTypeInv, StopIsUnderWay, AwaitIsBounded, [Next]_vars
  PROVE  StopIsUnderWay' /\ AwaitIsBounded'
<1> USE DEF StopIsUnderWay, AwaitIsBounded, IsCapturing
<1>1. CASE Navigate
  BY <1>1, NavigateCamera DEF SessionInv, OneCamera
<1>2. CASE WorkerOpens
  <2>1. gui' = gui /\ UNCHANGED <<awaiting, running, waited>>
    BY <1>2 DEF WorkerOpens, guiVars
  <2>2. thread = "none" \/ UNCHANGED <<thread, stopRequested>>
    BY <1>2 DEF WorkerOpens, OpenCamera, IsCapturing, captureVars
  <2> QED
    BY <2>1, <2>2
<1>3. CASE StartFinished
  <2>1. CASE Opened
    BY <1>3, <2>1, ScanAssumption DEF StartFinished, Opened, RequestLock
  <2>2. CASE OpenFailed
    BY <1>3, <2>2 DEF StartFinished, OpenFailed, captureVars
  <2>3. CASE OpenedInVain
    BY <1>3, <2>3 DEF StartFinished, OpenedInVain, StopCamera, AskToStop, SessionInv, OneCamera
  <2> QED
    BY <1>3, <2>1, <2>2, <2>3 DEF StartFinished
<1>4. CASE Stopped
  BY <1>4 DEF Stopped
<1>5. CASE Dropped
  BY <1>5 DEF Dropped, scanVars
<1>6. CASE PollFrame
  BY <1>6 DEF PollFrame, PopFrame, scanVars
<1>7. CASE PollReport
  BY <1>7 DEF PollReport, LockAwaited, TakeReport, SessionInv, OneCamera
<1>8. CASE (CaptureThread \/ Grab \/ GrabFails \/ PublishMeasured) /\ ElseUnchanged
  <2>1. UNCHANGED <<awaiting, running, waited, gui>>
    BY <1>8 DEF ElseUnchanged, scanVars, guiVars
  <2>2. stopRequested' = stopRequested /\ thread' # "none"
    BY <1>8 DEF CaptureThread, LoopOn, Service, ApplyOne, Report, Publish, Grab, GrabFails,
       PublishMeasured, ThreadAt
  <2> QED
    BY <2>1, <2>2
<1>9. CASE UNCHANGED vars
  BY <1>9 DEF vars, captureVars, scanVars, guiVars
<1> QED
  BY <1>1, <1>2, <1>3, <1>4, <1>5, <1>6, <1>7, <1>8, <1>9 DEF Next

\* What StopReturns and LockIsNotAwaitedForGood rest on: stop() joins a thread
\* that will see the flag at the head of its loop, and the wait for the lock
\* counts frames of a camera that runs.
THEOREM WaitsAreAnswered == Spec => [](StopIsUnderWay /\ AwaitIsBounded)
<1> DEFINE Inv == SessionInv /\ ScanTypeInv /\ StopIsUnderWay /\ AwaitIsBounded
<1>1. Init => Inv
  BY SessionInit, ScanTypeInit DEF Init, StopIsUnderWay, AwaitIsBounded
<1>2. Inv /\ [Next]_vars => Inv'
  BY SessionStep, ScanTypeStep, WaitStep
<1> QED
  BY <1>1, <1>2, PTL DEF Spec

\* What a control of the lock may have had changed beside it, on this camera.
Beside ==
  Asides \cap ((IF "autoWhiteBalance" \in ControlSet THEN {"temperature"} ELSE {})
               \cup (IF "exposure" \in ControlSet THEN {"autoExposure"} ELSE {}))

\* What is no control is only written beside one.
AsidesAreBeside ==
  /\ \A p \in {"temperature", "autoExposure"} : driver[p] = "locked" => p \in Beside
  /\ refused \subseteq MayRefuse

LEMMA AsidesAreBesideStep ==
  ASSUME ScanTypeInv, HeldWasFound, AsidesAreBeside, [Next]_vars
  PROVE  AsidesAreBeside'
<1> DEFINE Others == {"temperature", "autoExposure"}
<1>1. Others \cap ControlSet = {} /\ Others \subseteq Properties
  BY CaptureAssumption DEF ControlSet, Properties
<1>2. CASE ApplyOne
  <2>1. place \in DOMAIN Controls /\ UNCHANGED refused
    BY <1>2, CaptureAssumption DEF ApplyOne, HeldWasFound, DriverTypeOK
  <2>2. Controls[place] \in ControlSet
    BY <2>1 DEF ControlSet
  <2>3. \A aside \in Aside(Controls[place]) : aside \subseteq Beside
    BY <2>2 DEF Aside, Beside
  <2>4. \A aside \in AsideOfRefused(Controls[place]) : aside \subseteq Beside
    BY <2>3 DEF AsideOfRefused
  <2>5. PICK written \in SUBSET ({Controls[place]} \cup Beside) : driver' = Locking(written)
    <3>1. CASE \E aside \in Aside(Controls[place]) : driver' = Locking({Controls[place]} \cup aside)
      BY <2>3, <3>1
    <3>2. CASE \E aside \in AsideOfRefused(Controls[place]) : driver' = Locking(aside)
      BY <2>4, <3>2
    <3> QED
      BY <1>2, <3>1, <3>2 DEF ApplyOne
  <2> QED
    BY <1>1, <2>1, <2>2, <2>5 DEF Locking, AsidesAreBeside
<1>3. CASE Joined
  <2>1. PICK taken \in SUBSET {c \in ControlSet : asFound[c] # None} :
          /\ {c \in ControlSet : asFound[c] # None} \ taken \subseteq MayRefuse
          /\ driver' = [p \in Properties |-> IF p \in taken THEN asFound[p] ELSE driver[p]]
          /\ refused' = refused \cup ({c \in ControlSet : asFound[c] # None} \ taken)
    BY <1>3 DEF Joined
  <2>2. \A p \in Others : driver'[p] = driver[p]
    BY <1>1, <2>1
  <2> QED
    BY <2>1, <2>2 DEF AsidesAreBeside
<1>4. CASE UNCHANGED <<driver, refused>>
  BY <1>4 DEF AsidesAreBeside
<1>5. ASSUME ~ApplyOne, ~Joined, ThreadSteps \/ CallerSteps
      PROVE  UNCHANGED <<driver, refused>>
  BY <1>5 DEF ThreadSteps, CallerSteps, LoopOn, Service, Report, Publish, Grab, GrabFails,
     PublishMeasured, OpenCamera, AskToStop, PopFrame, TakeReport, RequestLock, ThreadAt
<1>6. CASE UNCHANGED captureVars
  BY <1>4, <1>6 DEF captureVars
<1> QED
  BY <1>2, <1>3, <1>4, <1>5, <1>6, CaptureStep DEF vars

\* What is left as a lock wrote it is a control that this camera may refuse to
\* take back, and did; or what was changed beside a control of the lock, which
\* nothing puts back: the temperature beside the white balance, the automatic
\* beside the exposure.
OnlyRefusedOrBeside ==
  ~IsCapturing =>
    \A p \in Properties : driver[p] = "locked" => p \in (refused \cap MayRefuse) \cup Beside

\* How far NothingLeftBehind is from being kept, for every camera and every
\* driver: what restore writes back, and what it does not remember.
THEOREM LeftBehindIsBounded == Spec => []OnlyRefusedOrBeside
<1> DEFINE Inv == SessionInv /\ ScanTypeInv /\ HeldWasFound /\ AsidesAreBeside
<1>1. Init => Inv
  <2>1. Init => AsidesAreBeside
    BY DEF Init, CaptureInit, AsidesAreBeside, Properties
  <2> QED
    BY <2>1, SessionInit, ScanTypeInit, HeldWasFoundInit DEF Init
<1>2. Inv /\ [Next]_vars => Inv'
  BY SessionStep, ScanTypeStep, HeldWasFoundStep, AsidesAreBesideStep
<1>3. HeldWasFound /\ AsidesAreBeside => OnlyRefusedOrBeside
  <2> SUFFICES ASSUME HeldWasFound, AsidesAreBeside, ~IsCapturing,
                      NEW p \in Properties, driver[p] = "locked"
               PROVE  p \in (refused \cap MayRefuse) \cup Beside
    BY DEF OnlyRefusedOrBeside
  <2>1. CASE p \in ControlSet
    <3>1. asFound[p] = None /\ ControlKept(p)
      BY <2>1 DEF HeldWasFound, Untouched
    <3> QED
      BY <3>1 DEF ControlKept, AsidesAreBeside
  <2>2. CASE p \in {"temperature", "autoExposure"}
    BY <2>2 DEF AsidesAreBeside
  <2> QED
    BY <2>1, <2>2 DEF Properties
<1> QED
  BY <1>1, <1>2, <1>3, PTL DEF Spec

=============================================================================

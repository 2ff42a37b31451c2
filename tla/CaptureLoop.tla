------------------------------ MODULE CaptureLoop ------------------------------
(***************************************************************************)
(* OpenCvCaptureLoop and the photometry lock: one thread owns the camera,  *)
(* grabs frames into a mailbox that keeps the latest, and between two      *)
(* grabs applies the lock it was asked for.  Its callers are the worker    *)
(* that opens it and the GUI thread that pops frames, asks for the lock,   *)
(* takes its report and stops it.                                          *)
(*                                                                         *)
(* A step is one critical section, or the writes to the driver for one     *)
(* control.  A property of the driver is as the program found it or as a   *)
(* lock left it.  Besides the controls of the lock those are two that are  *)
(* written with one of them and never put back: the white-balance          *)
(* temperature, and the automatic exposure that an exposure write drops.   *)
(* A write the driver refuses leaves the control's own number as it was.   *)
(* request_photometry_restore, which nothing calls, is left out, and       *)
(* pending_restore_ with it.                                               *)
(***************************************************************************)
EXTENDS Integers, Sequences

CONSTANTS
  Controls,   \* the controls a lock holds, in the order it holds them
  Asides,     \* what a write to a control of this camera may change besides
  MayRefuse,  \* the controls this camera may refuse to take back
  Settle,     \* kPhotometrySettleFrames
  MaxOpens,   \* bound: how often the camera opens
  None        \* an empty std::optional

ASSUME CaptureAssumption ==
  /\ Controls \in Seq({"autoWhiteBalance", "exposure", "brightness", "saturation"})
  /\ Asides \subseteq {"temperature", "autoExposure"}
  /\ MayRefuse \subseteq {Controls[i] : i \in DOMAIN Controls}
  /\ Settle \in Nat /\ MaxOpens \in Nat
  /\ None \notin [opening : Nat, settled : BOOLEAN] \cup [opening : Nat]
  /\ None \notin {"found", "locked"}

VARIABLES
  supported,      \* photometry_: a constant of the platform
  thread,         \* where the capture thread is
  stopRequested,  \* stop_requested_
  grabbed,        \* the frame the thread holds, or None
  mailbox,        \* latest_
  pendingLock,    \* pending_lock_ is set
  settle,         \* settle_frames_remaining_
  report,         \* report_
  driver,         \* the driver's properties: as found, or as a lock wrote them
  asFound,        \* as_found_: what each control was before the lock, or None
  refused,        \* history: the controls the driver would not take back
  place,          \* the control apply_lock is at
  opened,         \* history: how often the camera has opened
  answered        \* history: this opening's lock, if there is one, has been answered

captureVars == <<supported, thread, stopRequested, grabbed, mailbox, pendingLock,
                 settle, report, driver, asFound, refused, place, opened, answered>>

ControlSet == {Controls[i] : i \in DOMAIN Controls}
Properties == ControlSet \cup {"temperature", "autoExposure"}
Untouched == [control \in ControlSet |-> None]

\* What else a write to a control may change: one to the white balance is
\* followed by the temperature's, if it is taken, and one to the exposure drops
\* the automatic, taken or not.
Aside(control) ==
  SUBSET (Asides \cap CASE control = "autoWhiteBalance" -> {"temperature"}
                       [] control = "exposure" -> {"autoExposure"}
                       [] OTHER -> {})
AsideOfRefused(control) == IF control = "autoWhiteBalance" THEN {{}} ELSE Aside(control)

\* The driver, once these of its properties are as the lock writes them.
Locking(written) == [p \in Properties |-> IF p \in written THEN "locked" ELSE driver[p]]

\* A frame, and a report, remember the opening they are from; a frame also
\* whether the camera had settled when it was grabbed.
FrameNow(settled) == [opening |-> opened, settled |-> settled]

CaptureInit ==
  /\ supported \in BOOLEAN
  /\ thread = "none"
  /\ stopRequested = FALSE
  /\ grabbed = None /\ mailbox = None
  /\ pendingLock = FALSE /\ settle = 0 /\ report = None
  /\ driver = [p \in Properties |-> "found"]
  /\ asFound = Untouched /\ refused = {}
  /\ place = 1
  /\ opened = 0
  /\ answered = FALSE

IsCapturing == thread # "none"

-----------------------------------------------------------------------------
(* The callers *)

\* Mutant of OpenCamera: what the session before left is still there.
OpenCameraAsIs ==
  /\ ~IsCapturing /\ opened < MaxOpens
  /\ opened' = opened + 1
  /\ stopRequested' = FALSE
  /\ thread' = "head"
  /\ grabbed' = None
  /\ answered' = ~supported
  /\ UNCHANGED <<supported, mailbox, pendingLock, settle, report,
                 driver, asFound, refused, place>>

\* start(), the device having opened.
OpenCamera ==
  /\ ~IsCapturing /\ opened < MaxOpens
  /\ opened' = opened + 1
  /\ mailbox' = None
  /\ pendingLock' = FALSE /\ settle' = 0 /\ report' = None /\ asFound' = Untouched
  /\ stopRequested' = FALSE
  /\ thread' = "head"
  /\ grabbed' = None
  /\ answered' = ~supported
  /\ UNCHANGED <<supported, driver, refused, place>>

\* Mutant of AskToStop: the flag is not set.
AskNothing == UNCHANGED captureVars

\* The first half of stop(): the flag, and then the join.
AskToStop ==
  /\ stopRequested' = TRUE
  /\ UNCHANGED <<supported, thread, grabbed, mailbox, pendingLock, settle, report,
                 driver, asFound, refused, place, opened, answered>>

\* Mutant of Joined: the device is let go of as it is.
JoinedAsIs ==
  /\ thread = "done"
  /\ thread' = "none"
  /\ UNCHANGED <<supported, stopRequested, grabbed, mailbox, pendingLock, settle, report,
                 driver, asFound, refused, place, opened, answered>>

\* The second half: the thread has ended, and restore writes back what was kept.
\* The driver may refuse, which nobody looks at: what was kept is forgotten.
Joined ==
  /\ thread = "done"
  /\ thread' = "none"
  /\ LET kept == {c \in ControlSet : asFound[c] # None}
     IN \E taken \in SUBSET kept :
          /\ kept \ taken \subseteq MayRefuse
          /\ driver' = [p \in Properties |->
                         IF p \in taken THEN asFound[p] ELSE driver[p]]
          /\ refused' = refused \cup (kept \ taken)
  /\ asFound' = Untouched
  /\ UNCHANGED <<supported, stopRequested, grabbed, mailbox, pendingLock, settle, report,
                 place, opened, answered>>

\* request_photometry_lock while capturing: without support, a report at once.
RequestLock ==
  /\ IF supported
     THEN pendingLock' = TRUE /\ settle' = Settle /\ UNCHANGED report
     ELSE report' = [opening |-> opened] /\ UNCHANGED <<pendingLock, settle>>
  /\ UNCHANGED <<supported, thread, stopRequested, grabbed, mailbox,
                 driver, asFound, refused, place, opened, answered>>

\* try_pop_latest_frame, with a frame there.
PopFrame ==
  /\ mailbox # None
  /\ mailbox' = None
  /\ UNCHANGED <<supported, thread, stopRequested, grabbed, pendingLock, settle, report,
                 driver, asFound, refused, place, opened, answered>>

\* take_photometry_report
TakeReport ==
  /\ report' = None
  /\ UNCHANGED <<supported, thread, stopRequested, grabbed, mailbox, pendingLock, settle,
                 driver, asFound, refused, place, opened, answered>>

-----------------------------------------------------------------------------
(* The capture thread *)

ThreadAt(there) ==
  thread' = there /\ UNCHANGED <<supported, stopRequested, opened>>

\* The head of the loop.
LoopOn ==
  /\ thread = "head"
  /\ ThreadAt(IF stopRequested THEN "done" ELSE "read")
  /\ UNCHANGED <<grabbed, mailbox, pendingLock, settle, report,
                 driver, asFound, refused, place, answered>>

\* capture_.read: a frame, or nothing.
Grab ==
  /\ thread = "read"
  /\ grabbed' = FrameNow(answered)
  /\ ThreadAt("service")
  /\ UNCHANGED <<mailbox, pendingLock, settle, report,
                 driver, asFound, refused, place, answered>>

GrabFails ==
  /\ thread = "read"
  /\ ThreadAt("head")
  /\ UNCHANGED <<grabbed, mailbox, pendingLock, settle, report,
                 driver, asFound, refused, place, answered>>

\* Mutant of Service: the frames to settle are counted past the last.
ServicePastZero ==
  /\ thread = "service"
  /\ settle' = IF pendingLock THEN settle - 1 ELSE settle
  /\ pendingLock' = (pendingLock /\ settle > 0)
  /\ ThreadAt(IF pendingLock /\ settle = 0 THEN "apply" ELSE "publish")
  /\ UNCHANGED <<grabbed, mailbox, report, driver, asFound, refused, place, answered>>

\* service_photometry_requests, its first critical section.
Service ==
  /\ thread = "service"
  /\ settle' = IF pendingLock /\ settle > 0 THEN settle - 1 ELSE settle
  /\ pendingLock' = (pendingLock /\ settle > 0)
  /\ ThreadAt(IF pendingLock /\ settle = 0 THEN "apply" ELSE "publish")
  /\ UNCHANGED <<grabbed, mailbox, report, driver, asFound, refused, place, answered>>

\* apply_one, and hold_white_balance around it: the driver takes the control, or
\* keeps it as it was.  What it was is remembered, of the control alone, the first
\* time it is taken.
ApplyOne ==
  /\ thread = "apply" /\ place <= Len(Controls)
  /\ LET control == Controls[place]
     IN \/ /\ \E aside \in Aside(control) : driver' = Locking({control} \cup aside)
           /\ asFound' = IF asFound[control] # None THEN asFound
                         ELSE [asFound EXCEPT ![control] = driver[control]]
        \/ /\ \E aside \in AsideOfRefused(control) : driver' = Locking(aside)
           /\ UNCHANGED asFound
  /\ place' = place + 1
  /\ ThreadAt("apply")
  /\ UNCHANGED <<grabbed, mailbox, pendingLock, settle, report, refused, answered>>

\* While the white balance is held, frames are read to measure it, before it is
\* and after, and published.
PublishMeasured ==
  /\ thread = "apply"
  /\ \/ place = 1
     \/ place = 2 /\ asFound[Controls[1]] # None
  /\ mailbox' = FrameNow(FALSE)
  /\ ThreadAt("apply")
  /\ UNCHANGED <<grabbed, pendingLock, settle, report,
                 driver, asFound, refused, place, answered>>

\* Every control has been tried: the report is there to take.
Report ==
  /\ thread = "apply" /\ place > Len(Controls)
  /\ report' = [opening |-> opened]
  /\ answered' = TRUE
  /\ place' = 1
  /\ ThreadAt("publish")
  /\ UNCHANGED <<grabbed, mailbox, pendingLock, settle, driver, asFound, refused>>

\* publish: the frame grabbed before the requests were looked at.
Publish ==
  /\ thread = "publish"
  /\ mailbox' = grabbed
  /\ grabbed' = None
  /\ ThreadAt("head")
  /\ UNCHANGED <<pendingLock, settle, report, driver, asFound, refused, place, answered>>

CaptureThread == LoopOn \/ Service \/ ApplyOne \/ Report \/ Publish

-----------------------------------------------------------------------------
Frames == [opening : 1..MaxOpens, settled : BOOLEAN]
Reports == [opening : 1..MaxOpens]

\* The type of the capture loop's state.
CaptureTypeOK ==
  /\ supported \in BOOLEAN /\ stopRequested \in BOOLEAN /\ answered \in BOOLEAN
  /\ thread \in {"none", "head", "read", "service", "apply", "publish", "done"}
  /\ grabbed \in Frames \cup {None} /\ mailbox \in Frames \cup {None}
  /\ pendingLock \in BOOLEAN /\ settle \in 0..Settle
  /\ report \in Reports \cup {None}
  /\ driver \in [Properties -> {"found", "locked"}]
  /\ asFound \in [ControlSet -> {"found", "locked", None}] /\ refused \subseteq ControlSet
  /\ place \in 1..(Len(Controls) + 1)
  /\ opened \in 0..MaxOpens

\* "Driver property state outlives the process": whenever the camera is not
\* capturing, however it was stopped and whatever part of a lock it was in, the
\* number of every control of the lock is as it was found, but for those that the
\* driver would not take back.  One refused is lost for good: the next lock
\* remembers it as found.
LeftAsFound ==
  ~IsCapturing => \A c \in ControlSet : driver[c] = "locked" <=> c \in refused

\* photometry_lock.hpp: apply_lock "Records what it overwrote in `as_found`", and
\* restore "Writes back everything in the snapshot".  Nothing the lock wrote is
\* left so by a driver that refuses nothing.
NothingLeftBehind ==
  ~IsCapturing /\ refused = {} =>
    \A p \in ControlSet \cup {"temperature"} : driver[p] = "found"

=============================================================================

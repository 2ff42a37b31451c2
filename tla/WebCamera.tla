----------------------------- MODULE WebCamera -----------------------------
(***************************************************************************)
(* The camera of the browser build. camera_web.cpp keeps one mutex-guarded *)
(* Session; start() runs on a worker thread that calls into the page and   *)
(* waits for its answer, everything else runs on the page's main thread.   *)
(* camera_web.js opens the camera, holds its exposure and white balance    *)
(* with promises that other events run between, and lets it go again.      *)
(*                                                                         *)
(* The caller is DirectScan: it starts no camera while one is starting or  *)
(* capturing, and asks for one lock per opening. Every session is of the   *)
(* same device, whose control modes outlive it. It tells a control's mode  *)
(* with its value, and one it offers manual for can be given back: it      *)
(* offers the mode found too, or continuous.                               *)
(***************************************************************************)
EXTENDS Naturals, Sequences, FiniteSets, SequencesExt

CONSTANTS
  None,
  Controls,     \* what a lock holds: exposure and white balance
  Found,        \* the modes the device may be found in
  MaxRequests,  \* what Session::camera counts to; bounds Start
  MaxOpens,     \* cameras opened; bounds Start
  MayMisread    \* openings whose locks may fail to read back; bounds Checked

Modes == {"continuous", "manual"}

ASSUME ConstantsOK ==
  /\ IsFiniteSet(Controls)
  /\ None \notin {"ok", "failed"}
  /\ MaxRequests \in Nat \ {0}
  /\ MayMisread \subseteq 1..MaxRequests
  /\ Found \subseteq [Controls -> Modes]

VARIABLES
  camera,      \* Session::camera, which opening the page is answering
  answer,      \* start_ready and start_answer
  capturing,
  latest,      \* the mailbox: the opening its frame is of
  report,      \* the lock's report: the opening it is of, what was held
  proven,      \* controls_proven
  asked,       \* the caller has asked for this opening's lock
  worker,      \* the thread in start(): idle, calling the page, or waiting
  calls,       \* proxied to the main thread by the worker, oldest first
  current,     \* CubeCamera.current, 0 for null
  page,        \* the page's session of each opening
  mode,        \* the device: the mode each control is in
  exact,       \* the device: controls that hold the value last asked of them
  found,       \* the modes before anything was opened
  unread,      \* history: controls a lock put in manual and could not read back
  obeyed,      \* history: the driver has done, in time, all it was asked to undo
  overlapped   \* history: a lock was read under a camera still being put back

cppVars == <<camera, answer, capturing, latest, report, proven>>
deviceVars == <<mode, exact, found, unread>>
vars == <<camera, answer, capturing, latest, report, proven, asked, worker,
          calls, current, page, mode, exact, found, unread, obeyed, overlapped>>

Requests == 1..MaxRequests

LockPcs == {"none", "settling", "reading", "asking", "checking",
            "unanswered", "reverting"}

(* asking: getUserMedia() is pending; playing: play() is; waiting and      *)
(* restoring: let go of, for its lock to end and for the modes to be put   *)
(* back.                                                                   *)
Stages == {"none", "asking", "playing", "live", "waiting", "restoring", "over"}

NoLock == [pc |-> "none", asFound |-> {}, todo |-> <<>>,
           held |-> {}, manual |-> {}]

NoSession == [stage |-> "none", on |-> FALSE, active |-> FALSE,
              held |-> {}, lock |-> NoLock]

Init ==
  /\ camera = 0 /\ answer = None /\ capturing = FALSE
  /\ latest = None /\ report = None /\ proven = FALSE
  /\ asked = FALSE /\ worker = "idle" /\ calls = <<>>
  /\ current = 0
  /\ page = [s \in Requests |-> NoSession]
  /\ mode \in Found /\ found = mode /\ exact = {} /\ unread = {}
  /\ obeyed = TRUE /\ overlapped = FALSE

-----------------------------------------------------------------------------
(* What the page does to one of its sessions.                              *)

(* The tracks are stopped, after the modes a lock changed are asked back.  *)
Finish(session) ==
  IF session.held = {}
  THEN [session EXCEPT !.stage = "over", !.on = FALSE]
  ELSE [session EXCEPT !.stage = "restoring"]

\* Mutant of Release: a lock in flight is not waited for.
ReleaseAtOnce(session) ==
  LET gone == [session EXCEPT !.active = FALSE] IN
  CASE session.stage \in {"asking", "playing"} -> [gone EXCEPT !.on = FALSE]
    [] session.stage = "live" -> Finish(gone)
    [] OTHER -> gone

(* release(): a lock in flight is waited for. A promise of the opening     *)
(* that is still pending finds out by itself that it is superseded.        *)
Release(session) ==
  LET gone == [session EXCEPT !.active = FALSE] IN
  CASE session.stage \in {"asking", "playing"} -> [gone EXCEPT !.on = FALSE]
    [] session.stage = "live" /\ session.lock.pc = "none" -> Finish(gone)
    [] session.stage = "live" /\ session.lock.pc # "none" ->
         [gone EXCEPT !.stage = "waiting"]
    [] OTHER -> gone

\* Mutant of LockOver: nobody is told that the lock is over.
LockOverUntold(session) == [session EXCEPT !.lock = NoLock]

(* The lock in flight is over, which is what a release may be waiting for. *)
LockOver(session) ==
  LET free == [session EXCEPT !.lock = NoLock] IN
  IF session.stage = "waiting" THEN Finish(free) ELSE free

LetGo ==
  /\ page' = IF current = 0 THEN page
             ELSE [page EXCEPT ![current] = Release(@)]
  /\ current' = 0

(* cube_web_camera_started(): an answer to a start given up on is dropped. *)
Started(s, outcome) == answer' = IF s = camera THEN outcome ELSE answer

\* Mutant of Reported: the opening it is of is not looked at.
ReportedOfAny(s, held) ==
  IF capturing
  THEN report' = [of |-> s, held |-> held] /\ proven' = (held # {})
  ELSE UNCHANGED <<report, proven>>

(* cube_web_camera_lock_reported()                                         *)
Reported(s, held) ==
  IF s = camera /\ capturing
  THEN report' = [of |-> s, held |-> held] /\ proven' = (held # {})
  ELSE UNCHANGED <<report, proven>>

-----------------------------------------------------------------------------
(* camera_web.cpp                                                          *)

Start ==
  /\ worker = "idle" /\ ~capturing
  /\ camera < MaxRequests
  /\ Cardinality({s \in Requests : page[s].stage # "none"}) < MaxOpens
  /\ camera' = camera + 1
  /\ answer' = None /\ latest' = None /\ report' = None /\ proven' = FALSE
  /\ asked' = FALSE
  /\ worker' = "calling" /\ calls' = Append(calls, "open")
  /\ UNCHANGED <<capturing, current, page, deviceVars, obeyed, overlapped>>

(* The page answered: the predicate is looked at again when the time is    *)
(* up, so an answer that is there is never missed.                         *)
Woken ==
  /\ worker = "waiting" /\ answer # None
  /\ capturing' = (answer = "ok")
  /\ worker' = "idle"
  /\ UNCHANGED <<camera, answer, latest, report, proven, asked, calls, current,
                 page, deviceVars, obeyed, overlapped>>

TimedOut ==
  /\ worker = "waiting" /\ answer = None
  /\ camera' = camera + 1
  /\ worker' = "idle" /\ calls' = Append(calls, "close")
  /\ UNCHANGED <<answer, capturing, latest, report, proven, asked, current,
                 page, deviceVars, obeyed, overlapped>>

Stop ==
  /\ worker = "idle" /\ capturing
  /\ capturing' = FALSE /\ latest' = None /\ report' = None /\ proven' = FALSE
  /\ LetGo
  /\ UNCHANGED <<camera, answer, asked, worker, calls, deviceVars, obeyed,
                 overlapped>>

(* The page is called in place: the GUI thread is its main thread. A       *)
(* camera that has gone in the meantime is not answered for.               *)
RequestLock ==
  /\ worker = "idle" /\ capturing /\ ~asked
  /\ asked' = TRUE
  /\ \/ /\ current # camera \/ ~page[current].active
        /\ report' = None /\ proven' = FALSE
        /\ UNCHANGED page
     \/ /\ current = camera /\ page[current].active
        /\ Reported(current, {})      \* the browser has no such control
        /\ UNCHANGED page
     \/ /\ current = camera /\ page[current].active
        /\ report' = None /\ proven' = FALSE
        /\ page' = [page EXCEPT ![current].lock.pc = "settling"]
  /\ UNCHANGED <<camera, answer, capturing, latest, worker, calls, current,
                 deviceVars, obeyed, overlapped>>

(* DirectScan::poll() takes the frame, and with it the report.             *)
Poll ==
  /\ capturing /\ latest # None
  /\ latest' = None /\ report' = None
  /\ UNCHANGED <<camera, answer, capturing, proven, asked, worker, calls,
                 current, page, deviceVars, obeyed, overlapped>>

-----------------------------------------------------------------------------
(* camera_web.js: opening and closing                                      *)

(* The worker's call runs on the main thread; it waits for an open to      *)
(* return, not for a close. Without mediaDevices the answer is at once.    *)
OpenCall ==
  /\ calls # <<>> /\ Head(calls) = "open"
  /\ LET let == IF current = 0 THEN page
                ELSE [page EXCEPT ![current] = Release(@)]
     IN \/ /\ page' = [let EXCEPT ![camera].stage = "asking"]
           /\ current' = camera
           /\ UNCHANGED answer
        \/ /\ page' = let
           /\ current' = 0
           /\ Started(camera, "failed")
  /\ calls' = Tail(calls) /\ worker' = "waiting"
  /\ UNCHANGED <<camera, capturing, latest, report, proven, asked, deviceVars,
                 obeyed, overlapped>>

CloseCall ==
  /\ calls # <<>> /\ Head(calls) = "close"
  /\ calls' = Tail(calls)
  /\ LetGo
  /\ UNCHANGED <<cppVars, asked, worker, deviceVars, obeyed, overlapped>>

\* Mutant of Granted: it does not ask whether it has been superseded.
GrantedAnyway(s) ==
  /\ page[s].stage = "asking"
  /\ page' = [page EXCEPT ![s].stage = "playing", ![s].on = TRUE]
  /\ UNCHANGED <<cppVars, asked, worker, calls, current, deviceVars, obeyed,
                 overlapped>>

(* getUserMedia() resolves: a stream nobody waits for is stopped at once.  *)
Granted(s) ==
  /\ page[s].stage = "asking"
  /\ page' = [page EXCEPT
       ![s] = IF current = s THEN [@ EXCEPT !.stage = "playing", !.on = TRUE]
                             ELSE [@ EXCEPT !.stage = "over"]]
  /\ UNCHANGED <<cppVars, asked, worker, calls, current, deviceVars, obeyed,
                 overlapped>>

Played(s) ==
  /\ page[s].stage = "playing"
  /\ IF current = s
     THEN /\ page' = [page EXCEPT ![s].stage = "live", ![s].active = TRUE]
          /\ Started(s, "ok")
     ELSE /\ page' = [page EXCEPT ![s].stage = "over", ![s].on = FALSE]
          /\ UNCHANGED answer
  /\ UNCHANGED <<camera, capturing, latest, report, proven, asked, worker,
                 calls, current, deviceVars, obeyed, overlapped>>

(* getUserMedia() or play() rejects.                                       *)
Refused(s) ==
  /\ page[s].stage \in {"asking", "playing"}
  /\ page' = [page EXCEPT ![s].stage = "over", ![s].on = FALSE]
  /\ IF current = s THEN current' = 0 /\ Started(s, "failed")
                    ELSE UNCHANGED <<current, answer>>
  /\ UNCHANGED <<camera, capturing, latest, report, proven, asked, worker,
                 calls, deviceVars, obeyed, overlapped>>

(* Unplugged, or the permission revoked: nothing more is asked of it.      *)
Ended(s) ==
  /\ page[s].on
  /\ page' = [page EXCEPT ![s].on = FALSE, ![s].active = FALSE]
  /\ obeyed' = FALSE
  /\ UNCHANGED <<cppVars, asked, worker, calls, current, deviceVars, overlapped>>

(* pump() and cube_web_camera_frame()                                      *)
Frame(s) ==
  /\ page[s].active /\ s = camera /\ capturing
  /\ latest' = s
  /\ UNCHANGED <<camera, answer, capturing, report, proven, asked, worker,
                 calls, current, page, deviceVars, obeyed, overlapped>>

-----------------------------------------------------------------------------
(* camera_web.js: the lock                                                 *)

(* The automatics have settled, or the time for it is up.                  *)
Settled(s) ==
  /\ page[s].lock.pc = "settling"
  /\ page' = [page EXCEPT
       ![s] = IF current = s /\ @.active THEN [@ EXCEPT !.lock.pc = "reading"]
                                         ELSE LockOver(@)]
  /\ UNCHANGED <<cppVars, asked, worker, calls, current, deviceVars, obeyed,
                 overlapped>>

(* What the camera says it has and is doing. pending can be held; if       *)
(* nothing can, that is the answer.                                        *)
Read(s) ==
  /\ page[s].lock.pc = "reading"
  /\ \E pending \in SUBSET Controls :
       IF pending = {}
       THEN page' = [page EXCEPT ![s] = LockOver(@)] /\ Reported(s, {})
       ELSE /\ page' = [page EXCEPT ![s].lock =
                 [@ EXCEPT !.pc = "asking", !.todo = <<pending>>,
                           !.asFound = {c \in Controls : mode[c] = "manual"}]]
            /\ UNCHANGED <<report, proven>>
  /\ overlapped' = (overlapped \/
       \E t \in Requests \ {s} : page[t].stage \in {"waiting", "restoring"})
  /\ UNCHANGED <<camera, answer, capturing, latest, asked, worker, calls,
                 current, deviceVars, obeyed>>

(* The driver takes the set of controls whole or not at all, and holds the *)
(* values of some; one that has not answered in time may do either later,  *)
(* and from then on nothing is known of it.                                *)
Asked(s) ==
  /\ page[s].lock.pc = "asking"
  /\ LET tried == Head(page[s].lock.todo) IN
     \/ \E good \in SUBSET tried :
          /\ mode' = [c \in Controls |-> IF c \in tried THEN "manual" ELSE mode[c]]
          /\ exact' = (exact \ tried) \cup good
          /\ page' = [page EXCEPT ![s].lock.pc = "checking"]
          /\ UNCHANGED obeyed
     \/ /\ page' = [page EXCEPT ![s].lock.pc = "checking"]
        /\ UNCHANGED <<mode, exact, obeyed>>
     \/ /\ page' = [page EXCEPT ![s].lock.pc = "unanswered"]
        /\ obeyed' = FALSE
        /\ UNCHANGED <<mode, exact>>
  /\ UNCHANGED <<cppVars, asked, worker, calls, current, found, unread, overlapped>>

(* The lock has its result: what it holds and did not find so is the       *)
(* session's to put back.                                                  *)
Concluded(s, session) ==
  LET lock == session.lock IN
  /\ page' = [page EXCEPT ![s] =
       LockOver([session EXCEPT !.held = @ \cup (lock.held \ lock.asFound)])]
  /\ Reported(s, lock.held)

\* What a read-back says is in manual, of these that are: nothing, if it fails.
SaidManual(s, taken) == {taken} \cup IF s \in MayMisread THEN {{}} ELSE {}

(* The camera is read back, which may fail or take too long: then no       *)
(* control counts as held. A set that was vetoed is tried one control at a *)
(* time, of a camera that answers and is still wanted; what went to manual *)
(* and would not hold is given back.                                       *)
Checked(s) ==
  /\ page[s].lock.pc \in {"checking", "unanswered"}
  /\ \E manual \in SaidManual(s, {c \in Head(page[s].lock.todo) : mode[c] = "manual"}) :
     LET session == page[s]
         lock    == session.lock
         tried   == Head(lock.todo)
         read    == [lock EXCEPT
                      !.manual = (@ \ tried) \cup manual,
                      !.held = (@ \ tried) \cup (manual \cap exact)]
         missed  == SetToSeq(tried \ read.held)
         todo    == IF lock.pc = "checking" /\ session.active /\ Cardinality(tried) > 1
                    THEN [i \in DOMAIN missed |-> {missed[i]}]
                    ELSE Tail(lock.todo)
         back    == (read.manual \ read.held) \ read.asFound
     IN /\ unread' = unread \cup
             ({c \in tried : mode[c] = "manual"} \ (manual \cup lock.asFound))
        /\ \/ /\ todo # <<>>
              /\ page' = [page EXCEPT ![s].lock =
                   [read EXCEPT !.pc = "asking", !.todo = todo]]
              /\ UNCHANGED <<report, proven>>
           \/ /\ todo = <<>> /\ back # {}
              /\ page' = [page EXCEPT ![s].lock =
                   [read EXCEPT !.pc = "reverting", !.todo = <<back>>]]
              /\ UNCHANGED <<report, proven>>
           \/ /\ todo = <<>> /\ back = {}
              /\ Concluded(s, [session EXCEPT !.lock = read])
  /\ UNCHANGED <<camera, answer, capturing, latest, asked, worker, calls,
                 current, mode, exact, found, obeyed, overlapped>>

(* What is given back is only ever out of manual.                          *)
PutBack(controls) ==
  \/ /\ mode' = [c \in Controls |-> IF c \in controls THEN "continuous" ELSE mode[c]]
     /\ exact' = exact \ controls
     /\ UNCHANGED obeyed
  \/ /\ obeyed' = FALSE
     /\ UNCHANGED <<mode, exact>>

Reverted(s) ==
  /\ page[s].lock.pc = "reverting"
  /\ PutBack(Head(page[s].lock.todo))
  /\ Concluded(s, page[s])
  /\ UNCHANGED <<camera, answer, capturing, latest, asked, worker, calls,
                 current, found, unread, overlapped>>

(* unlock() has been answered, or not in time; either way the tracks stop. *)
Restored(s) ==
  /\ page[s].stage = "restoring"
  /\ PutBack(page[s].held)
  /\ page' = [page EXCEPT ![s] =
       [@ EXCEPT !.stage = "over", !.on = FALSE, !.held = {}]]
  /\ UNCHANGED <<cppVars, asked, worker, calls, current, found, unread, overlapped>>

-----------------------------------------------------------------------------
PageStep(s) ==
  \/ Settled(s) \/ Read(s) \/ Asked(s) \/ Checked(s) \/ Reverted(s) \/ Restored(s)

Next ==
  \/ Start \/ Woken \/ TimedOut \/ Stop \/ RequestLock \/ Poll
  \/ OpenCall \/ CloseCall
  \/ \E s \in Requests :
       \/ Granted(s) \/ Played(s) \/ Refused(s) \/ Ended(s) \/ Frame(s)
       \/ PageStep(s)

Spec == Init /\ [][Next]_vars

-----------------------------------------------------------------------------
TypeOK ==
  /\ camera \in 0..(MaxRequests + 1)
  /\ answer \in {None, "ok", "failed"}
  /\ capturing \in BOOLEAN /\ proven \in BOOLEAN /\ asked \in BOOLEAN
  /\ latest \in Requests \cup {None}
  /\ report \in [of : Requests, held : SUBSET Controls] \cup {None}
  /\ worker \in {"idle", "calling", "waiting"}
  /\ calls \in Seq({"open", "close"})
  /\ current \in 0..MaxRequests
  /\ page \in [Requests ->
       [stage : Stages, on : BOOLEAN, active : BOOLEAN, held : SUBSET Controls,
        lock : [pc : LockPcs, asFound : SUBSET Controls,
                todo : Seq(SUBSET Controls), held : SUBSET Controls,
                manual : SUBSET Controls]]]
  /\ mode \in [Controls -> Modes] /\ found \in [Controls -> Modes]
  /\ exact \in SUBSET Controls /\ unread \in SUBSET Controls
  /\ obeyed \in BOOLEAN /\ overlapped \in BOOLEAN

(* A camera that is on is the page's current one, or one being let go of;  *)
(* and once start() and stop() have nothing open and the calls they left   *)
(* have run, the page has none current. An answer to a prompt that was     *)
(* given up on, or for a camera replaced since, turns nothing on for good. *)
NothingLeftOn ==
  /\ \A s \in Requests :
       page[s].on => s = current \/ page[s].stage \in {"waiting", "restoring"}
  /\ worker = "idle" /\ ~capturing /\ calls = <<>> => current = 0

(* When every camera is off, its controls are in the modes they were found *)
(* in, however a lock, a stop and the next opening fell over each other:   *)
(* unless the driver did not do as it was asked, or a lock read the camera *)
(* while the one before was still being put back. A control whose read-    *)
(* back failed is not known to have been changed, and may be left so.      *)
ModesPutBack ==
  (obeyed /\ ~overlapped /\ \A s \in Requests : ~page[s].on) =>
    \A c \in Controls \ unread : mode[c] = found[c]

(* What a report says is held, is held, on the camera that is open; and    *)
(* photometry_control_supported() only speaks for such a control. Under    *)
(* the same two conditions.                                                *)
WhatIsReportedIsSo ==
  (obeyed /\ ~overlapped) =>
    /\ report # None => /\ report.of = camera
                        /\ \A c \in report.held : mode[c] = "manual" /\ c \in exact
    /\ proven => \E c \in Controls : mode[c] = "manual"

(* Every camera let go of goes off in the end: the lock it waits for ends, *)
(* and its driver is waited for no longer than the limit.                  *)
BeingLetGo == {s \in Requests : page[s].on /\ current # s}
LetGoIsOff == (BeingLetGo # {}) ~> (BeingLetGo = {})

(* The page's own promises and timers run: settling, the driver's answers, *)
(* each within a limit. One condition for all of them is enough: a session *)
(* has finitely many such steps, so none keeps another's from running.     *)
Fairness == WF_vars(\E s \in Requests : PageStep(s))
FairSpec == Spec /\ Fairness
=============================================================================

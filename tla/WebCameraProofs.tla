-------------------------- MODULE WebCameraProofs --------------------------
(***************************************************************************)
(* What TLAPS proves of WebCamera, for any controls, number of openings    *)
(* and of cameras: its types, that nothing the page opened stays on, that  *)
(* the device is left in the modes it was found in, that a report is true, *)
(* and what is left to fairness of a camera let go of going off.           *)
(***************************************************************************)
EXTENDS WebCamera, FiniteSetTheorems, TLAPS

Locks == [pc : LockPcs, asFound : SUBSET Controls, todo : Seq(SUBSET Controls),
          held : SUBSET Controls, manual : SUBSET Controls]
Sessions == [stage : Stages, on : BOOLEAN, active : BOOLEAN,
             held : SUBSET Controls, lock : Locks]

-----------------------------------------------------------------------------
(* The page's helpers keep a session's type.                               *)

LEMMA FinishTyped == \A x \in Sessions : Finish(x) \in Sessions
  BY DEF Finish, Sessions, Stages

LEMMA ReleaseTyped == \A x \in Sessions : Release(x) \in Sessions
<1> SUFFICES ASSUME NEW x \in Sessions PROVE Release(x) \in Sessions
  OBVIOUS
<1> DEFINE gone == [x EXCEPT !.active = FALSE]
<1>1. gone \in Sessions
  BY DEF Sessions
<1>2. Finish(gone) \in Sessions
  BY <1>1, FinishTyped
<1>3. [gone EXCEPT !.on = FALSE] \in Sessions /\ [gone EXCEPT !.stage = "waiting"] \in Sessions
  BY <1>1 DEF Sessions, Stages
<1> HIDE DEF gone
<1>4. Release(x) \in {gone, Finish(gone), [gone EXCEPT !.on = FALSE],
                      [gone EXCEPT !.stage = "waiting"]}
  BY DEF Release, gone
<1> QED
  BY <1>1, <1>2, <1>3, <1>4

LEMMA NoLockTyped == NoLock \in Locks
  BY DEF NoLock, Locks, LockPcs

LEMMA LockOverTyped == \A x \in Sessions : LockOver(x) \in Sessions
<1> SUFFICES ASSUME NEW x \in Sessions PROVE LockOver(x) \in Sessions
  OBVIOUS
<1> DEFINE free == [x EXCEPT !.lock = NoLock]
<1>1. free \in Sessions
  BY NoLockTyped DEF Sessions
<1>2. Finish(free) \in Sessions
  BY <1>1, FinishTyped
<1> QED
  BY <1>1, <1>2 DEF LockOver

\* A lock goes from one place to the next.
LEMMA LockAt ==
  ASSUME NEW x \in Sessions, NEW pc \in LockPcs
  PROVE  LET y == [x EXCEPT !.lock.pc = pc]
         IN /\ y \in Sessions /\ y.lock.pc = pc /\ y.lock.todo = x.lock.todo
            /\ y.stage = x.stage /\ y.on = x.on /\ y.held = x.held /\ y.active = x.active
<1> DEFINE l == [x.lock EXCEPT !.pc = pc]
           y == [x EXCEPT !.lock = l]
<1>1. x.lock \in Locks
  BY DEF Sessions
<1>2. l \in Locks /\ l.pc = pc /\ l.todo = x.lock.todo
  BY <1>1 DEF Locks
<1>3. [x EXCEPT !.lock.pc = pc] = y
  BY DEF Sessions
<1> HIDE DEF l
<1> QED
  BY <1>2, <1>3 DEF Sessions

\* A finite set has its sequence.
LEMMA SequenceOf ==
  ASSUME NEW S, IsFiniteSet(S)
  PROVE  SetToSeq(S) \in [1..Cardinality(S) -> S] /\ Cardinality(S) \in Nat
<1>1. Cardinality(S) \in Nat /\ ExistsBijection(1..Cardinality(S), S)
  BY FS_CardinalityType
<1>2. PICK f \in [1..Cardinality(S) -> S] : IsInjective(f)
  BY <1>1, Zenon DEF ExistsBijection, Bijection, Injection
<1> QED
  BY <1>1, <1>2, Zenon DEF SetToSeq

-----------------------------------------------------------------------------
Going(x) == x.stage \in {"waiting", "restoring"}

\* Only a session that is being used or let go of is on.
OnInUse(x) == x.on => x.stage \in {"playing", "live", "waiting", "restoring"}

\* What a lock, or its end, does to a session turns nothing on.
Milder(x, was) ==
  /\ x.on => was.on
  /\ x.on /\ Going(was) => Going(x)
  /\ x.stage = "none" <=> was.stage = "none"
  /\ OnInUse(x)

\* The worker and what it asked of the page: to close the camera given up
\* on, to open one, or both in that order.
Close(s) == Len(s) = 1 /\ s[1] = "close"
Open(s) == Len(s) = 1 /\ s[1] = "open"
CloseOpen(s) == Len(s) = 2 /\ s[1] = "close" /\ s[2] = "open"

CallsInOrder ==
  /\ worker = "idle" => calls = <<>> \/ Close(calls)
  /\ worker = "calling" => Open(calls) \/ CloseOpen(calls)
  /\ worker = "waiting" => calls = <<>>
  /\ capturing => worker = "idle" /\ calls = <<>>
  /\ capturing \/ worker # "idle" => camera \in Requests
  /\ worker = "calling" => answer = None

\* What the page has not been asked for yet it has nothing of.
Unasked ==
  /\ \A s \in Requests : s > camera => page[s].stage = "none"
  /\ worker = "calling" => page[camera].stage = "none"

\* The page has no camera current when it has said that it failed.
FailedIsGone == worker = "waiting" /\ answer \notin {None, "ok"} => current = 0

OnIsCurrent ==
  \A s \in Requests :
    OnInUse(page[s]) /\ (page[s].on => s = current \/ Going(page[s]))

NoneCurrent == worker = "idle" /\ ~capturing /\ calls = <<>> => current = 0

\* A lock that has asked for something knows what.
LocksKnow ==
  \A s \in Requests :
    page[s].lock.pc \in {"asking", "checking", "unanswered", "reverting"} =>
      page[s].lock.todo # <<>>

Flow == CallsInOrder /\ Unasked /\ FailedIsGone /\ OnIsCurrent /\ NoneCurrent

Inv == TypeOK /\ LocksKnow /\ Flow

-----------------------------------------------------------------------------
(* Types.                                                                  *)

\* What is not of the page, of a step that leaves the rest alone.
Others ==
  /\ camera \in 0..(MaxRequests + 1)
  /\ answer \in {None, "ok", "failed"}
  /\ capturing \in BOOLEAN /\ proven \in BOOLEAN /\ asked \in BOOLEAN
  /\ latest \in Requests \cup {None}
  /\ report \in [of : Requests, held : SUBSET Controls] \cup {None}
  /\ worker \in {"idle", "calling", "waiting"}
  /\ calls \in Seq({"open", "close"})
  /\ current \in 0..MaxRequests
Device ==
  /\ mode \in [Controls -> Modes] /\ found \in [Controls -> Modes]
  /\ exact \in SUBSET Controls /\ unread \in SUBSET Controls
  /\ obeyed \in BOOLEAN /\ overlapped \in BOOLEAN

LEMMA TypeParts == TypeOK <=> Others /\ Device /\ page \in [Requests -> Sessions]
  BY DEF TypeOK, Others, Device, Sessions, Locks

LEMMA TypesInit == Init => TypeOK /\ LocksKnow
<1> SUFFICES ASSUME Init PROVE TypeOK /\ LocksKnow
  OBVIOUS
<1>1. NoSession \in Sessions
  BY NoLockTyped DEF NoSession, Sessions, Stages
<1>2. page \in [Requests -> Sessions]
  BY <1>1 DEF Init
<1>3. mode \in [Controls -> Modes] /\ found \in [Controls -> Modes]
  BY ConstantsOK DEF Init
<1>4. LocksKnow
  BY DEF Init, LocksKnow, NoSession, NoLock
<1>5. Others
  <2>1. camera \in 0..(MaxRequests + 1) /\ current \in 0..MaxRequests
    BY ConstantsOK DEF Init
  <2>2. calls \in Seq({"open", "close"})
    BY DEF Init
  <2> QED
    BY <2>1, <2>2 DEF Init, Others
<1>6. Device
  BY <1>3 DEF Init, Device
<1> QED
  BY <1>2, <1>4, <1>5, <1>6, TypeParts

\* One session of the page becomes another.
LEMMA PageTyped ==
  ASSUME TypeOK, LocksKnow, NEW s \in Requests, NEW x \in Sessions,
         x.lock.pc \in {"asking", "checking", "unanswered", "reverting"} =>
           x.lock.todo # <<>>,
         page' = [page EXCEPT ![s] = x]
  PROVE  page' \in [Requests -> Sessions] /\ LocksKnow'
<1>1. page \in [Requests -> Sessions]
  BY DEF TypeOK, Sessions, Locks
<1> QED
  BY <1>1 DEF LocksKnow

PageTypes == page \in [Requests -> Sessions] /\ LocksKnow

\* Letting go of the current camera, and all a session of it may become.
LEMMA LetGoTyped ==
  ASSUME TypeOK, LocksKnow, current # 0
  PROVE  LET after == [page EXCEPT ![current] = Release(@)]
         IN /\ after \in [Requests -> Sessions]
            /\ \A s \in Requests : after[s].lock = page[s].lock
<1>1. page \in [Requests -> Sessions] /\ current \in Requests
  BY TypeParts, ConstantsOK DEF Others, Requests
<1>2. Release(page[current]) \in Sessions
  BY <1>1, ReleaseTyped
<1>3. \A x \in Sessions : Release(x).lock = x.lock
  <2> SUFFICES ASSUME NEW x \in Sessions PROVE Release(x).lock = x.lock
    OBVIOUS
  <2>1. CASE x.stage \in {"asking", "playing"}
    BY <2>1 DEF Release, Sessions
  <2>2. CASE x.stage = "live"
    BY <2>2 DEF Release, Finish, Sessions
  <2>3. CASE x.stage \notin {"asking", "playing", "live"}
    BY <2>3 DEF Release, Sessions
  <2> QED
    BY <2>1, <2>2, <2>3
<1> QED
  BY <1>1, <1>2, <1>3

\* A call is taken off the front.
LEMMA TailOfCalls ==
  ASSUME calls \in Seq({"open", "close"}), calls # <<>>
  PROVE  Tail(calls) \in Seq({"open", "close"})
  OBVIOUS

LEMMA TypesStart ==
  ASSUME Inv, Start \/ Woken \/ TimedOut \/ Stop \/ Poll
  PROVE  TypeOK' /\ LocksKnow'
<1>1. Others /\ Device /\ page \in [Requests -> Sessions] /\ LocksKnow /\ TypeOK
  BY TypeParts DEF Inv
<1>2. CASE Start
  <2>1. camera + 1 \in 0..(MaxRequests + 1)
    BY <1>1, <1>2, ConstantsOK DEF Start, Others
  <2>2. Append(calls, "open") \in Seq({"open", "close"})
    BY <1>1 DEF Others
  <2>3. Others'
    BY <1>1, <1>2, <2>1, <2>2 DEF Start, Others
  <2>4. Device' /\ page' = page
    BY <1>1, <1>2 DEF Start, Device, deviceVars
  <2> QED
    BY <1>1, <2>3, <2>4, TypeParts DEF LocksKnow, TypeOK, Others, Device, Sessions, Locks
<1>3. CASE Woken
  BY <1>1, <1>3 DEF Woken, TypeOK, LocksKnow, deviceVars
<1>4. CASE TimedOut
  <2>1. camera \in Requests
    BY <1>4 DEF TimedOut, Inv, Flow, CallsInOrder
  <2>2. camera + 1 \in 0..(MaxRequests + 1)
    BY <2>1, ConstantsOK DEF Requests
  <2>3. Append(calls, "close") \in Seq({"open", "close"})
    BY <1>1 DEF Others
  <2> QED
    BY <1>1, <1>4, <2>2, <2>3 DEF TimedOut, TypeOK, LocksKnow, deviceVars
<1>5. CASE Stop
  <2>1. page' \in [Requests -> Sessions] /\ LocksKnow'
    BY <1>1, <1>5, LetGoTyped DEF Stop, LetGo, LocksKnow
  <2>2. 0 \in 0..MaxRequests
    BY ConstantsOK
  <2>3. Others' /\ Device'
    BY <1>1, <1>5, <2>2 DEF Stop, LetGo, Others, Device, deviceVars
  <2> QED
    BY <2>1, <2>3 DEF TypeOK, Others, Device, Sessions, Locks
<1>6. CASE Poll
  BY <1>1, <1>6 DEF Poll, TypeOK, LocksKnow, deviceVars
<1> QED
  BY <1>2, <1>3, <1>4, <1>5, <1>6

LEMMA TypesRequestLock ==
  ASSUME Inv, RequestLock
  PROVE  TypeOK' /\ LocksKnow'
<1>1. Others /\ Device /\ page \in [Requests -> Sessions] /\ LocksKnow /\ TypeOK
  BY TypeParts DEF Inv
<1>2. camera \in Requests
  BY DEF RequestLock, Inv, Flow, CallsInOrder
<1>3. Device'
  BY <1>1 DEF RequestLock, Device, deviceVars
<1>4. Others'
  <2>1. CASE UNCHANGED <<report, proven>> \/ (report' = None /\ proven' = FALSE)
    BY <1>1, <2>1 DEF RequestLock, Others
  <2>2. CASE current = camera /\ Reported(current, {})
    <3>1. [of |-> current, held |-> {}] \in [of : Requests, held : SUBSET Controls]
      BY <1>2, <2>2
    <3>2. report' \in [of : Requests, held : SUBSET Controls] \cup {None} /\ proven' \in BOOLEAN
      BY <1>1, <2>2, <3>1 DEF Reported, Others
    <3> QED
      BY <1>1, <3>2 DEF RequestLock, Others
  <2> QED
    BY <2>1, <2>2 DEF RequestLock
<1>5. page' \in [Requests -> Sessions] /\ LocksKnow'
  <2>1. CASE UNCHANGED page
    BY <1>1, <2>1 DEF LocksKnow
  <2>2. CASE current = camera /\ page' = [page EXCEPT ![current].lock.pc = "settling"]
    <3> DEFINE x == [page[current] EXCEPT !.lock.pc = "settling"]
    <3>0. "settling" \in LockPcs /\ page[current] \in Sessions
      BY <1>1, <1>2, <2>2 DEF LockPcs
    <3>1. x \in Sessions /\ x.lock.pc = "settling"
      BY <3>0, LockAt
    <3>2. page' = [page EXCEPT ![current] = x]
      BY <2>2
    <3> HIDE DEF x
    <3> QED
      BY <1>1, <1>2, <2>2, <3>1, <3>2, PageTyped
  <2> QED
    BY <2>1, <2>2 DEF RequestLock
<1> QED
  BY <1>3, <1>4, <1>5 DEF TypeOK, Others, Device, Sessions, Locks

LEMMA TypesCalls ==
  ASSUME Inv, OpenCall \/ CloseCall
  PROVE  TypeOK' /\ LocksKnow'
<1>1. Others /\ Device /\ page \in [Requests -> Sessions] /\ LocksKnow /\ TypeOK
  BY TypeParts DEF Inv
<1>2. calls' \in Seq({"open", "close"})
  BY <1>1, TailOfCalls DEF Others, OpenCall, CloseCall
<1>3. CASE CloseCall
  <2>1. page' \in [Requests -> Sessions] /\ LocksKnow'
    BY <1>1, <1>3, LetGoTyped DEF CloseCall, LetGo, LocksKnow
  <2>2. Others' /\ Device'
    BY <1>1, <1>2, <1>3, ConstantsOK DEF CloseCall, LetGo, cppVars, Others, Device, deviceVars
  <2> QED
    BY <2>1, <2>2 DEF TypeOK, Others, Device, Sessions, Locks
<1>4. CASE OpenCall
  <2> DEFINE let == IF current = 0 THEN page
                    ELSE [page EXCEPT ![current] = Release(@)]
  <2>1. let \in [Requests -> Sessions] /\ \A s \in Requests : let[s].lock = page[s].lock
    BY <1>1, LetGoTyped
  <2>2. camera \in Requests
    <3>1. calls \in Seq({"open", "close"}) /\ calls # <<>> /\ calls[1] = "open"
          /\ worker \in {"idle", "calling", "waiting"}
      BY <1>4 DEF OpenCall, Inv, TypeOK
    <3>2. worker = "calling"
      BY <3>1 DEF Inv, Flow, CallsInOrder, Close
    <3> QED
      BY <3>2 DEF Inv, Flow, CallsInOrder
  <2>3. \/ page' = [let EXCEPT ![camera].stage = "asking"] /\ current' = camera /\ UNCHANGED answer
        \/ page' = let /\ current' = 0 /\ Started(camera, "failed")
    BY <1>4 DEF OpenCall
  <2> HIDE DEF let
  <2>4. page' \in [Requests -> Sessions] /\ LocksKnow'
    <3>1. CASE page' = let
      BY <1>1, <2>1, <3>1 DEF LocksKnow
    <3>2. CASE page' = [let EXCEPT ![camera].stage = "asking"]
      <4>1. [let[camera] EXCEPT !.stage = "asking"] \in Sessions
        BY <2>1, <2>2 DEF Sessions, Stages
      <4>2. page' \in [Requests -> Sessions]
        BY <2>1, <2>2, <3>2, <4>1
      <4>3. \A s \in Requests : page'[s].lock = page[s].lock
        BY <2>1, <2>2, <3>2 DEF Sessions
      <4> QED
        BY <1>1, <4>2, <4>3 DEF LocksKnow
    <3> QED
      BY <2>3, <3>1, <3>2
  <2>5. answer' \in {None, "ok", "failed"} /\ current' \in 0..MaxRequests
    BY <1>1, <2>2, <2>3, ConstantsOK DEF Started, Others, Requests
  <2>6. Others' /\ Device'
    BY <1>1, <1>2, <1>4, <2>5 DEF OpenCall, Others, Device, deviceVars
  <2> QED
    BY <2>4, <2>6 DEF TypeOK, Others, Device, Sessions, Locks
<1> QED
  BY <1>3, <1>4

LEMMA TypesOpening ==
  ASSUME Inv, NEW s \in Requests,
         Granted(s) \/ Played(s) \/ Refused(s) \/ Ended(s) \/ Frame(s)
  PROVE  TypeOK' /\ LocksKnow'
<1>1. Others /\ Device /\ page \in [Requests -> Sessions] /\ LocksKnow /\ TypeOK
  BY TypeParts DEF Inv
<1>2. page[s] \in Sessions
  BY <1>1
<1>3. Others' /\ Device'
  <2>1. 0 \in 0..MaxRequests
    BY ConstantsOK
  <2>2. CASE Granted(s) \/ Ended(s)
    BY <1>1, <2>2 DEF Granted, Ended, cppVars, Others, Device, deviceVars
  <2>3. CASE Played(s)
    BY <1>1, <2>3 DEF Played, Started, Others, Device, deviceVars
  <2>4. CASE Refused(s)
    BY <1>1, <2>1, <2>4 DEF Refused, Started, Others, Device, deviceVars
  <2>5. CASE Frame(s)
    BY <1>1, <2>5 DEF Frame, Others, Device, deviceVars
  <2> QED
    BY <2>2, <2>3, <2>4, <2>5
<1>4. PICK x \in Sessions : x.lock = page[s].lock /\ page' = [page EXCEPT ![s] = x]
  <2>1. CASE Granted(s)
    BY <1>1, <1>2, <2>1 DEF Granted, Sessions, Stages
  <2>2. CASE Played(s)
    <3>1. [page[s] EXCEPT !.stage = "live", !.active = TRUE] \in Sessions
      BY <1>2 DEF Sessions, Stages
    <3>2. [page[s] EXCEPT !.stage = "over", !.on = FALSE] \in Sessions
      BY <1>2 DEF Sessions, Stages
    <3> QED
      BY <1>1, <1>2, <2>2, <3>1, <3>2 DEF Played, Sessions
  <2>3. CASE Refused(s)
    BY <1>1, <1>2, <2>3 DEF Refused, Sessions, Stages
  <2>4. CASE Ended(s)
    BY <1>1, <1>2, <2>4 DEF Ended, Sessions, Stages
  <2>5. CASE Frame(s)
    BY <1>1, <1>2, <2>5 DEF Frame
  <2> QED
    BY <2>1, <2>2, <2>3, <2>4, <2>5
<1>5. page' \in [Requests -> Sessions] /\ LocksKnow'
  BY <1>1, <1>4, PageTyped DEF LocksKnow
<1> QED
  BY <1>3, <1>5 DEF TypeOK, Others, Device, Sessions, Locks

LEMMA ReportTyped ==
  ASSUME Others, NEW s \in Requests, NEW held \in SUBSET Controls, Reported(s, held)
  PROVE  /\ report' \in [of : Requests, held : SUBSET Controls] \cup {None}
         /\ proven' \in BOOLEAN
<1>1. [of |-> s, held |-> held] \in [of : Requests, held : SUBSET Controls]
  OBVIOUS
<1> QED
  BY <1>1 DEF Reported, Others

LEMMA ConcludedTyped ==
  ASSUME TypeOK, LocksKnow, NEW s \in Requests, NEW x \in Sessions, Concluded(s, x)
  PROVE  /\ page' \in [Requests -> Sessions] /\ LocksKnow'
         /\ report' \in [of : Requests, held : SUBSET Controls] \cup {None}
         /\ proven' \in BOOLEAN
<1> DEFINE more == [x EXCEPT !.held = @ \cup (x.lock.held \ x.lock.asFound)]
<1>1. x.lock.held \in SUBSET Controls
  BY DEF Sessions, Locks
<1>2. more \in Sessions
  BY <1>1 DEF Sessions
<1>3. page' = [page EXCEPT ![s] = LockOver(more)] /\ Reported(s, x.lock.held)
  BY DEF Concluded
<1> HIDE DEF more
<1>4. LockOver(more) \in Sessions /\ LockOver(more).lock = NoLock
  <2>1. LockOver(more) \in Sessions
    BY <1>2, LockOverTyped
  <2>2. LockOver(more).lock = NoLock
    BY <1>2 DEF LockOver, Finish, Sessions
  <2> QED
    BY <2>1, <2>2
<1>5. NoLock.pc = "none"
  BY DEF NoLock
<1>6. page' \in [Requests -> Sessions] /\ LocksKnow'
  BY <1>3, <1>4, <1>5, PageTyped
<1> QED
  BY <1>1, <1>3, <1>6, ReportTyped, TypeParts

\* A line of controls, each in a set of its own.
LEMMA SingletonsOf ==
  ASSUME NEW n \in Nat, NEW T \in SUBSET Controls, NEW f \in [1..n -> T]
  PROVE  [i \in DOMAIN f |-> {f[i]}] \in Seq(SUBSET Controls)
<1> DEFINE g == [i \in 1..n |-> {f[i]}]
<1>1. \A i \in 1..n : {f[i]} \in SUBSET Controls
  OBVIOUS
<1>2. g \in [1..n -> SUBSET Controls]
  BY <1>1
<1>3. [i \in DOMAIN f |-> {f[i]}] = g
  OBVIOUS
<1> HIDE DEF g
<1>4. g \in Seq(SUBSET Controls)
  BY <1>2, SMT
<1> QED
  BY <1>3, <1>4

\* The controls tried last that are in manual.
InManual(lock) == {c \in Head(lock.todo) : mode[c] = "manual"}

\* What Checked reads back, and what is left to try.
ReadBack(lock, manual) ==
  LET tried == Head(lock.todo)
  IN [lock EXCEPT !.manual = (@ \ tried) \cup manual,
                  !.held = (@ \ tried) \cup (manual \cap exact)]
LeftToTry(session, manual) ==
  LET lock   == session.lock
      tried  == Head(lock.todo)
      missed == SetToSeq(tried \ ReadBack(lock, manual).held)
  IN IF lock.pc = "checking" /\ session.active /\ Cardinality(tried) > 1
     THEN [i \in DOMAIN missed |-> {missed[i]}]
     ELSE Tail(lock.todo)
ToGiveBack(lock, manual) ==
  (ReadBack(lock, manual).manual \ ReadBack(lock, manual).held)
    \ ReadBack(lock, manual).asFound

\* What Checked makes of what was said to be in manual.
ChecksAs(s, manual) ==
  LET read == ReadBack(page[s].lock, manual)
      todo == LeftToTry(page[s], manual)
      back == ToGiveBack(page[s].lock, manual)
  IN \/ /\ todo # <<>>
        /\ page' = [page EXCEPT ![s].lock = [read EXCEPT !.pc = "asking", !.todo = todo]]
        /\ UNCHANGED <<report, proven>>
     \/ /\ todo = <<>> /\ back # {}
        /\ page' = [page EXCEPT ![s].lock =
             [read EXCEPT !.pc = "reverting", !.todo = <<back>>]]
        /\ UNCHANGED <<report, proven>>
     \/ /\ todo = <<>> /\ back = {}
        /\ Concluded(s, [page[s] EXCEPT !.lock = read])

LEMMA CheckedSays ==
  ASSUME NEW s \in Requests, Checked(s)
  PROVE  \E manual \in SUBSET InManual(page[s].lock) :
           /\ unread' = unread \cup
                (InManual(page[s].lock) \ (manual \cup page[s].lock.asFound))
           /\ ChecksAs(s, manual)
<1>1. PICK manual \in SaidManual(s, InManual(page[s].lock)) :
        /\ unread' = unread \cup
             (InManual(page[s].lock) \ (manual \cup page[s].lock.asFound))
        /\ ChecksAs(s, manual)
  BY Zenon DEF Checked, ChecksAs, ReadBack, LeftToTry, ToGiveBack, InManual
<1>2. manual \in SUBSET InManual(page[s].lock)
  BY <1>1 DEF SaidManual
<1> QED
  BY <1>1, <1>2

LEMMA ReadBackTyped ==
  ASSUME TypeOK, LocksKnow, NEW s \in Requests,
         page[s].lock.pc \in {"checking", "unanswered"},
         NEW manual \in SUBSET InManual(page[s].lock)
  PROVE  /\ Head(page[s].lock.todo) \in SUBSET Controls
         /\ InManual(page[s].lock) \in SUBSET Controls
         /\ ReadBack(page[s].lock, manual) \in Locks
         /\ LeftToTry(page[s], manual) \in Seq(SUBSET Controls)
         /\ ToGiveBack(page[s].lock, manual) \in SUBSET Controls
<1> DEFINE lock == page[s].lock
           tried == Head(lock.todo)
           missed == SetToSeq(tried \ ReadBack(lock, manual).held)
<1>1. lock \in Locks /\ lock.todo \in Seq(SUBSET Controls) /\ lock.todo # <<>>
  BY TypeParts DEF Sessions, Locks, LocksKnow
<1>2. tried \in SUBSET Controls
  BY <1>1
<1>3. ReadBack(lock, manual) \in Locks
  <2>1. manual \in SUBSET Controls
    BY <1>2 DEF InManual
  <2> QED
    BY <1>1, <1>2, <2>1 DEF ReadBack, Locks
<1>4. LeftToTry(page[s], manual) \in Seq(SUBSET Controls)
  <2>1. IsFiniteSet(tried \ ReadBack(lock, manual).held)
    BY <1>2, ConstantsOK, FS_Subset
  <2>2. missed \in [1..Cardinality(tried \ ReadBack(lock, manual).held) -> tried]
        /\ Cardinality(tried \ ReadBack(lock, manual).held) \in Nat
    BY <2>1, SequenceOf
  <2> HIDE DEF missed
  <2>3. [i \in DOMAIN missed |-> {missed[i]}] \in Seq(SUBSET Controls)
    BY <1>2, <2>2, SingletonsOf
  <2>4. Tail(lock.todo) \in Seq(SUBSET Controls)
    BY <1>1
  <2> QED
    BY <2>3, <2>4 DEF LeftToTry, missed
<1>5. ToGiveBack(lock, manual) \in SUBSET Controls
  BY <1>3 DEF ToGiveBack, Locks
<1>6. InManual(lock) \in SUBSET Controls
  BY <1>2 DEF InManual
<1> QED
  BY <1>2, <1>3, <1>4, <1>5, <1>6

LEMMA TypesLock ==
  ASSUME Inv, NEW s \in Requests, PageStep(s)
  PROVE  TypeOK' /\ LocksKnow'
<1>1. Others /\ Device /\ page \in [Requests -> Sessions] /\ LocksKnow /\ TypeOK
  BY TypeParts DEF Inv
<1>2. page[s] \in Sessions /\ page[s].lock \in Locks /\ LockOver(page[s]) \in Sessions
  BY <1>1, LockOverTyped DEF Sessions
<1>3. LockOver(page[s]).lock = NoLock /\ NoLock.pc = "none"
  BY <1>2 DEF LockOver, Finish, Sessions, NoLock
<1> DEFINE Asks(pc) == pc \in {"asking", "checking", "unanswered", "reverting"}
<1>4. CASE Settled(s)
  <2>1. PICK x \in Sessions : ~Asks(x.lock.pc) /\ page' = [page EXCEPT ![s] = x]
    <3>1. [page[s] EXCEPT !.lock.pc = "reading"] \in Sessions
      BY <1>2, LockAt DEF LockPcs
    <3>2. ~Asks([page[s] EXCEPT !.lock.pc = "reading"].lock.pc)
      BY <1>2, LockAt DEF LockPcs
    <3>3. ~Asks(LockOver(page[s]).lock.pc)
      BY <1>3
    <3> QED
      BY <1>1, <1>2, <1>4, <3>1, <3>2, <3>3 DEF Settled
  <2>2. page' \in [Requests -> Sessions] /\ LocksKnow'
    BY <1>1, <2>1, PageTyped
  <2>3. Others' /\ Device'
    BY <1>1, <1>4 DEF Settled, cppVars, deviceVars, Others, Device
  <2> QED
    BY <2>2, <2>3 DEF TypeOK, Others, Device, Sessions, Locks
<1>5. CASE Read(s)
  <2>1. page' \in [Requests -> Sessions] /\ LocksKnow'
        /\ report' \in [of : Requests, held : SUBSET Controls] \cup {None} /\ proven' \in BOOLEAN
    <3>1. CASE page' = [page EXCEPT ![s] = LockOver(@)] /\ Reported(s, {})
      <4>1. page' = [page EXCEPT ![s] = LockOver(page[s])]
        BY <1>1, <3>1
      <4>2. page' \in [Requests -> Sessions] /\ LocksKnow'
        BY <1>1, <1>2, <1>3, <4>1, PageTyped
      <4> QED
        BY <1>1, <3>1, <4>2, ReportTyped
    <3>2. ASSUME NEW pending \in SUBSET Controls,
                 page' = [page EXCEPT ![s].lock =
                   [@ EXCEPT !.pc = "asking", !.todo = <<pending>>,
                             !.asFound = {c \in Controls : mode[c] = "manual"}]],
                 UNCHANGED <<report, proven>>
          PROVE  page' \in [Requests -> Sessions] /\ LocksKnow'
                 /\ report' \in [of : Requests, held : SUBSET Controls] \cup {None}
                 /\ proven' \in BOOLEAN
      <4> DEFINE l == [page[s].lock EXCEPT !.pc = "asking", !.todo = <<pending>>,
                             !.asFound = {c \in Controls : mode[c] = "manual"}]
                 x == [page[s] EXCEPT !.lock = l]
      <4>1. {c \in Controls : mode[c] = "manual"} \in SUBSET Controls
        OBVIOUS
      <4>2. <<pending>> \in Seq(SUBSET Controls) /\ <<pending>> # <<>>
        OBVIOUS
      <4>3. l \in Locks /\ l.todo # <<>>
        BY <1>2, <4>1, <4>2 DEF Locks, LockPcs
      <4>4. page' = [page EXCEPT ![s] = x]
        BY <1>1, <1>2, <3>2
      <4> HIDE DEF l
      <4>5. x \in Sessions /\ x.lock = l
        BY <1>2, <4>3 DEF Sessions
      <4> HIDE DEF x
      <4>6. page' \in [Requests -> Sessions] /\ LocksKnow'
        BY <1>1, <4>3, <4>4, <4>5, PageTyped
      <4> QED
        BY <1>1, <3>2, <4>6 DEF Others
    <3> QED
      BY <1>5, <3>1, <3>2 DEF Read
  <2>2. Others'
    BY <1>1, <1>5, <2>1 DEF Read, Others
  <2>3. Device'
    BY <1>1, <1>5 DEF Read, deviceVars, Device
  <2> QED
    BY <2>1, <2>2, <2>3 DEF TypeOK, Others, Device, Sessions, Locks
<1>6. CASE Asked(s)
  <2> DEFINE tried == Head(page[s].lock.todo)
  <2>1. page[s].lock.todo \in Seq(SUBSET Controls) /\ page[s].lock.todo # <<>>
    BY <1>1, <1>2, <1>6 DEF Asked, LocksKnow, Locks
  <2>2. tried \in SUBSET Controls
    BY <2>1
  <2>3. PICK pc \in {"checking", "unanswered"} : page' = [page EXCEPT ![s].lock.pc = pc]
    BY <1>6 DEF Asked
  <2>4. page' \in [Requests -> Sessions] /\ LocksKnow'
    <3> DEFINE x == [page[s] EXCEPT !.lock.pc = pc]
    <3> HIDE DEF tried
    <3>0. pc \in LockPcs
      BY DEF LockPcs
    <3>1. x \in Sessions /\ x.lock.todo = page[s].lock.todo
      BY <1>2, <3>0, LockAt
    <3>2. page' = [page EXCEPT ![s] = x]
      BY <1>1, <2>3
    <3> HIDE DEF x
    <3> QED
      BY <1>1, <2>1, <3>1, <3>2, PageTyped
  <2>5. mode' \in [Controls -> Modes] /\ exact' \in SUBSET Controls /\ obeyed' \in BOOLEAN
    <3>1. CASE UNCHANGED <<mode, exact>>
      BY <1>1, <1>6, <3>1 DEF Asked, Device
    <3>2. ASSUME NEW good \in SUBSET tried,
                 mode' = [c \in Controls |-> IF c \in tried THEN "manual" ELSE mode[c]],
                 exact' = (exact \ tried) \cup good, UNCHANGED obeyed
          PROVE  mode' \in [Controls -> Modes] /\ exact' \in SUBSET Controls /\ obeyed' \in BOOLEAN
      <4> HIDE DEF tried
      <4>1. \A c \in Controls : mode[c] \in Modes /\ "manual" \in Modes
        BY <1>1 DEF Device, Modes
      <4>2. mode' \in [Controls -> Modes]
        BY <3>2, <4>1
      <4>3. exact' \in SUBSET Controls
        BY <1>1, <2>2, <3>2 DEF Device
      <4> QED
        BY <1>1, <3>2, <4>2, <4>3 DEF Device
    <3> QED
      BY <1>6, <3>1, <3>2 DEF Asked
  <2>6. Others'
    BY <1>1, <1>6 DEF Asked, cppVars, Others
  <2>7. Device'
    BY <1>1, <1>6, <2>5 DEF Asked, Device
  <2> QED
    BY <2>4, <2>6, <2>7 DEF TypeOK, Others, Device, Sessions, Locks
<1>7. CASE Checked(s)
  <2>0. PICK manual \in SUBSET InManual(page[s].lock) :
          /\ unread' = unread \cup
               (InManual(page[s].lock) \ (manual \cup page[s].lock.asFound))
          /\ ChecksAs(s, manual)
    BY <1>7, CheckedSays
  <2> DEFINE read == ReadBack(page[s].lock, manual)
             todo == LeftToTry(page[s], manual)
             back == ToGiveBack(page[s].lock, manual)
  <2>1. page[s].lock.pc \in {"checking", "unanswered"}
    BY <1>7 DEF Checked
  <2>2. read \in Locks /\ todo \in Seq(SUBSET Controls) /\ back \in SUBSET Controls
        /\ InManual(page[s].lock) \in SUBSET Controls
    BY <1>1, <2>0, <2>1, ReadBackTyped
  <2>3. \/ /\ todo # <<>>
           /\ page' = [page EXCEPT ![s].lock = [read EXCEPT !.pc = "asking", !.todo = todo]]
           /\ UNCHANGED <<report, proven>>
        \/ /\ todo = <<>> /\ back # {}
           /\ page' = [page EXCEPT ![s].lock =
                [read EXCEPT !.pc = "reverting", !.todo = <<back>>]]
           /\ UNCHANGED <<report, proven>>
        \/ /\ todo = <<>> /\ back = {}
           /\ Concluded(s, [page[s] EXCEPT !.lock = read])
    BY <2>0 DEF ChecksAs
  <2> HIDE DEF read, todo, back
  <2>4. ASSUME NEW pc \in {"asking", "reverting"}, NEW t \in Seq(SUBSET Controls), t # <<>>,
               page' = [page EXCEPT ![s].lock = [read EXCEPT !.pc = pc, !.todo = t]],
               UNCHANGED <<report, proven>>
        PROVE  page' \in [Requests -> Sessions] /\ LocksKnow'
               /\ report' \in [of : Requests, held : SUBSET Controls] \cup {None}
               /\ proven' \in BOOLEAN
    <3> DEFINE l == [read EXCEPT !.pc = pc, !.todo = t]
               x == [page[s] EXCEPT !.lock = l]
    <3>1. l \in Locks /\ l.todo # <<>>
      BY <2>2, <2>4 DEF Locks, LockPcs
    <3>2. page' = [page EXCEPT ![s] = x]
      BY <1>1, <2>4
    <3> HIDE DEF l
    <3>3. x \in Sessions /\ x.lock = l
      BY <1>2, <3>1 DEF Sessions
    <3> HIDE DEF x
    <3>4. page' \in [Requests -> Sessions] /\ LocksKnow'
      BY <1>1, <3>1, <3>2, <3>3, PageTyped
    <3> QED
      BY <1>1, <2>4, <3>4 DEF Others
  <2>5. <<back>> \in Seq(SUBSET Controls) /\ <<back>> # <<>>
    BY <2>2
  <2>6. [page[s] EXCEPT !.lock = read] \in Sessions
    BY <1>2, <2>2 DEF Sessions
  <2>7. page' \in [Requests -> Sessions] /\ LocksKnow'
        /\ report' \in [of : Requests, held : SUBSET Controls] \cup {None} /\ proven' \in BOOLEAN
    BY <1>1, <2>2, <2>3, <2>4, <2>5, <2>6, ConcludedTyped
  <2>8. Others'
    BY <1>1, <1>7, <2>7 DEF Checked, Others
  <2>9. Device'
    BY <1>1, <1>7, <2>0, <2>2 DEF Checked, Device
  <2> QED
    BY <2>7, <2>8, <2>9 DEF TypeOK, Others, Device, Sessions, Locks
<1>8. ASSUME NEW controls, PutBack(controls)
      PROVE  mode' \in [Controls -> Modes] /\ exact' \in SUBSET Controls /\ obeyed' \in BOOLEAN
  <2>1. \A c \in Controls : mode[c] \in Modes /\ "continuous" \in Modes
    BY <1>1 DEF Device, Modes
  <2>2. CASE UNCHANGED <<mode, exact>> /\ obeyed' = FALSE
    BY <1>1, <2>2 DEF Device
  <2>3. CASE /\ mode' = [c \in Controls |-> IF c \in controls THEN "continuous" ELSE mode[c]]
             /\ exact' = exact \ controls /\ UNCHANGED obeyed
    <3>1. mode' \in [Controls -> Modes]
      BY <2>1, <2>3
    <3> QED
      BY <1>1, <2>3, <3>1 DEF Device
  <2> QED
    BY <1>8, <2>2, <2>3 DEF PutBack
<1>9. CASE Reverted(s)
  <2>1. page' \in [Requests -> Sessions] /\ LocksKnow'
        /\ report' \in [of : Requests, held : SUBSET Controls] \cup {None} /\ proven' \in BOOLEAN
    BY <1>1, <1>2, <1>9, ConcludedTyped DEF Reverted
  <2>2. Others'
    BY <1>1, <1>9, <2>1 DEF Reverted, Others
  <2>3. Device'
    BY <1>1, <1>8, <1>9 DEF Reverted, Device
  <2> QED
    BY <2>1, <2>2, <2>3 DEF TypeOK, Others, Device, Sessions, Locks
<1>10. CASE Restored(s)
  <2> DEFINE x == [page[s] EXCEPT !.stage = "over", !.on = FALSE, !.held = {}]
  <2>1. x \in Sessions /\ x.lock = page[s].lock /\ page' = [page EXCEPT ![s] = x]
    BY <1>1, <1>2, <1>10 DEF Restored, Sessions, Stages
  <2> HIDE DEF x
  <2>2. page' \in [Requests -> Sessions] /\ LocksKnow'
    BY <1>1, <2>1, PageTyped DEF LocksKnow
  <2>3. Others'
    BY <1>1, <1>10 DEF Restored, cppVars, Others
  <2>4. Device'
    BY <1>1, <1>8, <1>10 DEF Restored, Device
  <2> QED
    BY <2>2, <2>3, <2>4 DEF TypeOK, Others, Device, Sessions, Locks
<1> QED
  BY <1>4, <1>5, <1>6, <1>7, <1>9, <1>10 DEF PageStep

LEMMA TypesStep == Inv /\ [Next]_vars => TypeOK' /\ LocksKnow'
<1> SUFFICES ASSUME Inv, [Next]_vars PROVE TypeOK' /\ LocksKnow'
  OBVIOUS
<1>1. CASE UNCHANGED vars
  BY <1>1 DEF vars, Inv, TypeOK, LocksKnow
<1>2. CASE Next
  BY <1>2, TypesStart, TypesRequestLock, TypesCalls, TypesOpening, TypesLock DEF Next
<1> QED
  BY <1>1, <1>2

-----------------------------------------------------------------------------
(* What stays on.                                                          *)

LEMMA FinishMilder ==
  \A x \in Sessions : OnInUse(x) /\ Going(x) => Milder(Finish(x), x)
  BY DEF Finish, Sessions, OnInUse, Going, Milder

LEMMA LockOverMilder ==
  \A x \in Sessions : OnInUse(x) => Milder(LockOver(x), x)
<1> SUFFICES ASSUME NEW x \in Sessions, OnInUse(x) PROVE Milder(LockOver(x), x)
  OBVIOUS
<1> DEFINE free == [x EXCEPT !.lock = NoLock]
<1>1. free \in Sessions /\ free.on = x.on /\ free.stage = x.stage
  BY NoLockTyped DEF Sessions
<1>2. LockOver(x) = IF x.stage = "waiting" THEN Finish(free) ELSE free
  BY DEF LockOver
<1> HIDE DEF free
<1>3. CASE x.stage = "waiting"
  <2>1. Milder(Finish(free), free)
    BY <1>1, <1>3, FinishMilder DEF OnInUse, Going
  <2> QED
    BY <1>1, <1>2, <1>3, <2>1 DEF Milder, Going
<1>4. CASE x.stage # "waiting"
  BY <1>1, <1>2, <1>4 DEF Milder, OnInUse, Going
<1> QED
  BY <1>3, <1>4

\* A session let go of is off, or is going off.
LEMMA ReleaseLetsGo ==
  ASSUME NEW x \in Sessions, OnInUse(x)
  PROVE  /\ OnInUse(Release(x))
         /\ Release(x).on => Going(Release(x))
         /\ Release(x).stage = "none" <=> x.stage = "none"
<1> DEFINE gone == [x EXCEPT !.active = FALSE]
<1>1. gone \in Sessions /\ gone.on = x.on /\ gone.stage = x.stage
  BY DEF Sessions
<1>2. CASE x.stage \in {"asking", "playing"}
  BY <1>2 DEF Release, Sessions, OnInUse, Going
<1>3. CASE x.stage = "live" /\ x.lock.pc = "none"
  <2>1. Release(x) = Finish(gone)
    BY <1>3 DEF Release
  <2> HIDE DEF gone
  <2> QED
    BY <1>1, <1>3, <2>1 DEF Finish, Sessions, OnInUse, Going
<1>4. CASE x.stage = "live" /\ x.lock.pc # "none"
  BY <1>4 DEF Release, Sessions, OnInUse, Going
<1>5. CASE x.stage \notin {"asking", "playing", "live"}
  BY <1>5 DEF Release, Sessions, OnInUse, Going
<1> QED
  BY <1>2, <1>3, <1>4, <1>5

\* A step of one session that turns nothing on and leaves the rest.
LEMMA MilderStep ==
  ASSUME Inv, NEW s \in Requests,
         \A t \in Requests \ {s} : page'[t] = page[t],
         Milder(page'[s], page[s]),
         UNCHANGED <<camera, answer, capturing, worker, calls, current>>
  PROVE  Flow'
<1>1. \A t \in Requests : Milder(page'[t], page[t])
  BY DEF Inv, Flow, OnIsCurrent, Milder
<1>2. worker = "calling" => camera \in Requests
  BY DEF Inv, Flow, CallsInOrder
<1> QED
  BY <1>1, <1>2 DEF Inv, Flow, CallsInOrder, Unasked, FailedIsGone, OnIsCurrent,
     NoneCurrent, Milder

\* A lock that is over with what it was all along.
LEMMA ConcludedMilder ==
  ASSUME TypeOK, NEW s \in Requests, OnInUse(page[s]), NEW l \in Locks,
         Concluded(s, [page[s] EXCEPT !.lock = l])
  PROVE  Milder(page'[s], page[s]) /\ \A t \in Requests \ {s} : page'[t] = page[t]
<1> DEFINE x == [page[s] EXCEPT !.lock = l]
           more == [x EXCEPT !.held = @ \cup (x.lock.held \ x.lock.asFound)]
<1>1. page \in [Requests -> Sessions]
  BY TypeParts
<1>2. x \in Sessions /\ x.on = page[s].on /\ x.stage = page[s].stage
  BY <1>1 DEF Sessions
<1>3. page' = [page EXCEPT ![s] = LockOver(more)]
  BY DEF Concluded
<1> HIDE DEF x
<1>4. more \in Sessions /\ more.on = x.on /\ more.stage = x.stage
  BY <1>2 DEF Sessions, Locks
<1> HIDE DEF more
<1>5. Milder(LockOver(more), more)
  BY <1>2, <1>4, LockOverMilder DEF OnInUse
<1>6. Milder(LockOver(more), page[s])
  BY <1>2, <1>4, <1>5 DEF Milder, Going
<1> QED
  BY <1>1, <1>3, <1>6

LEMMA FlowLock ==
  ASSUME Inv, NEW s \in Requests, PageStep(s)
  PROVE  Flow'
<1>1. page \in [Requests -> Sessions] /\ page[s] \in Sessions /\ OnInUse(page[s]) /\ TypeOK
  BY TypeParts DEF Inv, Flow, OnIsCurrent
<1>2. UNCHANGED <<camera, answer, capturing, worker, calls, current>>
  BY DEF PageStep, Settled, Read, Asked, Checked, Reverted, Restored, cppVars
<1>3. page'[s].on = page[s].on /\ page'[s].stage = page[s].stage => Milder(page'[s], page[s])
  BY <1>1 DEF Milder, OnInUse, Going
<1>4. page' = [page EXCEPT ![s] = LockOver(@)] =>
        Milder(page'[s], page[s]) /\ \A t \in Requests \ {s} : page'[t] = page[t]
  BY <1>1, LockOverMilder
<1>5. Milder(page'[s], page[s]) /\ \A t \in Requests \ {s} : page'[t] = page[t]
  <2>1. CASE Settled(s)
    BY <1>1, <1>3, <1>4, <2>1 DEF Settled, Sessions
  <2>2. CASE Read(s)
    BY <1>1, <1>3, <1>4, <2>2 DEF Read, Sessions
  <2>3. CASE Asked(s)
    BY <1>1, <1>3, <2>3 DEF Asked, Sessions
  <2>4. CASE Checked(s)
    <3>0. PICK manual \in SUBSET InManual(page[s].lock) : ChecksAs(s, manual)
      BY <2>4, CheckedSays
    <3>1. ReadBack(page[s].lock, manual) \in Locks
      BY <1>1, <2>4, <3>0, ReadBackTyped DEF Checked, Inv
    <3>2. CASE Concluded(s, [page[s] EXCEPT !.lock = ReadBack(page[s].lock, manual)])
      BY <1>1, <3>1, <3>2, ConcludedMilder
    <3>3. ASSUME NEW l, page' = [page EXCEPT ![s].lock = l]
          PROVE  Milder(page'[s], page[s]) /\ \A t \in Requests \ {s} : page'[t] = page[t]
      BY <1>1, <1>3, <3>3 DEF Sessions
    <3> QED
      BY <3>0, <3>2, <3>3 DEF ChecksAs
  <2>5. CASE Reverted(s)
    <3>1. page[s] = [page[s] EXCEPT !.lock = page[s].lock] /\ page[s].lock \in Locks
      BY <1>1 DEF Sessions
    <3> QED
      BY <1>1, <2>5, <3>1, ConcludedMilder DEF Reverted
  <2>6. CASE Restored(s)
    BY <1>1, <2>6 DEF Restored, Sessions, Milder, OnInUse, Going
  <2> QED
    BY <2>1, <2>2, <2>3, <2>4, <2>5, <2>6 DEF PageStep
<1> QED
  BY <1>2, <1>5, MilderStep

LEMMA FlowInit == Init => Flow
  BY ConstantsOK DEF Init, Flow, CallsInOrder, Unasked, FailedIsGone, OnIsCurrent,
     NoneCurrent, OnInUse, Going, NoSession

LEMMA FlowOpening ==
  ASSUME Inv, NEW s \in Requests,
         Granted(s) \/ Played(s) \/ Refused(s) \/ Ended(s) \/ Frame(s)
  PROVE  Flow'
<1>1. page \in [Requests -> Sessions] /\ page[s] \in Sessions
  BY TypeParts DEF Inv
<1>2. UNCHANGED <<camera, capturing, worker, calls>>
  BY DEF Granted, Played, Refused, Ended, Frame, cppVars
<1>3. \A t \in Requests \ {s} : page'[t] = page[t]
  BY <1>1 DEF Granted, Played, Refused, Ended, Frame
<1>4. page'[s].stage = "none" <=> page[s].stage = "none"
  <2>1. CASE Granted(s)
    BY <1>1, <2>1 DEF Granted, Sessions
  <2>2. CASE Played(s)
    BY <1>1, <2>2 DEF Played, Sessions
  <2>3. CASE Refused(s)
    BY <1>1, <2>3 DEF Refused, Sessions
  <2>4. CASE Ended(s)
    BY <1>1, <2>4 DEF Ended, Sessions
  <2>5. CASE Frame(s)
    BY <1>1, <2>5 DEF Frame
  <2> QED
    BY <2>1, <2>2, <2>3, <2>4, <2>5
<1>5. OnInUse(page'[s]) /\ (page'[s].on => s = current' \/ Going(page'[s]))
  <2>1. OnInUse(page[s]) /\ (page[s].on => s = current \/ Going(page[s]))
    BY DEF Inv, Flow, OnIsCurrent
  <2>2. CASE Granted(s)
    BY <1>1, <2>1, <2>2 DEF Granted, Sessions, OnInUse, Going
  <2>3. CASE Played(s)
    BY <1>1, <2>1, <2>3 DEF Played, Sessions, OnInUse, Going
  <2>4. CASE Refused(s)
    BY <1>1, <2>1, <2>4 DEF Refused, Sessions, OnInUse, Going
  <2>5. CASE Ended(s)
    BY <1>1, <2>1, <2>5 DEF Ended, Sessions, OnInUse, Going
  <2>6. CASE Frame(s)
    BY <2>1, <2>6 DEF Frame
  <2> QED
    BY <2>2, <2>3, <2>4, <2>5, <2>6
<1>6. current' = current \/ (current = s /\ current' = 0)
  BY DEF Granted, Played, Refused, Ended, Frame
<1>7. worker = "calling" => answer' = answer
  <2>1. worker = "calling" => page[camera].stage = "none"
    BY DEF Inv, Flow, Unasked
  <2> QED
    BY <2>1 DEF Granted, Played, Refused, Ended, Frame, Started, cppVars
<1>8. CallsInOrder' /\ Unasked'
  <2>1. worker = "calling" => camera \in Requests
    BY DEF Inv, Flow, CallsInOrder
  <2> QED
    BY <1>2, <1>3, <1>4, <1>7, <2>1 DEF Inv, Flow, CallsInOrder, Unasked
<1>9. FailedIsGone'
  <2>1. CASE current' = 0
    BY <2>1 DEF FailedIsGone
  <2>2. CASE current' = current /\ answer' \in {answer, "ok"}
    BY <1>2, <2>2 DEF Inv, Flow, FailedIsGone
  <2> QED
    BY <2>1, <2>2 DEF Granted, Played, Refused, Ended, Frame, Started, cppVars
<1>10. OnIsCurrent'
  <2> SUFFICES ASSUME NEW t \in Requests
               PROVE  OnInUse(page'[t]) /\ (page'[t].on => t = current' \/ Going(page'[t]))
    BY DEF OnIsCurrent
  <2>1. CASE t = s
    BY <1>5, <2>1
  <2>2. CASE t # s
    BY <1>3, <1>6, <2>2 DEF Inv, Flow, OnIsCurrent
  <2> QED
    BY <2>1, <2>2
<1>11. NoneCurrent'
  BY <1>2, <1>6 DEF Inv, Flow, NoneCurrent
<1> QED
  BY <1>8, <1>9, <1>10, <1>11 DEF Flow

\* The worker and the person: Session's own steps leave the page alone.
LEMMA FlowWorker ==
  ASSUME Inv, Start \/ Woken \/ TimedOut \/ RequestLock \/ Poll
  PROVE  Flow'
<1>1. page \in [Requests -> Sessions] /\ camera \in 0..(MaxRequests + 1)
  BY TypeParts DEF Inv, Others
<1>2. \A t \in Requests : page'[t].stage = page[t].stage /\ page'[t].on = page[t].on
  BY <1>1 DEF Start, Woken, TimedOut, RequestLock, Poll, Sessions
<1>3. UNCHANGED current
  BY DEF Start, Woken, TimedOut, RequestLock, Poll
<1>4. OnIsCurrent'
  BY <1>2, <1>3 DEF Inv, Flow, OnIsCurrent, OnInUse, Going
<1>5. CASE Start
  <2>1. camera' = camera + 1 /\ camera + 1 \in Requests /\ page[camera + 1].stage = "none"
    <3>1. camera' = camera + 1 /\ camera < MaxRequests
      BY <1>5 DEF Start
    <3>2. camera + 1 \in Requests /\ camera + 1 > camera
      BY <1>1, <3>1, ConstantsOK DEF Requests
    <3> QED
      BY <3>1, <3>2 DEF Inv, Flow, Unasked
  <2>2. Open(calls') \/ CloseOpen(calls')
    <3>1. calls = <<>> \/ Close(calls)
      BY <1>5 DEF Start, Inv, Flow, CallsInOrder
    <3>2. calls \in Seq({"open", "close"}) /\ calls' = Append(calls, "open")
      BY <1>5 DEF Start, Inv, TypeOK
    <3> QED
      BY <3>1, <3>2 DEF Open, Close, CloseOpen
  <2>3. Unasked'
    BY <1>1, <1>2, <1>5, <2>1 DEF Start, Requests, Inv, Flow, Unasked
  <2>4. CallsInOrder'
    BY <1>5, <2>1, <2>2 DEF Start, CallsInOrder
  <2>5. FailedIsGone' /\ NoneCurrent'
    BY <1>5 DEF Start, FailedIsGone, NoneCurrent
  <2> QED
    BY <1>4, <2>3, <2>4, <2>5 DEF Flow
<1>6. CASE Woken
  BY <1>2, <1>4, <1>6 DEF Woken, Inv, Flow, CallsInOrder, Unasked, FailedIsGone, NoneCurrent
<1>7. CASE TimedOut
  <2>1. camera \in Requests /\ calls = <<>> /\ capturing = FALSE
    BY <1>7 DEF TimedOut, Inv, Flow, CallsInOrder, TypeOK
  <2>2. Close(calls') /\ worker' = "idle" /\ capturing' = FALSE /\ camera' = camera + 1
    BY <1>7, <2>1 DEF TimedOut, Close
  <2>4. calls' # <<>>
    BY <2>2 DEF Close
  <2>3. Unasked'
    BY <1>1, <1>2, <2>1, <2>2 DEF Requests, Inv, Flow, Unasked
  <2> QED
    BY <1>4, <2>2, <2>3, <2>4 DEF Flow, CallsInOrder, FailedIsGone, NoneCurrent
<1>8. CASE RequestLock \/ Poll
  <2>1. UNCHANGED <<camera, answer, capturing, worker, calls, current>>
    BY <1>8 DEF RequestLock, Poll
  <2>2. worker = "idle"
    BY <1>8 DEF RequestLock, Poll, Inv, Flow, CallsInOrder
  <2> QED
    BY <1>2, <1>4, <2>1, <2>2 DEF Inv, Flow, CallsInOrder, Unasked, FailedIsGone, NoneCurrent
<1> QED
  BY <1>5, <1>6, <1>7, <1>8

\* After the current camera is let go of, nothing is on that is not going.
LEMMA LetGoGoes ==
  ASSUME Inv,
         NEW after, after = IF current = 0 THEN page
                            ELSE [page EXCEPT ![current] = Release(@)]
  PROVE  /\ after \in [Requests -> Sessions]
         /\ \A t \in Requests :
              /\ OnInUse(after[t])
              /\ after[t].on => Going(after[t])
              /\ after[t].stage = "none" <=> page[t].stage = "none"
<1>1. page \in [Requests -> Sessions] /\ current \in 0..MaxRequests
  BY TypeParts DEF Inv, Others
<1>2. \A t \in Requests : OnInUse(page[t]) /\ (page[t].on => t = current \/ Going(page[t]))
  BY DEF Inv, Flow, OnIsCurrent
<1>3. CASE current = 0
  BY <1>1, <1>2, <1>3 DEF Requests
<1>4. CASE current # 0
  <2>1. current \in Requests
    BY <1>1, <1>4, ConstantsOK DEF Requests
  <2>2. /\ OnInUse(Release(page[current]))
        /\ Release(page[current]).on => Going(Release(page[current]))
        /\ Release(page[current]).stage = "none" <=> page[current].stage = "none"
    BY <1>1, <1>2, <2>1, ReleaseLetsGo
  <2>3. Release(page[current]) \in Sessions
    BY <1>1, <2>1, ReleaseTyped
  <2>4. after = [page EXCEPT ![current] = Release(page[current])]
    BY <1>1, <1>4, <2>1
  <2> QED
    BY <1>1, <1>2, <2>1, <2>2, <2>3, <2>4
<1> QED
  BY <1>3, <1>4

LEMMA FlowLettingGo ==
  ASSUME Inv, Stop \/ OpenCall \/ CloseCall
  PROVE  Flow'
<1>1. page \in [Requests -> Sessions]
  BY TypeParts DEF Inv
<1> DEFINE after == IF current = 0 THEN page
                    ELSE [page EXCEPT ![current] = Release(@)]
<1>2. /\ after \in [Requests -> Sessions]
      /\ \A t \in Requests :
           /\ OnInUse(after[t])
           /\ after[t].on => Going(after[t])
           /\ after[t].stage = "none" <=> page[t].stage = "none"
  BY LetGoGoes
<1>3. worker = "calling" => camera \in Requests
  BY DEF Inv, Flow, CallsInOrder
<1>4. CASE Stop \/ CloseCall
  <2>1. page' = after /\ current' = 0 /\ UNCHANGED <<camera, answer, worker>>
    BY <1>4 DEF Stop, CloseCall, LetGo, cppVars
  <2> HIDE DEF after
  <2>2. Unasked' /\ OnIsCurrent' /\ FailedIsGone' /\ NoneCurrent'
    BY <1>2, <1>3, <2>1 DEF Inv, Flow, Unasked, OnIsCurrent, FailedIsGone, NoneCurrent
  <2>3. CallsInOrder'
    <3>1. CASE Stop
      BY <2>1, <3>1 DEF Stop, Inv, Flow, CallsInOrder
    <3>2. CASE CloseCall
      <4>1. calls \in Seq({"open", "close"}) /\ calls # <<>> /\ calls[1] = "close"
            /\ calls' = Tail(calls) /\ worker \in {"idle", "calling", "waiting"}
        BY <3>2 DEF CloseCall, Inv, TypeOK
      <4>2. \/ worker = "idle" /\ calls' = <<>>
            \/ worker = "calling" /\ Open(calls')
        BY <4>1 DEF Inv, Flow, CallsInOrder, Close, Open, CloseOpen
      <4>3. UNCHANGED capturing
        BY <3>2 DEF CloseCall, cppVars
      <4> QED
        BY <2>1, <4>1, <4>2, <4>3 DEF Inv, Flow, CallsInOrder
    <3> QED
      BY <1>4, <3>1, <3>2
  <2> QED
    BY <2>2, <2>3 DEF Flow
<1>5. CASE OpenCall
  <2>1. worker = "calling" /\ camera \in Requests /\ answer = None
        /\ page[camera].stage = "none" /\ capturing = FALSE
    <3>1. calls \in Seq({"open", "close"}) /\ calls # <<>> /\ calls[1] = "open"
          /\ worker \in {"idle", "calling", "waiting"} /\ capturing \in BOOLEAN
      BY <1>5 DEF OpenCall, Inv, TypeOK
    <3>2. worker = "calling"
      BY <3>1 DEF Inv, Flow, CallsInOrder, Close
    <3> QED
      BY <3>1, <3>2 DEF Inv, Flow, CallsInOrder, Unasked
  <2>2. calls' = <<>> /\ worker' = "waiting" /\ UNCHANGED <<camera, capturing>>
    <3>1. calls \in Seq({"open", "close"}) /\ calls # <<>> /\ calls[1] = "open"
          /\ calls' = Tail(calls)
      BY <1>5 DEF OpenCall, Inv, TypeOK
    <3>2. Open(calls) \/ CloseOpen(calls)
      BY <2>1 DEF Inv, Flow, CallsInOrder
    <3>3. calls' = <<>>
      BY <3>1, <3>2 DEF Open, CloseOpen
    <3> QED
      BY <1>5, <3>3 DEF OpenCall
  <2>3. \/ page' = [after EXCEPT ![camera].stage = "asking"] /\ current' = camera /\ UNCHANGED answer
        \/ page' = after /\ current' = 0
    BY <1>5 DEF OpenCall
  <2> HIDE DEF after
  <2>4. CallsInOrder' /\ NoneCurrent' /\ FailedIsGone'
    BY <2>1, <2>2, <2>3 DEF CallsInOrder, NoneCurrent, FailedIsGone
  <2>5. Unasked'
    <3>1. \A t \in Requests : t > camera => t # camera
      BY <2>1 DEF Requests
    <3>2. \A t \in Requests \ {camera} : page'[t].stage = "none" <=> page[t].stage = "none"
      BY <1>2, <2>3
    <3> QED
      BY <2>2, <3>1, <3>2 DEF Inv, Flow, Unasked
  <2>6. OnIsCurrent'
    <3>1. after[camera].on = FALSE
      BY <1>2, <2>1 DEF OnInUse, Sessions
    <3>2. CASE page' = after
      BY <1>2, <3>2 DEF OnIsCurrent
    <3>3. CASE page' = [after EXCEPT ![camera].stage = "asking"]
      BY <1>2, <2>1, <3>1, <3>3 DEF OnIsCurrent, OnInUse, Going, Sessions
    <3> QED
      BY <2>3, <3>2, <3>3
  <2> QED
    BY <2>4, <2>5, <2>6 DEF Flow
<1> QED
  BY <1>4, <1>5

LEMMA FlowStep == Inv /\ [Next]_vars => Flow'
<1> SUFFICES ASSUME Inv, [Next]_vars PROVE Flow'
  OBVIOUS
<1>1. CASE UNCHANGED vars
  BY <1>1 DEF vars, Inv, Flow, CallsInOrder, Unasked, FailedIsGone, OnIsCurrent, NoneCurrent
<1>2. CASE Next
  BY <1>2, FlowWorker, FlowLettingGo, FlowOpening, FlowLock DEF Next
<1> QED
  BY <1>1, <1>2

LEMMA Invariant == Spec => []Inv
<1>1. Init => Inv
  BY TypesInit, FlowInit DEF Inv
<1>2. Inv /\ [Next]_vars => Inv'
  BY TypesStep, FlowStep DEF Inv
<1> QED
  BY <1>1, <1>2, PTL DEF Spec

-----------------------------------------------------------------------------
(* The state of the camera, in C++ and on the page, keeps its type.        *)
THEOREM CameraTypes == Spec => []TypeOK
<1>1. Inv => TypeOK
  BY DEF Inv
<1> QED
  BY <1>1, Invariant, PTL

(* Whatever answers late, is given up on, replaced or stopped, nothing     *)
(* that the page opened stays on: it is current, or being let go of, and   *)
(* none is current when start() and stop() have nothing open.              *)
THEOREM NothingStaysOn == Spec => []NothingLeftOn
<1>1. Inv => NothingLeftOn
  BY DEF Inv, Flow, OnIsCurrent, NoneCurrent, NothingLeftOn, Going
<1> QED
  BY <1>1, Invariant, PTL

-----------------------------------------------------------------------------
(***************************************************************************)
(* The lock: the device is left in the modes it was found in, and a report *)
(* is true.                                                                *)
(*                                                                         *)
(* Both rest on there being one session at a time that has asked anything  *)
(* of the device: a lock that reads it while another is still being put    *)
(* back is what "overlapped" records, and a driver that did not do as it   *)
(* was asked is what "obeyed" does.                                        *)
(***************************************************************************)

Fine == obeyed /\ ~overlapped
WasManual == {c \in Controls : found[c] = "manual"}

Working(x) == x.lock.pc \in {"asking", "checking", "unanswered", "reverting"}
Holding(x) == Working(x) \/ x.held # {}
Opened(x) == x.stage \in {"live", "waiting", "restoring"}

\* The controls that a session has, or may have, in manual.
Mine(x) ==
  x.held \cup (IF Working(x) THEN x.lock.manual ELSE {})
         \cup (IF x.lock.pc = "checking" THEN Head(x.lock.todo) ELSE {})

\* A lock is of a session that is open, and its result is of when it is over.
Consistent(x) ==
  /\ x.active => x.stage = "live"
  /\ x.lock.pc # "none" => x.stage \in {"live", "waiting"} /\ x.held = {}
  /\ x.held # {} => Opened(x)

\* One lock is asked for of each opening.
LockedOnce ==
  \A s \in Requests :
    page[s].lock.pc # "none" \/ page[s].held # {} =>
      s <= camera /\ (s = camera => asked)

Kept == LockedOnce /\ \A s \in Requests : Consistent(page[s])

\* What a lock takes for found was manual before anything was opened, but for
\* what an earlier one left; and nothing that was manual is put back.
KnowsOf(x, left) ==
  /\ Working(x) => /\ WasManual \subseteq x.lock.asFound
                   /\ x.lock.asFound \subseteq WasManual \cup left
                   /\ x.lock.pc # "unanswered"
  /\ x.lock.pc = "reverting" =>
       Head(x.lock.todo) = (x.lock.manual \ x.lock.held) \ x.lock.asFound
  /\ x.held \cap WasManual = {}
KnowsWhatWas(x) == KnowsOf(x, unread)

OneHolds ==
  \A s, t \in Requests :
    Holding(page[s]) /\ t # s =>
      /\ ~Holding(page[t])
      /\ page[t].lock.pc = "reading" => Going(page[s])

ChangedIsSomeones ==
  \A c \in Controls :
    mode[c] = found[c] \/ (mode[c] = "manual" /\
      (c \in unread \/ \E s \in Requests : c \in Mine(page[s])))

\* A camera that is open, or about to be, is on.
OnWhenOpen ==
  \A s \in Requests :
    Opened(page[s]) \/ (s = current /\ page[s].stage = "playing") => page[s].on

Holds ==
  /\ OnWhenOpen /\ \A s \in Requests : KnowsWhatWas(page[s])
  /\ OneHolds /\ ChangedIsSomeones

LInv == Inv /\ Kept /\ (Fine => Holds)

-----------------------------------------------------------------------------
(* Facts about the page's helpers.                                         *)

LEMMA ReleaseKeeps ==
  ASSUME NEW x \in Sessions, Consistent(x)
  PROVE  /\ Consistent(Release(x))
         /\ Release(x).lock = x.lock /\ Release(x).held = x.held
         /\ Opened(Release(x)) => Opened(x) /\ Release(x).on = x.on
         /\ Going(x) => Going(Release(x))
<1> DEFINE gone == [x EXCEPT !.active = FALSE]
<1>1. gone \in Sessions /\ gone.on = x.on /\ gone.stage = x.stage /\ gone.held = x.held
      /\ gone.lock = x.lock /\ gone.active = FALSE
  BY DEF Sessions
<1>2. CASE x.stage \in {"asking", "playing"}
  BY <1>2 DEF Release, Sessions, Consistent, Opened, Going
<1>3. CASE x.stage = "live" /\ x.lock.pc = "none"
  <2>1. Release(x) = Finish(gone)
    BY <1>3 DEF Release
  <2> HIDE DEF gone
  <2> QED
    BY <1>1, <1>3, <2>1 DEF Finish, Sessions, Consistent, Opened, Going
<1>4. CASE x.stage = "live" /\ x.lock.pc # "none"
  BY <1>4 DEF Release, Sessions, Consistent, Opened, Going
<1>5. CASE x.stage \notin {"asking", "playing", "live"}
  BY <1>5 DEF Release, Sessions, Consistent, Opened, Going
<1> QED
  BY <1>2, <1>3, <1>4, <1>5

LEMMA LockOverKeeps ==
  ASSUME NEW x \in Sessions, x.lock.pc # "none", x.active => x.stage = "live",
         x.stage \in {"live", "waiting"}
  PROVE  /\ Consistent(LockOver(x))
         /\ LockOver(x).lock.pc = "none" /\ LockOver(x).held = x.held
         /\ Opened(LockOver(x)) => LockOver(x).on = x.on
         /\ x.held # {} /\ Going(x) => Going(LockOver(x))
         /\ LockOver(x).stage # "playing"
         /\ x.stage = "live" => LockOver(x).stage = "live"
<1> DEFINE free == [x EXCEPT !.lock = NoLock]
<1>1. free \in Sessions /\ free.on = x.on /\ free.stage = x.stage /\ free.held = x.held
      /\ free.lock.pc = "none" /\ free.active = x.active
  BY NoLockTyped DEF Sessions, NoLock
<1>2. LockOver(x) = IF x.stage = "waiting" THEN Finish(free) ELSE free
  BY DEF LockOver
<1> HIDE DEF free
<1>3. CASE x.stage = "waiting"
  BY <1>1, <1>2, <1>3 DEF Finish, Sessions, Consistent, Opened, Going
<1>4. CASE x.stage # "waiting"
  BY <1>1, <1>2, <1>4 DEF Consistent, Opened, Going
<1> QED
  BY <1>3, <1>4

\* A call to open is of a worker that waits for it, of an opening yet to be.
LEMMA OpenCallsWorker ==
  ASSUME Inv, OpenCall
  PROVE  camera \in Requests /\ page[camera].stage = "none"
<1>1. calls \in Seq({"open", "close"}) /\ calls # <<>> /\ calls[1] = "open"
      /\ worker \in {"idle", "calling", "waiting"}
  BY DEF OpenCall, Inv, TypeOK
<1>2. worker = "calling"
  BY <1>1 DEF Inv, Flow, CallsInOrder, Close
<1> QED
  BY <1>2 DEF Inv, Flow, CallsInOrder, Unasked

\* Every session, when the current one is let go of.
LEMMA LetGoKeeps ==
  ASSUME Inv, Kept,
         NEW after, after = IF current = 0 THEN page
                            ELSE [page EXCEPT ![current] = Release(@)]
  PROVE  /\ after \in [Requests -> Sessions]
         /\ \A t \in Requests :
              /\ Consistent(after[t])
              /\ after[t].lock = page[t].lock /\ after[t].held = page[t].held
              /\ Opened(after[t]) => Opened(page[t]) /\ after[t].on = page[t].on
              /\ Going(page[t]) => Going(after[t])
<1>1. page \in [Requests -> Sessions] /\ current \in 0..MaxRequests
      /\ \A t \in Requests : Consistent(page[t])
  BY TypeParts DEF Inv, Others, Kept
<1>2. CASE current = 0
  BY <1>1, <1>2
<1>3. CASE current # 0
  <2>1. current \in Requests
    BY <1>1, <1>3, ConstantsOK DEF Requests
  <2>2. after = [page EXCEPT ![current] = Release(page[current])]
    BY <1>1, <1>3, <2>1
  <2>3. Release(page[current]) \in Sessions
    BY <1>1, <2>1, ReleaseTyped
  <2> QED
    BY <1>1, <2>1, <2>2, <2>3, ReleaseKeeps
<1> QED
  BY <1>2, <1>3

\* What a lock's end does to its session, with what it leaves to put back.
LEMMA ConcludedKeeps ==
  ASSUME TypeOK, NEW s \in Requests, Consistent(page[s]), page[s].lock.pc # "none",
         NEW lock \in Locks, lock.pc # "none",
         Concluded(s, [page[s] EXCEPT !.lock = lock])
  PROVE  \E y \in Sessions :
           /\ page' = [page EXCEPT ![s] = y]
           /\ Consistent(y) /\ y.lock.pc = "none"
           /\ y.held = lock.held \ lock.asFound
           /\ Opened(y) => y.on = page[s].on
           /\ y.held # {} /\ Going(page[s]) => Going(y)
           /\ y.stage # "playing"
           /\ page[s].stage = "live" => y.stage = "live"
<1> DEFINE x == [page[s] EXCEPT !.lock = lock]
           more == [x EXCEPT !.held = @ \cup (lock.held \ lock.asFound)]
<1>1. page[s] \in Sessions /\ page[s].held = {} /\ page[s].stage \in {"live", "waiting"}
  BY TypeParts DEF Consistent
<1>2. x \in Sessions /\ x.lock = lock /\ x.held = {} /\ x.stage = page[s].stage
      /\ x.on = page[s].on /\ x.active = page[s].active
  BY <1>1 DEF Sessions
<1>3. page' = [page EXCEPT ![s] = LockOver(more)]
  BY <1>2 DEF Concluded
<1> HIDE DEF x
<1>4. more \in Sessions /\ more.lock = lock /\ more.held = lock.held \ lock.asFound
      /\ more.stage = page[s].stage /\ more.on = page[s].on /\ more.active = page[s].active
  BY <1>2 DEF Sessions, Locks
<1> HIDE DEF more
<1>5. LockOver(more) \in Sessions
  BY <1>4, LockOverTyped
<1>6. more.active => more.stage = "live"
  BY <1>4 DEF Consistent
<1>7. /\ Consistent(LockOver(more))
      /\ LockOver(more).lock.pc = "none" /\ LockOver(more).held = more.held
      /\ Opened(LockOver(more)) => LockOver(more).on = more.on
      /\ more.held # {} /\ Going(more) => Going(LockOver(more))
      /\ LockOver(more).stage # "playing"
      /\ more.stage = "live" => LockOver(more).stage = "live"
  BY <1>1, <1>4, <1>6, LockOverKeeps
<1> QED
  BY <1>3, <1>4, <1>5, <1>7 DEF Going

-----------------------------------------------------------------------------
(* Which sessions have a lock, or something to put back.                   *)

\* One session changes, and begins no lock.
LEMMA KeptByOne ==
  ASSUME TypeOK, Kept, UNCHANGED <<camera, asked>>, NEW s \in Requests, NEW y \in Sessions,
         page' = [page EXCEPT ![s] = y], Consistent(y),
         y.lock.pc # "none" \/ y.held # {} => page[s].lock.pc # "none" \/ page[s].held # {}
  PROVE  Kept'
<1>1. page \in [Requests -> Sessions]
  BY TypeParts
<1>2. page'[s] = y /\ \A t \in Requests \ {s} : page'[t] = page[t]
  BY <1>1
<1>3. LockedOnce'
  BY <1>2 DEF Kept, LockedOnce
<1>4. \A t \in Requests : Consistent(page[t])'
  BY <1>2 DEF Kept, Consistent, Opened
<1> QED
  BY <1>3, <1>4 DEF Kept

LEMMA KeptOpening ==
  ASSUME Inv, Kept, NEW s \in Requests,
         Granted(s) \/ Played(s) \/ Refused(s) \/ Ended(s) \/ Frame(s)
  PROVE  Kept'
<1>1. TypeOK /\ page \in [Requests -> Sessions] /\ page[s] \in Sessions /\ Consistent(page[s])
  BY TypeParts DEF Inv, Kept
<1>2. UNCHANGED <<camera, asked>>
  BY DEF Granted, Played, Refused, Ended, Frame, cppVars
<1>3. PICK y \in Sessions :
        /\ page' = [page EXCEPT ![s] = y]
        /\ Consistent(y) /\ y.lock = page[s].lock /\ y.held = page[s].held
  <2>1. CASE Granted(s)
    <3>1. [page[s] EXCEPT !.stage = "playing", !.on = TRUE] \in Sessions
          /\ [page[s] EXCEPT !.stage = "over"] \in Sessions
      BY <1>1 DEF Sessions, Stages
    <3> QED
      BY <1>1, <2>1, <3>1 DEF Granted, Consistent, Opened, Sessions
  <2>2. CASE Played(s)
    <3>1. [page[s] EXCEPT !.stage = "live", !.active = TRUE] \in Sessions
          /\ [page[s] EXCEPT !.stage = "over", !.on = FALSE] \in Sessions
      BY <1>1 DEF Sessions, Stages
    <3> QED
      BY <1>1, <2>2, <3>1 DEF Played, Consistent, Opened, Sessions
  <2>3. CASE Refused(s)
    <3>1. [page[s] EXCEPT !.stage = "over", !.on = FALSE] \in Sessions
      BY <1>1 DEF Sessions, Stages
    <3>2. page' = [page EXCEPT ![s] = [page[s] EXCEPT !.stage = "over", !.on = FALSE]]
      BY <1>1, <2>3 DEF Refused
    <3> QED
      BY <1>1, <2>3, <3>1, <3>2 DEF Refused, Consistent, Opened, Sessions
  <2>4. CASE Ended(s)
    <3>1. [page[s] EXCEPT !.on = FALSE, !.active = FALSE] \in Sessions
      BY <1>1 DEF Sessions
    <3>2. page' = [page EXCEPT ![s] = [page[s] EXCEPT !.on = FALSE, !.active = FALSE]]
      BY <1>1, <2>4 DEF Ended
    <3> QED
      BY <1>1, <3>1, <3>2 DEF Consistent, Opened, Sessions
  <2>5. CASE Frame(s)
    BY <1>1, <2>5 DEF Frame
  <2> QED
    BY <2>1, <2>2, <2>3, <2>4, <2>5
<1> QED
  BY <1>1, <1>2, <1>3, KeptByOne

LEMMA KeptLock ==
  ASSUME Inv, Kept, NEW s \in Requests, PageStep(s)
  PROVE  Kept'
<1>1. TypeOK /\ page \in [Requests -> Sessions] /\ page[s] \in Sessions
      /\ page[s].lock \in Locks /\ Consistent(page[s])
  BY TypeParts DEF Inv, Kept, Sessions
<1>2. UNCHANGED <<camera, asked>>
  BY DEF PageStep, Settled, Read, Asked, Checked, Reverted, Restored, cppVars
<1>3. ASSUME NEW lock \in Locks, page[s].lock.pc # "none", page' = [page EXCEPT ![s].lock = lock]
      PROVE  Kept'
  <2> DEFINE y == [page[s] EXCEPT !.lock = lock]
  <2>1. y \in Sessions /\ page' = [page EXCEPT ![s] = y] /\ Consistent(y)
    BY <1>1, <1>3 DEF Sessions, Consistent, Opened
  <2> HIDE DEF y
  <2> QED
    BY <1>1, <1>2, <1>3, <2>1, KeptByOne
<1>4. ASSUME page[s].lock.pc # "none", page' = [page EXCEPT ![s] = LockOver(page[s])]
      PROVE  Kept'
  <2>1. LockOver(page[s]) \in Sessions /\ Consistent(LockOver(page[s]))
    BY <1>1, <1>4, LockOverTyped, LockOverKeeps DEF Consistent
  <2> QED
    BY <1>1, <1>2, <1>4, <2>1, KeptByOne
<1>5. ASSUME NEW lock \in Locks, page[s].lock.pc # "none", lock.pc # "none",
             Concluded(s, [page[s] EXCEPT !.lock = lock])
      PROVE  Kept'
  <2>1. PICK y \in Sessions : page' = [page EXCEPT ![s] = y] /\ Consistent(y)
    BY <1>1, <1>5, ConcludedKeeps
  <2> QED
    BY <1>1, <1>2, <1>5, <2>1, KeptByOne
<1>6. CASE Settled(s)
  <2>1. [page[s].lock EXCEPT !.pc = "reading"] \in Locks
    BY <1>1 DEF Locks, LockPcs
  <2>2. \/ page' = [page EXCEPT ![s].lock = [page[s].lock EXCEPT !.pc = "reading"]]
        \/ page' = [page EXCEPT ![s] = LockOver(page[s])]
    BY <1>1, <1>6 DEF Settled, Sessions
  <2> QED
    BY <1>3, <1>4, <1>6, <2>1, <2>2 DEF Settled
<1>7. CASE Read(s)
  <2>1. CASE page' = [page EXCEPT ![s] = LockOver(@)]
    <3>1. page' = [page EXCEPT ![s] = LockOver(page[s])]
      BY <1>1, <2>1
    <3> QED
      BY <1>4, <1>7, <3>1 DEF Read
  <2>2. ASSUME NEW pending \in SUBSET Controls,
               page' = [page EXCEPT ![s].lock =
                 [@ EXCEPT !.pc = "asking", !.todo = <<pending>>,
                           !.asFound = {c \in Controls : mode[c] = "manual"}]]
        PROVE  Kept'
    <3> DEFINE lock == [page[s].lock EXCEPT !.pc = "asking", !.todo = <<pending>>,
                           !.asFound = {c \in Controls : mode[c] = "manual"}]
    <3>1. {c \in Controls : mode[c] = "manual"} \in SUBSET Controls
          /\ <<pending>> \in Seq(SUBSET Controls)
      OBVIOUS
    <3>2. lock \in Locks
      BY <1>1, <3>1 DEF Locks, LockPcs
    <3>3. page' = [page EXCEPT ![s].lock = lock]
      BY <1>1, <2>2
    <3> HIDE DEF lock
    <3> QED
      BY <1>3, <1>7, <3>2, <3>3 DEF Read
  <2> QED
    BY <1>7, <2>1, <2>2 DEF Read
<1>8. CASE Asked(s)
  <2>1. PICK pc \in {"checking", "unanswered"} : page' = [page EXCEPT ![s].lock.pc = pc]
    BY <1>8 DEF Asked
  <2>2. [page[s].lock EXCEPT !.pc = pc] \in Locks
    BY <1>1 DEF Locks, LockPcs
  <2>3. page' = [page EXCEPT ![s].lock = [page[s].lock EXCEPT !.pc = pc]]
    BY <1>1, <2>1
  <2> QED
    BY <1>3, <1>8, <2>2, <2>3 DEF Asked
<1>9. CASE Checked(s)
  <2>0. PICK manual \in SUBSET InManual(page[s].lock) :
          /\ unread' = unread \cup
               (InManual(page[s].lock) \ (manual \cup page[s].lock.asFound))
          /\ ChecksAs(s, manual)
    BY <1>9, CheckedSays
  <2> DEFINE read == ReadBack(page[s].lock, manual)
             todo == LeftToTry(page[s], manual)
             back == ToGiveBack(page[s].lock, manual)
  <2>1. page[s].lock.pc \in {"checking", "unanswered"} /\ LocksKnow
    BY <1>9 DEF Checked, Inv
  <2>2. read \in Locks /\ todo \in Seq(SUBSET Controls) /\ back \in SUBSET Controls
    BY <1>1, <2>0, <2>1, ReadBackTyped
  <2>3. read.pc = page[s].lock.pc
    BY <1>1 DEF ReadBack, Locks
  <2>4. \/ page' = [page EXCEPT ![s].lock = [read EXCEPT !.pc = "asking", !.todo = todo]]
        \/ page' = [page EXCEPT ![s].lock = [read EXCEPT !.pc = "reverting", !.todo = <<back>>]]
        \/ Concluded(s, [page[s] EXCEPT !.lock = read])
    BY <2>0 DEF ChecksAs
  <2> HIDE DEF read, todo, back
  <2>5. [read EXCEPT !.pc = "asking", !.todo = todo] \in Locks
        /\ [read EXCEPT !.pc = "reverting", !.todo = <<back>>] \in Locks
    <3>1. <<back>> \in Seq(SUBSET Controls)
      BY <2>2
    <3> QED
      BY <2>2, <3>1 DEF Locks, LockPcs
  <2> QED
    BY <1>3, <1>5, <2>1, <2>2, <2>3, <2>4, <2>5
<1>10. CASE Reverted(s)
  <2>1. [page[s] EXCEPT !.lock = page[s].lock] = page[s]
    BY <1>1 DEF Sessions
  <2> QED
    BY <1>1, <1>5, <1>10, <2>1 DEF Reverted
<1>11. CASE Restored(s)
  <2> DEFINE y == [page[s] EXCEPT !.stage = "over", !.on = FALSE, !.held = {}]
  <2>1. y \in Sessions /\ page' = [page EXCEPT ![s] = y] /\ Consistent(y)
        /\ y.held = {} /\ y.lock.pc = "none"
    BY <1>1, <1>11 DEF Restored, Sessions, Stages, Consistent, Opened
  <2> HIDE DEF y
  <2> QED
    BY <1>1, <1>2, <2>1, KeptByOne
<1> QED
  BY <1>6, <1>7, <1>8, <1>9, <1>10, <1>11 DEF PageStep

LEMMA KeptRequest ==
  ASSUME Inv, Kept, RequestLock
  PROVE  Kept'
<1>1. TypeOK /\ page \in [Requests -> Sessions] /\ camera \in Requests /\ UNCHANGED camera
  BY TypeParts DEF RequestLock, Inv, Flow, CallsInOrder
<1>2. page[camera].lock.pc = "none" /\ page[camera].held = {} /\ Consistent(page[camera])
  BY <1>1 DEF RequestLock, Kept, LockedOnce
<1>3. CASE UNCHANGED page
  BY <1>1, <1>3 DEF RequestLock, Kept, LockedOnce
<1>4. CASE /\ current = camera /\ page[current].active
           /\ page' = [page EXCEPT ![current].lock.pc = "settling"]
  <2>1. Consistent(page'[camera])
    BY <1>1, <1>2, <1>4 DEF Consistent, Opened, Sessions, Locks
  <2>2. \A t \in Requests \ {camera} : page'[t] = page[t]
    BY <1>1, <1>4
  <2>3. LockedOnce'
    BY <1>1, <2>2 DEF RequestLock, Kept, LockedOnce, Requests
  <2>4. \A t \in Requests : Consistent(page[t])'
    BY <2>1, <2>2 DEF Kept, Consistent, Opened
  <2> QED
    BY <2>3, <2>4 DEF Kept
<1> QED
  BY <1>3, <1>4 DEF RequestLock

LEMMA KeptStep == Inv /\ Kept /\ [Next]_vars => Kept'
<1> SUFFICES ASSUME Inv, Kept, [Next]_vars PROVE Kept'
  OBVIOUS
<1>1. TypeOK /\ page \in [Requests -> Sessions] /\ camera \in 0..(MaxRequests + 1)
  BY TypeParts DEF Inv, Others
<1>2. ASSUME \A t \in Requests : /\ page'[t].lock = page[t].lock /\ page'[t].held = page[t].held
                                 /\ Consistent(page[t])',
             (camera' = camera /\ asked' = asked) \/ camera' = camera + 1
      PROVE  Kept'
  BY <1>1, <1>2 DEF Kept, LockedOnce, Requests
<1>3. CASE UNCHANGED vars
  BY <1>3 DEF vars, Kept, LockedOnce, Consistent, Opened
<1>4. CASE Start \/ TimedOut \/ Woken \/ Poll
  <2>1. UNCHANGED page /\ ((camera' = camera /\ asked' = asked) \/ camera' = camera + 1)
    BY <1>4 DEF Start, TimedOut, Woken, Poll
  <2> QED
    BY <1>2, <2>1 DEF Kept, Consistent, Opened
<1>5. CASE Stop \/ CloseCall \/ OpenCall
  <2> DEFINE after == IF current = 0 THEN page
                      ELSE [page EXCEPT ![current] = Release(@)]
  <2>1. /\ after \in [Requests -> Sessions]
        /\ \A t \in Requests :
             /\ Consistent(after[t])
             /\ after[t].lock = page[t].lock /\ after[t].held = page[t].held
    BY LetGoKeeps
  <2>2. /\ \A t \in Requests : after[t].stage = "none" <=> page[t].stage = "none"
    BY LetGoGoes
  <2>3. \/ page' = after
        \/ /\ OpenCall
           /\ page' = [after EXCEPT ![camera].stage = "asking"]
    BY <1>5 DEF Stop, CloseCall, OpenCall, LetGo
  <2>4. UNCHANGED <<camera, asked>>
    BY <1>5 DEF Stop, CloseCall, OpenCall, cppVars
  <2> HIDE DEF after
  <2>5. CASE page' = after
    BY <1>2, <2>1, <2>4, <2>5 DEF Consistent, Opened
  <2>6. CASE OpenCall /\ page' = [after EXCEPT ![camera].stage = "asking"]
    <3>1. page[camera].stage = "none" /\ camera \in Requests
      BY <2>6, OpenCallsWorker
    <3>2. after[camera].stage = "none"
      BY <2>2, <3>1
    <3>3. Consistent(page'[camera]) /\ page'[camera].lock = page[camera].lock
          /\ page'[camera].held = page[camera].held
      BY <2>1, <2>6, <3>1, <3>2 DEF Sessions, Consistent, Opened
    <3>4. \A t \in Requests \ {camera} : page'[t] = after[t]
      BY <2>1, <2>6
    <3> QED
      BY <1>2, <2>1, <2>4, <3>3, <3>4 DEF Consistent, Opened
  <2> QED
    BY <2>3, <2>5, <2>6
<1> QED
  BY <1>3, <1>4, <1>5, KeptRequest, KeptOpening, KeptLock DEF Next

-----------------------------------------------------------------------------
(* Steps that leave every lock, and the device, alone.                     *)

LEMMA LocksKept ==
  ASSUME LInv, UNCHANGED deviceVars, Fine' => Fine, Fine' => OnWhenOpen',
         \A s \in Requests :
           /\ page'[s].lock = page[s].lock /\ page'[s].held = page[s].held
           /\ Going(page[s]) => Going(page'[s])
  PROVE  Fine' => Holds'
<1> SUFFICES ASSUME Fine' PROVE Holds'
  OBVIOUS
<1>1. Holds /\ Fine
  BY DEF LInv
<1>2. \A s \in Requests : /\ Working(page'[s]) <=> Working(page[s])
                          /\ Holding(page'[s]) <=> Holding(page[s])
                          /\ Mine(page'[s]) = Mine(page[s])
                          /\ page'[s].lock.pc = page[s].lock.pc
  BY DEF Working, Holding, Mine
<1>3. WasManual' = WasManual
  BY DEF WasManual, deviceVars
<1>4. \A s \in Requests : KnowsWhatWas(page[s])'
  BY <1>1, <1>2, <1>3 DEF Holds, KnowsWhatWas, KnowsOf, deviceVars
<1>5. OneHolds'
  BY <1>1, <1>2 DEF Holds, OneHolds
<1>6. ChangedIsSomeones'
  BY <1>1, <1>2 DEF Holds, ChangedIsSomeones, deviceVars
<1> QED
  BY <1>4, <1>5, <1>6 DEF Holds

LEMMA HoldsLettingGo ==
  ASSUME LInv, Stop \/ CloseCall \/ OpenCall
  PROVE  Fine' => Holds'
<1> DEFINE after == IF current = 0 THEN page
                    ELSE [page EXCEPT ![current] = Release(@)]
<1>1. Inv /\ Kept
  BY DEF LInv
<1>2. /\ after \in [Requests -> Sessions]
      /\ \A t \in Requests :
           /\ after[t].lock = page[t].lock /\ after[t].held = page[t].held
           /\ Opened(after[t]) => Opened(page[t]) /\ after[t].on = page[t].on
           /\ Going(page[t]) => Going(after[t])
  BY <1>1, LetGoKeeps
<1>3. \A t \in Requests : after[t].stage = "none" <=> page[t].stage = "none"
  BY <1>1, LetGoGoes
<1>4. \/ page' = after /\ current' = 0
      \/ /\ OpenCall
         /\ page' = [after EXCEPT ![camera].stage = "asking"] /\ current' = camera
  BY DEF Stop, CloseCall, OpenCall, LetGo
<1>5. UNCHANGED deviceVars /\ Fine' = Fine
  BY DEF Stop, CloseCall, OpenCall, Fine
<1>6. Fine => OnWhenOpen
  BY DEF LInv, Holds
<1> HIDE DEF after
<1>7. CASE page' = after /\ current' = 0
  <2>1. Fine' => OnWhenOpen'
    BY <1>2, <1>5, <1>6, <1>7 DEF OnWhenOpen, Requests
  <2> QED
    BY <1>2, <1>5, <1>7, <2>1, LocksKept
<1>8. CASE OpenCall /\ page' = [after EXCEPT ![camera].stage = "asking"] /\ current' = camera
  <2>1. camera \in Requests /\ page[camera].stage = "none"
    BY <1>1, <1>8, OpenCallsWorker
  <2>2. /\ page'[camera].lock = page[camera].lock /\ page'[camera].held = page[camera].held
        /\ page'[camera].stage = "asking"
        /\ \A t \in Requests \ {camera} : page'[t] = after[t]
    BY <1>2, <1>8, <2>1 DEF Sessions
  <2>3. Fine' => OnWhenOpen'
    BY <1>2, <1>5, <1>6, <1>8, <2>1, <2>2 DEF OnWhenOpen, Opened
  <2>4. \A t \in Requests : Going(page[t]) => Going(page'[t])
    BY <1>2, <2>1, <2>2 DEF Going
  <2> QED
    BY <1>2, <1>5, <2>2, <2>3, <2>4, LocksKept
<1> QED
  BY <1>4, <1>7, <1>8

LEMMA HoldsOpening ==
  ASSUME LInv, NEW s \in Requests,
         Granted(s) \/ Played(s) \/ Refused(s) \/ Ended(s) \/ Frame(s)
  PROVE  Fine' => Holds'
<1>1. page \in [Requests -> Sessions] /\ page[s] \in Sessions
  BY TypeParts DEF LInv, Inv
<1>2. UNCHANGED deviceVars /\ (Fine' => Fine)
  BY DEF Granted, Played, Refused, Ended, Frame, Fine
<1>3. \A t \in Requests \ {s} : page'[t] = page[t]
  BY <1>1 DEF Granted, Played, Refused, Ended, Frame
<1>4. /\ page'[s].lock = page[s].lock /\ page'[s].held = page[s].held
      /\ Going(page[s]) => Going(page'[s])
      /\ Fine' => (Opened(page'[s]) \/ (s = current' /\ page'[s].stage = "playing")
                     => page'[s].on)
  <2>1. Fine => (Opened(page[s]) \/ (s = current /\ page[s].stage = "playing") => page[s].on)
    BY DEF LInv, Holds, OnWhenOpen
  <2>2. CASE Granted(s)
    BY <1>1, <2>2 DEF Granted, Sessions, Going, Opened
  <2>3. CASE Played(s)
    BY <1>1, <1>2, <2>1, <2>3 DEF Played, Sessions, Going, Opened
  <2>4. CASE Refused(s)
    BY <1>1, <2>4 DEF Refused, Sessions, Going, Opened
  <2>5. CASE Ended(s)
    BY <1>1, <2>5 DEF Ended, Sessions, Going, Fine
  <2>6. CASE Frame(s)
    BY <1>2, <2>1, <2>6 DEF Frame
  <2> QED
    BY <2>2, <2>3, <2>4, <2>5, <2>6
<1>5. current' \in {current, 0}
  BY DEF Granted, Played, Refused, Ended, Frame
<1>6. Fine' => OnWhenOpen'
  <2> SUFFICES ASSUME Fine', NEW t \in Requests,
                      Opened(page'[t]) \/ (t = current' /\ page'[t].stage = "playing")
               PROVE  page'[t].on
    BY DEF OnWhenOpen, Opened
  <2>1. CASE t = s
    BY <1>4, <2>1
  <2>2. CASE t # s
    <3>1. t # 0
      BY ConstantsOK DEF Requests
    <3> QED
      BY <1>2, <1>3, <1>5, <2>2, <3>1 DEF LInv, Holds, OnWhenOpen
  <2> QED
    BY <2>1, <2>2
<1> QED
  BY <1>2, <1>3, <1>4, <1>6, LocksKept

LEMMA HoldsWorker ==
  ASSUME LInv, Start \/ Woken \/ TimedOut \/ Poll \/ UNCHANGED vars
  PROVE  Fine' => Holds'
<1>1. UNCHANGED <<page, current, deviceVars>> /\ Fine' = Fine
  BY DEF Start, Woken, TimedOut, Poll, vars, deviceVars, Fine
<1>2. Fine' => OnWhenOpen'
  BY <1>1 DEF LInv, Holds, OnWhenOpen, Opened
<1> QED
  BY <1>1, <1>2, LocksKept

-----------------------------------------------------------------------------
(* Steps of one session that do.                                           *)

\* What it comes to: that no other holds anything, and that what is changed
\* is still somebody's.
LEMMA HoldsByOne ==
  ASSUME LInv, Fine, found' = found, unread \subseteq unread', current' = current,
         NEW s \in Requests, NEW y \in Sessions, page' = [page EXCEPT ![s] = y],
         Opened(y) => y.on, y.stage # "playing", KnowsOf(y, unread'),
         \A t \in Requests \ {s} :
           /\ Holding(y) => ~Holding(page[t]) /\ (page[t].lock.pc = "reading" => Going(y))
           /\ Holding(page[t]) /\ y.lock.pc = "reading" => Going(page[t]),
         \A c \in Controls :
           mode'[c] = found[c] \/ (mode'[c] = "manual" /\
             (c \in unread' \/ c \in Mine(y) \/ \E t \in Requests \ {s} : c \in Mine(page[t])))
  PROVE  Holds'
<1>1. page \in [Requests -> Sessions] /\ Holds
  BY TypeParts DEF LInv, Inv
<1>2. page'[s] = y /\ \A t \in Requests \ {s} : page'[t] = page[t]
  BY <1>1
<1>3. OnWhenOpen'
  BY <1>1, <1>2 DEF Holds, OnWhenOpen
<1>4. \A t \in Requests : KnowsWhatWas(page[t])'
  <2>1. WasManual' = WasManual
    BY DEF WasManual
  <2> QED
    BY <1>1, <1>2, <2>1 DEF Holds, KnowsWhatWas, KnowsOf, Working
<1>5. OneHolds'
  <2> SUFFICES ASSUME NEW u \in Requests, NEW t \in Requests, Holding(page'[u]), t # u
               PROVE  /\ ~Holding(page'[t])
                      /\ page'[t].lock.pc = "reading" => Going(page'[u])
    BY DEF OneHolds, Holding, Working, Going
  <2>1. CASE u = s
    BY <1>2, <2>1
  <2>2. CASE u # s /\ t = s
    BY <1>2, <2>2
  <2>3. CASE u # s /\ t # s
    BY <1>1, <1>2, <2>3 DEF Holds, OneHolds
  <2> QED
    BY <2>1, <2>2, <2>3
<1>6. ChangedIsSomeones'
  BY <1>2 DEF ChangedIsSomeones, Mine, Working
<1> QED
  BY <1>3, <1>4, <1>5, <1>6 DEF Holds

\* A session with no lock that holds nothing.
Free(y) == y.lock.pc = "none" /\ y.held = {}

\* A lock that ends with nothing to put back, or that has yet to ask.
LEMMA HoldsFree ==
  ASSUME LInv, Fine, UNCHANGED deviceVars, current' = current,
         NEW s \in Requests, NEW y \in Sessions, page' = [page EXCEPT ![s] = y],
         Opened(y) => y.on, y.stage # "playing",
         ~Holding(page[s]), Free(y)
  PROVE  Holds'
<1>1. ~Holding(y) /\ ~Working(y) /\ y.lock.pc = "none" /\ KnowsOf(y, unread')
  BY DEF Free, Holding, Working, KnowsOf
<1>2. Mine(page[s]) = {}
  BY DEF Holding, Working, Mine
<1>3. \A c \in Controls :
        mode'[c] = found[c] \/ (mode'[c] = "manual" /\
          (c \in unread' \/ c \in Mine(y) \/ \E t \in Requests \ {s} : c \in Mine(page[t])))
  BY <1>2 DEF LInv, Holds, ChangedIsSomeones, deviceVars
<1>4. found' = found /\ unread' = unread
  BY DEF deviceVars
<1> QED
  BY <1>1, <1>3, <1>4, HoldsByOne

LEMMA HoldsRequest ==
  ASSUME LInv, RequestLock
  PROVE  Fine' => Holds'
<1> SUFFICES ASSUME Fine' PROVE Holds'
  OBVIOUS
<1>1. TypeOK /\ page \in [Requests -> Sessions] /\ camera \in Requests /\ Inv /\ Kept
  BY TypeParts DEF RequestLock, LInv, Inv, Flow, CallsInOrder
<1>2. UNCHANGED <<current, deviceVars>> /\ Fine
  BY DEF RequestLock, Fine
<1>3. page[camera].lock.pc = "none" /\ page[camera].held = {} /\ Consistent(page[camera])
  BY <1>1 DEF RequestLock, Kept, LockedOnce
<1>4. Holds
  BY <1>2 DEF LInv
<1>5. CASE UNCHANGED page
  <2>1. OnWhenOpen'
    BY <1>2, <1>4, <1>5 DEF Holds, OnWhenOpen, Opened
  <2> QED
    BY <1>2, <1>5, <2>1, LocksKept
<1>6. CASE /\ current = camera /\ page[current].active
           /\ page' = [page EXCEPT ![current].lock.pc = "settling"]
  <2> DEFINE y == [page[camera] EXCEPT !.lock.pc = "settling"]
  <2>1. y \in Sessions /\ page' = [page EXCEPT ![camera] = y]
        /\ y.lock.pc = "settling" /\ y.held = {} /\ y.stage = "live" /\ y.on = page[camera].on
    <3>1. page[camera].stage = "live" /\ page[camera] \in Sessions
      BY <1>1, <1>3, <1>6 DEF Consistent
    <3>2. page' = [page EXCEPT ![camera] = y]
      BY <1>1, <1>6
    <3> QED
      BY <1>3, <3>1, <3>2, LockAt DEF LockPcs
  <2>2. page[camera].stage = "live"
    BY <1>3, <1>6 DEF Consistent
  <2>3. y.on
    BY <1>1, <1>4, <2>1, <2>2 DEF Holds, OnWhenOpen, Opened
  <2> HIDE DEF y
  <2>4. ~Holding(y) /\ KnowsOf(y, unread') /\ Mine(page[camera]) = {}
    BY <1>3, <2>1 DEF Holding, Working, KnowsOf, Mine
  <2>5. \A c \in Controls :
          mode'[c] = found[c] \/ (mode'[c] = "manual" /\
            (c \in unread' \/ c \in Mine(y) \/ \E t \in Requests \ {camera} : c \in Mine(page[t])))
    BY <1>2, <1>4, <2>4 DEF Holds, ChangedIsSomeones, deviceVars
  <2>6. found' = found /\ unread' = unread
    BY <1>2 DEF deviceVars
  <2> QED
    BY <1>1, <1>2, <2>1, <2>3, <2>4, <2>5, <2>6, HoldsByOne
<1> QED
  BY <1>5, <1>6 DEF RequestLock

\* What is known of the session whose lock is over: it is free.
LEMMA LockOverFree ==
  ASSUME LInv, NEW s \in Requests, page[s].lock.pc # "none", Fine
  PROVE  /\ LockOver(page[s]) \in Sessions /\ Free(LockOver(page[s]))
         /\ Opened(LockOver(page[s])) => LockOver(page[s]).on
         /\ LockOver(page[s]).stage # "playing"
<1>1. page[s] \in Sessions /\ Consistent(page[s]) /\ (Opened(page[s]) => page[s].on)
  BY TypeParts DEF LInv, Inv, Kept, Holds, OnWhenOpen
<1>2. page[s].stage \in {"live", "waiting"} /\ page[s].held = {}
      /\ (page[s].active => page[s].stage = "live") /\ page[s].on
  BY <1>1 DEF Consistent, Opened
<1> QED
  BY <1>1, <1>2, LockOverTyped, LockOverKeeps DEF Free

LEMMA HoldsSettled ==
  ASSUME LInv, NEW s \in Requests, Settled(s)
  PROVE  Fine' => Holds'
<1> SUFFICES ASSUME Fine' PROVE Holds'
  OBVIOUS
<1>1. page \in [Requests -> Sessions] /\ page[s] \in Sessions /\ Inv /\ Consistent(page[s])
  BY TypeParts DEF LInv, Inv, Kept
<1>2. UNCHANGED <<current, deviceVars>> /\ Fine /\ found' = found
      /\ unread' = unread
  BY DEF Settled, Fine, deviceVars
<1>3. page[s].lock.pc = "settling" /\ page[s].held = {} /\ ~Holding(page[s])
  BY <1>1 DEF Settled, Consistent, Holding, Working
<1>4. Holds
  BY <1>2 DEF LInv
<1>5. CASE page' = [page EXCEPT ![s] = LockOver(page[s])]
  BY <1>2, <1>3, <1>5, LockOverFree, HoldsFree
<1>6. CASE /\ current = s /\ page[s].active
           /\ page' = [page EXCEPT ![s].lock.pc = "reading"]
  <2> DEFINE y == [page[s] EXCEPT !.lock.pc = "reading"]
  <2>1. y \in Sessions /\ page' = [page EXCEPT ![s] = y]
        /\ y.lock.pc = "reading" /\ y.held = {} /\ y.stage = "live" /\ y.on = page[s].on
    <3>1. page[s].stage = "live"
      BY <1>1, <1>6 DEF Consistent
    <3>2. page' = [page EXCEPT ![s] = y]
      BY <1>1, <1>6
    <3> QED
      BY <1>1, <1>3, <3>1, <3>2, LockAt DEF LockPcs
  <2>2. y.on
    BY <1>1, <1>4, <1>6, <2>1 DEF Holds, OnWhenOpen, Opened, Consistent
  <2> HIDE DEF y
  <2>3. ~Holding(y) /\ KnowsOf(y, unread') /\ Mine(page[s]) = {}
    BY <1>3, <2>1 DEF Holding, Working, KnowsOf, Mine
  <2>4. \A c \in Controls :
          mode'[c] = found[c] \/ (mode'[c] = "manual" /\
            (c \in unread' \/ c \in Mine(y) \/ \E t \in Requests \ {s} : c \in Mine(page[t])))
    BY <1>2, <1>4, <2>3 DEF Holds, ChangedIsSomeones, deviceVars
  <2>5. ASSUME NEW t \in Requests \ {s}, Holding(page[t]) PROVE Going(page[t])
    <3>1. Opened(page[t])
      BY <2>5 DEF LInv, Kept, Consistent, Holding, Working, Opened
    <3>2. page[t].on
      BY <1>4, <3>1 DEF Holds, OnWhenOpen
    <3> QED
      BY <1>1, <1>6, <3>2 DEF Inv, Flow, OnIsCurrent
  <2> QED
    BY <1>2, <2>1, <2>2, <2>3, <2>4, <2>5, HoldsByOne
<1> QED
  BY <1>1, <1>5, <1>6 DEF Settled

\* When nobody holds anything, the device is as it was found, or was not read.
LEMMA NobodyHolds ==
  ASSUME LInv, Fine, \A t \in Requests : ~Holding(page[t])
  PROVE  \A c \in Controls : mode[c] = found[c] \/ (mode[c] = "manual" /\ c \in unread)
<1>1. \A t \in Requests : Mine(page[t]) = {}
  BY DEF Holding, Working, Mine
<1> QED
  BY <1>1 DEF LInv, Holds, ChangedIsSomeones

LEMMA HoldsRead ==
  ASSUME LInv, NEW s \in Requests, Read(s)
  PROVE  Fine' => Holds'
<1> SUFFICES ASSUME Fine' PROVE Holds'
  OBVIOUS
<1>1. page \in [Requests -> Sessions] /\ page[s] \in Sessions /\ page[s].lock \in Locks
      /\ Inv /\ Consistent(page[s])
  BY TypeParts DEF LInv, Inv, Kept, Sessions
<1>2. UNCHANGED <<current, deviceVars>> /\ found' = found /\ unread' = unread
      /\ Fine /\ \A t \in Requests \ {s} : ~Going(page[t])
  BY DEF Read, Fine, deviceVars, Going
<1>3. page[s].lock.pc = "reading" /\ page[s].held = {} /\ ~Holding(page[s])
      /\ page[s].stage \in {"live", "waiting"}
  BY <1>1 DEF Read, Consistent, Holding, Working
<1>4. Holds
  BY <1>2 DEF LInv
<1>5. \A t \in Requests \ {s} : ~Holding(page[t])
  BY <1>2, <1>3, <1>4 DEF Holds, OneHolds
<1>6. CASE page' = [page EXCEPT ![s] = LockOver(page[s])]
  BY <1>2, <1>3, <1>6, LockOverFree, HoldsFree
<1>7. ASSUME NEW pending \in SUBSET Controls,
             page' = [page EXCEPT ![s].lock =
               [@ EXCEPT !.pc = "asking", !.todo = <<pending>>,
                         !.asFound = {c \in Controls : mode[c] = "manual"}]]
      PROVE  Holds'
  <2> DEFINE lock == [page[s].lock EXCEPT !.pc = "asking", !.todo = <<pending>>,
                         !.asFound = {c \in Controls : mode[c] = "manual"}]
             y == [page[s] EXCEPT !.lock = lock]
  <2>1. \A c \in Controls : mode[c] = found[c] \/ (mode[c] = "manual" /\ c \in unread)
    BY <1>2, <1>3, <1>5, NobodyHolds
  <2> DEFINE now == {c \in Controls : mode[c] = "manual"}
  <2>2. now \in SUBSET Controls /\ WasManual \subseteq now /\ now \subseteq WasManual \cup unread
        /\ <<pending>> \in Seq(SUBSET Controls)
    BY <2>1 DEF WasManual
  <2>3. lock \in Locks /\ lock.pc = "asking" /\ lock.asFound = now
        /\ page' = [page EXCEPT ![s].lock = lock]
    BY <1>1, <1>7, <2>2 DEF Locks, LockPcs
  <2> HIDE DEF lock
  <2>4. y \in Sessions /\ page' = [page EXCEPT ![s] = y] /\ y.lock = lock
        /\ y.stage = page[s].stage /\ y.on = page[s].on /\ y.held = {}
    BY <1>1, <1>3, <2>3 DEF Sessions
  <2> HIDE DEF y
  <2>5. KnowsOf(y, unread')
    BY <1>2, <2>2, <2>3, <2>4 DEF KnowsOf
  <2>6. (Opened(y) => y.on) /\ y.stage # "playing"
    BY <1>3, <1>4, <2>4 DEF Holds, OnWhenOpen, Opened
  <2>7. ASSUME NEW t \in Requests \ {s}, page[t].lock.pc = "reading" PROVE Going(y)
    <3>1. page[t].stage = "live" /\ page[t].on
      BY <1>2, <1>4, <2>7 DEF LInv, Kept, Consistent, Going, Holds, OnWhenOpen, Opened
    <3>2. t = current
      BY <1>1, <1>2, <3>1 DEF Inv, Flow, OnIsCurrent
    <3>3. page[s].on
      BY <1>3, <1>4 DEF Holds, OnWhenOpen, Opened
    <3> QED
      BY <1>1, <2>4, <3>2, <3>3 DEF Inv, Flow, OnIsCurrent, Going
  <2>8. \A c \in Controls : mode'[c] = found[c] \/ (mode'[c] = "manual" /\ c \in unread')
    BY <1>2, <2>1 DEF deviceVars
  <2>9. y.lock.pc # "reading"
    BY <2>3, <2>4
  <2> QED
    BY <1>2, <1>5, <2>4, <2>5, <2>6, <2>7, <2>8, <2>9, HoldsByOne
<1>8. \/ page' = [page EXCEPT ![s] = LockOver(page[s])]
      \/ \E pending \in SUBSET Controls :
           page' = [page EXCEPT ![s].lock =
             [@ EXCEPT !.pc = "asking", !.todo = <<pending>>,
                       !.asFound = {c \in Controls : mode[c] = "manual"}]]
  BY <1>1 DEF Read
<1> QED
  BY <1>6, <1>7, <1>8

\* What is known of a session whose lock is at work.
LEMMA WorkingSays ==
  ASSUME LInv, Fine, NEW s \in Requests, Working(page[s])
  PROVE  /\ page[s] \in Sessions /\ page[s].lock \in Locks /\ page[s].held = {}
         /\ page[s].stage \in {"live", "waiting"} /\ page[s].on /\ Consistent(page[s])
         /\ WasManual \subseteq page[s].lock.asFound
         /\ page[s].lock.asFound \subseteq WasManual \cup unread
         /\ page[s].lock.pc # "unanswered"
         /\ page[s].lock.todo # <<>>
         /\ \A t \in Requests \ {s} :
              /\ ~Holding(page[t]) /\ Mine(page[t]) = {}
              /\ page[t].lock.pc = "reading" => Going(page[s])
         /\ \A c \in Controls :
              mode[c] = found[c] \/
                (mode[c] = "manual" /\ (c \in unread \/ c \in Mine(page[s])))
<1>1. page[s] \in Sessions /\ page[s].lock \in Locks /\ Consistent(page[s])
  BY TypeParts DEF LInv, Inv, Kept, Sessions
<1>2. Holds
  BY DEF LInv
<1>3. page[s].stage \in {"live", "waiting"} /\ page[s].held = {}
  BY <1>1 DEF Consistent, Working
<1>4. page[s].on
  BY <1>2, <1>3 DEF Holds, OnWhenOpen, Opened
<1>5. \A t \in Requests \ {s} : ~Holding(page[t]) /\ (page[t].lock.pc = "reading" => Going(page[s]))
  BY <1>2 DEF Holds, OneHolds, Holding
<1>6. \A t \in Requests \ {s} : Mine(page[t]) = {}
  BY <1>5 DEF Holding, Working, Mine
<1>7. \A c \in Controls :
        mode[c] = found[c] \/
          (mode[c] = "manual" /\ (c \in unread \/ c \in Mine(page[s])))
  BY <1>2, <1>6 DEF Holds, ChangedIsSomeones
<1>8. /\ WasManual \subseteq page[s].lock.asFound
      /\ page[s].lock.asFound \subseteq WasManual \cup unread
      /\ page[s].lock.pc # "unanswered"
  BY <1>2 DEF Holds, KnowsWhatWas, KnowsOf
<1>9. page[s].lock.todo # <<>>
  BY DEF LInv, Inv, LocksKnow, Working
<1> QED
  BY <1>1, <1>3, <1>4, <1>5, <1>6, <1>7, <1>8, <1>9

\* A lock goes on.
LEMMA HoldsWorking ==
  ASSUME LInv, Fine, found' = found, unread \subseteq unread', current' = current,
         NEW s \in Requests, Working(page[s]), NEW lock \in Locks,
         page' = [page EXCEPT ![s].lock = lock],
         lock.pc \in {"asking", "checking", "reverting"}, lock.asFound = page[s].lock.asFound,
         lock.pc = "reverting" => Head(lock.todo) = (lock.manual \ lock.held) \ lock.asFound,
         \A c \in Controls :
           mode'[c] = found[c] \/ (mode'[c] = "manual" /\
             (c \in unread' \/ c \in lock.manual \/ (lock.pc = "checking" /\ c \in Head(lock.todo))))
  PROVE  Holds'
<1> DEFINE y == [page[s] EXCEPT !.lock = lock]
<1>1. page \in [Requests -> Sessions]
  BY TypeParts DEF LInv, Inv
<1>2. /\ page[s] \in Sessions /\ page[s].held = {}
      /\ page[s].stage \in {"live", "waiting"} /\ page[s].on
      /\ WasManual \subseteq lock.asFound /\ lock.asFound \subseteq WasManual \cup unread
      /\ \A t \in Requests \ {s} :
           /\ ~Holding(page[t])
           /\ page[t].lock.pc = "reading" => Going(page[s])
  BY WorkingSays
<1>3. y \in Sessions /\ page' = [page EXCEPT ![s] = y] /\ y.lock = lock
      /\ y.stage = page[s].stage /\ y.on = page[s].on /\ y.held = {}
  BY <1>1, <1>2 DEF Sessions
<1> HIDE DEF y
<1>4. Working(y) /\ KnowsOf(y, unread') /\ y.stage # "playing" /\ y.lock.pc # "reading"
  BY <1>2, <1>3 DEF Working, KnowsOf
<1>5. \A c \in Controls : mode'[c] = found[c] \/ (mode'[c] = "manual" /\ (c \in unread' \/ c \in Mine(y)))
  BY <1>3, <1>4 DEF Mine
<1>6. \A t \in Requests \ {s} :
        /\ ~Holding(page[t])
        /\ page[t].lock.pc = "reading" => Going(y)
  BY <1>2, <1>3 DEF Going
<1>7. /\ Opened(y) => y.on
      /\ \A c \in Controls :
           mode'[c] = found[c] \/ (mode'[c] = "manual" /\
             (c \in unread' \/ c \in Mine(y) \/ \E t \in Requests \ {s} : c \in Mine(page[t])))
  BY <1>2, <1>3, <1>5
<1> QED
  BY <1>3, <1>4, <1>6, <1>7, HoldsByOne

\* A lock is over, and what it holds and did not find so is put back later.
LEMMA HoldsConcluded ==
  ASSUME LInv, Fine, found' = found, unread \subseteq unread', current' = current,
         NEW s \in Requests, Working(page[s]), NEW lock \in Locks,
         lock.pc # "none", lock.asFound = page[s].lock.asFound,
         Concluded(s, [page[s] EXCEPT !.lock = lock]),
         \A c \in Controls :
           mode'[c] = found[c] \/ (mode'[c] = "manual" /\
             (c \in unread' \/ c \in lock.held \ lock.asFound))
  PROVE  Holds'
<1>1. page \in [Requests -> Sessions] /\ TypeOK
  BY TypeParts DEF LInv, Inv
<1>2. /\ Consistent(page[s]) /\ page[s].on /\ page[s].lock.pc # "none"
      /\ page[s].stage \in {"live", "waiting"} /\ WasManual \subseteq lock.asFound
      /\ \A t \in Requests \ {s} :
           /\ ~Holding(page[t])
           /\ page[t].lock.pc = "reading" => Going(page[s])
  BY WorkingSays DEF Working
<1>3. PICK y \in Sessions :
        /\ page' = [page EXCEPT ![s] = y]
        /\ Consistent(y) /\ y.lock.pc = "none"
        /\ y.held = lock.held \ lock.asFound
        /\ Opened(y) => y.on = page[s].on
        /\ y.held # {} /\ Going(page[s]) => Going(y)
        /\ y.stage # "playing"
  <2>1. PICK y \in Sessions :
           /\ page' = [page EXCEPT ![s] = y]
           /\ Consistent(y) /\ y.lock.pc = "none"
           /\ y.held = lock.held \ lock.asFound
           /\ Opened(y) => y.on = page[s].on
           /\ y.held # {} /\ Going(page[s]) => Going(y)
           /\ y.stage # "playing"
           /\ page[s].stage = "live" => y.stage = "live"
    BY <1>1, <1>2, ConcludedKeeps
  <2> QED
    BY <2>1
<1>4. ~Working(y) /\ KnowsOf(y, unread') /\ (Holding(y) => y.held # {})
  BY <1>2, <1>3 DEF Working, Holding, KnowsOf
<1>5. \A c \in Controls : mode'[c] = found[c] \/ (mode'[c] = "manual" /\ (c \in unread' \/ c \in Mine(y)))
  BY <1>3 DEF Mine
<1> QED
  BY <1>2, <1>3, <1>4, <1>5, HoldsByOne

LEMMA HoldsAsked ==
  ASSUME LInv, NEW s \in Requests, Asked(s)
  PROVE  Fine' => Holds'
<1> SUFFICES ASSUME Fine' PROVE Holds'
  OBVIOUS
<1> DEFINE tried == Head(page[s].lock.todo)
<1>1. UNCHANGED <<current, found, unread>> /\ Fine
  BY DEF Asked, Fine, cppVars, LInv, Inv, TypeOK
<1>2. page[s].lock.pc = "asking" /\ Working(page[s])
  BY DEF Asked, Working
<1>3. /\ page[s] \in Sessions /\ page[s].lock \in Locks /\ page[s].held = {}
      /\ \A c \in Controls :
           mode[c] = found[c] \/
             (mode[c] = "manual" /\ (c \in unread \/ c \in Mine(page[s])))
  BY <1>1, <1>2, WorkingSays
<1> DEFINE lock == [page[s].lock EXCEPT !.pc = "checking"]
<1>4. lock \in Locks /\ lock.pc = "checking" /\ lock.asFound = page[s].lock.asFound
      /\ lock.manual = page[s].lock.manual /\ lock.todo = page[s].lock.todo
  BY <1>3 DEF Locks, LockPcs
<1>5. page \in [Requests -> Sessions]
  BY TypeParts DEF LInv, Inv
<1>6. page' = [page EXCEPT ![s].lock = lock]
  BY <1>5 DEF Asked, Fine
<1>7. Mine(page[s]) = page[s].lock.manual
  BY <1>2, <1>3 DEF Mine
<1>8. \A c \in Controls :
        mode'[c] = mode[c] \/ (mode'[c] = "manual" /\ c \in tried)
  BY DEF Asked, Fine
<1> HIDE DEF lock
<1>9. \A c \in Controls :
        mode'[c] = found[c] \/ (mode'[c] = "manual" /\
          (c \in unread' \/ c \in lock.manual \/ (lock.pc = "checking" /\ c \in Head(lock.todo))))
  BY <1>1, <1>3, <1>4, <1>7, <1>8
<1> QED
  BY <1>1, <1>2, <1>4, <1>6, <1>9, HoldsWorking

LEMMA HoldsChecked ==
  ASSUME LInv, NEW s \in Requests, Checked(s)
  PROVE  Fine' => Holds'
<1> SUFFICES ASSUME Fine' PROVE Holds'
  OBVIOUS
<1>0. PICK manual \in SUBSET InManual(page[s].lock) :
        /\ unread' = unread \cup
             (InManual(page[s].lock) \ (manual \cup page[s].lock.asFound))
        /\ ChecksAs(s, manual)
  BY CheckedSays
<1> DEFINE tried == Head(page[s].lock.todo)
           read == ReadBack(page[s].lock, manual)
           todo == LeftToTry(page[s], manual)
           back == ToGiveBack(page[s].lock, manual)
           asFound == page[s].lock.asFound
<1>1. UNCHANGED <<current, found, mode>> /\ Fine /\ unread \subseteq unread'
  BY <1>0 DEF Checked, Fine
<1>2. page[s].lock.pc \in {"checking", "unanswered"} /\ Working(page[s])
  BY DEF Checked, Working
<1>3. /\ page[s].lock \in Locks /\ page[s].held = {}
      /\ asFound \subseteq WasManual \cup unread /\ page[s].lock.pc = "checking"
      /\ \A c \in Controls :
           mode[c] = found[c] \/
             (mode[c] = "manual" /\ (c \in unread \/ c \in Mine(page[s])))
  BY <1>1, <1>2, WorkingSays
<1>4. read \in Locks /\ todo \in Seq(SUBSET Controls) /\ back \in SUBSET Controls
  BY <1>0, <1>2, ReadBackTyped DEF LInv, Inv
<1>5. /\ read.asFound = asFound /\ read.pc = "checking"
      /\ read.manual = (page[s].lock.manual \ tried) \cup manual
  BY <1>3 DEF ReadBack, Locks
<1>6. Mine(page[s]) = page[s].lock.manual \cup tried
  BY <1>2, <1>3 DEF Mine
<1>7. \A c \in Controls :
        mode'[c] = found[c] \/ (mode'[c] = "manual" /\ (c \in unread' \/ c \in read.manual))
  <2> SUFFICES ASSUME NEW c \in Controls, mode[c] # found[c]
               PROVE  mode[c] = "manual" /\ (c \in unread' \/ c \in read.manual)
    BY <1>1
  <2>1. mode[c] = "manual" /\ (c \in unread \/ c \in page[s].lock.manual \cup tried)
    BY <1>3, <1>6
  <2>2. c \in asFound => c \in unread
    BY <1>3, <2>1 DEF WasManual
  <2>3. c \in tried => c \in manual \/ c \in asFound \/ c \in unread'
    BY <1>0, <2>1 DEF InManual
  <2> QED
    BY <1>1, <1>5, <2>1, <2>2, <2>3
<1>8. back = (read.manual \ read.held) \ asFound
  BY <1>5 DEF ToGiveBack
<1>9. \/ page' = [page EXCEPT ![s].lock = [read EXCEPT !.pc = "asking", !.todo = todo]]
      \/ page' = [page EXCEPT ![s].lock = [read EXCEPT !.pc = "reverting", !.todo = <<back>>]]
      \/ back = {} /\ Concluded(s, [page[s] EXCEPT !.lock = read])
  BY <1>0 DEF ChecksAs
<1> HIDE DEF read, todo, back
<1>10. CASE page' = [page EXCEPT ![s].lock = [read EXCEPT !.pc = "asking", !.todo = todo]]
  <2> DEFINE lock == [read EXCEPT !.pc = "asking", !.todo = todo]
  <2>1. lock \in Locks /\ lock.pc = "asking" /\ lock.asFound = asFound
        /\ lock.manual = read.manual
    BY <1>4, <1>5 DEF Locks, LockPcs
  <2> HIDE DEF lock
  <2>2. page' = [page EXCEPT ![s].lock = lock]
    BY <1>10 DEF lock
  <2> QED
    BY <1>1, <1>2, <1>7, <2>1, <2>2, HoldsWorking
<1>11. CASE page' = [page EXCEPT ![s].lock = [read EXCEPT !.pc = "reverting", !.todo = <<back>>]]
  <2> DEFINE lock == [read EXCEPT !.pc = "reverting", !.todo = <<back>>]
  <2>1. <<back>> \in Seq(SUBSET Controls) /\ Head(<<back>>) = back
    BY <1>4
  <2>2. lock \in Locks /\ lock.pc = "reverting" /\ lock.asFound = asFound
        /\ lock.manual = read.manual /\ lock.held = read.held /\ lock.todo = <<back>>
    BY <1>4, <1>5, <2>1 DEF Locks, LockPcs
  <2> HIDE DEF lock
  <2>3. page' = [page EXCEPT ![s].lock = lock]
    BY <1>11 DEF lock
  <2> QED
    BY <1>1, <1>2, <1>7, <1>8, <2>1, <2>2, <2>3, HoldsWorking
<1>12. CASE back = {} /\ Concluded(s, [page[s] EXCEPT !.lock = read])
  <2>1. \A c \in Controls :
          mode'[c] = found[c] \/ (mode'[c] = "manual" /\
            (c \in unread' \/ c \in read.held \ asFound))
    <3> SUFFICES ASSUME NEW c \in Controls, mode[c] # found[c]
                 PROVE  mode[c] = "manual" /\ (c \in unread' \/ c \in read.held \ asFound)
      BY <1>1
    <3>1. mode[c] = "manual" /\ (c \in unread' \/ c \in read.manual)
      BY <1>1, <1>7
    <3>2. c \in asFound => c \in unread'
      BY <1>1, <1>3, <3>1 DEF WasManual
    <3> QED
      BY <1>8, <1>12, <3>1, <3>2
  <2> QED
    BY <1>1, <1>2, <1>4, <1>5, <1>12, <2>1, HoldsConcluded
<1> QED
  BY <1>9, <1>10, <1>11, <1>12

LEMMA HoldsReverted ==
  ASSUME LInv, NEW s \in Requests, Reverted(s)
  PROVE  Fine' => Holds'
<1> SUFFICES ASSUME Fine' PROVE Holds'
  OBVIOUS
<1> DEFINE lock == page[s].lock
           back == Head(lock.todo)
<1>1. UNCHANGED <<current, found, unread>> /\ Fine
      /\ mode' = [c \in Controls |-> IF c \in back THEN "continuous" ELSE mode[c]]
  BY DEF Reverted, PutBack, Fine
<1>2. lock.pc = "reverting" /\ Working(page[s])
  BY DEF Reverted, Working
<1>3. /\ page[s] \in Sessions /\ lock \in Locks /\ page[s].held = {}
      /\ WasManual \subseteq lock.asFound /\ lock.asFound \subseteq WasManual \cup unread
      /\ \A c \in Controls :
           mode[c] = found[c] \/
             (mode[c] = "manual" /\ (c \in unread \/ c \in Mine(page[s])))
  BY <1>1, <1>2, WorkingSays
<1>4. back = (lock.manual \ lock.held) \ lock.asFound
  BY <1>1, <1>2 DEF LInv, Holds, KnowsWhatWas, KnowsOf
<1>5. Mine(page[s]) = lock.manual
  BY <1>2, <1>3 DEF Mine
<1>6. found \in [Controls -> {"continuous", "manual"}]
  BY DEF LInv, Inv, TypeOK, Modes
<1>7. \A c \in Controls :
        mode'[c] = found[c] \/ (mode'[c] = "manual" /\
          (c \in unread' \/ c \in lock.held \ lock.asFound))
  <2> SUFFICES ASSUME NEW c \in Controls
               PROVE  mode'[c] = found[c] \/ (mode'[c] = "manual" /\
                        (c \in unread' \/ c \in lock.held \ lock.asFound))
    OBVIOUS
  <2>1. CASE c \in back
    BY <1>1, <1>3, <1>4, <1>6, <2>1 DEF WasManual
  <2>2. CASE c \notin back
    <3>1. mode'[c] = mode[c]
      BY <1>1, <2>2
    <3> QED
      BY <1>1, <1>3, <1>4, <1>5, <2>2, <3>1 DEF WasManual
  <2> QED
    BY <2>1, <2>2
<1>8. [page[s] EXCEPT !.lock = lock] = page[s]
  BY <1>3 DEF Sessions
<1>9. Concluded(s, [page[s] EXCEPT !.lock = lock])
  BY <1>8 DEF Reverted
<1>10. lock.pc # "none" /\ lock \in Locks /\ lock.asFound = page[s].lock.asFound
  BY <1>2, <1>3
<1> HIDE DEF lock, back
<1> QED
  BY <1>1, <1>2, <1>7, <1>9, <1>10, HoldsConcluded

LEMMA HoldsRestored ==
  ASSUME LInv, NEW s \in Requests, Restored(s)
  PROVE  Fine' => Holds'
<1> SUFFICES ASSUME Fine' PROVE Holds'
  OBVIOUS
<1> DEFINE y == [page[s] EXCEPT !.stage = "over", !.on = FALSE, !.held = {}]
           held == page[s].held
<1>1. UNCHANGED <<current, found, unread>> /\ Fine
      /\ mode' = [c \in Controls |-> IF c \in held THEN "continuous" ELSE mode[c]]
  BY DEF Restored, PutBack, Fine, cppVars
<1>2. page \in [Requests -> Sessions] /\ page[s] \in Sessions /\ page[s].stage = "restoring"
      /\ Holds /\ Consistent(page[s])
  BY <1>1, TypeParts DEF LInv, Inv, Kept, Restored
<1>3. page[s].lock.pc = "none"
  BY <1>2 DEF Consistent
<1>4. y \in Sessions /\ page' = [page EXCEPT ![s] = y] /\ Free(y) /\ y.stage = "over"
  BY <1>2, <1>3 DEF Restored, Sessions, Stages, Free
<1> HIDE DEF y
<1>5. ~Holding(y) /\ KnowsOf(y, unread') /\ ~Opened(y) /\ y.lock.pc # "reading"
  BY <1>4 DEF Free, Holding, Working, KnowsOf, Opened
<1>6. held \cap WasManual = {} /\ Mine(page[s]) = held
  BY <1>2, <1>3 DEF Holds, KnowsWhatWas, KnowsOf, Mine, Working
<1>7. found \in [Controls -> {"continuous", "manual"}]
  BY DEF LInv, Inv, TypeOK, Modes
<1>8. ASSUME NEW c \in Controls
      PROVE  mode'[c] = found[c] \/ (mode'[c] = "manual" /\
               (c \in unread' \/ c \in Mine(y) \/ \E t \in Requests \ {s} : c \in Mine(page[t])))
  <2>1. CASE c \in held
    BY <1>1, <1>6, <1>7, <2>1 DEF WasManual
  <2>2. CASE c \notin held
    BY <1>1, <1>2, <1>6, <2>2 DEF Holds, ChangedIsSomeones
  <2> QED
    BY <2>1, <2>2
<1> QED
  BY <1>1, <1>4, <1>5, <1>8, HoldsByOne

LEMMA HoldsStep ==
  ASSUME LInv, [Next]_vars
  PROVE  Fine' => Holds'
<1>1. CASE UNCHANGED vars
  BY <1>1, HoldsWorker
<1>2. ASSUME NEW s \in Requests, PageStep(s) PROVE Fine' => Holds'
  BY <1>2, HoldsSettled, HoldsRead, HoldsAsked, HoldsChecked, HoldsReverted,
     HoldsRestored DEF PageStep
<1>3. CASE Next
  BY <1>2, <1>3, HoldsWorker, HoldsLettingGo, HoldsRequest, HoldsOpening DEF Next
<1> QED
  BY <1>1, <1>3

LEMMA LockInvariant == Spec => []LInv
<1>1. Init => LInv
  <2> SUFFICES ASSUME Init PROVE LInv
    OBVIOUS
  <2>1. Inv
    BY TypesInit, FlowInit DEF Inv
  <2>2. \A s \in Requests :
          page[s] = NoSession /\ Free(page[s]) /\ page[s].stage = "none" /\ ~page[s].active
    BY DEF Init, NoSession, NoLock, Free
  <2>3. Kept
    BY <2>2 DEF Kept, LockedOnce, Consistent, Free
  <2>4. \A s \in Requests : ~Holding(page[s]) /\ KnowsWhatWas(page[s]) /\ ~Opened(page[s])
    BY <2>2 DEF Free, Holding, Working, KnowsWhatWas, KnowsOf, Opened
  <2>5. ChangedIsSomeones
    BY DEF Init, ChangedIsSomeones
  <2> QED
    BY <2>1, <2>2, <2>3, <2>4, <2>5 DEF LInv, Holds, OnWhenOpen, OneHolds
<1>2. LInv /\ [Next]_vars => LInv'
  <2>1. Inv /\ [Next]_vars => Inv'
    BY TypesStep, FlowStep DEF Inv
  <2> QED
    BY <2>1, KeptStep, HoldsStep DEF LInv
<1> QED
  BY <1>1, <1>2, PTL DEF Spec

-----------------------------------------------------------------------------
(* When every camera is off its controls are in the modes they were found  *)
(* in, for any controls and any number of openings: but for those a lock   *)
(* could not read back, and unless the driver did not do as it was asked,  *)
(* or a lock read a camera still being put back.                           *)
THEOREM LeavesModesAsFound == Spec => []ModesPutBack
<1>1. LInv => ModesPutBack
  <2> SUFFICES ASSUME LInv, Fine, \A s \in Requests : ~page[s].on
               PROVE  \A c \in Controls \ unread : mode[c] = found[c]
    BY DEF ModesPutBack, Fine
  <2>1. \A s \in Requests : ~Holding(page[s])
    BY DEF LInv, Kept, Consistent, Holding, Working, Opened, Holds, OnWhenOpen
  <2> QED
    BY <2>1, NobodyHolds
<1> QED
  BY <1>1, LockInvariant, PTL

-----------------------------------------------------------------------------
(* What is reported. A caller that was told of a camera has it open, and   *)
(* what it was told of its lock is of one that is over.                    *)

AnswersLive ==
  capturing \/ (worker = "waiting" /\ answer = "ok") =>
    current = camera /\ page[camera].stage = "live"

Told ==
  /\ report # None => report.of = camera /\ (report.held # {} => proven)
  /\ proven \/ report # None => capturing /\ asked /\ page[camera].lock.pc = "none"

\* What a lock has down as held is, but for what it has just asked for again.
HeldIsHeld(lock, m, e) ==
  /\ lock.pc \in {"none", "settling", "reading"} => lock.held = {}
  /\ lock.pc \in {"asking", "checking"} =>
       \A c \in lock.held \ Head(lock.todo) : m[c] = "manual" /\ c \in e
  /\ lock.pc = "reverting" => \A c \in lock.held : m[c] = "manual" /\ c \in e

\* Nothing else has the device while a lock is at work, or is reported.
Alone ==
  current # 0 /\ (Working(page[current]) \/ proven) =>
    \A t \in Requests \ {current} : ~Opened(page[t])

ReportIsSo ==
  /\ report # None => \A c \in report.held : mode[c] = "manual" /\ c \in exact
  /\ proven => \E c \in Controls : mode[c] = "manual"

Sound == ReportIsSo /\ Alone /\ \A s \in Requests : HeldIsHeld(page[s].lock, mode, exact)

RInv == LInv /\ AnswersLive /\ Told /\ (Fine => Sound)

-----------------------------------------------------------------------------
\* What a step of the page's promises leaves alone.
LEMMA LockStepSays ==
  ASSUME Inv, Kept, NEW s \in Requests, PageStep(s)
  PROVE  /\ UNCHANGED <<camera, answer, capturing, asked, worker, current>>
         /\ \E y \in Sessions :
              /\ page' = [page EXCEPT ![s] = y]
              /\ page[s].stage = "live" => y.stage = "live"
              /\ Opened(page[s]) /\ page[s].stage # "playing"
              /\ page[s].lock.pc # "none" \/ page[s].stage = "restoring"
              /\ \/ UNCHANGED <<report, proven>>
                 \/ /\ page[s].lock.pc # "none" /\ y.lock.pc = "none"
                    /\ \E held \in SUBSET Controls : Reported(s, held)
<1>1. TypeOK /\ page \in [Requests -> Sessions] /\ page[s] \in Sessions
      /\ page[s].lock \in Locks /\ Consistent(page[s])
  BY TypeParts DEF Inv, Kept, Sessions
<1>2. UNCHANGED <<camera, answer, capturing, asked, worker, current>>
  BY DEF PageStep, Settled, Read, Asked, Checked, Reverted, Restored, cppVars
<1> DEFINE Goal ==
      \E y \in Sessions :
        /\ page' = [page EXCEPT ![s] = y]
        /\ page[s].stage = "live" => y.stage = "live"
        /\ Opened(page[s]) /\ page[s].stage # "playing"
        /\ page[s].lock.pc # "none" \/ page[s].stage = "restoring"
        /\ \/ UNCHANGED <<report, proven>>
           \/ /\ page[s].lock.pc # "none" /\ y.lock.pc = "none"
              /\ \E held \in SUBSET Controls : Reported(s, held)
<1> SUFFICES Goal
  BY <1>2
<1>3. page[s].lock.pc # "none" => Opened(page[s]) /\ page[s].stage # "playing"
  BY <1>1 DEF Consistent, Opened
<1>4. ASSUME NEW lock \in Locks, page[s].lock.pc # "none",
             page' = [page EXCEPT ![s].lock = lock], UNCHANGED <<report, proven>>
      PROVE  Goal
  <2> DEFINE y == [page[s] EXCEPT !.lock = lock]
  <2>1. y \in Sessions /\ page' = [page EXCEPT ![s] = y] /\ y.stage = page[s].stage
    BY <1>1, <1>4 DEF Sessions
  <2> HIDE DEF y
  <2> QED
    BY <1>3, <1>4, <2>1
<1>5. ASSUME page[s].lock.pc # "none", page' = [page EXCEPT ![s] = LockOver(page[s])],
             UNCHANGED <<report, proven>> \/ \E held \in SUBSET Controls : Reported(s, held)
      PROVE  Goal
  <2>1. /\ LockOver(page[s]) \in Sessions /\ LockOver(page[s]).lock.pc = "none"
        /\ page[s].stage = "live" => LockOver(page[s]).stage = "live"
    BY <1>1, <1>5, LockOverTyped, LockOverKeeps DEF Consistent
  <2> QED
    BY <1>3, <1>5, <2>1
<1>6. ASSUME NEW lock \in Locks, page[s].lock.pc # "none", lock.pc # "none",
             Concluded(s, [page[s] EXCEPT !.lock = lock])
      PROVE  Goal
  <2>1. PICK y \in Sessions :
          /\ page' = [page EXCEPT ![s] = y] /\ y.lock.pc = "none"
          /\ page[s].stage = "live" => y.stage = "live"
    BY <1>1, <1>6, ConcludedKeeps
  <2>2. lock.held \in SUBSET Controls /\ Reported(s, lock.held)
    BY <1>1, <1>6 DEF Concluded, Sessions, Locks
  <2> QED
    BY <1>3, <1>6, <2>1, <2>2
<1> HIDE DEF Goal
<1>7. CASE Settled(s)
  <2>1. [page[s].lock EXCEPT !.pc = "reading"] \in Locks
    BY <1>1 DEF Locks, LockPcs
  <2>2. \/ page' = [page EXCEPT ![s].lock = [page[s].lock EXCEPT !.pc = "reading"]]
        \/ page' = [page EXCEPT ![s] = LockOver(page[s])]
    BY <1>1, <1>7 DEF Settled, Sessions
  <2>3. UNCHANGED <<report, proven>> /\ page[s].lock.pc # "none"
    BY <1>7 DEF Settled, cppVars
  <2> QED
    BY <1>4, <1>5, <2>1, <2>2, <2>3
<1>8. CASE Read(s)
  <2>1. page[s].lock.pc # "none"
    BY <1>8 DEF Read
  <2>2. CASE page' = [page EXCEPT ![s] = LockOver(@)] /\ Reported(s, {})
    <3>1. page' = [page EXCEPT ![s] = LockOver(page[s])]
      BY <1>1, <2>2
    <3> QED
      BY <1>5, <2>1, <2>2, <3>1
  <2>3. ASSUME NEW pending \in SUBSET Controls, UNCHANGED <<report, proven>>,
               page' = [page EXCEPT ![s].lock =
                 [@ EXCEPT !.pc = "asking", !.todo = <<pending>>,
                           !.asFound = {c \in Controls : mode[c] = "manual"}]]
        PROVE  Goal
    <3> DEFINE lock == [page[s].lock EXCEPT !.pc = "asking", !.todo = <<pending>>,
                           !.asFound = {c \in Controls : mode[c] = "manual"}]
    <3>1. {c \in Controls : mode[c] = "manual"} \in SUBSET Controls
          /\ <<pending>> \in Seq(SUBSET Controls)
      OBVIOUS
    <3>2. lock \in Locks
      BY <1>1, <3>1 DEF Locks, LockPcs
    <3>3. page' = [page EXCEPT ![s].lock = lock]
      BY <1>1, <2>3
    <3> HIDE DEF lock
    <3> QED
      BY <1>4, <2>1, <2>3, <3>2, <3>3
  <2> QED
    BY <1>8, <2>2, <2>3 DEF Read
<1>9. CASE Asked(s)
  <2>1. PICK pc \in {"checking", "unanswered"} : page' = [page EXCEPT ![s].lock.pc = pc]
    BY <1>9 DEF Asked
  <2>2. [page[s].lock EXCEPT !.pc = pc] \in Locks
    BY <1>1 DEF Locks, LockPcs
  <2>3. page' = [page EXCEPT ![s].lock = [page[s].lock EXCEPT !.pc = pc]]
    BY <1>1, <2>1
  <2>4. page[s].lock.pc # "none" /\ UNCHANGED <<report, proven>>
    BY <1>9 DEF Asked, cppVars
  <2> QED
    BY <1>4, <2>2, <2>3, <2>4
<1>10. CASE Checked(s)
  <2>0. PICK manual \in SUBSET InManual(page[s].lock) :
          /\ unread' = unread \cup
               (InManual(page[s].lock) \ (manual \cup page[s].lock.asFound))
          /\ ChecksAs(s, manual)
    BY <1>10, CheckedSays
  <2> DEFINE read == ReadBack(page[s].lock, manual)
             todo == LeftToTry(page[s], manual)
             back == ToGiveBack(page[s].lock, manual)
  <2>1. page[s].lock.pc \in {"checking", "unanswered"} /\ LocksKnow
    BY <1>10 DEF Checked, Inv
  <2>2. read \in Locks /\ todo \in Seq(SUBSET Controls) /\ back \in SUBSET Controls
    BY <1>1, <2>0, <2>1, ReadBackTyped
  <2>3. read.pc = page[s].lock.pc
    BY <1>1 DEF ReadBack, Locks
  <2>4. \/ /\ \/ page' = [page EXCEPT ![s].lock = [read EXCEPT !.pc = "asking", !.todo = todo]]
              \/ page' = [page EXCEPT ![s].lock = [read EXCEPT !.pc = "reverting", !.todo = <<back>>]]
           /\ UNCHANGED <<report, proven>>
        \/ Concluded(s, [page[s] EXCEPT !.lock = read])
    BY <2>0 DEF ChecksAs
  <2> HIDE DEF read, todo, back
  <2>5. [read EXCEPT !.pc = "asking", !.todo = todo] \in Locks
        /\ [read EXCEPT !.pc = "reverting", !.todo = <<back>>] \in Locks
    <3>1. <<back>> \in Seq(SUBSET Controls)
      BY <2>2
    <3> QED
      BY <2>2, <3>1 DEF Locks, LockPcs
  <2> QED
    BY <1>4, <1>6, <2>1, <2>2, <2>3, <2>4, <2>5
<1>11. CASE Reverted(s)
  <2>1. [page[s] EXCEPT !.lock = page[s].lock] = page[s]
    BY <1>1 DEF Sessions
  <2>2. page[s].lock.pc # "none"
    BY <1>11 DEF Reverted
  <2> QED
    BY <1>1, <1>6, <1>11, <2>1, <2>2 DEF Reverted
<1>12. CASE Restored(s)
  <2> DEFINE y == [page[s] EXCEPT !.stage = "over", !.on = FALSE, !.held = {}]
  <2>1. y \in Sessions /\ page' = [page EXCEPT ![s] = y] /\ page[s].stage = "restoring"
        /\ UNCHANGED <<report, proven>>
    BY <1>1, <1>12 DEF Restored, Sessions, Stages, cppVars
  <2> HIDE DEF y
  <2> QED
    BY <2>1 DEF Opened, Goal
<1> QED
  BY <1>7, <1>8, <1>9, <1>10, <1>11, <1>12 DEF PageStep

LEMMA AnswersStep ==
  ASSUME Inv, Kept, AnswersLive, [Next]_vars
  PROVE  AnswersLive'
<1>1. page \in [Requests -> Sessions] /\ CallsInOrder
      /\ answer \in {None, "ok", "failed"} /\ worker \in {"idle", "calling", "waiting"}
  BY TypeParts DEF Inv, Flow, Others
<1>2. ASSUME UNCHANGED <<camera, current>>,
             camera \in Requests => page'[camera].stage = page[camera].stage,
             capturing' \/ (worker' = "waiting" /\ answer' = "ok") =>
               capturing \/ (worker = "waiting" /\ answer = "ok")
      PROVE  AnswersLive'
  BY <1>1, <1>2 DEF AnswersLive, CallsInOrder
<1>3. CASE UNCHANGED vars \/ Woken \/ Poll
  <2>1. UNCHANGED <<camera, current, page>>
    BY <1>3 DEF vars, Woken, Poll
  <2>2. capturing' \/ (worker' = "waiting" /\ answer' = "ok") =>
          capturing \/ (worker = "waiting" /\ answer = "ok")
    BY <1>3 DEF vars, Woken, Poll
  <2> QED
    BY <1>2, <2>1, <2>2
<1>4. CASE Start \/ TimedOut \/ Stop \/ CloseCall
  <2>1. ~capturing' /\ worker' # "waiting"
    BY <1>1, <1>4 DEF Start, TimedOut, Stop, CloseCall, CallsInOrder, cppVars
  <2> QED
    BY <2>1 DEF AnswersLive
<1>5. CASE OpenCall
  <2>1. worker = "calling" /\ answer = None /\ ~capturing
    <3>1. calls \in Seq({"open", "close"}) /\ calls # <<>> /\ calls[1] = "open"
      BY <1>5 DEF OpenCall, Inv, TypeOK
    <3> QED
      BY <1>1, <3>1 DEF CallsInOrder, Close
  <2>2. answer' # "ok" /\ ~capturing'
    BY <1>5, <2>1, ConstantsOK DEF OpenCall, Started
  <2> QED
    BY <2>2 DEF AnswersLive
<1>6. CASE RequestLock
  <2>1. camera \in Requests
    BY <1>1, <1>6 DEF RequestLock, CallsInOrder
  <2>2. page'[camera].stage = page[camera].stage
    BY <1>1, <1>6, <2>1 DEF RequestLock, Sessions
  <2> QED
    BY <1>2, <1>6, <2>2 DEF RequestLock
<1>7. ASSUME NEW s \in Requests, PageStep(s) PROVE AnswersLive'
  <2>1. /\ UNCHANGED <<camera, answer, capturing, worker, current>>
        /\ \E y \in Sessions :
             page' = [page EXCEPT ![s] = y] /\ (page[s].stage = "live" => y.stage = "live")
    BY <1>7, LockStepSays
  <2>2. page[camera].stage = "live" => page'[camera].stage = "live"
    BY <1>1, <2>1
  <2> QED
    BY <2>1, <2>2 DEF AnswersLive
<1>8. ASSUME NEW s \in Requests, Frame(s) \/ Ended(s) PROVE AnswersLive'
  <2>1. UNCHANGED <<camera, answer, capturing, worker, current>>
    BY <1>8 DEF Frame, Ended, cppVars
  <2>2. camera \in Requests => page'[camera].stage = page[camera].stage
    BY <1>1, <1>8 DEF Frame, Ended, Sessions
  <2> QED
    BY <1>2, <2>1, <2>2
<1>9. ASSUME NEW s \in Requests, Granted(s) \/ Played(s) \/ Refused(s) PROVE AnswersLive'
  <2>1. UNCHANGED <<camera, capturing, worker>> /\ page[s].stage \in {"asking", "playing"}
        /\ \A t \in Requests \ {s} : page'[t] = page[t]
    BY <1>1, <1>9 DEF Granted, Played, Refused, cppVars
  <2>2. capturing \/ worker = "waiting" => camera \in Requests
    BY <1>1 DEF CallsInOrder
  <2>3. CASE capturing \/ (worker = "waiting" /\ answer = "ok")
    <3>1. camera # s /\ page'[camera] = page[camera] /\ current # s
      BY <2>1, <2>2, <2>3 DEF AnswersLive
    <3>2. current' = current
      BY <1>9, <3>1 DEF Granted, Played, Refused
    <3> QED
      BY <2>1, <2>3, <3>1, <3>2 DEF AnswersLive
  <2>4. CASE ~(capturing \/ (worker = "waiting" /\ answer = "ok"))
    <3> SUFFICES ASSUME worker = "waiting", answer' = "ok", answer # "ok", ~capturing
                 PROVE  current' = camera /\ page'[camera].stage = "live"
      BY <2>1, <2>4 DEF AnswersLive
    <3>1. Played(s) /\ current = s /\ s = camera
      BY <1>9 DEF Granted, Played, Refused, Started, cppVars
    <3> QED
      BY <1>1, <3>1 DEF Played, Sessions
  <2> QED
    BY <2>3, <2>4
<1> QED
  BY <1>3, <1>4, <1>5, <1>6, <1>7, <1>8, <1>9 DEF Next

LEMMA ToldStep ==
  ASSUME Inv, Kept, AnswersLive, Told, [Next]_vars
  PROVE  Told'
<1>1. page \in [Requests -> Sessions] /\ CallsInOrder
  BY TypeParts DEF Inv, Flow
<1>2. ASSUME UNCHANGED <<camera, capturing, asked>>,
             camera \in Requests => page'[camera].lock = page[camera].lock,
             report' = report \/ report' = None,
             proven' = proven
      PROVE  Told'
  BY <1>1, <1>2 DEF Told, CallsInOrder
<1>3. ASSUME report' = None, ~proven' PROVE Told'
  BY <1>3 DEF Told
<1>4. CASE UNCHANGED vars \/ Poll
  <2>1. UNCHANGED <<camera, capturing, asked, page, proven>>
        /\ (report' = report \/ report' = None)
    BY <1>4 DEF vars, Poll
  <2> QED
    BY <1>2, <2>1
<1>5. CASE Start \/ Stop
  BY <1>3, <1>5 DEF Start, Stop
<1>6. CASE Woken \/ TimedOut \/ OpenCall \/ CloseCall
  <2>1. ~capturing /\ UNCHANGED <<report, proven>>
    BY <1>1, <1>6 DEF Woken, TimedOut, OpenCall, CloseCall, CallsInOrder, cppVars
  <2> QED
    BY <1>3, <2>1 DEF Told
<1>7. CASE RequestLock
  <2>1. camera \in Requests /\ page[camera].lock.pc = "none"
        /\ UNCHANGED <<camera, capturing>> /\ capturing /\ asked'
    BY <1>1, <1>7 DEF RequestLock, CallsInOrder, Kept, LockedOnce
  <2>2. CASE report' = None /\ proven' = FALSE
    BY <1>3, <2>2
  <2>3. CASE current = camera /\ Reported(current, {}) /\ UNCHANGED page
    BY <2>1, <2>3 DEF Reported, Told
  <2> QED
    BY <1>7, <2>2, <2>3 DEF RequestLock
<1>8. ASSUME NEW s \in Requests, PageStep(s) PROVE Told'
  <2>1. UNCHANGED <<camera, capturing, asked>>
    BY <1>8, LockStepSays
  <2>2. PICK y \in Sessions :
          /\ page' = [page EXCEPT ![s] = y]
          /\ page[s].lock.pc # "none" \/ page[s].stage = "restoring"
          /\ \/ UNCHANGED <<report, proven>>
             \/ /\ page[s].lock.pc # "none" /\ y.lock.pc = "none"
                /\ \E held \in SUBSET Controls : Reported(s, held)
    BY <1>8, LockStepSays
  <2>3. page'[s] = y /\ \A t \in Requests \ {s} : page'[t] = page[t]
    BY <1>1, <2>2
  <2>4. CASE UNCHANGED <<report, proven>>
    <3>1. capturing => camera \in Requests /\ page[camera].stage = "live"
      BY <1>1 DEF CallsInOrder, AnswersLive
    <3>2. CASE proven \/ report # None
      <4>1. s # camera
        BY <2>2, <3>1, <3>2 DEF Told
      <4> QED
        BY <1>2, <2>1, <2>3, <2>4, <3>1, <3>2, <4>1 DEF Told
    <3>3. CASE ~proven /\ report = None
      BY <1>3, <2>4, <3>3
    <3> QED
      BY <3>2, <3>3
  <2>5. CASE s = camera /\ capturing /\ page[s].lock.pc # "none" /\ y.lock.pc = "none"
             /\ \E held \in SUBSET Controls : Reported(s, held)
    <3>1. asked
      BY <2>5 DEF Kept, LockedOnce
    <3>2. PICK held : report' = [of |-> s, held |-> held] /\ proven' = (held # {})
      BY <2>5 DEF Reported
    <3>3. report'.of = camera' /\ report'.held = held
      BY <2>1, <2>5, <3>2
    <3>4. capturing' /\ asked' /\ page'[camera'].lock.pc = "none"
      BY <2>1, <2>3, <2>5, <3>1
    <3> QED
      BY <3>2, <3>3, <3>4 DEF Told
  <2> QED
    BY <2>2, <2>4, <2>5 DEF Reported
<1>9. ASSUME NEW s \in Requests,
             Granted(s) \/ Played(s) \/ Refused(s) \/ Ended(s) \/ Frame(s)
      PROVE  Told'
  <2>1. UNCHANGED <<camera, capturing, asked, report, proven>>
    BY <1>9 DEF Granted, Played, Refused, Ended, Frame, cppVars
  <2>2. camera \in Requests => page'[camera].lock = page[camera].lock
    <3>1. page[s] \in Sessions
      BY <1>1
    <3>2. \A t \in Requests \ {s} : page'[t] = page[t]
      BY <1>1, <1>9 DEF Granted, Played, Refused, Ended, Frame
    <3>3. CASE Granted(s)
      BY <1>1, <3>1, <3>2, <3>3 DEF Granted, Sessions
    <3>4. CASE Played(s)
      BY <1>1, <3>1, <3>2, <3>4 DEF Played, Sessions
    <3>5. CASE Refused(s)
      BY <1>1, <3>1, <3>2, <3>5 DEF Refused, Sessions
    <3>6. CASE Ended(s)
      BY <1>1, <3>1, <3>2, <3>6 DEF Ended, Sessions
    <3>7. CASE Frame(s)
      BY <3>7 DEF Frame
    <3> QED
      BY <1>9, <3>3, <3>4, <3>5, <3>6, <3>7
  <2> QED
    BY <1>2, <2>1, <2>2
<1> QED
  BY <1>4, <1>5, <1>6, <1>7, <1>8, <1>9 DEF Next

-----------------------------------------------------------------------------
(* That it is so. Steps that leave the locks and the device alone.         *)

LEMMA SoundKept ==
  ASSUME RInv, UNCHANGED deviceVars, Fine' => Fine,
         \A t \in Requests : page'[t].lock = page[t].lock,
         report' = report \/ report' = None, proven' => proven, Fine' => Alone'
  PROVE  Fine' => Sound'
<1> SUFFICES ASSUME Fine' PROVE Sound'
  OBVIOUS
<1>1. Sound
  BY DEF RInv
<1>2. ReportIsSo'
  BY <1>1 DEF Sound, ReportIsSo, deviceVars
<1>3. \A t \in Requests : HeldIsHeld(page'[t].lock, mode', exact')
  BY <1>1 DEF Sound, HeldIsHeld, deviceVars
<1> QED
  BY <1>2, <1>3 DEF Sound

LEMMA SoundLettingGo ==
  ASSUME RInv, Stop \/ CloseCall \/ OpenCall
  PROVE  Fine' => Sound'
<1> DEFINE after == IF current = 0 THEN page
                    ELSE [page EXCEPT ![current] = Release(@)]
<1>1. Inv /\ Kept
  BY DEF RInv, LInv
<1>2. /\ after \in [Requests -> Sessions]
      /\ \A t \in Requests : after[t].lock = page[t].lock
  BY <1>1, LetGoKeeps
<1>3. UNCHANGED deviceVars /\ Fine' = Fine /\ (report' = report \/ report' = None)
      /\ (proven' => proven)
  BY DEF Stop, CloseCall, OpenCall, Fine, cppVars
<1>4. \/ page' = after /\ current' = 0
      \/ /\ OpenCall
         /\ page' = [after EXCEPT ![camera].stage = "asking"] /\ current' = camera
  BY DEF Stop, CloseCall, OpenCall, LetGo
<1> HIDE DEF after
<1>5. CASE page' = after /\ current' = 0
  BY <1>2, <1>3, <1>5, SoundKept DEF Alone
<1>6. CASE OpenCall /\ page' = [after EXCEPT ![camera].stage = "asking"] /\ current' = camera
  <2>1. camera \in Requests /\ page[camera].stage = "none" /\ Consistent(page[camera])
    BY <1>1, <1>6, OpenCallsWorker DEF Kept
  <2>2. \A t \in Requests : page'[t].lock = page[t].lock
    BY <1>2, <1>6, <2>1 DEF Sessions
  <2>3. ~Working(page[camera]) /\ ~Working(page'[camera])
    BY <2>1, <2>2 DEF Consistent, Working
  <2>4. ~proven
    BY <1>1, <1>6 DEF RInv, Told, Inv, Flow, CallsInOrder, OpenCall
  <2>5. Alone'
    BY <1>3, <1>6, <2>3, <2>4 DEF Alone, Working
  <2> QED
    BY <1>3, <2>2, <2>5, SoundKept
<1> QED
  BY <1>4, <1>5, <1>6

LEMMA SoundWorker ==
  ASSUME RInv, Start \/ Woken \/ TimedOut \/ Poll \/ UNCHANGED vars
  PROVE  Fine' => Sound'
<1>1. UNCHANGED <<page, current, deviceVars>> /\ Fine' = Fine
      /\ (report' = report \/ report' = None) /\ (proven' => proven)
  BY DEF Start, Woken, TimedOut, Poll, vars, deviceVars, Fine
<1>2. Fine' => Alone'
  BY <1>1 DEF RInv, Sound, Alone, Working, Opened
<1> QED
  BY <1>1, <1>2, SoundKept

LEMMA SoundOpening ==
  ASSUME RInv, NEW s \in Requests,
         Granted(s) \/ Played(s) \/ Refused(s) \/ Ended(s) \/ Frame(s)
  PROVE  Fine' => Sound'
<1>1. page \in [Requests -> Sessions] /\ page[s] \in Sessions
  BY TypeParts DEF RInv, LInv, Inv
<1>2. UNCHANGED <<deviceVars, report, proven>> /\ (Fine' => Fine)
  BY DEF Granted, Played, Refused, Ended, Frame, Fine, cppVars
<1>3. \A t \in Requests \ {s} : page'[t] = page[t]
  BY <1>1 DEF Granted, Played, Refused, Ended, Frame
<1>4. page'[s].lock = page[s].lock
      /\ (Opened(page'[s]) => Opened(page[s]) \/ s = current)
  <2>1. CASE Granted(s)
    BY <1>1, <2>1 DEF Granted, Sessions, Opened
  <2>2. CASE Played(s)
    BY <1>1, <2>2 DEF Played, Sessions, Opened
  <2>3. CASE Refused(s)
    BY <1>1, <2>3 DEF Refused, Sessions, Opened
  <2>4. CASE Ended(s)
    BY <1>1, <2>4 DEF Ended, Sessions, Opened
  <2>5. CASE Frame(s)
    BY <2>5 DEF Frame
  <2> QED
    BY <2>1, <2>2, <2>3, <2>4, <2>5
<1>5. current' = current \/ current' = 0
  BY DEF Granted, Played, Refused, Ended, Frame
<1>6. \A t \in Requests : page'[t].lock = page[t].lock
  BY <1>3, <1>4
<1>7. Fine' => Alone'
  <2> SUFFICES ASSUME Fine', current # 0, current' = current,
                      Working(page'[current]) \/ proven,
                      NEW t \in Requests \ {current}, Opened(page'[t])
               PROVE  FALSE
    BY <1>2, <1>5 DEF Alone, Working, Opened
  <2>1. current \in Requests
    BY ConstantsOK DEF RInv, LInv, Inv, TypeOK, Requests
  <2>2. Working(page[current]) \/ proven
    BY <1>6, <2>1 DEF Working
  <2>3. Opened(page[t])
    BY <1>3, <1>4
  <2> QED
    BY <1>2, <2>2, <2>3 DEF RInv, Sound, Alone
<1> QED
  BY <1>2, <1>6, <1>7, SoundKept

-----------------------------------------------------------------------------
(* Steps of one session's lock.                                            *)

LEMMA SoundByOne ==
  ASSUME RInv, Fine, current' = current,
         NEW s \in Requests, NEW y \in Sessions, page' = [page EXCEPT ![s] = y],
         Opened(y) => Opened(page[s]), HeldIsHeld(y.lock, mode', exact'),
         UNCHANGED <<mode, exact>> \/ Holding(page[s]),
         (s = current /\ Working(y)) \/ (proven' /\ ~proven) =>
           \A t \in Requests \ {current} : ~Opened(page[t]),
         ReportIsSo'
  PROVE  Sound'
<1>1. page \in [Requests -> Sessions] /\ Sound /\ Holds
  BY TypeParts DEF RInv, LInv, Inv
<1>2. page'[s] = y /\ \A t \in Requests \ {s} : page'[t] = page[t]
  BY <1>1
<1>3. Alone'
  <2> SUFFICES ASSUME current # 0, Working(page'[current]) \/ proven',
                      NEW t \in Requests \ {current}, Opened(page'[t])
               PROVE  FALSE
    BY DEF Alone, Working, Opened
  <2>1. Opened(page[t])
    BY <1>2
  <2>2. current \in Requests
    BY ConstantsOK DEF RInv, LInv, Inv, TypeOK, Requests
  <2>3. \/ s = current /\ Working(y)
        \/ proven' /\ ~proven
        \/ Working(page[current]) \/ proven
    BY <1>2, <2>2
  <2> QED
    BY <1>1, <2>1, <2>3 DEF Sound, Alone
<1>4. ASSUME NEW t \in Requests \ {s} PROVE HeldIsHeld(page'[t].lock, mode', exact')
  <2>1. page'[t] = page[t] /\ HeldIsHeld(page[t].lock, mode, exact)
    BY <1>1, <1>2 DEF Sound
  <2>2. CASE UNCHANGED <<mode, exact>>
    BY <2>1, <2>2 DEF HeldIsHeld
  <2>3. CASE Holding(page[s])
    <3>1. ~Working(page[t])
      BY <1>1, <2>3 DEF Holds, OneHolds, Holding
    <3> QED
      BY <2>1, <3>1 DEF HeldIsHeld, Working
  <2> QED
    BY <2>2, <2>3
<1>5. HeldIsHeld(page'[s].lock, mode', exact')
  BY <1>2 DEF HeldIsHeld
<1> QED
  BY <1>3, <1>4, <1>5 DEF Sound

LEMMA SoundRequest ==
  ASSUME RInv, RequestLock
  PROVE  Fine' => Sound'
<1> SUFFICES ASSUME Fine' PROVE Sound'
  OBVIOUS
<1>1. page \in [Requests -> Sessions] /\ camera \in Requests /\ Inv /\ Kept
  BY TypeParts DEF RequestLock, RInv, LInv, Inv, Flow, CallsInOrder
<1>2. UNCHANGED <<current, deviceVars, camera>> /\ Fine /\ Sound
  BY DEF RequestLock, Fine, RInv
<1>3. page[camera] \in Sessions /\ page[camera].lock.pc = "none"
  BY <1>1 DEF RequestLock, Kept, LockedOnce
<1>4. ReportIsSo' /\ ~proven'
  <2>1. CASE report' = None /\ ~proven'
    BY <2>1 DEF ReportIsSo
  <2>2. CASE report' = [of |-> current, held |-> {}] /\ proven' = ({} # {})
    <3>1. report'.held = {} /\ ~proven'
      BY <2>2
    <3> QED
      BY <3>1 DEF ReportIsSo
  <2> QED
    BY <2>1, <2>2 DEF RequestLock, Reported
<1>5. CASE UNCHANGED page
  <2>1. \A t \in Requests : HeldIsHeld(page'[t].lock, mode', exact')
    BY <1>2, <1>5 DEF Sound, HeldIsHeld, deviceVars
  <2>2. Alone'
    BY <1>2, <1>4, <1>5 DEF Sound, Alone, Working, Opened
  <2> QED
    BY <1>4, <2>1, <2>2 DEF Sound
<1>6. CASE /\ current = camera /\ page[current].active
           /\ page' = [page EXCEPT ![current].lock.pc = "settling"]
  <2> DEFINE y == [page[camera] EXCEPT !.lock.pc = "settling"]
  <2>1. y \in Sessions /\ page' = [page EXCEPT ![camera] = y] /\ y.stage = page[camera].stage
        /\ y.lock.pc = "settling"
    BY <1>1, <1>3, <1>6, LockAt DEF LockPcs
  <2>2. y.lock.held = page[camera].lock.held
    BY <1>3 DEF Sessions, Locks
  <2> HIDE DEF y
  <2>3. HeldIsHeld(y.lock, mode', exact') /\ ~Working(y)
    BY <1>1, <1>2, <1>3, <2>1, <2>2 DEF Sound, HeldIsHeld, Working
  <2> QED
    BY <1>1, <1>2, <1>4, <2>1, <2>3, SoundByOne DEF Opened, deviceVars
<1> QED
  BY <1>5, <1>6 DEF RequestLock

\* While a lock is at work, or a camera being put back, no other is reported.
LEMMA NothingProven ==
  ASSUME RInv, Fine, NEW s \in Requests, Opened(page[s]),
         page[s].lock.pc # "none" \/ page[s].stage = "restoring"
  PROVE  ~proven /\ (report # None => report.held = {})
<1> SUFFICES ASSUME proven PROVE FALSE
  BY DEF RInv, Told, LInv, Inv, TypeOK
<1>1. capturing /\ page[camera].lock.pc = "none" /\ current = camera
      /\ page[camera].stage = "live" /\ camera \in Requests
  BY DEF RInv, Told, AnswersLive, LInv, Inv, Flow, CallsInOrder
<1>2. s # current /\ current # 0
  BY <1>1, ConstantsOK DEF Requests
<1> QED
  BY <1>2 DEF RInv, Sound, Alone

\* A report of a lock, once the device does what it says.
LEMMA ReportedIsSo ==
  ASSUME RInv, Fine, NEW s \in Requests, Opened(page[s]),
         page[s].lock.pc # "none" \/ page[s].stage = "restoring",
         NEW held \in SUBSET Controls,
         UNCHANGED <<report, proven>> \/ Reported(s, held),
         \A c \in held : mode'[c] = "manual" /\ c \in exact'
  PROVE  ReportIsSo' /\ (proven' => s = current /\ held # {})
<1>1. ~proven /\ (report # None => report.held = {})
  BY NothingProven
<1>2. CASE UNCHANGED <<report, proven>>
  BY <1>1, <1>2 DEF ReportIsSo
<1>3. CASE /\ s = camera /\ capturing
           /\ report' = [of |-> s, held |-> held] /\ proven' = (held # {})
  <2>1. report'.held = held /\ current = camera
    BY <1>3 DEF RInv, AnswersLive
  <2>2. proven' => held # {}
    BY <1>3
  <2>3. held # {} => \E c \in Controls : mode'[c] = "manual"
    OBVIOUS
  <2> QED
    BY <1>3, <2>1, <2>2, <2>3 DEF ReportIsSo
<1> QED
  BY <1>2, <1>3 DEF Reported

\* A lock goes on.
LEMMA SoundWorking ==
  ASSUME RInv, Fine, current' = current, UNCHANGED <<report, proven>>,
         NEW s \in Requests, Working(page[s]), NEW lock \in Locks,
         page' = [page EXCEPT ![s].lock = lock], HeldIsHeld(lock, mode', exact')
  PROVE  Sound'
<1> DEFINE y == [page[s] EXCEPT !.lock = lock]
<1>1. page \in [Requests -> Sessions] /\ page[s] \in Sessions /\ Opened(page[s])
      /\ page[s].lock.pc # "none"
  BY TypeParts, WorkingSays DEF RInv, LInv, Inv, Opened, Working
<1>2. y \in Sessions /\ page' = [page EXCEPT ![s] = y] /\ y.lock = lock
      /\ y.stage = page[s].stage
  BY <1>1 DEF Sessions
<1> HIDE DEF y
<1>3. ~proven /\ ReportIsSo'
  BY <1>1, ReportedIsSo, NothingProven
<1>4. s = current => \A t \in Requests \ {current} : ~Opened(page[t])
  BY ConstantsOK DEF RInv, Sound, Alone, Requests
<1>5. HeldIsHeld(y.lock, mode', exact')
  BY <1>2 DEF HeldIsHeld
<1> QED
  BY <1>1, <1>2, <1>3, <1>4, <1>5, SoundByOne DEF Holding, Opened

\* A lock is over, and its result reported.
LEMMA SoundConcluded ==
  ASSUME RInv, Fine, current' = current, NEW s \in Requests, Working(page[s]),
         NEW lock \in Locks, lock.pc # "none",
         Concluded(s, [page[s] EXCEPT !.lock = lock]),
         \A c \in lock.held : mode'[c] = "manual" /\ c \in exact'
  PROVE  Sound'
<1>1. page \in [Requests -> Sessions] /\ page[s] \in Sessions /\ Opened(page[s])
      /\ page[s].lock.pc # "none" /\ Consistent(page[s]) /\ TypeOK
  BY TypeParts, WorkingSays DEF RInv, LInv, Inv, Opened, Working
<1>2. PICK y \in Sessions : page' = [page EXCEPT ![s] = y] /\ y.lock = NoLock
  <2> DEFINE x == [page[s] EXCEPT !.lock = lock]
             more == [x EXCEPT !.held = @ \cup (lock.held \ lock.asFound)]
  <2>1. x \in Sessions /\ x.lock = lock
    BY <1>1 DEF Sessions
  <2>2. page' = [page EXCEPT ![s] = LockOver(more)]
    BY <2>1 DEF Concluded
  <2> HIDE DEF x
  <2>3. more \in Sessions
    BY <2>1 DEF Sessions, Locks
  <2> HIDE DEF more
  <2>4. LockOver(more).lock = NoLock
    BY <2>3 DEF LockOver, Finish, Sessions
  <2> QED
    BY <2>2, <2>3, <2>4, LockOverTyped
<1>3. lock.held \in SUBSET Controls /\ Reported(s, lock.held)
  BY <1>1 DEF Concluded, Sessions, Locks
<1>4. ReportIsSo' /\ (proven' => s = current)
  BY <1>1, <1>3, ReportedIsSo
<1>5. s = current => \A t \in Requests \ {current} : ~Opened(page[t])
  BY ConstantsOK DEF RInv, Sound, Alone, Requests
<1>6. HeldIsHeld(y.lock, mode', exact') /\ ~Working(y)
  BY <1>2 DEF HeldIsHeld, Working, NoLock
<1> QED
  BY <1>1, <1>2, <1>4, <1>5, <1>6, SoundByOne DEF Holding

\* A lock that has asked for nothing is over.
LEMMA SoundOver ==
  ASSUME RInv, Fine, current' = current, UNCHANGED deviceVars,
         NEW s \in Requests, page[s].lock.pc # "none",
         page' = [page EXCEPT ![s] = LockOver(page[s])],
         UNCHANGED <<report, proven>> \/ Reported(s, {})
  PROVE  Sound'
<1>1. page[s] \in Sessions /\ Opened(page[s])
  BY TypeParts DEF RInv, LInv, Inv, Kept, Consistent, Opened
<1>2. LockOver(page[s]) \in Sessions /\ LockOver(page[s]).lock = NoLock
  <2>1. LockOver(page[s]).lock = NoLock
    BY <1>1 DEF LockOver, Finish, Sessions
  <2> QED
    BY <1>1, <2>1, LockOverTyped
<1>3. HeldIsHeld(LockOver(page[s]).lock, mode', exact') /\ ~Working(LockOver(page[s]))
  BY <1>2 DEF HeldIsHeld, Working, NoLock
<1>4. ReportIsSo' /\ ~proven'
  BY <1>1, ReportedIsSo
<1> QED
  BY <1>1, <1>2, <1>3, <1>4, SoundByOne DEF deviceVars

LEMMA SoundSettled ==
  ASSUME RInv, NEW s \in Requests, Settled(s)
  PROVE  Fine' => Sound'
<1> SUFFICES ASSUME Fine' PROVE Sound'
  OBVIOUS
<1>1. page \in [Requests -> Sessions] /\ page[s] \in Sessions /\ page[s].lock \in Locks
  BY TypeParts DEF RInv, LInv, Inv, Sessions
<1>2. UNCHANGED <<current, deviceVars, report, proven>> /\ Fine /\ Sound
  BY DEF Settled, Fine, cppVars, RInv
<1>3. page[s].lock.pc = "settling" /\ Opened(page[s])
  BY DEF Settled, RInv, LInv, Kept, Consistent, Opened
<1>4. CASE page' = [page EXCEPT ![s] = LockOver(page[s])]
  BY <1>2, <1>3, <1>4, SoundOver
<1>5. CASE page' = [page EXCEPT ![s].lock.pc = "reading"]
  <2> DEFINE y == [page[s] EXCEPT !.lock.pc = "reading"]
  <2>1. y \in Sessions /\ y.stage = page[s].stage /\ y.lock.pc = "reading"
    BY <1>1, LockAt DEF LockPcs
  <2>2. page' = [page EXCEPT ![s] = y] /\ y.lock.held = page[s].lock.held
    BY <1>1, <1>5 DEF Sessions, Locks
  <2> HIDE DEF y
  <2>3. HeldIsHeld(y.lock, mode', exact') /\ ~Working(y)
    BY <1>2, <1>3, <2>1, <2>2 DEF Sound, HeldIsHeld, Working
  <2>4. ReportIsSo' /\ ~proven'
    BY <1>2, <1>3, NothingProven DEF ReportIsSo
  <2> QED
    BY <1>2, <2>1, <2>2, <2>3, <2>4, SoundByOne DEF Opened, deviceVars
<1> QED
  BY <1>1, <1>4, <1>5 DEF Settled

LEMMA SoundRead ==
  ASSUME RInv, NEW s \in Requests, Read(s)
  PROVE  Fine' => Sound'
<1> SUFFICES ASSUME Fine' PROVE Sound'
  OBVIOUS
<1>1. page \in [Requests -> Sessions] /\ page[s] \in Sessions /\ page[s].lock \in Locks
  BY TypeParts DEF RInv, LInv, Inv, Sessions
<1>2. UNCHANGED <<current, deviceVars>> /\ Fine /\ Sound /\ Holds
      /\ \A t \in Requests \ {s} : ~Going(page[t])
  BY DEF Read, Fine, RInv, LInv, Going
<1>3. page[s].lock.pc = "reading" /\ Opened(page[s])
  BY DEF Read, RInv, LInv, Kept, Consistent, Opened
<1>4. CASE page' = [page EXCEPT ![s] = LockOver(page[s])] /\ Reported(s, {})
  BY <1>2, <1>3, <1>4, SoundOver
<1>5. ASSUME NEW pending \in SUBSET Controls, UNCHANGED <<report, proven>>,
             page' = [page EXCEPT ![s].lock =
               [@ EXCEPT !.pc = "asking", !.todo = <<pending>>,
                         !.asFound = {c \in Controls : mode[c] = "manual"}]]
      PROVE  Sound'
  <2> DEFINE lock == [page[s].lock EXCEPT !.pc = "asking", !.todo = <<pending>>,
                         !.asFound = {c \in Controls : mode[c] = "manual"}]
             y == [page[s] EXCEPT !.lock = lock]
  <2>1. {c \in Controls : mode[c] = "manual"} \in SUBSET Controls
        /\ <<pending>> \in Seq(SUBSET Controls)
    OBVIOUS
  <2>2. lock \in Locks /\ lock.held = page[s].lock.held /\ lock.pc = "asking"
    BY <1>1, <2>1 DEF Locks, LockPcs
  <2> HIDE DEF lock
  <2>3. y \in Sessions /\ page' = [page EXCEPT ![s] = y] /\ y.lock = lock
        /\ y.stage = page[s].stage
    BY <1>1, <1>5, <2>2 DEF Sessions, lock
  <2> HIDE DEF y
  <2>4. HeldIsHeld(y.lock, mode', exact')
    BY <1>2, <1>3, <2>2, <2>3 DEF Sound, HeldIsHeld
  <2>5. ReportIsSo' /\ ~proven'
    BY <1>2, <1>3, <1>5, NothingProven DEF ReportIsSo
  <2>6. \A t \in Requests \ {s} : Opened(page[t]) => t = current
    BY <1>2 DEF Going, Opened, Holds, OnWhenOpen, RInv, LInv, Inv, Flow, OnIsCurrent
  <2> QED
    BY <1>2, <2>3, <2>4, <2>5, <2>6, SoundByOne DEF Opened, deviceVars
<1>6. \/ page' = [page EXCEPT ![s] = LockOver(page[s])] /\ Reported(s, {})
      \/ \E pending \in SUBSET Controls :
           /\ page' = [page EXCEPT ![s].lock =
                [@ EXCEPT !.pc = "asking", !.todo = <<pending>>,
                          !.asFound = {c \in Controls : mode[c] = "manual"}]]
           /\ UNCHANGED <<report, proven>>
  BY <1>1 DEF Read
<1> QED
  BY <1>4, <1>5, <1>6

LEMMA SoundAsked ==
  ASSUME RInv, NEW s \in Requests, Asked(s)
  PROVE  Fine' => Sound'
<1> SUFFICES ASSUME Fine' PROVE Sound'
  OBVIOUS
<1> DEFINE tried == Head(page[s].lock.todo)
           lock == [page[s].lock EXCEPT !.pc = "checking"]
<1>1. UNCHANGED <<current, report, proven>> /\ Fine /\ Sound
  BY DEF Asked, Fine, cppVars, RInv, LInv, Inv, TypeOK
<1>2. page \in [Requests -> Sessions] /\ page[s].lock.pc = "asking" /\ Working(page[s])
      /\ page[s].lock \in Locks
  BY TypeParts DEF Asked, Working, RInv, LInv, Inv, Sessions
<1>3. lock \in Locks /\ lock.pc = "checking" /\ lock.held = page[s].lock.held
      /\ lock.todo = page[s].lock.todo
  BY <1>2 DEF Locks, LockPcs
<1>4. page' = [page EXCEPT ![s].lock = lock]
  BY <1>2 DEF Asked, Fine
<1>5. \A c \in Controls \ tried :
        mode'[c] = mode[c] /\ (c \in exact' <=> c \in exact)
  BY DEF Asked, Fine
<1>6. \A c \in page[s].lock.held \ tried : c \in Controls /\ mode[c] = "manual" /\ c \in exact
  BY <1>1, <1>2 DEF Sound, HeldIsHeld, Locks
<1> HIDE DEF lock
<1>7. HeldIsHeld(lock, mode', exact')
  BY <1>3, <1>5, <1>6 DEF HeldIsHeld
<1> QED
  BY <1>1, <1>2, <1>3, <1>4, <1>7, SoundWorking

LEMMA SoundChecked ==
  ASSUME RInv, NEW s \in Requests, Checked(s)
  PROVE  Fine' => Sound'
<1> SUFFICES ASSUME Fine' PROVE Sound'
  OBVIOUS
<1>0. PICK manual \in SUBSET InManual(page[s].lock) : ChecksAs(s, manual)
  BY CheckedSays
<1> DEFINE tried == Head(page[s].lock.todo)
           read == ReadBack(page[s].lock, manual)
           todo == LeftToTry(page[s], manual)
           back == ToGiveBack(page[s].lock, manual)
<1>1. UNCHANGED <<current, mode, exact>> /\ Fine /\ Sound
  BY DEF Checked, Fine, RInv
<1>2. page[s].lock.pc \in {"checking", "unanswered"} /\ Working(page[s])
  BY DEF Checked, Working
<1>3. page[s].lock \in Locks /\ page[s].lock.pc = "checking"
  BY <1>1, <1>2, WorkingSays DEF RInv
<1>4. read \in Locks /\ todo \in Seq(SUBSET Controls) /\ back \in SUBSET Controls
  BY <1>0, <1>2, ReadBackTyped DEF RInv, LInv, Inv
<1>5. /\ read.pc = "checking"
      /\ read.held = (page[s].lock.held \ tried) \cup (manual \cap exact)
  BY <1>3 DEF ReadBack, Locks
<1>6. \A c \in read.held : mode'[c] = "manual" /\ c \in exact'
  BY <1>0, <1>1, <1>3, <1>5 DEF Sound, HeldIsHeld, InManual
<1>7. \/ /\ page' = [page EXCEPT ![s].lock = [read EXCEPT !.pc = "asking", !.todo = todo]]
         /\ UNCHANGED <<report, proven>>
      \/ /\ page' = [page EXCEPT ![s].lock = [read EXCEPT !.pc = "reverting", !.todo = <<back>>]]
         /\ UNCHANGED <<report, proven>>
      \/ Concluded(s, [page[s] EXCEPT !.lock = read])
  BY <1>0 DEF ChecksAs
<1> HIDE DEF read, todo, back
<1>8. ASSUME NEW pc \in {"asking", "reverting"}, NEW next \in Seq(SUBSET Controls),
             page' = [page EXCEPT ![s].lock = [read EXCEPT !.pc = pc, !.todo = next]],
             UNCHANGED <<report, proven>>
      PROVE  Sound'
  <2> DEFINE lock == [read EXCEPT !.pc = pc, !.todo = next]
  <2>1. lock \in Locks /\ lock.pc = pc /\ lock.held = read.held
    BY <1>4 DEF Locks, LockPcs
  <2> HIDE DEF lock
  <2>2. HeldIsHeld(lock, mode', exact')
    BY <1>6, <2>1 DEF HeldIsHeld
  <2>3. page' = [page EXCEPT ![s].lock = lock]
    BY <1>8 DEF lock
  <2> QED
    BY <1>1, <1>2, <1>8, <2>1, <2>2, <2>3, SoundWorking
<1>9. CASE Concluded(s, [page[s] EXCEPT !.lock = read])
  BY <1>1, <1>2, <1>4, <1>5, <1>6, <1>9, SoundConcluded
<1>10. <<back>> \in Seq(SUBSET Controls)
  BY <1>4
<1> QED
  BY <1>4, <1>7, <1>8, <1>9, <1>10

LEMMA SoundReverted ==
  ASSUME RInv, NEW s \in Requests, Reverted(s)
  PROVE  Fine' => Sound'
<1> SUFFICES ASSUME Fine' PROVE Sound'
  OBVIOUS
<1> DEFINE lock == page[s].lock
           back == Head(lock.todo)
<1>1. UNCHANGED current /\ Fine /\ Sound /\ Holds
      /\ mode' = [c \in Controls |-> IF c \in back THEN "continuous" ELSE mode[c]]
      /\ exact' = exact \ back
  BY DEF Reverted, PutBack, Fine, RInv, LInv
<1>2. lock.pc = "reverting" /\ Working(page[s])
  BY DEF Reverted, Working
<1>3. page[s] \in Sessions /\ lock \in Locks /\ lock.held \in SUBSET Controls
  BY TypeParts DEF RInv, LInv, Inv, Sessions, Locks
<1>4. lock.held \cap back = {}
  BY <1>1, <1>2 DEF Holds, KnowsWhatWas, KnowsOf
<1>5. \A c \in lock.held : mode'[c] = "manual" /\ c \in exact'
  BY <1>1, <1>2, <1>3, <1>4 DEF Sound, HeldIsHeld
<1>6. [page[s] EXCEPT !.lock = lock] = page[s]
  BY <1>3 DEF Sessions
<1>7. Concluded(s, [page[s] EXCEPT !.lock = lock])
  BY <1>6 DEF Reverted
<1> HIDE DEF lock
<1> QED
  BY <1>1, <1>2, <1>3, <1>5, <1>7, SoundConcluded

LEMMA SoundRestored ==
  ASSUME RInv, NEW s \in Requests, Restored(s)
  PROVE  Fine' => Sound'
<1> SUFFICES ASSUME Fine' PROVE Sound'
  OBVIOUS
<1> DEFINE y == [page[s] EXCEPT !.stage = "over", !.on = FALSE, !.held = {}]
           held == page[s].held
<1>1. UNCHANGED <<current, report, proven>> /\ Fine /\ Sound
      /\ mode' = [c \in Controls |-> IF c \in held THEN "continuous" ELSE mode[c]]
      /\ exact' = exact \ held
  BY DEF Restored, PutBack, Fine, cppVars, RInv
<1>2. page \in [Requests -> Sessions] /\ page[s] \in Sessions /\ page[s].stage = "restoring"
      /\ Consistent(page[s]) /\ mode \in [Controls -> Modes] /\ exact \in SUBSET Controls
  BY TypeParts DEF RInv, LInv, Inv, Kept, Restored, TypeOK
<1>3. page[s].lock.pc = "none" /\ Opened(page[s])
  BY <1>2 DEF Consistent, Opened
<1>4. y \in Sessions /\ page' = [page EXCEPT ![s] = y] /\ y.lock = page[s].lock
      /\ y.stage = "over"
  BY <1>2 DEF Restored, Sessions, Stages
<1> HIDE DEF y
<1>5. HeldIsHeld(y.lock, mode', exact') /\ ~Working(y) /\ ~Opened(y)
  BY <1>1, <1>3, <1>4 DEF Sound, HeldIsHeld, Working, Opened
<1>6. UNCHANGED <<mode, exact>> \/ Holding(page[s])
  BY <1>1, <1>2 DEF Holding
<1>7. ReportIsSo' /\ ~proven'
  BY <1>1, <1>2, <1>3, NothingProven DEF ReportIsSo
<1> QED
  BY <1>1, <1>4, <1>5, <1>6, <1>7, SoundByOne

LEMMA SoundStep ==
  ASSUME RInv, [Next]_vars
  PROVE  Fine' => Sound'
<1>1. CASE UNCHANGED vars
  BY <1>1, SoundWorker
<1>2. ASSUME NEW s \in Requests, PageStep(s) PROVE Fine' => Sound'
  BY <1>2, SoundSettled, SoundRead, SoundAsked, SoundChecked, SoundReverted,
     SoundRestored DEF PageStep
<1>3. CASE Next
  BY <1>2, <1>3, SoundWorker, SoundLettingGo, SoundRequest, SoundOpening DEF Next
<1> QED
  BY <1>1, <1>3

LEMMA ReportInvariant == Spec => []RInv
<1>1. Init => AnswersLive /\ Told /\ Sound
  <2> SUFFICES ASSUME Init PROVE AnswersLive /\ Told /\ Sound
    OBVIOUS
  <2>1. \A s \in Requests : page[s].lock.pc = "none" /\ page[s].lock.held = {}
    BY DEF Init, NoSession, NoLock
  <2>2. Sound
    BY <2>1 DEF Init, Sound, ReportIsSo, Alone, HeldIsHeld
  <2> QED
    BY <2>2 DEF Init, AnswersLive, Told
<1>2. RInv /\ [Next]_vars /\ LInv' => RInv'
  BY AnswersStep, ToldStep, SoundStep DEF RInv, LInv
<1> QED
  BY <1>1, <1>2, LockInvariant, PTL DEF Spec, RInv

(* A report of a lock is of the camera that is open, and what it says is   *)
(* held is held, at the value asked for; and the device is only said to    *)
(* have such controls while it has one. For any controls and any number of *)
(* openings, under the two conditions of the theorem before.               *)
THEOREM ReportsAreSo == Spec => []WhatIsReportedIsSo
<1>1. RInv => WhatIsReportedIsSo
  BY DEF RInv, Fine, Told, Sound, ReportIsSo, WhatIsReportedIsSo
<1> QED
  BY <1>1, ReportInvariant, PTL
-----------------------------------------------------------------------------
(***************************************************************************)
(* What being let go of comes to: the part of LetGoIsOff that no fairness  *)
(* is needed for. A session being let go of waits for a lock that is under *)
(* way or for its modes to be put back, and nothing can happen to it but   *)
(* what brings it nearer to being off.                                     *)
(***************************************************************************)

\* A session let go of is not used, and waits for its lock while it has one.
Quiet(x) == Going(x) => ~x.active /\ (x.stage = "waiting" <=> x.lock.pc # "none")

\* The steps a session may still have before it is off, at most: those of
\* the lock it waits for, each set to be tried twice, and the putting back.
StepsLeft(x) ==
  CASE ~x.on -> 0
    [] x.on /\ x.stage = "restoring" -> 1
    [] x.on /\ x.stage # "restoring" ->
         CASE x.lock.pc = "settling" -> 6
           [] x.lock.pc = "reading" -> 5
           [] x.lock.pc = "asking" -> 2 * Len(x.lock.todo) + 2
           [] x.lock.pc \in {"checking", "unanswered"} -> 2 * Len(x.lock.todo) + 1
           [] x.lock.pc \in {"none", "reverting"} -> 2

AllQuiet == \A s \in Requests : Quiet(page[s])

QInv == Inv /\ AllQuiet

\* Where every camera being let go of is: at a promise or a timer of the
\* page's own, never waiting for nothing.
LettingGoHasAStep ==
  \A s \in BeingLetGo :
    \/ page[s].stage = "restoring" /\ page[s].lock.pc = "none"
    \/ /\ page[s].stage = "waiting" /\ page[s].lock.pc \in LockPcs \ {"none"}
       /\ page[s].lock.pc \in {"asking", "checking", "unanswered", "reverting"} =>
            page[s].lock.todo # <<>>

\* What a step may do to a camera being let go of.
LettingGoOnlyNears ==
  [][\A s \in BeingLetGo :
       /\ s \in BeingLetGo' \/ ~page'[s].on
       /\ page'[s] # page[s] => StepsLeft(page'[s]) < StepsLeft(page[s])]_vars

LEMMA LockOverQuiet ==
  ASSUME NEW x \in Sessions, Quiet(x)
  PROVE  /\ Quiet(LockOver(x))
         /\ Going(x) /\ x.stage = "waiting" => StepsLeft(LockOver(x)) \in {0, 1}
<1> DEFINE free == [x EXCEPT !.lock = NoLock]
<1>1. free \in Sessions /\ free.stage = x.stage /\ free.active = x.active
      /\ free.lock.pc = "none"
  BY NoLockTyped DEF Sessions, NoLock
<1>2. LockOver(x) = IF x.stage = "waiting" THEN Finish(free) ELSE free
  BY DEF LockOver
<1> HIDE DEF free
<1>3. CASE x.stage = "waiting"
  <2>1. ~free.active
    BY <1>1, <1>3 DEF Quiet, Going
  <2>2. Quiet(Finish(free)) /\ StepsLeft(Finish(free)) \in {0, 1}
    <3>1. CASE free.held = {}
      BY <1>1, <3>1 DEF Finish, Sessions, Quiet, Going, StepsLeft
    <3>2. CASE free.held # {}
      <4>1. Finish(free) = [free EXCEPT !.stage = "restoring"]
        BY <3>2 DEF Finish
      <4>2. Finish(free).stage = "restoring" /\ ~Finish(free).active
            /\ Finish(free).lock.pc = "none" /\ Finish(free).on \in BOOLEAN
        BY <1>1, <2>1, <4>1 DEF Sessions
      <4> QED
        BY <4>2 DEF Quiet, Going, StepsLeft
    <3> QED
      BY <3>1, <3>2
  <2> QED
    BY <1>2, <1>3, <2>2
<1>4. CASE x.stage # "waiting"
  BY <1>1, <1>2, <1>4 DEF Quiet, Going
<1> QED
  BY <1>3, <1>4

LEMMA ReleaseQuiet ==
  ASSUME NEW x \in Sessions, Quiet(x)
  PROVE  Quiet(Release(x))
<1> DEFINE gone == [x EXCEPT !.active = FALSE]
<1>1. gone \in Sessions /\ gone.stage = x.stage /\ gone.lock = x.lock /\ ~gone.active
  BY DEF Sessions
<1>2. CASE x.stage \in {"asking", "playing"}
  BY <1>2 DEF Release, Sessions, Quiet, Going
<1>3. CASE x.stage = "live" /\ x.lock.pc = "none"
  <2>1. Release(x) = Finish(gone)
    BY <1>3 DEF Release
  <2> HIDE DEF gone
  <2> QED
    BY <1>1, <1>3, <2>1 DEF Finish, Sessions, Quiet, Going
<1>4. CASE x.stage = "live" /\ x.lock.pc # "none"
  BY <1>4 DEF Release, Sessions, Quiet, Going
<1>5. CASE x.stage \notin {"asking", "playing", "live"}
  BY <1>5 DEF Release, Sessions, Quiet, Going
<1> QED
  BY <1>2, <1>3, <1>4, <1>5

\* A lock that is over, with what it was all along.
LEMMA ConcludedQuiet ==
  ASSUME TypeOK, NEW s \in Requests, NEW l \in Locks, l.pc # "none",
         Quiet(page[s]), page[s].lock.pc # "none",
         Concluded(s, [page[s] EXCEPT !.lock = l])
  PROVE  /\ Quiet(page'[s])
         /\ Going(page[s]) => StepsLeft(page'[s]) \in {0, 1}
<1> DEFINE x == [page[s] EXCEPT !.lock = l]
           more == [x EXCEPT !.held = @ \cup (x.lock.held \ x.lock.asFound)]
<1>1. page \in [Requests -> Sessions]
  BY TypeParts
<1>2. x \in Sessions /\ x.active = page[s].active /\ x.stage = page[s].stage /\ x.lock = l
  BY <1>1 DEF Sessions
<1>3. page' = [page EXCEPT ![s] = LockOver(more)]
  BY DEF Concluded
<1> HIDE DEF x
<1>4. more \in Sessions /\ more.active = x.active /\ more.stage = x.stage /\ more.lock = l
  BY <1>2 DEF Sessions, Locks
<1> HIDE DEF more
<1>5. Quiet(more) /\ (Going(page[s]) => more.stage = "waiting")
  BY <1>2, <1>4 DEF Quiet, Going
<1>6. Quiet(LockOver(more))
      /\ (Going(more) /\ more.stage = "waiting" => StepsLeft(LockOver(more)) \in {0, 1})
  BY <1>4, <1>5, LockOverQuiet
<1>7. page'[s] = LockOver(more)
  BY <1>1, <1>3
<1> QED
  BY <1>5, <1>6, <1>7 DEF Going

\* A step of the page's own for a session: what it does to that session.
LEMMA QuietLock ==
  ASSUME Inv, NEW s \in Requests, Quiet(page[s]), PageStep(s)
  PROVE  /\ Quiet(page'[s])
         /\ \A t \in Requests \ {s} : page'[t] = page[t]
         /\ Going(page[s]) /\ page[s].on /\ current # s =>
              StepsLeft(page'[s]) < StepsLeft(page[s])
<1> DEFINE x == page[s]
<1>1. page \in [Requests -> Sessions] /\ x \in Sessions /\ x.lock \in Locks /\ TypeOK
      /\ LocksKnow /\ x.lock.todo \in Seq(SUBSET Controls)
  BY TypeParts DEF Inv, Sessions, Locks
<1>2. x.lock.pc \in {"asking", "checking", "unanswered", "reverting"} =>
        Len(x.lock.todo) \in Nat /\ Len(x.lock.todo) > 0
  BY <1>1 DEF LocksKnow
<1>3. Going(x) /\ x.lock.pc # "none" => x.stage = "waiting" /\ ~x.active
  BY DEF Quiet, Going
<1>4. Going(x) /\ x.on /\ x.lock.pc # "none" =>
        StepsLeft(x) = CASE x.lock.pc = "settling" -> 6
           [] x.lock.pc = "reading" -> 5
           [] x.lock.pc = "asking" -> 2 * Len(x.lock.todo) + 2
           [] x.lock.pc \in {"checking", "unanswered"} -> 2 * Len(x.lock.todo) + 1
           [] x.lock.pc \in {"none", "reverting"} -> 2
  BY <1>3 DEF StepsLeft
<1>5. Going(x) /\ x.on /\ x.lock.pc # "none" => StepsLeft(x) \in Nat /\ StepsLeft(x) > 1
  <2>1. x.lock.pc \in LockPcs
    BY <1>1 DEF Locks
  <2> QED
    BY <1>2, <1>4, <2>1 DEF LockPcs
<1>6. Quiet(LockOver(x)) /\ (Going(x) /\ x.stage = "waiting" => StepsLeft(LockOver(x)) \in {0, 1})
  BY <1>1, LockOverQuiet
\* A lock that goes on to another place.
<1>7. ASSUME NEW l \in Locks, l.pc # "none", x.lock.pc # "none",
             page' = [page EXCEPT ![s].lock = l]
      PROVE  /\ Quiet(page'[s])
             /\ \A t \in Requests \ {s} : page'[t] = page[t]
             /\ page'[s].lock = l /\ page'[s].stage = x.stage /\ page'[s].on = x.on
  <2>1. page'[s] = [x EXCEPT !.lock = l]
    BY <1>1, <1>7
  <2>2. page'[s].lock = l /\ page'[s].stage = x.stage /\ page'[s].on = x.on
        /\ page'[s].active = x.active
    BY <1>1, <2>1 DEF Sessions
  <2> QED
    BY <1>1, <1>7, <2>2 DEF Quiet, Going
<1>8. CASE Settled(s)
  <2>1. x.lock.pc = "settling"
    BY <1>8 DEF Settled
  <2>2. CASE current = s /\ x.active
    <3>1. page' = [page EXCEPT ![s].lock = [x.lock EXCEPT !.pc = "reading"]]
      BY <1>1, <1>8, <2>2 DEF Settled, Sessions
    <3>2. [x.lock EXCEPT !.pc = "reading"] \in Locks
          /\ [x.lock EXCEPT !.pc = "reading"].pc # "none"
      BY <1>1 DEF Locks, LockPcs
    <3> QED
      BY <1>7, <2>1, <2>2, <3>1, <3>2
  <2>3. CASE ~(current = s /\ x.active)
    <3>1. page' = [page EXCEPT ![s] = LockOver(x)]
      BY <1>1, <1>8, <2>3 DEF Settled
    <3>2. page'[s] = LockOver(x) /\ \A t \in Requests \ {s} : page'[t] = page[t]
      BY <1>1, <3>1
    <3> QED
      BY <1>3, <1>5, <1>6, <2>1, <3>2
  <2> QED
    BY <2>2, <2>3
<1>9. CASE Read(s)
  <2>1. x.lock.pc = "reading"
    BY <1>9 DEF Read
  <2>2. CASE page' = [page EXCEPT ![s] = LockOver(@)]
    <3>1. page'[s] = LockOver(x) /\ \A t \in Requests \ {s} : page'[t] = page[t]
      BY <1>1, <2>2
    <3> QED
      BY <1>3, <1>5, <1>6, <2>1, <3>1
  <2>3. ASSUME NEW pending \in SUBSET Controls,
               page' = [page EXCEPT ![s].lock =
                 [@ EXCEPT !.pc = "asking", !.todo = <<pending>>,
                           !.asFound = {c \in Controls : mode[c] = "manual"}]]
        PROVE  /\ Quiet(page'[s])
               /\ \A t \in Requests \ {s} : page'[t] = page[t]
               /\ Going(x) /\ x.on => StepsLeft(page'[s]) < StepsLeft(x)
    <3> DEFINE l == [x.lock EXCEPT !.pc = "asking", !.todo = <<pending>>,
                           !.asFound = {c \in Controls : mode[c] = "manual"}]
    <3>1. l \in Locks /\ l.pc = "asking" /\ l.todo = <<pending>>
      <4>1. {c \in Controls : mode[c] = "manual"} \in SUBSET Controls
            /\ <<pending>> \in Seq(SUBSET Controls)
        OBVIOUS
      <4> QED
        BY <1>1, <4>1 DEF Locks, LockPcs
    <3>2. page' = [page EXCEPT ![s].lock = l]
      BY <1>1, <2>3
    <3> HIDE DEF l
    <3>3. /\ Quiet(page'[s])
          /\ \A t \in Requests \ {s} : page'[t] = page[t]
          /\ page'[s].lock = l /\ page'[s].stage = x.stage /\ page'[s].on = x.on
      BY <1>7, <2>1, <3>1, <3>2
    <3>4. Going(x) /\ x.on => StepsLeft(page'[s]) = 4 /\ StepsLeft(x) = 5
      <4>1. Len(l.todo) = 1
        BY <3>1
      <4>2. Going(x) /\ x.on => StepsLeft(page'[s]) = 2 * Len(l.todo) + 2
        BY <1>3, <2>1, <3>1, <3>3 DEF StepsLeft
      <4>3. Going(x) /\ x.on => StepsLeft(x) = 5
        BY <1>3, <2>1 DEF StepsLeft
      <4> QED
        BY <4>1, <4>2, <4>3
    <3> QED
      BY <3>3, <3>4
  <2>4. \/ page' = [page EXCEPT ![s] = LockOver(@)]
        \/ \E pending \in SUBSET Controls :
             page' = [page EXCEPT ![s].lock =
               [@ EXCEPT !.pc = "asking", !.todo = <<pending>>,
                         !.asFound = {c \in Controls : mode[c] = "manual"}]]
    BY <1>9, Zenon DEF Read
  <2> QED
    BY <2>2, <2>3, <2>4
<1>10. CASE Asked(s)
  <2>1. x.lock.pc = "asking"
    BY <1>10 DEF Asked
  <2>2. PICK pc \in {"checking", "unanswered"} : page' = [page EXCEPT ![s].lock.pc = pc]
    BY <1>10 DEF Asked
  <2> DEFINE l == [x.lock EXCEPT !.pc = pc]
  <2>3. l \in Locks /\ l.pc = pc /\ l.todo = x.lock.todo
    BY <1>1, <2>2 DEF Locks, LockPcs
  <2>4. page' = [page EXCEPT ![s].lock = l]
    BY <1>1, <2>2 DEF Sessions
  <2> HIDE DEF l
  <2>5. /\ Quiet(page'[s])
        /\ \A t \in Requests \ {s} : page'[t] = page[t]
        /\ page'[s].lock = l /\ page'[s].stage = x.stage /\ page'[s].on = x.on
    BY <1>7, <2>1, <2>2, <2>3, <2>4
  <2>6. Going(x) /\ x.on => StepsLeft(page'[s]) = 2 * Len(x.lock.todo) + 1
                            /\ StepsLeft(x) = 2 * Len(x.lock.todo) + 2
    BY <1>3, <2>1, <2>2, <2>3, <2>5 DEF StepsLeft
  <2>7. Going(x) /\ x.on => StepsLeft(page'[s]) < StepsLeft(x)
    BY <1>2, <2>1, <2>6
  <2> QED
    BY <2>5, <2>7
<1>11. CASE Checked(s)
  <2>1. x.lock.pc \in {"checking", "unanswered"}
    BY <1>11 DEF Checked
  <2>0. PICK manual \in SUBSET InManual(x.lock) : ChecksAs(s, manual)
    BY <1>11, CheckedSays
  <2> DEFINE read == ReadBack(x.lock, manual)
             todo == LeftToTry(x, manual)
             back == ToGiveBack(x.lock, manual)
  <2>2. read \in Locks /\ todo \in Seq(SUBSET Controls) /\ back \in SUBSET Controls
    BY <1>1, <2>0, <2>1, ReadBackTyped
  <2>3. Going(x) => todo = Tail(x.lock.todo)
    BY <1>3, <2>1 DEF LeftToTry
  <2>4. read.pc = x.lock.pc
    BY <1>1 DEF ReadBack, Locks
  <2>5. Going(x) /\ x.on => StepsLeft(x) = 2 * Len(x.lock.todo) + 1
    BY <1>3, <2>1 DEF StepsLeft
  <2>6. CASE Concluded(s, [x EXCEPT !.lock = read])
    <3>1. Quiet(page'[s]) /\ (Going(x) => StepsLeft(page'[s]) \in {0, 1})
      BY <1>1, <2>1, <2>2, <2>4, <2>6, ConcludedQuiet
    <3>2. \A t \in Requests \ {s} : page'[t] = page[t]
      BY <1>1, <2>6 DEF Concluded
    <3> QED
      BY <1>5, <2>1, <3>1, <3>2
  <2>7. CASE todo # <<>> /\ page' = [page EXCEPT ![s].lock =
               [read EXCEPT !.pc = "asking", !.todo = todo]]
    <3> DEFINE l == [read EXCEPT !.pc = "asking", !.todo = todo]
    <3> HIDE DEF read, todo
    <3>1. l \in Locks /\ l.pc = "asking" /\ l.todo = todo
      BY <2>2 DEF Locks, LockPcs
    <3> HIDE DEF l
    <3>2. /\ Quiet(page'[s])
          /\ \A t \in Requests \ {s} : page'[t] = page[t]
          /\ page'[s].lock = l /\ page'[s].stage = x.stage /\ page'[s].on = x.on
      BY <1>7, <2>1, <2>7, <3>1 DEF l
    <3>3. Going(x) /\ x.on => StepsLeft(page'[s]) = 2 * Len(todo) + 2
      BY <1>3, <2>1, <3>1, <3>2 DEF StepsLeft
    <3>4. Going(x) => Len(todo) = Len(x.lock.todo) - 1
      BY <1>1, <1>2, <2>1, <2>3
    <3> QED
      BY <1>2, <2>1, <2>5, <3>2, <3>3, <3>4
  <2>8. CASE page' = [page EXCEPT ![s].lock =
               [read EXCEPT !.pc = "reverting", !.todo = <<back>>]]
    <3> DEFINE l == [read EXCEPT !.pc = "reverting", !.todo = <<back>>]
    <3> HIDE DEF read, back
    <3>1. l \in Locks /\ l.pc = "reverting"
      <4>1. <<back>> \in Seq(SUBSET Controls)
        BY <2>2
      <4> QED
        BY <2>2, <4>1 DEF Locks, LockPcs
    <3> HIDE DEF l
    <3>2. /\ Quiet(page'[s])
          /\ \A t \in Requests \ {s} : page'[t] = page[t]
          /\ page'[s].lock = l /\ page'[s].stage = x.stage /\ page'[s].on = x.on
      BY <1>7, <2>1, <2>8, <3>1 DEF l
    <3>3. Going(x) /\ x.on => StepsLeft(page'[s]) = 2
      BY <1>3, <2>1, <3>1, <3>2 DEF StepsLeft
    <3>4. Going(x) /\ x.on => StepsLeft(page'[s]) < StepsLeft(x)
      BY <1>2, <2>1, <2>5, <3>3
    <3> QED
      BY <3>2, <3>4
  <2>9. \/ todo # <<>> /\ page' = [page EXCEPT ![s].lock =
             [read EXCEPT !.pc = "asking", !.todo = todo]]
        \/ page' = [page EXCEPT ![s].lock = [read EXCEPT !.pc = "reverting", !.todo = <<back>>]]
        \/ Concluded(s, [x EXCEPT !.lock = read])
    BY <2>0 DEF ChecksAs
  <2> QED
    BY <2>6, <2>7, <2>8, <2>9
<1>12. CASE Reverted(s)
  <2>1. x.lock.pc = "reverting" /\ Concluded(s, x)
    BY <1>12 DEF Reverted
  <2>2. x = [x EXCEPT !.lock = x.lock]
    BY <1>1 DEF Sessions
  <2>3. Quiet(page'[s]) /\ (Going(x) => StepsLeft(page'[s]) \in {0, 1})
    BY <1>1, <2>1, <2>2, ConcludedQuiet
  <2>4. \A t \in Requests \ {s} : page'[t] = page[t]
    BY <1>1, <2>1 DEF Concluded
  <2> QED
    BY <1>5, <2>1, <2>3, <2>4
<1>13. CASE Restored(s)
  <2>1. page' = [page EXCEPT ![s] = [@ EXCEPT !.stage = "over", !.on = FALSE, !.held = {}]]
        /\ x.stage = "restoring"
    BY <1>13 DEF Restored
  <2>2. page'[s].stage = "over" /\ page'[s].on = FALSE
        /\ \A t \in Requests \ {s} : page'[t] = page[t]
    BY <1>1, <2>1 DEF Sessions
  <2>3. StepsLeft(page'[s]) = 0 /\ (x.on => StepsLeft(x) = 1)
    BY <2>1, <2>2 DEF StepsLeft
  <2> QED
    BY <2>2, <2>3 DEF Quiet, Going
<1> QED
  BY <1>8, <1>9, <1>10, <1>11, <1>12, <1>13 DEF PageStep

\* What the rest of the program does leaves a session being let go of as it
\* is, unless its camera goes away; one that is let go of is quiet.
LEMMA QuietRest ==
  ASSUME QInv, [Next]_vars, \A s \in Requests : ~PageStep(s)
  PROVE  /\ AllQuiet'
         /\ \A s \in BeingLetGo : page'[s] = page[s] \/ ~page'[s].on
<1>1. /\ page \in [Requests -> Sessions] /\ current \in 0..MaxRequests
      /\ \A s \in Requests : page[s].on \in BOOLEAN /\ Quiet(page[s])
      /\ OnIsCurrent
  BY TypeParts DEF QInv, Inv, Flow, AllQuiet, Others, Sessions
<1>2. \A s \in BeingLetGo : s \in Requests /\ page[s].on /\ Going(page[s]) /\ s # current
  BY <1>1 DEF BeingLetGo, OnIsCurrent
<1> DEFINE after == IF current = 0 THEN page
                    ELSE [page EXCEPT ![current] = Release(@)]
<1>3. /\ after \in [Requests -> Sessions] /\ \A s \in Requests : Quiet(after[s])
      /\ \A s \in BeingLetGo : after[s] = page[s]
  <2>1. CASE current = 0
    BY <1>1, <1>2, <2>1
  <2>2. CASE current # 0
    <3>1. current \in Requests
      BY <1>1, <2>2, ConstantsOK DEF Requests
    <3>2. after = [page EXCEPT ![current] = Release(page[current])]
      BY <1>1, <2>2, <3>1
    <3>3. Quiet(Release(page[current])) /\ Release(page[current]) \in Sessions
      BY <1>1, <3>1, ReleaseQuiet, ReleaseTyped
    <3> QED
      BY <1>1, <1>2, <3>1, <3>2, <3>3
  <2> QED
    BY <2>1, <2>2
<1> HIDE DEF after
<1>4. CASE UNCHANGED page
  BY <1>1, <1>4 DEF AllQuiet
<1>5. CASE Stop \/ CloseCall
  <2>1. page' = after
    BY <1>5 DEF Stop, CloseCall, LetGo, after
  <2> QED
    BY <1>3, <2>1 DEF AllQuiet
<1>6. CASE OpenCall
  <2>1. page' = after \/ page' = [after EXCEPT ![camera].stage = "asking"]
    BY <1>6 DEF OpenCall, after
  <2>2. worker = "calling" /\ camera \in Requests /\ page[camera].stage = "none"
    <3>1. calls \in Seq({"open", "close"}) /\ calls # <<>> /\ calls[1] = "open"
          /\ worker \in {"idle", "calling", "waiting"}
      BY <1>6 DEF OpenCall, QInv, Inv, TypeOK
    <3>2. worker = "calling"
      BY <3>1 DEF QInv, Inv, Flow, CallsInOrder, Close
    <3> QED
      BY <3>1, <3>2 DEF QInv, Inv, Flow, CallsInOrder, Unasked
  <2>3. camera \notin BeingLetGo
    BY <1>2, <2>2 DEF Going
  <2>4. CASE page' = [after EXCEPT ![camera].stage = "asking"]
    <3>1. Quiet(page'[camera])
      BY <1>3, <2>2, <2>4 DEF Sessions, Quiet, Going
    <3>2. \A s \in Requests \ {camera} : page'[s] = after[s]
      BY <1>3, <2>2, <2>4
    <3> QED
      BY <1>2, <1>3, <2>3, <3>1, <3>2 DEF AllQuiet
  <2>5. CASE page' = after
    BY <1>3, <2>5 DEF AllQuiet
  <2> QED
    BY <2>1, <2>4, <2>5
<1>7. CASE RequestLock
  <2>1. CASE page' = [page EXCEPT ![current].lock.pc = "settling"] /\ current = camera
             /\ page[current].active
    <3>1. capturing
      BY <1>7 DEF RequestLock
    <3>2. current \in Requests
      BY <2>1, <3>1 DEF QInv, Inv, Flow, CallsInOrder
    <3>3. ~Going(page[current])
      BY <1>1, <2>1, <3>2 DEF Quiet
    <3>4. page'[current].stage = page[current].stage
          /\ \A s \in Requests \ {current} : page'[s] = page[s]
      BY <1>1, <2>1, <3>2 DEF Sessions
    <3>5. Quiet(page'[current])
      BY <3>3, <3>4 DEF Quiet, Going
    <3> QED
      BY <1>1, <1>2, <3>2, <3>4, <3>5 DEF AllQuiet
  <2> QED
    BY <1>4, <1>7, <2>1 DEF RequestLock
<1>8. ASSUME NEW s \in Requests, Granted(s) \/ Played(s) \/ Refused(s) \/ Ended(s)
      PROVE  /\ AllQuiet'
             /\ \A t \in BeingLetGo : page'[t] = page[t] \/ ~page'[t].on
  <2>1. page[s] \in Sessions /\ Quiet(page[s])
    BY <1>1
  <2>2. CASE Ended(s)
    <3>1. page' = [page EXCEPT ![s].on = FALSE, ![s].active = FALSE]
      BY <2>2 DEF Ended
    <3>2. page'[s].on = FALSE /\ page'[s].active = FALSE /\ page'[s].stage = page[s].stage
          /\ page'[s].lock = page[s].lock
          /\ \A t \in Requests \ {s} : page'[t] = page[t]
      BY <1>1, <2>1, <3>1 DEF Sessions
    <3>3. Quiet(page'[s])
      BY <2>1, <3>2 DEF Quiet, Going
    <3> QED
      BY <1>1, <1>2, <3>2, <3>3 DEF AllQuiet
  <2>3. CASE Granted(s) \/ Played(s) \/ Refused(s)
    <3>1. page[s].stage \in {"asking", "playing"}
      BY <2>3 DEF Granted, Played, Refused
    <3>2. s \notin BeingLetGo
      BY <1>2, <3>1 DEF Going
    <3>3. /\ page'[s].stage \in {"playing", "live", "over"}
          /\ \A t \in Requests \ {s} : page'[t] = page[t]
      <4>1. CASE Granted(s)
        BY <1>1, <2>1, <4>1 DEF Granted, Sessions
      <4>2. CASE Played(s)
        BY <1>1, <2>1, <4>2 DEF Played, Sessions
      <4>3. CASE Refused(s)
        BY <1>1, <2>1, <4>3 DEF Refused, Sessions
      <4> QED
        BY <2>3, <4>1, <4>2, <4>3
    <3>4. Quiet(page'[s])
      BY <3>3 DEF Quiet, Going
    <3> QED
      BY <1>1, <1>2, <3>2, <3>3, <3>4 DEF AllQuiet
  <2> QED
    BY <1>8, <2>2, <2>3
<1>9. CASE \E s \in Requests : Frame(s)
  BY <1>4, <1>9 DEF Frame
<1>10. CASE Start \/ Woken \/ TimedOut \/ Poll
  BY <1>4, <1>10 DEF Start, Woken, TimedOut, Poll
<1>11. CASE UNCHANGED vars
  BY <1>4, <1>11 DEF vars
<1> QED
  BY <1>5, <1>6, <1>7, <1>8, <1>9, <1>10, <1>11 DEF Next

LEMMA QuietStep == QInv /\ [Next]_vars => AllQuiet'
<1> SUFFICES ASSUME QInv, [Next]_vars PROVE AllQuiet'
  OBVIOUS
<1>1. ASSUME NEW s \in Requests, PageStep(s) PROVE AllQuiet'
  <2>1. Quiet(page'[s]) /\ \A t \in Requests \ {s} : page'[t] = page[t]
    BY <1>1, QuietLock DEF QInv, AllQuiet
  <2> QED
    BY <2>1 DEF QInv, AllQuiet
<1> QED
  BY <1>1, QuietRest

LEMMA QuietInvariant == Spec => []QInv
<1>1. Init => AllQuiet
  BY DEF Init, AllQuiet, Quiet, Going, NoSession
<1>2. QInv /\ [Next]_vars => Inv'
  BY TypesStep, FlowStep DEF QInv, Inv
<1>3. QInv /\ [Next]_vars => QInv'
  BY <1>2, QuietStep DEF QInv
<1>4. Init => QInv
  BY <1>1, TypesInit, FlowInit DEF Inv, QInv
<1> QED
  BY <1>3, <1>4, PTL DEF Spec

(* A camera that was let go of and is still on waits for nothing but the   *)
(* page's own: a lock under way, which has what it is asking for in hand,  *)
(* or the modes being put back. Each has its limit of time in              *)
(* camera_web.js, so there is always something to come.                    *)
THEOREM LettingGoIsUnderWay == Spec => []LettingGoHasAStep
<1>1. QInv => LettingGoHasAStep
  <2> SUFFICES ASSUME QInv, NEW s \in BeingLetGo
      PROVE \/ page[s].stage = "restoring" /\ page[s].lock.pc = "none"
            \/ /\ page[s].stage = "waiting" /\ page[s].lock.pc \in LockPcs \ {"none"}
               /\ page[s].lock.pc \in {"asking", "checking", "unanswered", "reverting"} =>
                    page[s].lock.todo # <<>>
    BY DEF LettingGoHasAStep
  <2>1. s \in Requests /\ page[s].on /\ s # current
    BY DEF BeingLetGo
  <2>2. Going(page[s]) /\ Quiet(page[s])
    BY <2>1 DEF QInv, Inv, Flow, OnIsCurrent, AllQuiet
  <2>3. page[s].lock.pc \in LockPcs
    BY <2>1, TypeParts DEF QInv, Inv, Sessions, Locks
  <2> QED
    BY <2>1, <2>2, <2>3 DEF Quiet, Going, QInv, Inv, LocksKnow
<1> QED
  BY <1>1, QuietInvariant, PTL

(* Nothing keeps such a camera on: it is never taken back into use, and    *)
(* whatever happens to it, a promise of its lock, the modes put back or    *)
(* the camera going away, leaves it with fewer steps than it had, however  *)
(* many cameras are opened in the meantime. That it goes off in the end    *)
(* then only takes its own promises and timers to run.                     *)
THEOREM LettingGoNeverTurnsBack == Spec => LettingGoOnlyNears
<1> DEFINE Nears == \A s \in BeingLetGo :
             /\ s \in BeingLetGo' \/ ~page'[s].on
             /\ page'[s] # page[s] => StepsLeft(page'[s]) < StepsLeft(page[s])
<1>1. QInv /\ QInv' /\ [Next]_vars => [Nears]_vars
  <2> SUFFICES ASSUME QInv, QInv', [Next]_vars, NEW s \in BeingLetGo
      PROVE /\ s \in BeingLetGo' \/ ~page'[s].on
            /\ page'[s] # page[s] => StepsLeft(page'[s]) < StepsLeft(page[s])
    OBVIOUS
  <2>1. s \in Requests /\ page[s].on /\ s # current /\ Going(page[s]) /\ Quiet(page[s])
    BY DEF BeingLetGo, QInv, Inv, Flow, OnIsCurrent, AllQuiet
  <2>2. StepsLeft(page[s]) \in Nat /\ StepsLeft(page[s]) > 0
    <3>1. page[s].lock.pc \in LockPcs /\ Len(page[s].lock.todo) \in Nat
      BY <2>1, TypeParts DEF QInv, Inv, Sessions, Locks
    <3>2. CASE page[s].stage = "restoring"
      BY <2>1, <3>2 DEF StepsLeft
    <3>3. CASE page[s].stage # "restoring"
      BY <2>1, <3>1, <3>3 DEF StepsLeft, LockPcs
    <3> QED
      BY <3>2, <3>3
  <2>3. page'[s] # page[s] => StepsLeft(page'[s]) < StepsLeft(page[s])
    <3>1. CASE PageStep(s)
      BY <2>1, <3>1, QuietLock DEF QInv
    <3>2. ASSUME NEW t \in Requests, t # s, PageStep(t) PROVE page'[s] = page[s]
      <4>1. Quiet(page[t])
        BY DEF QInv, AllQuiet
      <4> QED
        BY <2>1, <3>2, <4>1, QuietLock DEF QInv
    <3>3. CASE \A t \in Requests : ~PageStep(t)
      <4>1. page'[s] = page[s] \/ ~page'[s].on
        BY <3>3, QuietRest
      <4>2. ~page'[s].on => StepsLeft(page'[s]) = 0
        BY DEF StepsLeft
      <4> QED
        BY <2>2, <4>1, <4>2
    <3> QED
      BY <3>1, <3>2, <3>3
  <2>4. current' # s \/ ~page'[s].on
    <3>1. CASE OpenCall
      <4>1. current' = camera \/ current' = 0
        BY <3>1 DEF OpenCall
      <4>2. worker = "calling" /\ camera \in Requests /\ page[camera].stage = "none"
        <5>1. calls \in Seq({"open", "close"}) /\ calls # <<>> /\ calls[1] = "open"
              /\ worker \in {"idle", "calling", "waiting"}
          BY <3>1 DEF OpenCall, QInv, Inv, TypeOK
        <5>2. worker = "calling"
          BY <5>1 DEF QInv, Inv, Flow, CallsInOrder, Close
        <5> QED
          BY <5>1, <5>2 DEF QInv, Inv, Flow, CallsInOrder, Unasked
      <4> QED
        BY <2>1, <4>1, <4>2 DEF Going, Requests
    <3>2. CASE ~OpenCall
      <4>1. current' = current \/ current' = 0
        <5>1. ASSUME NEW t \in Requests, PageStep(t) PROVE UNCHANGED current
          BY <5>1 DEF PageStep, Settled, Read, Asked, Checked, Reverted, Restored
        <5>2. ASSUME NEW t \in Requests,
                     Granted(t) \/ Played(t) \/ Refused(t) \/ Ended(t) \/ Frame(t)
              PROVE  current' = current \/ current' = 0
          BY <5>2 DEF Granted, Played, Refused, Ended, Frame
        <5>3. CASE Start \/ Woken \/ TimedOut \/ Stop \/ RequestLock \/ Poll \/ CloseCall
          BY <5>3 DEF Start, Woken, TimedOut, Stop, RequestLock, Poll, CloseCall, LetGo
        <5>4. CASE UNCHANGED vars
          BY <5>4 DEF vars
        <5> QED
          BY <3>2, <5>1, <5>2, <5>3, <5>4 DEF Next
      <4> QED
        BY <2>1, <4>1 DEF Requests
    <3> QED
      BY <3>1, <3>2
  <2>5. s \in BeingLetGo' \/ ~page'[s].on
    <3>1. s \in Requests
      BY <2>1
    <3> QED
      BY <2>4, <3>1 DEF BeingLetGo
  <2> QED
    BY <2>3, <2>5
<1>2. QInv /\ [Next]_vars => QInv'
  BY TypesStep, FlowStep, QuietStep DEF QInv, Inv
<1> QED
  BY <1>1, <1>2, QuietInvariant, PTL DEF Spec, LettingGoOnlyNears
=============================================================================

----------------------------- MODULE SolveHistory -----------------------------
(***************************************************************************)
(* SolveHistory and its store: the list of solves kept on this device,     *)
(* written as SolveController is followed, and the screens it is reached   *)
(* from.  The program may stop at any moment and be started again.         *)
(*                                                                         *)
(* The history hears stateChanged and solutionChanged in the step that     *)
(* emits them; landing a solve emits both, and the two handlers are one    *)
(* step here (Landed).  stateChanged from a solve that starts does         *)
(* nothing.  Turns are only taken on the solve screen with nothing being   *)
(* solved (SolveSession, ShownTurnBelongs).  An entry's times are left     *)
(* out, and so is reviewOf, whose solve controller is its own.             *)
(***************************************************************************)
EXTENDS SolveController, Sequences, SequencesExt

CONSTANTS
  Capacity,     \* SolveHistoryStore::kCapacity
  ScanCubes,    \* bound: the cubes the person scans
  MaxId,        \* bound: the highest id an entry is given
  FailId,       \* bound: a write may fail while the next id to give is at most this
  Restless      \* bound: is the method changed while a resumed solve is worked out?

ASSUME HistoryAssumption ==
  /\ Capacity \in Nat \ {0}
  /\ ScanCubes \subseteq Cubes \ Unsolvable
  /\ MaxId \in Nat /\ FailId \in Nat
  /\ Restless \in BOOLEAN

VARIABLES
  scanned,       \* SolveController's scanned_
  entries,       \* store_.entries_, newest first
  file,          \* the entries solve-history.json holds
  writeFailed,   \* write_failed_
  keep,          \* keep_, and history/keep in the settings
  current,       \* current_: the id of the entry followed, or NoEntry
  recorded,      \* recorded_
  resuming,      \* resuming_: the id asked for by resume(), or NoEntry
  screen, scanComplete,  \* AppState's
  previous,      \* AppState's previousScreen while the settings are shown, which alone read it
  made           \* history: entries made since the last new cube

storeVars == <<entries, file, writeFailed>>
followVars == <<current, recorded, resuming>>
screenVars == <<screen, previous, scanComplete>>
vars == <<solveVars, scanned, storeVars, keep, followVars, screenVars, made>>

NoEntry == 0

Entries == {entries[i] : i \in DOMAIN entries}
Kept(id) == \E e \in Entries : e.id = id
Entry(id) == CHOOSE e \in Entries : e.id = id

\* The first unfinished entry of the list, or NoEntry.
CarryOnId ==
  IF \E e \in Entries : ~e.finished
  THEN entries[CHOOSE i \in DOMAIN entries :
                 ~entries[i].finished /\ \A j \in 1..(i - 1) : entries[j].finished].id
  ELSE NoEntry

Init ==
  /\ SolveInit
  /\ scanned = None
  /\ entries = <<>> /\ file = <<>> /\ writeFailed = FALSE
  /\ keep = TRUE
  /\ current = NoEntry /\ recorded = FALSE /\ resuming = NoEntry
  /\ screen = "launch" /\ previous = "launch" /\ scanComplete = FALSE
  /\ made = 0

-----------------------------------------------------------------------------
(* The store *)

\* Mutant of NewId: ids are counted, not followed.
CountedId == Len(entries) + 1

\* The newest entry's id and one more: of the entries there, the first is newest.
NewId == IF entries = <<>> THEN 1 ELSE Head(entries).id + 1

\* Mutant of Put: the list is written when the program ends.
PutLater(list) == entries' = list /\ UNCHANGED <<file, writeFailed>>

\* Every change is written at once, whole or not at all; a write that fails
\* leaves the list in memory as it should be.
Put(list) ==
  /\ entries' = list
  /\ \/ file' = list /\ writeFailed' = FALSE
     \/ NewId <= FailId /\ UNCHANGED file /\ writeFailed' = TRUE

\* update()
Update(entry) ==
  Put([i \in DOMAIN entries |-> IF entries[i].id = entry.id THEN entry ELSE entries[i]])

\* add(): the oldest goes when there are too many.
AddEntry(entry) ==
  LET longer == <<entry>> \o entries
  IN Put(SubSeq(longer, 1, IF Len(longer) > Capacity THEN Capacity ELSE Len(longer)))

-----------------------------------------------------------------------------
(* Following the solve *)

\* What the controller says of the turn reached, written over an entry.
Reached(entry) == [entry EXCEPT !.turn = stepped'.turn, !.turns = TotalMoves(stepped')]

\* onStateChanged with an entry being followed.
FollowEntry(id) ==
  /\ current' = IF Kept(id) THEN id ELSE NoEntry
  /\ IF Kept(id) /\ Reached(Entry(id)) # Entry(id)
     THEN Update(Reached(Entry(id)))
     ELSE UNCHANGED storeVars

\* The first turn of a solve that has no entry.
StartsEntry == keep /\ ~recorded /\ stepped'.turn >= 1 /\ scanned # None

StartEntry ==
  /\ NewId <= MaxId
  /\ AddEntry([id |-> NewId, scanned |-> scanned, from |-> pending, method |-> method,
               turn |-> stepped'.turn, turns |-> TotalMoves(stepped'), finished |-> FALSE])
  /\ current' = NewId
  /\ recorded' = TRUE
  /\ made' = made + 1

\* onStateChanged, nothing being solved.
OnStateChanged ==
  /\ UNCHANGED resuming
  /\ IF current # NoEntry THEN FollowEntry(current) /\ UNCHANGED <<recorded, made>>
     ELSE IF StartsEntry THEN StartEntry
     ELSE UNCHANGED <<storeVars, current, recorded, made>>

\* Mutant of LandsContinuation: the entry keeps the turn it was at.
LandsContinuationInPlace ==
  IF Kept(current)
  THEN /\ Update([Entry(current) EXCEPT !.from = pending, !.method = method,
                                        !.turns = TotalMoves(stepped')])
       /\ UNCHANGED current
  ELSE current' = NoEntry /\ UNCHANGED storeVars

\* Mutant of LandsContinuation: the entry keeps the method it had.
LandsContinuationByTurn ==
  IF Kept(current) THEN FollowEntry(current) ELSE current' = NoEntry /\ UNCHANGED storeVars

\* The same cube solved on another way: the entry counts the new solution's turns.
LandsContinuation ==
  IF Kept(current)
  THEN /\ Update([Reached(Entry(current)) EXCEPT !.from = pending, !.method = method])
       /\ UNCHANGED current
  ELSE current' = NoEntry /\ UNCHANGED storeVars

\* onSolutionChanged and then onStateChanged, as applySolveResult emits them.
\* Only a resumed solve lands past its first turn, so no entry is made here.
Landed ==
  \/ /\ resuming # NoEntry
     /\ resuming' = NoEntry
     /\ recorded' = TRUE
     /\ FollowEntry(resuming)
     /\ UNCHANGED made
  \/ /\ resuming = NoEntry /\ ~continuation'
     /\ current' = NoEntry
     /\ recorded' = FALSE
     /\ made' = 0
     /\ UNCHANGED <<storeVars, resuming>>
  \/ /\ resuming = NoEntry /\ continuation'
     /\ LandsContinuation
     /\ UNCHANGED <<recorded, resuming, made>>

TakeTurn ==
  /\ screen = "solve" /\ ~isSolving
  /\ NextMove \/ PreviousMove
  /\ OnStateChanged
  /\ UNCHANGED <<scanned, keep, screenVars>>

ChooseMethod(m) ==
  /\ (screen = "solve" /\ ~isSolving) \/ screen = "settings"
  /\ resuming # NoEntry => Restless
  /\ SetMethod(m)
  /\ UNCHANGED <<scanned, storeVars, keep, followVars, screenVars, made>>

-----------------------------------------------------------------------------
(* Screens *)

GoTo(s) ==
  /\ screen' = s
  /\ scanComplete' = FALSE

Elsewhere == UNCHANGED <<solveVars, scanned, storeVars, keep, followVars, made>>

BeginScan ==
  screen \in {"launch", "complete"} /\ GoTo("scan") /\ Elsewhere /\ UNCHANGED previous
CancelScan == screen = "scan" /\ GoTo("launch") /\ Elsewhere /\ UNCHANGED previous
Rescan == screen = "solve" /\ ~isSolving /\ GoTo("scan") /\ Elsewhere /\ UNCHANGED previous
OpenHistory == screen = "launch" /\ GoTo("history") /\ Elsewhere /\ UNCHANGED previous
CloseHistory == screen = "history" /\ GoTo("launch") /\ Elsewhere /\ UNCHANGED previous
OpenSettings == screen # "settings" /\ GoTo("settings") /\ previous' = screen /\ Elsewhere
CloseSettings == screen = "settings" /\ GoTo(previous) /\ Elsewhere /\ previous' = "launch"

ScanCompletes ==
  /\ screen = "scan" /\ ~scanComplete
  /\ \E cube \in ScanCubes : SolveCube(cube) /\ scanned' = cube
  /\ scanComplete' = TRUE
  /\ UNCHANGED <<storeVars, keep, followVars, screen, previous, made>>

\* The solve screen follows a scan once the solution is there and the beat is over.
ShowSolution ==
  /\ screen = "scan" /\ scanComplete /\ ~isSolving
  /\ GoTo("solve") /\ Elsewhere /\ UNCHANGED previous

SolveLands ==
  /\ ApplySolveResult
  /\ Landed
  /\ \/ UNCHANGED screenVars
     \/ screen = "scan" /\ scanComplete /\ GoTo("solve") /\ UNCHANGED previous
  /\ UNCHANGED <<scanned, keep>>

\* Mutant of FinishEntry: the entry is still followed.
FinishOnly ==
  /\ IF Kept(current) THEN Update([Reached(Entry(current)) EXCEPT !.finished = TRUE])
     ELSE UNCHANGED storeVars
  /\ UNCHANGED followVars

\* finish(): over, whatever the controller does next is another solve's.
FinishEntry ==
  /\ current' = NoEntry
  /\ IF Kept(current) THEN Update([Reached(Entry(current)) EXCEPT !.finished = TRUE])
     ELSE UNCHANGED storeVars
  /\ UNCHANGED <<recorded, resuming>>

Finish ==
  /\ screen = "solve" /\ AtEnd(stepped) /\ ~isSolving
  /\ GoTo("complete") /\ UNCHANGED previous
  /\ UNCHANGED <<solveVars, scanned, keep, made>>
  /\ FinishEntry

-----------------------------------------------------------------------------
(* The list *)

\* resumeSolve: the newest unfinished solve goes back to the controller.  The
\* method is put in force first, and whatever that starts is replaced at once.
Resume ==
  /\ screen = "history" /\ CarryOnId # NoEntry
  /\ LET e == Entry(CarryOnId)
     IN ResumeCube(e.from, e.method, e.turn) /\ scanned' = e.scanned
  /\ resuming' = CarryOnId
  /\ GoTo("solve") /\ UNCHANGED previous
  /\ UNCHANGED <<storeVars, keep, current, recorded, made>>

\* Mutant of Forget: the solve may be recorded again.
ForgetRecorded(gone) ==
  /\ current' = IF current \in gone THEN NoEntry ELSE current
  /\ recorded' = (recorded /\ current \notin gone)
  /\ UNCHANGED resuming

\* The entry followed is not followed any more once it has been deleted; the
\* solve stays recorded, so its next turn does not bring the entry back.
Forget(gone) ==
  /\ current' = IF current \in gone THEN NoEntry ELSE current
  /\ UNCHANGED <<recorded, resuming>>

RemoveEntry ==
  /\ screen = "history"
  /\ \E i \in DOMAIN entries :
       /\ Put(RemoveAt(entries, i))
       /\ Forget({entries[i].id})
  /\ UNCHANGED <<solveVars, scanned, keep, screenVars, made>>

Clear ==
  /\ screen \in {"history", "settings"} /\ entries # <<>>
  /\ Put(<<>>)
  /\ Forget({e.id : e \in Entries})
  /\ UNCHANGED <<solveVars, scanned, keep, screenVars, made>>

SetKeep ==
  /\ screen = "settings"
  /\ keep' = ~keep
  /\ UNCHANGED <<solveVars, scanned, storeVars, followVars, screenVars, made>>

\* The program ends, however it does, and is started again: the settings are
\* kept and the list is what the file holds.
Restart ==
  /\ entries' = file /\ writeFailed' = FALSE /\ UNCHANGED <<file, keep>>
  /\ current' = NoEntry /\ recorded' = FALSE /\ resuming' = NoEntry
  /\ screen' = "launch" /\ previous' = "launch" /\ scanComplete' = FALSE
  /\ stepped' = SteppedFrom(FirstMethod, Solved)
  /\ pending' = None /\ isSolving' = FALSE /\ job' = None /\ resumeTurn' = 0
  /\ solvingCont' = FALSE /\ continuation' = FALSE
  /\ scanned' = None /\ UNCHANGED method
  /\ made' = 0

Next ==
  \/ TakeTurn \/ SolveLands \/ ScanCompletes \/ ShowSolution
  \/ \E m \in Methods : ChooseMethod(m)
  \/ BeginScan \/ CancelScan \/ Rescan \/ Finish
  \/ OpenHistory \/ CloseHistory \/ OpenSettings \/ CloseSettings
  \/ Resume \/ RemoveEntry \/ Clear \/ SetKeep
  \/ Restart

Spec == Init /\ [][Next]_vars

-----------------------------------------------------------------------------
EntryType ==
  [id : Nat \ {0}, scanned : Cubes, from : Cubes, method : Methods, turn : Nat, turns : Nat,
   finished : BOOLEAN]

\* The type of the state, and what load() asks of an entry: the turn reached is
\* one of the solution's.
TypeOK ==
  /\ SolveTypeOK
  /\ scanned \in Cubes \cup {None}
  /\ entries \in Seq(EntryType) /\ file \in Seq(EntryType)
  /\ \A e \in Entries : e.turn <= e.turns
  /\ writeFailed \in BOOLEAN /\ keep \in BOOLEAN /\ recorded \in BOOLEAN
  /\ current \in Nat /\ resuming \in Nat
  /\ screen \in {"launch", "history", "scan", "solve", "settings", "complete"}
  /\ previous \in {"launch", "history", "scan", "solve", "complete"}
  /\ scanComplete \in BOOLEAN
  /\ made \in Nat

\* The list is newest first, no id is on it twice and it is never longer than
\* it may be, whatever was deleted, dropped off the end or read back: find(),
\* update() and the screens go by the id alone.
NewestFirst ==
  /\ Len(entries) <= Capacity
  /\ \A i, j \in DOMAIN entries : i < j => entries[i].id > entries[j].id

\* The entry followed says where the cube in hand is: carried on from it, the
\* solve would be at the very turn of the very solution it is at now, and of
\* the cube that was scanned.  So stopping here, or a crash, loses nothing.
EntryLeadsHere ==
  current # NoEntry =>
    /\ Kept(current)
    /\ LET e == Entry(current)
       IN /\ SteppedOn(SteppedFrom(e.method, e.from), e.turn) = stepped
          /\ ~isSolving => e.scanned = scanned

\* A solve that is over stays as it was finished: later turns, another method
\* chosen or another cube scanned never change its entry.  Only starting again
\* from the older list a failed write left behind can.
FinishedStays ==
  [][\/ writeFailed /\ entries' = file
     \/ \A e \in Entries : e.finished => \A f \in Entries' : f.id = e.id => f = e]_vars

\* One solve makes at most one entry: deleting it, clearing the list, changing
\* the method or switching the history off and on again in the middle of the
\* solve is not undone by the next turn.
OneEntryPerSolve == made <= 1

\* A crash loses at most the turn being taken: unless the last write failed,
\* the file holds the list as it is.
ListIsOnDisk == ~writeFailed => file = entries

\* Nor is the place in the solve lost: carried on from what the file holds,
\* which is from its first unfinished entry, the program that was cut short is
\* at the very turn of the very solution that was in hand.
CrashLosesNothing ==
  current # NoEntry /\ ~writeFailed =>
    \E i \in DOMAIN file :
      /\ ~file[i].finished /\ \A j \in 1..(i - 1) : file[j].finished
      /\ SteppedOn(SteppedFrom(file[i].method, file[i].from), file[i].turn) = stepped

\* solve_history.hpp: "'Keep a history of solves' off stops all of that -
\* nothing is added or changed - and deletes nothing".
KeepOffChangesNothing ==
  [][~keep /\ ~writeFailed => \A e \in Entries : \A f \in Entries' : f.id = e.id => f = e]_vars

\* solve_history.cpp on the solve that resume() asked for: it "has landed, on the
\* turn it was left at. The entry already says everything it should".
ResumedEntrySaysEverything ==
  [][resuming # NoEntry /\ ~isSolving' /\ current' # NoEntry =>
       LET e == Entry(current)'
       IN e.method = stepped'.method /\ e.from = stepped'.from]_vars

=============================================================================

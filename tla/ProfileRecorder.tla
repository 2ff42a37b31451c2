-------------------------- MODULE ProfileRecorder --------------------------
(***************************************************************************)
(* cube::profile::Recorder, the ring of timing events that the profiling   *)
(* macros of any thread write to and that snapshot() reads while they do   *)
(* (lib/src/profile/recorder.cpp). No lock is taken: each slot has a       *)
(* sequence number, odd while its event is being written, that the reader  *)
(* looks at before and after.                                              *)
(*                                                                         *)
(* Every step is one atomic access. The fences make the accesses to one    *)
(* slot take effect in the order written, which is the order they have     *)
(* here. What a word says is abstracted to which event it is of.           *)
(***************************************************************************)
EXTENDS Naturals, FiniteSets

CONSTANTS
  Writers,      \* the threads that record
  Size,         \* slots, a power of two in the code
  WordCount,    \* name and words: how many stores an event takes
  Unwritten,
  MaxRecorded   \* bounds Claim

ASSUME SizesOK == Size \in Nat \ {0} /\ WordCount \in Nat \ {0}
ASSUME UnwrittenIsNoEvent == Unwritten \notin [index : Nat, again : BOOLEAN]

VARIABLES
  head,      \* head_: the index the next event gets
  sequence,  \* of each slot
  words,     \* of each slot: whose word it is
  writer,    \* each thread in record(): its event, how far it is
  reader,    \* snapshot(): the index it is at, how far it is
  events,    \* what the snapshot has: the index read, whose words it got
  cleared    \* history: clear() has been called

recorderVars == <<head, sequence, words, writer, reader, events, cleared>>

Slots == 0..(Size - 1)
SlotOf(index) == index % Size
Words == 1..WordCount

(* An event is told by its index and by whether it is of before or after   *)
(* the clearing; no event is under way during that.                        *)
Events == [index : Nat, again : BOOLEAN]
EventOf(index) == [index |-> index, again |-> cleared]

Idle == [pc |-> "idle", index |-> 0, word |-> 1]
AtRest == [pc |-> "idle", index |-> 0, head |-> 0, word |-> 1,
           got |-> [k \in Words |-> Unwritten]]

RecorderInit ==
  /\ head = 0
  /\ sequence = [j \in Slots |-> 0]
  /\ words = [j \in Slots |-> [k \in Words |-> Unwritten]]
  /\ writer = [w \in Writers |-> Idle]
  /\ reader = AtRest /\ events = {} /\ cleared = FALSE

Busy(w) == writer[w].pc # "idle"

-----------------------------------------------------------------------------
(* record()                                                                *)

(* head_.fetch_add(). Nothing guards against a writer a whole lap of the   *)
(* ring behind; that none is, is the recorder's own assumption.            *)
Claim(w) ==
  /\ ~Busy(w) /\ head < MaxRecorded
  /\ \A v \in Writers : Busy(v) => SlotOf(writer[v].index) # SlotOf(head)
  /\ writer' = [writer EXCEPT ![w] = [pc |-> "claimed", index |-> head, word |-> 1]]
  /\ head' = head + 1
  /\ UNCHANGED <<sequence, words, reader, events, cleared>>

StoreOdd(w) ==
  /\ writer[w].pc = "claimed"
  /\ sequence' = [sequence EXCEPT ![SlotOf(writer[w].index)] = 2 * writer[w].index + 1]
  /\ writer' = [writer EXCEPT ![w].pc = "writing"]
  /\ UNCHANGED <<head, words, reader, events, cleared>>

\* Mutant of StoreWord: it does not stop at the last word.
StoreWordToo(w) ==
  /\ writer[w].pc = "writing"
  /\ words' = [words EXCEPT ![SlotOf(writer[w].index)][1] = EventOf(writer[w].index)]
  /\ writer' = [writer EXCEPT ![w].word = @ + 1]
  /\ UNCHANGED <<head, sequence, reader, events, cleared>>

StoreWord(w) ==
  /\ writer[w].pc = "writing" /\ writer[w].word \in Words
  /\ words' = [words EXCEPT ![SlotOf(writer[w].index)][writer[w].word] =
                                  EventOf(writer[w].index)]
  /\ writer' = [writer EXCEPT ![w].word = @ + 1]
  /\ UNCHANGED <<head, sequence, reader, events, cleared>>

StoreEven(w) ==
  /\ writer[w].pc = "writing" /\ writer[w].word > WordCount
  /\ sequence' = [sequence EXCEPT ![SlotOf(writer[w].index)] = 2 * writer[w].index + 2]
  /\ writer' = [writer EXCEPT ![w] = Idle]
  /\ UNCHANGED <<head, words, reader, events, cleared>>

-----------------------------------------------------------------------------
(* snapshot(), from the oldest event the ring can hold to the newest       *)

Oldest == IF head < Size THEN 0 ELSE head - Size

BeginSnapshot ==
  /\ reader.pc = "idle"
  /\ reader' = [AtRest EXCEPT !.pc = "before", !.index = Oldest, !.head = head]
  /\ events' = {}
  /\ UNCHANGED <<head, sequence, words, writer, cleared>>

NextSlot == [AtRest EXCEPT !.pc = "before", !.index = reader.index + 1,
                           !.head = reader.head]

(* Being written, or overwritten by a later lap: skipped.                  *)
LoadBefore ==
  /\ reader.pc = "before" /\ reader.index < reader.head
  /\ reader' = IF sequence[SlotOf(reader.index)] = 2 * reader.index + 2
               THEN [reader EXCEPT !.pc = "words"] ELSE NextSlot
  /\ UNCHANGED <<head, sequence, words, writer, events, cleared>>

LoadWord ==
  /\ reader.pc = "words" /\ reader.word \in Words
  /\ reader' = [reader EXCEPT !.got[reader.word] = words[SlotOf(reader.index)][reader.word],
                              !.word = @ + 1]
  /\ UNCHANGED <<head, sequence, words, writer, events, cleared>>

\* Mutant of LoadAfter: the sequence number is not looked at again.
LoadNoMore ==
  /\ reader.pc = "words" /\ reader.word > WordCount
  /\ events' = events \cup {[index |-> reader.index, words |-> reader.got]}
  /\ reader' = NextSlot
  /\ UNCHANGED <<head, sequence, words, writer, cleared>>

LoadAfter ==
  /\ reader.pc = "words" /\ reader.word > WordCount
  /\ events' = IF sequence[SlotOf(reader.index)] = 2 * reader.index + 2
               THEN events \cup {[index |-> reader.index, words |-> reader.got]}
               ELSE events
  /\ reader' = NextSlot
  /\ UNCHANGED <<head, sequence, words, writer, cleared>>

EndSnapshot ==
  /\ reader.pc = "before" /\ reader.index >= reader.head
  /\ reader' = AtRest
  /\ UNCHANGED <<head, sequence, words, writer, events, cleared>>

(* clear() is for when nothing is recording, and is called by the thread   *)
(* that takes the snapshots. The slots keep what they hold.                *)
Clear ==
  /\ \A w \in Writers : ~Busy(w)
  /\ reader.pc = "idle" /\ ~cleared
  /\ head' = 0 /\ cleared' = TRUE
  /\ UNCHANGED <<sequence, words, writer, reader, events>>

-----------------------------------------------------------------------------
Record(w) == Claim(w) \/ StoreOdd(w) \/ StoreWord(w) \/ StoreEven(w)
Snapshot == BeginSnapshot \/ LoadBefore \/ LoadWord \/ LoadAfter \/ EndSnapshot
RecorderNext == (\E w \in Writers : Record(w)) \/ Snapshot \/ Clear

RecorderSpec == RecorderInit /\ [][RecorderNext]_recorderVars

-----------------------------------------------------------------------------
RecorderTypeOK ==
  /\ head \in Nat
  /\ sequence \in [Slots -> Nat]
  /\ words \in [Slots -> [Words -> Events \cup {Unwritten}]]
  /\ writer \in [Writers -> [pc : {"idle", "claimed", "writing"}, index : Nat,
                             word : 1..(WordCount + 1)]]
  /\ reader \in [pc : {"idle", "before", "words"}, index : Nat, head : Nat,
                 word : 1..(WordCount + 1), got : [Words -> Events \cup {Unwritten}]]
  /\ events \subseteq [index : Nat, words : [Words -> Events \cup {Unwritten}]]
  /\ cleared \in BOOLEAN

(* An event that a snapshot returns is whole, and is the one asked for: a  *)
(* slot that is rewritten under the reader, by however many laps, is       *)
(* skipped and not read torn. Of a ring that has not been cleared: clear() *)
(* starts the numbers again and leaves the slots, so the number of an old  *)
(* event is taken for that of a new one in the same place.                 *)
NoTornEvent ==
  ~cleared => \A e \in events : \A k \in Words : e.words[k] = EventOf(e.index)
=============================================================================

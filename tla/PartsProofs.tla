----------------------------- MODULE PartsProofs -----------------------------
(***************************************************************************)
(* What TLAPS proves of three parts that stand by themselves, each of its  *)
(* own specification: the profile recorder, the page's isolation and the   *)
(* merging of moves; and of the five parts together.  SideScanProofs is    *)
(* extended for its induction over the natural numbers too.                *)
(***************************************************************************)
EXTENDS Parts, SideScanProofs, WebCameraProofs

-----------------------------------------------------------------------------
(* The profile recorder                                                    *)
(*                                                                         *)
(* NoTornEvent needs more than itself: that a slot whose number is even    *)
(* holds that event whole, that a slot's number only grows (so a reader    *)
(* that finds the number it read before knows that nothing was written in  *)
(* between), and that no two writers are on one slot.                      *)


\* An index has a slot.
LEMMA SlotIsASlot == \A i \in Nat : SlotOf(i) \in Slots
  BY SizesOK, SMT DEF SlotOf, Slots

\* A slot's number is of an event that was claimed.
NumbersAreClaimed == \A j \in Slots : sequence[j] <= 2 * head

\* A slot with an even number holds that event, whole.
EvenIsWhole ==
  \A j \in Slots : \A i \in Nat :
    sequence[j] = 2 * i + 2 => \A k \in Words : words[j][k] = EventOf(i)

\* Every writer has an index of its own, and a slot of its own.
OwnSlots ==
  /\ \A w \in Writers : Busy(w) => writer[w].index < head
  /\ \A v, w \in Writers :
       Busy(v) /\ Busy(w) /\ SlotOf(writer[v].index) = SlotOf(writer[w].index) => v = w

\* A writer that has marked its slot finds the mark, and its words so far.
MarkedBy(w) ==
  /\ sequence[SlotOf(writer[w].index)] = 2 * writer[w].index + 1
  /\ \A k \in Words : k < writer[w].word =>
       words[SlotOf(writer[w].index)][k] = EventOf(writer[w].index)
Marked == \A w \in Writers : writer[w].pc = "writing" => MarkedBy(w)

\* One that has not yet will raise the slot's number.
WillRaise ==
  \A w \in Writers : writer[w].pc = "claimed" =>
    /\ sequence[SlotOf(writer[w].index)] <= 2 * writer[w].index
    /\ writer[w].word = 1

\* The slot under the reader is at the number it read or past it, and until
\* it is past it the words read are that event's.
ReadSoFar ==
  /\ reader.pc = "before" => reader.word = 1
  /\ reader.pc = "words" =>
       /\ sequence[SlotOf(reader.index)] >= 2 * reader.index + 2
       /\ sequence[SlotOf(reader.index)] = 2 * reader.index + 2 =>
            \A k \in Words : k < reader.word => reader.got[k] = EventOf(reader.index)

EventsAreWhole == \A e \in events : \A k \in Words : e.words[k] = EventOf(e.index)

Ring ==
  /\ NumbersAreClaimed /\ EvenIsWhole /\ OwnSlots /\ Marked /\ WillRaise
  /\ ReadSoFar /\ EventsAreWhole

RingInv == RecorderTypeOK /\ (~cleared => Ring)

-----------------------------------------------------------------------------
\* The types hold at first.
LEMMA RecorderTypesInit == RecorderInit => RecorderTypeOK
  <1> SUFFICES ASSUME RecorderInit PROVE RecorderTypeOK
    OBVIOUS
  <1>1. 1 \in 1..(WordCount + 1)
    BY SizesOK
  <1>2. [k \in Words |-> Unwritten] \in [Words -> Events \cup {Unwritten}]
    OBVIOUS
  <1>3. writer \in [Writers -> [pc : {"idle", "claimed", "writing"}, index : Nat,
                                word : 1..(WordCount + 1)]]
    BY <1>1 DEF RecorderInit, Idle
  <1>4. reader \in [pc : {"idle", "before", "words"}, index : Nat, head : Nat,
                    word : 1..(WordCount + 1), got : [Words -> Events \cup {Unwritten}]]
    BY <1>1, <1>2 DEF RecorderInit, AtRest
  <1> QED
    BY <1>2, <1>3, <1>4 DEF RecorderInit, RecorderTypeOK

\* Every step keeps the types.
LEMMA RecorderTypesStep == RecorderTypeOK /\ [RecorderNext]_recorderVars => RecorderTypeOK'
  <1> DEFINE WriterType == [pc : {"idle", "claimed", "writing"}, index : Nat,
                            word : 1..(WordCount + 1)]
             ReaderType == [pc : {"idle", "before", "words"}, index : Nat, head : Nat,
                            word : 1..(WordCount + 1),
                            got : [Words -> Events \cup {Unwritten}]]
             EventType == [index : Nat, words : [Words -> Events \cup {Unwritten}]]
  <1> SUFFICES ASSUME RecorderTypeOK, [RecorderNext]_recorderVars
               PROVE  RecorderTypeOK'
    OBVIOUS
  <1>a. 1 \in 1..(WordCount + 1)
    BY SizesOK
  <1>b. \A k \in Words : k + 1 \in 1..(WordCount + 1)
    BY SizesOK DEF Words
  <1>c. AtRest \in ReaderType
    <2>1. [k \in Words |-> Unwritten] \in [Words -> Events \cup {Unwritten}]
      OBVIOUS
    <2> QED
      BY <1>a, <2>1 DEF AtRest
  <1>d. Oldest \in Nat
    BY SizesOK DEF RecorderTypeOK, Oldest
  <1>e. reader \in ReaderType /\ writer \in [Writers -> WriterType]
    BY DEF RecorderTypeOK
  <1>f. NextSlot \in ReaderType
    <2>1. reader.index + 1 \in Nat /\ reader.head \in Nat
      BY <1>e
    <2> QED
      BY <1>c, <2>1 DEF NextSlot
  <1>1. ASSUME NEW w \in Writers, Claim(w) PROVE RecorderTypeOK'
    <2>1. [pc |-> "claimed", index |-> head, word |-> 1] \in WriterType
      BY <1>a DEF RecorderTypeOK
    <2>2. writer' \in [Writers -> WriterType]
      BY <1>1, <1>e, <2>1 DEF Claim
    <2> QED
      BY <1>1, <2>2 DEF Claim, RecorderTypeOK
  <1>2. ASSUME NEW w \in Writers, StoreOdd(w) PROVE RecorderTypeOK'
    <2>1. 2 * writer[w].index + 1 \in Nat
      BY <1>e
    <2>2. sequence' \in [Slots -> Nat]
      BY <1>2, <2>1 DEF StoreOdd, RecorderTypeOK
    <2>3. writer' \in [Writers -> WriterType]
      BY <1>2, <1>e DEF StoreOdd
    <2> QED
      BY <1>2, <2>2, <2>3 DEF StoreOdd, RecorderTypeOK
  <1>3. ASSUME NEW w \in Writers, StoreWord(w) PROVE RecorderTypeOK'
    <2>1. EventOf(writer[w].index) \in Events
      BY DEF EventOf, Events, RecorderTypeOK
    <2>2. words' \in [Slots -> [Words -> Events \cup {Unwritten}]]
      BY <1>3, <2>1, SlotIsASlot DEF StoreWord, RecorderTypeOK
    <2>3. writer[w].word + 1 \in 1..(WordCount + 1)
      BY <1>3, <1>b DEF StoreWord
    <2>4. writer' \in [Writers -> WriterType]
      BY <1>3, <1>e, <2>3 DEF StoreWord
    <2> QED
      BY <1>3, <2>2, <2>4 DEF StoreWord, RecorderTypeOK
  <1>4. ASSUME NEW w \in Writers, StoreEven(w) PROVE RecorderTypeOK'
    <2>1. Idle \in WriterType
      BY <1>a DEF Idle
    <2> QED
      BY <1>4, <2>1, SlotIsASlot DEF StoreEven, RecorderTypeOK
  <1>5. CASE BeginSnapshot
    <2>1. reader' \in ReaderType
      BY <1>5, <1>c, <1>d DEF BeginSnapshot, RecorderTypeOK
    <2> QED
      BY <1>5, <2>1 DEF BeginSnapshot, RecorderTypeOK
  <1>6. CASE LoadBefore
    <2>1. reader' \in ReaderType
      BY <1>6, <1>e, <1>f DEF LoadBefore
    <2> QED
      BY <1>6, <2>1 DEF LoadBefore, RecorderTypeOK
  <1>7. CASE LoadWord
    <2>1. words[SlotOf(reader.index)][reader.word] \in Events \cup {Unwritten}
      BY <1>7, SlotIsASlot DEF LoadWord, RecorderTypeOK
    <2>2. reader.word + 1 \in 1..(WordCount + 1)
      BY <1>7, <1>b DEF LoadWord
    <2>3. reader' \in ReaderType
      BY <1>7, <1>e, <2>1, <2>2 DEF LoadWord
    <2> QED
      BY <1>7, <2>3 DEF LoadWord, RecorderTypeOK
  <1>8. CASE LoadAfter
    <2>1. [index |-> reader.index, words |-> reader.got] \in EventType
      BY <1>e
    <2>2. events' \subseteq EventType
      BY <1>8, <2>1 DEF LoadAfter, RecorderTypeOK
    <2> QED
      BY <1>8, <1>f, <2>2 DEF LoadAfter, RecorderTypeOK
  <1>9. CASE EndSnapshot
    BY <1>9, <1>c DEF EndSnapshot, RecorderTypeOK
  <1>10. CASE Clear
    BY <1>10 DEF Clear, RecorderTypeOK
  <1>11. CASE UNCHANGED recorderVars
    BY <1>11 DEF recorderVars, RecorderTypeOK
  <1> QED
    BY <1>1, <1>2, <1>3, <1>4, <1>5, <1>6, <1>7, <1>8, <1>9, <1>10, <1>11
       DEF RecorderNext, Record, Snapshot

\* The variables always have their types.
THEOREM RecorderTypes == RecorderSpec => []RecorderTypeOK
  BY RecorderTypesInit, RecorderTypesStep, PTL DEF RecorderSpec

-----------------------------------------------------------------------------
\* An event's two numbers are no other event's.
LEMMA Numbers ==
  \A i, n \in Nat : 2 * i + 1 # 2 * n + 2 /\ (2 * i + 2 = 2 * n + 2 => n = i)
  BY SMT

\* An empty ring is in order.
LEMMA RingInit == RecorderInit => Ring
  <1> SUFFICES ASSUME RecorderInit PROVE Ring
    OBVIOUS
  <1> QED
    BY DEF RecorderInit, Ring, NumbersAreClaimed, EvenIsWhole, OwnSlots, Marked, MarkedBy,
           WillRaise, ReadSoFar, EventsAreWhole, Busy, Idle, AtRest

\* What a writer does keeps it in order.
LEMMA RingRecord ==
  ASSUME NEW w \in Writers, RecorderTypeOK, Ring, ~cleared, Record(w)
  PROVE  Ring'
  <1> USE SlotIsASlot, SizesOK DEF RecorderTypeOK, Busy
  <1>1. CASE Claim(w)
    <2>1. NumbersAreClaimed'
      BY <1>1 DEF Claim, Ring, NumbersAreClaimed
    <2>2. EvenIsWhole'
      BY <1>1 DEF Claim, Ring, EvenIsWhole, EventOf
    <2>3. OwnSlots'
      BY <1>1 DEF Claim, Ring, OwnSlots
    <2>4. Marked'
      BY <1>1 DEF Claim, Ring, Marked, MarkedBy, EventOf
    <2>5. WillRaise'
      BY <1>1 DEF Claim, Ring, WillRaise, NumbersAreClaimed
    <2>6. ReadSoFar' /\ EventsAreWhole'
      BY <1>1 DEF Claim, Ring, ReadSoFar, EventsAreWhole, EventOf
    <2> QED
      BY <2>1, <2>2, <2>3, <2>4, <2>5, <2>6 DEF Ring
  <1>2. CASE StoreOdd(w)
    <2> DEFINE i == writer[w].index
    <2>1. i \in Nat /\ i < head /\ sequence[SlotOf(i)] <= 2 * i
      BY <1>2 DEF StoreOdd, Ring, OwnSlots, WillRaise
    <2>2. NumbersAreClaimed'
      BY <1>2, <2>1 DEF StoreOdd, Ring, NumbersAreClaimed
    <2>3. EvenIsWhole'
      <3> SUFFICES ASSUME NEW j \in Slots, NEW n \in Nat, sequence'[j] = 2 * n + 2
                   PROVE  \A k \in Words : words'[j][k] = EventOf(n)'
        BY DEF EvenIsWhole
      <3>1. 2 * i + 1 # 2 * n + 2
        BY <2>1, Numbers
      <3>2. sequence'[SlotOf(i)] = 2 * i + 1
        BY <1>2, <2>1 DEF StoreOdd
      <3>3. j # SlotOf(i)
        BY <3>1, <3>2
      <3> QED
        BY <1>2, <3>3 DEF StoreOdd, Ring, EvenIsWhole, EventOf
    <2>4. OwnSlots'
      BY <1>2 DEF StoreOdd, Ring, OwnSlots
    <2>5. Marked'
      <3> SUFFICES ASSUME NEW v \in Writers, (writer[v].pc = "writing")'
                   PROVE  MarkedBy(v)'
        BY DEF Marked
      <3>1. CASE v = w
        <4>1. writer[w].word = 1
          BY <1>2 DEF StoreOdd, Ring, WillRaise
        <4>2. writer'[w].index = i /\ writer'[w].word = 1
          BY <1>2, <4>1 DEF StoreOdd
        <4>3. sequence'[SlotOf(i)] = 2 * i + 1
          BY <1>2, <2>1 DEF StoreOdd
        <4>4. \A k \in Words : ~(k < 1)
          BY DEF Words
        <4> QED
          BY <3>1, <4>2, <4>3, <4>4 DEF MarkedBy
      <3>2. CASE v # w
        <4>1. writer'[v] = writer[v] /\ SlotOf(writer[v].index) # SlotOf(i)
          BY <1>2, <3>2 DEF StoreOdd, Ring, OwnSlots
        <4> QED
          BY <1>2, <4>1 DEF StoreOdd, Ring, Marked, MarkedBy, EventOf
      <3> QED
        BY <3>1, <3>2
    <2>6. WillRaise'
      BY <1>2, <2>1 DEF StoreOdd, Ring, WillRaise, OwnSlots
    <2>7. ReadSoFar' /\ EventsAreWhole'
      BY <1>2, <2>1 DEF StoreOdd, Ring, ReadSoFar, EventsAreWhole, EventOf
    <2> QED
      BY <2>2, <2>3, <2>4, <2>5, <2>6, <2>7 DEF Ring
  <1>3. CASE StoreWord(w)
    <2> DEFINE i == writer[w].index
    <2>1. i \in Nat /\ sequence[SlotOf(i)] = 2 * i + 1
      BY <1>3 DEF StoreWord, Ring, Marked, MarkedBy
    <2>2. NumbersAreClaimed' /\ WillRaise'
      BY <1>3 DEF StoreWord, Ring, NumbersAreClaimed, WillRaise
    <2>3. EvenIsWhole'
      <3> SUFFICES ASSUME NEW j \in Slots, NEW n \in Nat, sequence'[j] = 2 * n + 2
                   PROVE  \A k \in Words : words'[j][k] = EventOf(n)'
        BY DEF EvenIsWhole
      <3>1. 2 * i + 1 # 2 * n + 2
        BY <2>1, Numbers
      <3>2. j # SlotOf(i)
        BY <1>3, <2>1, <3>1 DEF StoreWord
      <3> QED
        BY <1>3, <3>2 DEF StoreWord, Ring, EvenIsWhole, EventOf
    <2>4. OwnSlots'
      BY <1>3 DEF StoreWord, Ring, OwnSlots
    <2>5. Marked'
      <3> SUFFICES ASSUME NEW v \in Writers, (writer[v].pc = "writing")'
                   PROVE  MarkedBy(v)'
        BY DEF Marked
      <3>1. CASE v = w
        <4>1. words'[SlotOf(i)] = [words[SlotOf(i)] EXCEPT ![writer[w].word] = EventOf(i)]
          BY <1>3, <2>1 DEF StoreWord
        <4>2. \A k \in Words : k < writer[w].word => words[SlotOf(i)][k] = EventOf(i)
          BY <1>3 DEF StoreWord, Ring, Marked, MarkedBy
        <4>3. writer'[w].index = i /\ writer'[w].word = writer[w].word + 1
          BY <1>3 DEF StoreWord
        <4>4. \A k \in Words : k < writer[w].word + 1 => k < writer[w].word \/ k = writer[w].word
          BY DEF Words
        <4>5. words[SlotOf(i)] \in [Words -> Events \cup {Unwritten}]
          BY <2>1
        <4>6. \A k \in Words : k < writer[w].word + 1 => words'[SlotOf(i)][k] = EventOf(i)
          BY <4>1, <4>2, <4>4, <4>5
        <4> QED
          BY <1>3, <2>1, <3>1, <4>3, <4>6 DEF StoreWord, EventOf, MarkedBy
      <3>2. CASE v # w
        <4>1. writer'[v] = writer[v] /\ SlotOf(writer[v].index) # SlotOf(i)
          BY <1>3, <3>2 DEF StoreWord, Ring, OwnSlots
        <4> QED
          BY <1>3, <4>1 DEF StoreWord, Ring, Marked, MarkedBy, EventOf
      <3> QED
        BY <3>1, <3>2
    <2>6. ReadSoFar' /\ EventsAreWhole'
      BY <1>3 DEF StoreWord, Ring, ReadSoFar, EventsAreWhole, EventOf
    <2> QED
      BY <2>2, <2>3, <2>4, <2>5, <2>6 DEF Ring
  <1>4. CASE StoreEven(w)
    <2> DEFINE i == writer[w].index
    <2>1. i \in Nat /\ i < head /\ sequence[SlotOf(i)] = 2 * i + 1
      BY <1>4 DEF StoreEven, Ring, Marked, MarkedBy, OwnSlots
    <2>2. \A k \in Words : words[SlotOf(i)][k] = EventOf(i)
      <3>1. \A k \in Words : k < writer[w].word
        BY <1>4 DEF StoreEven, Words
      <3> QED
        BY <1>4, <3>1 DEF StoreEven, Ring, Marked, MarkedBy
    <2>3. NumbersAreClaimed'
      BY <1>4, <2>1 DEF StoreEven, Ring, NumbersAreClaimed
    <2>4. EvenIsWhole'
      <3> SUFFICES ASSUME NEW j \in Slots, NEW n \in Nat, sequence'[j] = 2 * n + 2
                   PROVE  \A k \in Words : words'[j][k] = EventOf(n)'
        BY DEF EvenIsWhole
      <3>1. CASE j = SlotOf(i)
        <4>1. sequence'[j] = 2 * i + 2
          BY <1>4, <2>1, <3>1 DEF StoreEven
        <4>2. n = i
          BY <2>1, <4>1, Numbers
        <4> QED
          BY <1>4, <2>2, <3>1, <4>2 DEF StoreEven, EventOf
      <3>2. CASE j # SlotOf(i)
        BY <1>4, <3>2 DEF StoreEven, Ring, EvenIsWhole, EventOf
      <3> QED
        BY <3>1, <3>2
    <2>5. OwnSlots'
      BY <1>4 DEF StoreEven, Ring, OwnSlots, Idle
    <2>6. Marked'
      BY <1>4, <2>1 DEF StoreEven, Ring, Marked, MarkedBy, OwnSlots, EventOf, Idle
    <2>7. WillRaise'
      BY <1>4, <2>1 DEF StoreEven, Ring, WillRaise, OwnSlots, Idle
    <2>8. ReadSoFar' /\ EventsAreWhole'
      BY <1>4, <2>1 DEF StoreEven, Ring, ReadSoFar, EventsAreWhole, EventOf
    <2> QED
      BY <2>3, <2>4, <2>5, <2>6, <2>7, <2>8 DEF Ring
  <1> QED
    BY <1>1, <1>2, <1>3, <1>4 DEF Record

\* What the reader does keeps it in order.
LEMMA RingSnapshot ==
  ASSUME RecorderTypeOK, Ring, ~cleared, Snapshot
  PROVE  Ring'
  <1> DEFINE i == reader.index
  <1>1. UNCHANGED <<head, sequence, words, writer, cleared>>
    BY DEF Snapshot, BeginSnapshot, LoadBefore, LoadWord, LoadAfter, EndSnapshot
  <1>2. (NumbersAreClaimed /\ EvenIsWhole /\ OwnSlots /\ Marked /\ WillRaise)'
    BY <1>1 DEF Ring, NumbersAreClaimed, EvenIsWhole, OwnSlots, Marked, MarkedBy,
                WillRaise, Busy, EventOf
  <1>3. i \in Nat /\ SlotOf(i) \in Slots /\ sequence[SlotOf(i)] \in Nat
    BY SlotIsASlot DEF RecorderTypeOK
  <1>4. \A k \in Words : k \in Nat /\ ~(k < 1)
    BY DEF Words
  <1>5. ReadSoFar'
    <2>1. CASE LoadBefore /\ sequence[SlotOf(i)] = 2 * i + 2
      <3>1. reader' = [reader EXCEPT !.pc = "words"] /\ reader.word = 1
        BY <2>1 DEF LoadBefore, Ring, ReadSoFar
      <3>2. reader'.pc = "words" /\ reader'.index = i /\ reader'.word = 1
        BY <3>1 DEF RecorderTypeOK
      <3> QED
        BY <1>1, <1>3, <1>4, <2>1, <3>2 DEF ReadSoFar
    <2>2. CASE LoadWord
      <3>1. /\ reader'.pc = "words" /\ reader'.index = i
            /\ reader'.word = reader.word + 1
            /\ reader'.got = [reader.got EXCEPT ![reader.word] =
                                words[SlotOf(i)][reader.word]]
        BY <2>2 DEF LoadWord, RecorderTypeOK
      <3>2. sequence[SlotOf(i)] >= 2 * i + 2
        BY <2>2 DEF LoadWord, Ring, ReadSoFar
      <3>3. ASSUME sequence[SlotOf(i)] = 2 * i + 2,
                   NEW k \in Words, k < reader.word + 1
            PROVE  reader'.got[k] = EventOf(i)
        <4>1. reader.got \in [Words -> Events \cup {Unwritten}] /\ reader.word \in Words
          BY <2>2 DEF LoadWord, RecorderTypeOK
        <4>2. CASE k = reader.word
          BY <1>3, <3>1, <3>3, <4>1, <4>2 DEF Ring, EvenIsWhole
        <4>3. CASE k # reader.word
          <5>1. k < reader.word
            BY <3>3, <4>1, <4>3 DEF Words
          <5>2. reader.got[k] = EventOf(i)
            BY <2>2, <3>3, <5>1 DEF LoadWord, Ring, ReadSoFar
          <5> QED
            BY <3>1, <4>1, <4>3, <5>2
        <4> QED
          BY <4>2, <4>3
      <3> QED
        BY <1>1, <3>1, <3>2, <3>3 DEF ReadSoFar, EventOf
    <2>3. CASE ~(LoadBefore /\ sequence[SlotOf(i)] = 2 * i + 2) /\ ~LoadWord
      <3>1. AtRest.pc = "idle" /\ NextSlot.pc = "before" /\ NextSlot.word = 1
        BY DEF AtRest, NextSlot
      <3>2. \/ reader' = [AtRest EXCEPT !.pc = "before", !.index = Oldest, !.head = head]
            \/ reader' = NextSlot \/ reader' = AtRest
        BY <2>3 DEF Snapshot, BeginSnapshot, LoadBefore, LoadAfter, EndSnapshot
      <3>3. reader'.pc \in {"idle", "before"} /\ (reader'.pc = "before" => reader'.word = 1)
        BY <3>1, <3>2 DEF AtRest
      <3> QED
        BY <3>3 DEF ReadSoFar
    <2> QED
      BY <2>1, <2>2, <2>3
  <1>6. EventsAreWhole'
    <2>1. CASE LoadAfter /\ sequence[SlotOf(i)] = 2 * i + 2
      <3>1. \A k \in Words : k < reader.word
        BY <2>1, SizesOK DEF LoadAfter, RecorderTypeOK, Words
      <3>2. \A k \in Words : reader.got[k] = EventOf(i)
        BY <2>1, <3>1 DEF LoadAfter, Ring, ReadSoFar
      <3>3. events' = events \cup {[index |-> i, words |-> reader.got]}
        BY <2>1 DEF LoadAfter
      <3> QED
        BY <1>1, <3>2, <3>3 DEF Ring, EventsAreWhole, EventOf
    <2>2. CASE ~(LoadAfter /\ sequence[SlotOf(i)] = 2 * i + 2)
      <3>1. events' = events \/ events' = {}
        BY <2>2 DEF Snapshot, BeginSnapshot, LoadBefore, LoadWord, LoadAfter, EndSnapshot
      <3> QED
        BY <1>1, <3>1 DEF Ring, EventsAreWhole, EventOf
    <2> QED
      BY <2>1, <2>2
  <1> QED
    BY <1>2, <1>5, <1>6 DEF Ring

-----------------------------------------------------------------------------
\* Whatever is recorded while a snapshot is taken, an event that it returns
\* is whole and is the one at its index, as long as the ring is not cleared.
THEOREM NothingTorn == RecorderSpec => []NoTornEvent
  <1>1. RecorderInit => RingInv
    BY RecorderTypesInit, RingInit DEF RingInv
  <1>2. RingInv /\ [RecorderNext]_recorderVars => RingInv'
    <2> SUFFICES ASSUME RingInv, [RecorderNext]_recorderVars PROVE RingInv'
      OBVIOUS
    <2>1. RecorderTypeOK /\ RecorderTypeOK'
      BY RecorderTypesStep DEF RingInv
    <2>2. ASSUME ~cleared' PROVE Ring'
      <3>a. ~Clear
        BY <2>2 DEF Clear
      <3>b. UNCHANGED cleared
        BY <3>a DEF RecorderNext, Record, Snapshot, Claim, StoreOdd, StoreWord,
           StoreEven, BeginSnapshot, LoadBefore, LoadWord, LoadAfter, EndSnapshot,
           recorderVars
      <3>1. ~cleared /\ ~Clear
        BY <2>2, <3>a, <3>b
      <3>2. CASE \E w \in Writers : Record(w)
        BY <2>1, <3>1, <3>2, RingRecord DEF RingInv
      <3>3. CASE Snapshot
        BY <2>1, <3>1, <3>3, RingSnapshot DEF RingInv
      <3>4. CASE UNCHANGED recorderVars
        BY <3>1, <3>4 DEF RingInv, Ring, NumbersAreClaimed, EvenIsWhole, OwnSlots, Marked,
           MarkedBy, WillRaise, ReadSoFar, EventsAreWhole, Busy, EventOf, recorderVars
      <3> QED
        BY <3>1, <3>2, <3>3, <3>4 DEF RecorderNext
    <2> QED
      BY <2>1, <2>2 DEF RingInv
  <1>3. RingInv => NoTornEvent
    BY DEF RingInv, Ring, EventsAreWhole, NoTornEvent
  <1> QED
    BY <1>1, <1>2, <1>3, PTL DEF RecorderSpec

-----------------------------------------------------------------------------
(* The page's isolation                                                    *)

Pages == [pc : Pcs, hard : BOOLEAN, controlled : BOOLEAN, reloads : Nat]

IsolationTypes ==
  /\ served \in BOOLEAN /\ able \in BOOLEAN /\ honoured \in BOOLEAN
  /\ registration \in {"none", "installing", "active"}
  /\ tab \in [Tabs -> Pages]

\* A page only waits for a worker where there can be one.  One that has reloaded
\* itself did so for a worker that is active, and stays so: it is loaded through
\* it, and what it lacks then it does not reload for.
ReloadedForGood(p, w, can) ==
  /\ p.pc \in {"registering", "waiting"} => can
  /\ p.reloads <= 1
  /\ p.reloads = 1 =>
       /\ w = "active" /\ can
       /\ p.pc # "waiting"
       /\ p.pc = "loading" => ~p.hard
       /\ p.pc = "registering" => p.controlled

IsolationInv == IsolationTypes /\ \A t \in Tabs : ReloadedForGood(tab[t], registration, able)

LEMMA IsolationStarts == IsolationInit => IsolationInv
  BY DEF IsolationInit, Closed, Pcs, Pages, IsolationTypes, IsolationInv,
         ReloadedForGood

\* A step of one page leaves the others as they are.
LEMMA OnePageSteps ==
  ASSUME IsolationInv, NEW t \in Tabs, NEW new \in Pages, tab' = [tab EXCEPT ![t] = new],
         registration' \in {"none", "installing", "active"},
         registration = "active" => registration' = "active",
         UNCHANGED <<served, able, honoured>>,
         ReloadedForGood(new, registration', able')
  PROVE  IsolationInv'
<1>1. tab' \in [Tabs -> Pages] /\ tab'[t] = new /\ \A u \in Tabs \ {t} : tab'[u] = tab[u]
  BY DEF IsolationInv, IsolationTypes
<1>2. IsolationTypes'
  BY <1>1 DEF IsolationInv, IsolationTypes
<1>3. ASSUME NEW u \in Tabs PROVE ReloadedForGood(tab[u], registration, able)'
  <2>1. CASE u = t
    BY <1>1, <2>1 DEF ReloadedForGood
  <2>2. CASE u # t
    BY <1>1, <2>2 DEF ReloadedForGood, IsolationInv
  <2> QED
    BY <2>1, <2>2
<1> QED
  BY <1>2, <1>3 DEF IsolationInv

LEMMA ReloadIs ==
  ASSUME NEW p \in Pages, p.reloads = 0
  PROVE  /\ Reload(p) \in Pages /\ Reload(p).pc = "loading"
         /\ ~Reload(p).hard /\ Reload(p).reloads = 1
<1> DEFINE loading == [p EXCEPT !.pc = "loading"]
           soft == [loading EXCEPT !.hard = FALSE]
           free == [soft EXCEPT !.controlled = FALSE]
           new == [free EXCEPT !.reloads = p.reloads + 1]
<1>1. Reload(p) = new
  BY DEF Reload
<1>2. loading \in Pages /\ loading.pc = "loading"
  BY DEF Pages, Pcs
<1> HIDE DEF loading
<1>3. soft \in Pages /\ soft.pc = "loading" /\ ~soft.hard
  BY <1>2 DEF Pages
<1> HIDE DEF soft
<1>4. free \in Pages /\ free.pc = "loading" /\ ~free.hard
  BY <1>3 DEF Pages
<1> HIDE DEF free
<1>5. new \in Pages /\ new.pc = "loading" /\ ~new.hard /\ new.reloads = 1
  BY <1>4 DEF Pages
<1> QED
  BY <1>1, <1>5

LEMMA IsolationStep == IsolationInv /\ [IsolationNext]_isolationVars => IsolationInv'
<1> SUFFICES ASSUME IsolationInv, [IsolationNext]_isolationVars PROVE IsolationInv'
  OBVIOUS
<1> USE DEF Pcs
<1>0. IsolationTypes /\ \A t \in Tabs : tab[t] \in Pages /\ ReloadedForGood(tab[t], registration, able)
  BY DEF IsolationInv, IsolationTypes
<1>1. ASSUME NEW t \in Tabs, Load(t) PROVE IsolationInv'
  <2>1. PICK hard \in BOOLEAN :
          tab' = [tab EXCEPT ![t] = [Closed EXCEPT !.pc = "loading", !.hard = hard]]
    BY <1>1 DEF Load
  <2> DEFINE new == [Closed EXCEPT !.pc = "loading", !.hard = hard]
  <2>2. new \in Pages /\ new.reloads = 0 /\ new.pc = "loading"
    BY DEF Closed, Pages
  <2> HIDE DEF new
  <2>3. UNCHANGED <<served, able, honoured, registration>>
    BY <1>1 DEF Load
  <2>4. ReloadedForGood(new, registration', able')
    BY <2>2 DEF ReloadedForGood
  <2> QED
    BY <1>0, <2>1, <2>2, <2>3, <2>4, OnePageSteps DEF new, IsolationTypes
<1>2. ASSUME NEW t \in Tabs, Run(t) PROVE IsolationInv'
  <2> DEFINE controlled == able /\ registration = "active" /\ ~tab[t].hard
             pc == IF served \/ (controlled /\ honoured) THEN "ready"
                   ELSE IF able THEN "registering" ELSE "failed"
             new == [tab[t] EXCEPT !.controlled = controlled, !.pc = pc]
  <2>1. tab[t].pc = "loading" /\ UNCHANGED <<served, able, honoured, registration>>
    BY <1>2 DEF Run
  <2>2. tab' = [tab EXCEPT ![t] = new]
    BY <1>2, <1>0 DEF Run, Pages, IsolationTypes
  <2>3. controlled \in BOOLEAN /\ pc \in {"ready", "registering", "failed"} /\ (pc = "registering" => able)
    BY <1>0 DEF IsolationTypes
  <2>4. new \in Pages /\ new.reloads = tab[t].reloads /\ new.pc = pc /\ new.controlled = controlled
    BY <1>0, <2>3 DEF Pages
  <2>5. tab[t].reloads = 1 => controlled
    BY <1>0, <2>1 DEF ReloadedForGood
  <2> HIDE DEF new, pc, controlled
  <2>6. ReloadedForGood(new, registration', able')
    BY <1>0, <2>1, <2>3, <2>4, <2>5 DEF ReloadedForGood
  <2> QED
    BY <1>0, <2>1, <2>2, <2>4, <2>6, OnePageSteps DEF IsolationTypes
\* A page reloads itself for a worker that is active, and has not done so before.
<1>3. ASSUME NEW t \in Tabs, registration = "active", tab[t].pc \in {"registering", "waiting"},
             tab[t].pc = "registering" => ~tab[t].controlled,
             tab' = [tab EXCEPT ![t] = Reload(tab[t])],
             UNCHANGED <<served, able, honoured, registration>>
      PROVE  IsolationInv'
  <2> DEFINE new == Reload(tab[t])
  <2>1. tab[t].reloads = 0 /\ able
    BY <1>3, <1>0 DEF ReloadedForGood, Pages
  <2>2. new \in Pages /\ new.pc = "loading" /\ ~new.hard /\ new.reloads = 1
    BY <1>0, <2>1, ReloadIs
  <2> HIDE DEF new
  <2>3. ReloadedForGood(new, registration', able')
    BY <1>3, <2>1, <2>2 DEF ReloadedForGood
  <2> QED
    BY <1>3, <1>0, <2>2, <2>3, OnePageSteps DEF IsolationTypes, new
\* A page that gives up, or waits for the worker that is being installed.
<1>4. ASSUME NEW t \in Tabs, NEW pc \in {"failed", "waiting"}, tab[t].pc = "registering",
             pc = "waiting" => ~tab[t].controlled,
             tab' = [tab EXCEPT ![t].pc = pc],
             registration' \in {"none", "installing", "active"},
             registration = "active" => registration' = "active",
             UNCHANGED <<served, able, honoured>>
      PROVE  IsolationInv'
  <2> DEFINE new == [tab[t] EXCEPT !.pc = pc]
  <2>1. tab' = [tab EXCEPT ![t] = new]
    BY <1>4
  <2>2. new \in Pages /\ new.pc = pc /\ new.reloads = tab[t].reloads
    BY <1>0 DEF Pages
  <2> HIDE DEF new
  <2>3. ReloadedForGood(new, registration', able')
    BY <1>4, <1>0, <2>2 DEF ReloadedForGood
  <2> QED
    BY <1>4, <2>1, <2>2, <2>3, OnePageSteps
<1>5. ASSUME NEW t \in Tabs, Registered(t) PROVE IsolationInv'
  <2>1. CASE tab[t].controlled
    BY <1>4, <1>5, <1>0, <2>1 DEF Registered, IsolationTypes
  <2>2. CASE ~tab[t].controlled /\ registration = "active"
    BY <1>3, <1>5, <1>0, <2>2 DEF Registered, IsolationTypes
  <2>3. CASE ~tab[t].controlled /\ registration # "active"
    BY <1>4, <1>5, <1>0, <2>3 DEF Registered, IsolationTypes
  <2> QED
    BY <2>1, <2>2, <2>3
<1>6. ASSUME NEW t \in Tabs, Rejected(t) PROVE IsolationInv'
  BY <1>4, <1>6, <1>0 DEF Rejected, IsolationTypes
<1>7. ASSUME NEW t \in Tabs, Activated(t) PROVE IsolationInv'
  BY <1>3, <1>7, <1>0 DEF Activated, IsolationTypes
<1>8. CASE Activate
  <2>1. registration = "installing" /\ registration' = "active" /\ UNCHANGED <<served, able, honoured>>
    BY <1>8 DEF Activate
  <2>2. ASSUME NEW t \in Tabs
        PROVE  /\ tab'[t] \in Pages /\ tab'[t].pc = tab[t].pc /\ tab'[t].reloads = tab[t].reloads
               /\ DOMAIN tab' = Tabs
    BY <1>8, <1>0 DEF Activate, Pages
  <2>3. \A t \in Tabs : tab[t].reloads = 0
    BY <1>0, <2>1 DEF ReloadedForGood, Pages
  <2>4. \A t \in Tabs : ReloadedForGood(tab[t], registration, able)'
    BY <1>0, <2>1, <2>2, <2>3 DEF ReloadedForGood
  <2>5. tab' \in [Tabs -> Pages]
    BY <1>8, <2>2 DEF Activate
  <2> QED
    BY <1>0, <2>1, <2>4, <2>5 DEF IsolationInv, IsolationTypes
<1>9. CASE NotInstalled
  BY <1>9, <1>0 DEF NotInstalled, IsolationInv, IsolationTypes, ReloadedForGood
<1>10. CASE UNCHANGED isolationVars
  BY <1>10, <1>0 DEF isolationVars, IsolationInv, IsolationTypes, ReloadedForGood
<1> QED
  BY <1>1, <1>2, <1>5, <1>6, <1>7, <1>8, <1>9, <1>10 DEF IsolationNext

\* However many tabs load, register and are claimed, in whatever order, a page
\* reloads itself once at most for each time a person loads it.
THEOREM OneReloadEach == IsolationSpec => []OneReload
<1>1. IsolationInv => OneReload
  BY DEF IsolationInv, ReloadedForGood, OneReload
<1> QED
  BY <1>1, IsolationStarts, IsolationStep, PTL DEF IsolationSpec

-----------------------------------------------------------------------------
(* The merging of moves                                                    *)
(*                                                                         *)
(* Merged and Effect go along a line, so what each makes of a line is what *)
(* it makes of the line without its last, and then of that (EffectStep,    *)
(* MergedStep). That gives induction over the length of the line.          *)

Cubes == [Edges -> Edges]

StepsOver(D, S) == [D -> [S -> S]]
Iterated(f, x, step) == f[0] = x /\ \A n \in Nat : n # 0 => f[n] = step[n][f[n - 1]]
Goes(f, x, step, line) ==
  f[0] = x /\ \A n \in 1..Len(line) : f[n] = step[line[n]][f[n - 1]]

LEMMA IteratesAt ==
  ASSUME NEW S, NEW x \in S, NEW step \in StepsOver(Nat, S)
  PROVE  \E f \in [Nat -> S] : Iterated(f, x, step)
<1>1. PICK f \in [Nat -> S] : f = [n \in Nat |-> IF n = 0 THEN x ELSE step[n][f[n - 1]]]
  BY Iterates DEF StepsOver
<1>2. \A n \in Nat : f[n] = IF n = 0 THEN x ELSE step[n][f[n - 1]]
  BY <1>1
<1> QED
  BY <1>2 DEF Iterated

\* A function that goes along a line.
LEMMA AlongLine ==
  ASSUME NEW S, NEW x \in S, NEW D, NEW step \in StepsOver(D, S), NEW line \in Seq(D)
  PROVE  \E f \in [0..Len(line) -> S] : Goes(f, x, step, line)
<1>1. PICK L \in Nat : L = Len(line)
  OBVIOUS
<1>2. PICK st \in StepsOver(Nat, S) : \A n \in 1..L : st[n] = step[line[n]]
  <2> DEFINE on == [n \in Nat |-> IF n \in 1..L THEN step[line[n]] ELSE [s \in S |-> s]]
  <2>1. \A n \in 1..L : step[line[n]] \in [S -> S]
    BY <1>1 DEF StepsOver
  <2>2. [s \in S |-> s] \in [S -> S]
    OBVIOUS
  <2>3. on \in StepsOver(Nat, S)
    BY <2>1, <2>2 DEF StepsOver
  <2>4. \A n \in 1..L : on[n] = step[line[n]]
    BY <1>1
  <2> HIDE DEF on
  <2> QED
    BY <2>3, <2>4
<1>3. PICK h \in [Nat -> S] : Iterated(h, x, st)
  BY <1>2, IteratesAt
<1> DEFINE f == [n \in 0..L |-> h[n]]
<1>4. f \in [0..L -> S]
  BY <1>1, <1>3
<1>5. \A n \in 0..L : f[n] = h[n]
  OBVIOUS
<1> HIDE DEF f
<1>6. \A n \in 1..L : n \in Nat /\ n # 0 /\ n \in 0..L /\ n - 1 \in 0..L
  BY <1>1
<1>7. f[0] = x /\ \A n \in 1..L : f[n] = step[line[n]][f[n - 1]]
  BY <1>1, <1>2, <1>3, <1>5, <1>6 DEF Iterated
<1> QED
  BY <1>1, <1>4, <1>7 DEF Goes

\* Two that begin alike and go along the same as far as m are alike so far.
LEMMA AlongAlike ==
  ASSUME NEW m \in Nat, NEW f, NEW g, f[0] = g[0],
         \A n \in 0..m : n # 0 /\ f[n - 1] = g[n - 1] => f[n] = g[n]
  PROVE  f[m] = g[m]
<1> DEFINE Good == {n \in Nat : n <= m => f[n] = g[n]}
<1>1. 0 \in Good
  OBVIOUS
<1>2. ASSUME NEW n \in Nat, n \in Good PROVE n + 1 \in Good
  <2>1. n + 1 \in Nat /\ n + 1 # 0 /\ (n + 1) - 1 = n
    OBVIOUS
  <2>2. n + 1 <= m => n + 1 \in 0..m /\ n <= m
    OBVIOUS
  <2> QED
    BY <1>2, <2>1, <2>2
<1> HIDE DEF Good
<1>3. m \in Good
  BY <1>1, <1>2, Induct
<1> QED
  BY <1>3 DEF Good

\* A line without its last.
LEMMA FrontIs ==
  ASSUME NEW D, NEW line \in Seq(D), line # <<>>
  PROVE  /\ Front(line) \in Seq(D) /\ Len(line) \in Nat \ {0}
         /\ Len(Front(line)) = Len(line) - 1
         /\ \A i \in 1..(Len(line) - 1) : Front(line)[i] = line[i]
         /\ Last(line) \in D /\ Last(line) = line[Len(line)]
<1>1. Len(line) \in Nat /\ Len(line) # 0
  OBVIOUS
<1>2. PICK k \in Nat : k = Len(line) - 1
  BY <1>1
<1>3. 1 \in Int /\ k \in Int /\ \A i \in 1..k : line[i] \in D
  BY <1>1, <1>2
<1>4. /\ SubSeq(line, 1, k) \in Seq(D)
      /\ Len(SubSeq(line, 1, k)) = IF 1 <= k THEN k - 1 + 1 ELSE 0
      /\ \A i \in 1..(k - 1 + 1) : SubSeq(line, 1, k)[i] = line[1 + i - 1]
  BY <1>3, SubSeqProperties
<1>5. Front(line) = SubSeq(line, 1, k)
  BY <1>2 DEF Front
<1>6. Len(Front(line)) = k /\ \A i \in 1..k : Front(line)[i] = line[i]
  BY <1>2, <1>4, <1>5
<1> QED
  BY <1>1, <1>2, <1>4, <1>5, <1>6 DEF Last

-----------------------------------------------------------------------------
(* What turns do to a cube                                                 *)

\* The place t quarters on from the i-th.
Place(i, t) == ((i - 1 + t) % 4) + 1

LEMMA PlaceIs ==
  ASSUME NEW i \in 1..4, NEW a \in 0..3, NEW b \in 0..3
  PROVE  /\ Place(i, a) \in 1..4 /\ Place(i, 0) = i
         /\ Place(Place(i, a), b) = Place(i, (a + b) % 4)
<1>1. PICK j \in 1..4 : j = Place(i, a)
  BY DEF Place
<1>2. Place(j, b) = Place(i, (a + b) % 4)
  BY <1>1 DEF Place
<1>3. Place(i, 0) = i
  BY DEF Place
<1> QED
  BY <1>1, <1>2, <1>3

\* Where an edge of the face is sent, and one that is not of it.
LEMMA SentTo ==
  ASSUME NEW e \in Edges, NEW f \in Faces, NEW t \in 0..3, NEW i \in 1..4, EdgesOf[f][i] = e
  PROVE  Sent(e, f, t) = EdgesOf[f][Place(i, t)] /\ Sent(e, f, t) \in Edges
<1> DEFINE ring == EdgesOf[f]
           place == CHOOSE n \in 1..4 : ring[n] = e
<1>1. /\ ring \in [1..4 -> Edges]
      /\ \A n, j \in 1..4 : ring[n] = ring[j] => n = j
  BY MergingAssumption
<1>2. place = i
  BY <1>1
<1>3. Sent(e, f, t) = IF t \in 1..3 THEN ring[Place(place, t)] ELSE e
  BY DEF Sent, Place
<1> HIDE DEF place, ring
<1>4. Place(i, t) \in 1..4 /\ Place(i, 0) = i
  BY PlaceIs
<1>5. ring[i] = e
  BY DEF ring
<1>6. t = 0 \/ t \in 1..3
  OBVIOUS
<1>7. Sent(e, f, t) = ring[Place(i, t)]
  BY <1>2, <1>3, <1>4, <1>5, <1>6
<1>8. ring[Place(i, t)] \in Edges
  BY <1>1, <1>4
<1> QED
  BY <1>7, <1>8 DEF ring

LEMMA SentNowhere ==
  ASSUME NEW e \in Edges, NEW f \in Faces, NEW t \in 0..3, \A i \in 1..4 : EdgesOf[f][i] # e
  PROVE  Sent(e, f, t) = e
BY DEF Sent

LEMMA SentIs ==
  ASSUME NEW e \in Edges, NEW f \in Faces, NEW t \in 0..3
  PROVE  Sent(e, f, t) \in Edges
<1>1. CASE \E i \in 1..4 : EdgesOf[f][i] = e
  BY <1>1, SentTo
<1>2. CASE \A i \in 1..4 : EdgesOf[f][i] # e
  BY <1>2, SentNowhere
<1> QED
  BY <1>1, <1>2

\* Two turns of a face are one of as many quarters, but for whole ones.
LEMMA SentTwice ==
  ASSUME NEW e \in Edges, NEW f \in Faces, NEW a \in 0..3, NEW b \in 0..3
  PROVE  Sent(Sent(e, f, a), f, b) = Sent(e, f, (a + b) % 4)
<1>1. PICK c \in 0..3 : c = (a + b) % 4
  OBVIOUS
<1>2. CASE \A i \in 1..4 : EdgesOf[f][i] # e
  <2>1. Sent(e, f, a) = e /\ Sent(e, f, b) = e /\ Sent(e, f, c) = e
    BY <1>1, <1>2, SentNowhere
  <2> QED
    BY <1>1, <2>1
<1>3. ASSUME NEW i \in 1..4, EdgesOf[f][i] = e PROVE Sent(Sent(e, f, a), f, b) = Sent(e, f, c)
  <2>1. PICK j \in 1..4 : j = Place(i, a)
    BY PlaceIs
  <2>2. Place(j, b) = Place(i, c)
    BY <1>1, <2>1, PlaceIs
  <2>3. Sent(e, f, a) = EdgesOf[f][j] /\ Sent(e, f, a) \in Edges
    BY <1>3, <2>1, SentTo
  <2>4. Sent(e, f, c) = EdgesOf[f][Place(i, c)]
    BY <1>1, <1>3, SentTo
  <2>5. PICK d \in Edges : d = Sent(e, f, a)
    BY <2>3
  <2>6. EdgesOf[f][j] = d
    BY <2>3, <2>5
  <2>7. Sent(d, f, b) = EdgesOf[f][Place(j, b)]
    BY <2>1, <2>5, <2>6, SentTo
  <2> QED
    BY <2>2, <2>4, <2>5, <2>7
<1> QED
  BY <1>1, <1>2, <1>3

LEMMA TurnedIs ==
  ASSUME NEW cube \in Cubes, NEW move \in Moves
  PROVE  /\ Turned(cube, move) \in Cubes
         /\ move.turns = 0 => Turned(cube, move) = cube
<1>1. move.face \in Faces /\ move.turns \in 0..3 /\ \A e \in Edges : cube[e] \in Edges
  BY DEF Moves, Cubes
<1>2. Turned(cube, move) \in Cubes
  BY <1>1, SentIs DEF Turned, Cubes
<1>3. ASSUME move.turns = 0 PROVE Turned(cube, move) = cube
  <2>1. \A e \in Edges : Sent(cube[e], move.face, move.turns) = cube[e]
    BY <1>3 DEF Sent
  <2> QED
    BY <2>1 DEF Turned, Cubes
<1> QED
  BY <1>2, <1>3

LEMMA TurnedTwice ==
  ASSUME NEW cube \in Cubes, NEW one \in Moves, NEW two \in Moves, NEW sum \in Moves,
         two.face = one.face, sum.face = one.face, sum.turns = (one.turns + two.turns) % 4
  PROVE  Turned(Turned(cube, one), two) = Turned(cube, sum)
<1>1. /\ one.face \in Faces /\ one.turns \in 0..3 /\ two.turns \in 0..3
      /\ \A e \in Edges : cube[e] \in Edges
  BY DEF Moves, Cubes
<1>2. \A e \in Edges : Turned(cube, one)[e] = Sent(cube[e], one.face, one.turns)
  BY DEF Turned
<1>3. ASSUME NEW e \in Edges
      PROVE  Sent(Turned(cube, one)[e], two.face, two.turns) = Sent(cube[e], sum.face, sum.turns)
  BY <1>1, <1>2, SentTwice
<1>4. Turned(Turned(cube, one), two) = [e \in Edges |-> Sent(Turned(cube, one)[e], two.face, two.turns)]
  BY DEF Turned
<1> QED
  BY <1>3, <1>4 DEF Turned

-----------------------------------------------------------------------------
(* Merged and Effect, a move at a time                                     *)

Unmoved == [e \in Edges |-> e]

LEMMA EffectIs ==
  ASSUME NEW line \in Seq(Moves)
  PROVE  \E f \in [0..Len(line) -> Cubes] :
           /\ f[0] = Unmoved
           /\ \A n \in 1..Len(line) : f[n] = Turned(f[n - 1], line[n])
           /\ Effect(line) = f[Len(line)]
<1>1. PICK L \in Nat : L = Len(line)
  OBVIOUS
<1> DEFINE step == [m \in Moves |-> [cube \in Cubes |-> Turned(cube, m)]]
<1>2. Unmoved \in Cubes
  BY DEF Unmoved, Cubes
<1>3. step \in StepsOver(Moves, Cubes)
  BY TurnedIs DEF StepsOver
<1>4. \A m \in Moves, cube \in Cubes : step[m][cube] = Turned(cube, m)
  OBVIOUS
<1> HIDE DEF step
<1>5. PICK f \in [0..Len(line) -> Cubes] : Goes(f, Unmoved, step, line)
  BY <1>2, <1>3, AlongLine
<1>6. \A n \in 1..L : line[n] \in Moves /\ n \in Nat /\ n # 0 /\ n \in 0..L /\ n - 1 \in 0..L
  BY <1>1
<1>7. f[0] = Unmoved /\ \A n \in 1..L : f[n] = Turned(f[n - 1], line[n])
  BY <1>1, <1>4, <1>5, <1>6 DEF Goes
<1>8. Effect(line) = f[L]
  <2> DEFINE Is(g) == g = [n \in 0..Len(line) |->
                             IF n = 0 THEN [e \in Edges |-> e] ELSE Turned(g[n - 1], line[n])]
  <2>1. PICK g : g = (CHOOSE h : Is(h)) /\ Effect(line) = g[Len(line)]
    BY Zenon DEF Effect
  <2>2. Is(f)
    <3>1. f = [n \in 0..L |-> f[n]]
      BY <1>1, <1>5
    <3>2. \A n \in 0..L : n # 0 => n \in 1..L
      BY <1>1
    <3>3. \A n \in 0..L : f[n] = IF n = 0 THEN [e \in Edges |-> e] ELSE Turned(f[n - 1], line[n])
      BY <1>7, <3>2 DEF Unmoved
    <3> QED
      BY <1>1, <3>1, <3>3
  <2>3. Is(g)
    <3> HIDE DEF Is
    <3> QED
      BY <2>1, <2>2
  <2>4. g[0] = f[0]
    BY <1>1, <1>7, <2>3 DEF Unmoved
  <2>5. \A n \in 1..L : g[n] = Turned(g[n - 1], line[n])
    <3>1. \A n \in 0..L : g[n] = IF n = 0 THEN [e \in Edges |-> e] ELSE Turned(g[n - 1], line[n])
      BY <1>1, <2>3
    <3> QED
      BY <1>6, <3>1
  <2>6. \A n \in 0..L : n # 0 /\ g[n - 1] = f[n - 1] => g[n] = f[n]
    <3>1. \A n \in 0..L : n # 0 => n \in 1..L
      BY <1>1
    <3> QED
      BY <1>7, <2>5, <3>1
  <2>7. g[L] = f[L]
    BY <2>4, <2>6, AlongAlike
  <2> QED
    BY <1>1, <2>1, <2>7
<1> QED
  BY <1>1, <1>5, <1>7, <1>8

\* The effect of a line is that of the line without its last, turned by the last.
LEMMA EffectStep ==
  ASSUME NEW line \in Seq(Moves)
  PROVE  /\ Effect(line) \in Cubes
         /\ line = <<>> => Effect(line) = Unmoved
         /\ line # <<>> => Effect(line) = Turned(Effect(Front(line)), Last(line))
<1>1. PICK L \in Nat : L = Len(line)
  OBVIOUS
<1>2. PICK f \in [0..L -> Cubes] :
        /\ f[0] = Unmoved
        /\ \A n \in 1..L : f[n] = Turned(f[n - 1], line[n])
        /\ Effect(line) = f[L]
  BY <1>1, EffectIs
<1>3. Effect(line) \in Cubes
  BY <1>1, <1>2
<1>4. ASSUME line = <<>> PROVE Effect(line) = Unmoved
  <2>1. L = 0
    BY <1>1, <1>4
  <2>2. f[L] = Unmoved
    BY <1>2, <2>1
  <2> QED
    BY <1>2, <2>2
<1>5. ASSUME line # <<>> PROVE Effect(line) = Turned(Effect(Front(line)), Last(line))
  <2>1. PICK m \in Nat : m = L - 1 /\ L = m + 1
    <3>1. L \in Nat \ {0}
      BY <1>1, <1>5, FrontIs
    <3> QED
      BY <3>1
  <2>2. /\ Front(line) \in Seq(Moves) /\ Len(Front(line)) = m
        /\ \A i \in 1..m : Front(line)[i] = line[i]
        /\ Last(line) = line[L]
    BY <1>1, <1>5, <2>1, FrontIs
  <2>3. PICK h \in [0..m -> Cubes] :
          /\ h[0] = Unmoved
          /\ \A n \in 1..m : h[n] = Turned(h[n - 1], Front(line)[n])
          /\ Effect(Front(line)) = h[m]
    BY <2>2, EffectIs
  <2>4. \A n \in 0..m : n # 0 => n \in 1..m /\ n \in 1..L
    BY <1>1, <2>1
  <2>5. \A n \in 0..m : n # 0 /\ f[n - 1] = h[n - 1] => f[n] = h[n]
    BY <1>2, <2>2, <2>3, <2>4
  <2>6. f[m] = h[m]
    <3>1. f[0] = h[0]
      BY <1>2, <2>3
    <3> QED
      BY <2>1, <2>5, <3>1, AlongAlike
  <2>7. L \in 1..L /\ L - 1 = m
    BY <1>1, <2>1
  <2>8. f[L] = Turned(f[m], line[L])
    BY <1>2, <2>7
  <2> QED
    BY <1>2, <2>2, <2>3, <2>6, <2>8
<1> QED
  BY <1>3, <1>4, <1>5

\* A line whose last has t turns.
WithTurns(k, t) == [k EXCEPT ![Len(k)].turns = t]

\* What Push does, a case at a time.
LEMMA PushIs ==
  ASSUME NEW kept \in Seq(Moves), NEW move \in Moves
  PROVE  /\ move.turns = 0 => Push(kept, move) = kept
         /\ move.turns # 0 /\ (kept = <<>> \/ Last(kept).face # move.face) =>
              Push(kept, move) = Append(kept, move)
         /\ move.turns # 0 /\ kept # <<>> /\ Last(kept).face = move.face =>
              /\ (Last(kept).turns + move.turns) % 4 = 0 => Push(kept, move) = Front(kept)
              /\ (Last(kept).turns + move.turns) % 4 # 0 =>
                   Push(kept, move) = WithTurns(kept, (Last(kept).turns + move.turns) % 4)
<1>1. move.turns \in 0..3 /\ move.turns % 4 = move.turns
  BY DEF Moves
<1>2. [move EXCEPT !.turns = move.turns] = move
  BY DEF Moves
<1> QED
  BY <1>1, <1>2 DEF Push, WithTurns

\* A line with its last replaced.
LEMMA Replaced ==
  ASSUME NEW kept \in Seq(Moves), kept # <<>>, NEW t \in 0..3
  PROVE  \E new \in Seq(Moves) :
           /\ new = WithTurns(kept, t)
           /\ new # <<>> /\ Front(new) = Front(kept)
           /\ Last(new) \in Moves /\ Last(new).turns = t
           /\ Last(new).face = Last(kept).face /\ Last(new).step = Last(kept).step
<1>0. PICK new : new = WithTurns(kept, t)
  OBVIOUS
<1>1. PICK L \in Nat \ {0} : L = Len(kept)
  OBVIOUS
<1>2. kept \in [1..L -> Moves] /\ L \in 1..L
  BY <1>1
<1>3. PICK m \in Moves : m = [kept[L] EXCEPT !.turns = t]
  BY <1>2 DEF Moves
<1>4. m.turns = t /\ m.face = kept[L].face /\ m.step = kept[L].step
  BY <1>2, <1>3 DEF Moves
<1>5. new = [kept EXCEPT ![L] = m]
  BY <1>0, <1>1, <1>3 DEF WithTurns
<1>6. new \in [1..L -> Moves] /\ new[L] = m /\ \A i \in 1..L : i # L => new[i] = kept[i]
  BY <1>2, <1>5
<1>7. new \in Seq(Moves) /\ Len(new) = L /\ new # <<>>
  BY <1>1, <1>6
<1>8. \A i \in 1..(L - 1) : i \in 1..L /\ i # L
  BY <1>1
<1>9. Front(new) = Front(kept)
  <2>1. /\ Front(kept) \in Seq(Moves) /\ Len(Front(kept)) = L - 1
        /\ \A i \in 1..(L - 1) : Front(kept)[i] = kept[i]
    BY <1>1, FrontIs
  <2>2. /\ Front(new) \in Seq(Moves) /\ Len(Front(new)) = L - 1
        /\ \A i \in 1..(L - 1) : Front(new)[i] = new[i]
    BY <1>7, FrontIs
  <2>3. \A i \in 1..(L - 1) : Front(new)[i] = Front(kept)[i]
    BY <1>6, <1>8, <2>1, <2>2
  <2>4. \A i \in 1..Len(Front(new)) : Front(new)[i] = Front(kept)[i]
    BY <2>2, <2>3
  <2>5. Len(Front(new)) = Len(Front(kept))
    BY <2>1, <2>2
  <2> QED
    BY <2>1, <2>2, <2>4, <2>5, SeqEqual
<1>10. Last(new) = m /\ Last(kept) = kept[L]
  BY <1>1, <1>6, <1>7 DEF Last
<1> QED
  BY <1>0, <1>4, <1>7, <1>9, <1>10

LEMMA PushedType ==
  ASSUME NEW kept \in Seq(Moves), NEW move \in Moves
  PROVE  Push(kept, move) \in Seq(Moves)
<1>1. move.turns \in 0..3
  BY DEF Moves
<1>2. ASSUME kept # <<>> PROVE Last(kept).turns \in 0..3 /\ Front(kept) \in Seq(Moves)
  <2>1. Last(kept) \in Moves /\ Front(kept) \in Seq(Moves)
    BY <1>2, FrontIs
  <2> QED
    BY <2>1 DEF Moves
<1>3. ASSUME kept # <<>>
      PROVE  WithTurns(kept, (Last(kept).turns + move.turns) % 4) \in Seq(Moves)
  <2>1. PICK t \in 0..3 : t = (Last(kept).turns + move.turns) % 4
    BY <1>1, <1>2, <1>3
  <2>2. PICK new \in Seq(Moves) : new = WithTurns(kept, t)
    BY <1>3, <2>1, Replaced
  <2> QED
    BY <2>1, <2>2
<1>4. Append(kept, move) \in Seq(Moves)
  OBVIOUS
<1> QED
  BY <1>2, <1>3, <1>4, PushIs

LEMMA MergedIs ==
  ASSUME NEW line \in Seq(Moves)
  PROVE  \E f \in [0..Len(line) -> Seq(Moves)] :
           /\ f[0] = <<>>
           /\ \A n \in 1..Len(line) : f[n] = Push(f[n - 1], line[n])
           /\ Merged(line) = f[Len(line)]
<1>1. PICK L \in Nat : L = Len(line)
  OBVIOUS
<1> DEFINE step == [m \in Moves |-> [kept \in Seq(Moves) |-> Push(kept, m)]]
<1>2. <<>> \in Seq(Moves)
  OBVIOUS
<1>3. step \in StepsOver(Moves, Seq(Moves))
  BY PushedType DEF StepsOver
<1>4. \A m \in Moves, kept \in Seq(Moves) : step[m][kept] = Push(kept, m)
  OBVIOUS
<1> HIDE DEF step
<1>5. PICK f \in [0..Len(line) -> Seq(Moves)] : Goes(f, <<>>, step, line)
  BY <1>2, <1>3, AlongLine
<1>6. \A n \in 1..L : line[n] \in Moves /\ n \in Nat /\ n # 0 /\ n \in 0..L /\ n - 1 \in 0..L
  BY <1>1
<1>7. f[0] = <<>> /\ \A n \in 1..L : f[n] = Push(f[n - 1], line[n])
  BY <1>1, <1>4, <1>5, <1>6 DEF Goes
<1>8. Merged(line) = f[L]
  <2> DEFINE Is(g) == g = [n \in 0..Len(line) |->
                             IF n = 0 THEN <<>> ELSE Push(g[n - 1], line[n])]
  <2>1. PICK g : g = (CHOOSE h : Is(h)) /\ Merged(line) = g[Len(line)]
    BY Zenon DEF Merged
  <2>2. Is(f)
    <3>1. f = [n \in 0..L |-> f[n]]
      BY <1>1, <1>5
    <3>2. \A n \in 0..L : n # 0 => n \in 1..L
      BY <1>1
    <3>3. \A n \in 0..L : f[n] = IF n = 0 THEN <<>> ELSE Push(f[n - 1], line[n])
      BY <1>7, <3>2
    <3> QED
      BY <1>1, <3>1, <3>3
  <2>3. Is(g)
    <3> HIDE DEF Is
    <3> QED
      BY <2>1, <2>2
  <2>4. g[0] = f[0]
    BY <1>1, <1>7, <2>3
  <2>5. \A n \in 1..L : g[n] = Push(g[n - 1], line[n])
    <3>1. \A n \in 0..L : g[n] = IF n = 0 THEN <<>> ELSE Push(g[n - 1], line[n])
      BY <1>1, <2>3
    <3> QED
      BY <1>6, <3>1
  <2>6. \A n \in 0..L : n # 0 /\ g[n - 1] = f[n - 1] => g[n] = f[n]
    <3>1. \A n \in 0..L : n # 0 => n \in 1..L
      BY <1>1
    <3> QED
      BY <1>7, <2>5, <3>1
  <2>7. g[L] = f[L]
    BY <2>4, <2>6, AlongAlike
  <2> QED
    BY <1>1, <2>1, <2>7
<1> QED
  BY <1>1, <1>5, <1>7, <1>8

\* What is kept of a line is what is kept of it without its last, and that pushed on.
LEMMA MergedStep ==
  ASSUME NEW line \in Seq(Moves)
  PROVE  /\ Merged(line) \in Seq(Moves)
         /\ line = <<>> => Merged(line) = <<>>
         /\ line # <<>> => Merged(line) = Push(Merged(Front(line)), Last(line))
<1>1. PICK L \in Nat : L = Len(line)
  OBVIOUS
<1>2. PICK f \in [0..L -> Seq(Moves)] :
        /\ f[0] = <<>>
        /\ \A n \in 1..L : f[n] = Push(f[n - 1], line[n])
        /\ Merged(line) = f[L]
  BY <1>1, MergedIs
<1>3. Merged(line) \in Seq(Moves)
  BY <1>1, <1>2
<1>4. ASSUME line = <<>> PROVE Merged(line) = <<>>
  <2>1. L = 0
    BY <1>1, <1>4
  <2>2. f[L] = <<>>
    BY <1>2, <2>1
  <2> QED
    BY <1>2, <2>2
<1>5. ASSUME line # <<>> PROVE Merged(line) = Push(Merged(Front(line)), Last(line))
  <2>1. PICK m \in Nat : m = L - 1 /\ L = m + 1
    <3>1. L \in Nat \ {0}
      BY <1>1, <1>5, FrontIs
    <3> QED
      BY <3>1
  <2>2. /\ Front(line) \in Seq(Moves) /\ Len(Front(line)) = m
        /\ \A i \in 1..m : Front(line)[i] = line[i]
        /\ Last(line) = line[L]
    BY <1>1, <1>5, <2>1, FrontIs
  <2>3. PICK h \in [0..m -> Seq(Moves)] :
          /\ h[0] = <<>>
          /\ \A n \in 1..m : h[n] = Push(h[n - 1], Front(line)[n])
          /\ Merged(Front(line)) = h[m]
    BY <2>2, MergedIs
  <2>4. \A n \in 0..m : n # 0 => n \in 1..m /\ n \in 1..L
    BY <1>1, <2>1
  <2>5. \A n \in 0..m : n # 0 /\ f[n - 1] = h[n - 1] => f[n] = h[n]
    BY <1>2, <2>2, <2>3, <2>4
  <2>6. f[m] = h[m]
    <3>1. f[0] = h[0]
      BY <1>2, <2>3
    <3> QED
      BY <2>1, <2>5, <3>1, AlongAlike
  <2>7. L \in 1..L /\ L - 1 = m
    BY <1>1, <2>1
  <2>8. f[L] = Push(f[m], line[L])
    BY <1>2, <2>7
  <2> QED
    BY <1>2, <2>2, <2>3, <2>6, <2>8
<1> QED
  BY <1>3, <1>4, <1>5

-----------------------------------------------------------------------------
(* What is kept                                                            *)

Stacks == {k \in Seq(Moves) :
             /\ \A i \in 1..Len(k) : k[i].turns \in 1..3
             /\ \A i \in 1..(Len(k) - 1) : k[i].face # k[i + 1].face /\ k[i].step <= k[i + 1].step}

LEMMA AppendIs ==
  ASSUME NEW k \in Seq(Moves), NEW m \in Moves
  PROVE  /\ Append(k, m) \in Seq(Moves) /\ Append(k, m) # <<>>
         /\ Front(Append(k, m)) = k /\ Last(Append(k, m)) = m
         /\ Len(Append(k, m)) = Len(k) + 1 /\ Append(k, m)[Len(k) + 1] = m
         /\ \A i \in 1..Len(k) : Append(k, m)[i] = k[i]
<1>0. Append(k, m) \in Seq(Moves)
  OBVIOUS
<1>1. PICK a \in Seq(Moves) : a = Append(k, m)
  BY <1>0
<1>2. /\ a # <<>> /\ Len(a) = Len(k) + 1 /\ a[Len(k) + 1] = m
      /\ \A i \in 1..Len(k) : a[i] = k[i]
  BY <1>1
<1>3. /\ Front(a) \in Seq(Moves) /\ Len(Front(a)) = Len(a) - 1 /\ Last(a) = a[Len(a)]
      /\ \A i \in 1..(Len(a) - 1) : Front(a)[i] = a[i]
  BY <1>2, FrontIs
<1>4. Len(Front(a)) = Len(k) /\ Last(a) = m /\ \A i \in 1..Len(Front(a)) : Front(a)[i] = k[i]
  BY <1>2, <1>3
<1>5. Front(a) = k
  BY <1>3, <1>4, SeqEqual
<1> QED
  BY <1>1, <1>2, <1>4, <1>5

\* A line is its last put after the rest.
LEMMA LineIs ==
  ASSUME NEW k \in Seq(Moves), k # <<>>
  PROVE  k = Append(Front(k), Last(k))
<1>1. /\ Front(k) \in Seq(Moves) /\ Len(k) \in Nat \ {0} /\ Len(Front(k)) = Len(k) - 1
      /\ \A i \in 1..(Len(k) - 1) : Front(k)[i] = k[i]
      /\ Last(k) \in Moves /\ Last(k) = k[Len(k)]
  BY FrontIs
<1>2. PICK a \in Seq(Moves) : a = Append(Front(k), Last(k))
  BY <1>1
<1>3. Len(a) = Len(k) /\ a[Len(k)] = k[Len(k)] /\ \A i \in 1..(Len(k) - 1) : a[i] = k[i]
  BY <1>1, <1>2, AppendIs
<1>4. \A i \in 1..Len(k) : i = Len(k) \/ i \in 1..(Len(k) - 1)
  BY <1>1
<1>5. \A i \in 1..Len(k) : k[i] = a[i]
  BY <1>3, <1>4
<1> QED
  BY <1>2, <1>3, <1>5, SeqEqual

LEMMA StackFront ==
  ASSUME NEW k \in Stacks, k # <<>>
  PROVE  /\ Front(k) \in Stacks /\ Last(k) \in Moves /\ Last(k).turns \in 1..3
         /\ Front(k) # <<>> => /\ Last(Front(k)).face # Last(k).face
                               /\ Last(Front(k)).step <= Last(k).step
<1>1. k \in Seq(Moves) /\ (\A i \in 1..Len(k) : k[i].turns \in 1..3)
  BY DEF Stacks
<1>2. \A i \in 1..(Len(k) - 1) : k[i].face # k[i + 1].face /\ k[i].step <= k[i + 1].step
  BY DEF Stacks
<1>3. /\ Front(k) \in Seq(Moves) /\ Len(k) \in Nat \ {0} /\ Len(Front(k)) = Len(k) - 1
      /\ \A i \in 1..(Len(k) - 1) : Front(k)[i] = k[i]
      /\ Last(k) \in Moves /\ Last(k) = k[Len(k)]
  BY <1>1, FrontIs
<1>4. \A i \in 1..(Len(k) - 1) : i \in 1..Len(k)
  BY <1>3
<1>5. \A i \in 1..((Len(k) - 1) - 1) : i \in 1..(Len(k) - 1) /\ i + 1 \in 1..(Len(k) - 1)
  BY <1>3
<1>6. Front(k) \in Stacks
  <2>1. \A i \in 1..Len(Front(k)) : Front(k)[i].turns \in 1..3
    BY <1>1, <1>3, <1>4
  <2>2. \A i \in 1..(Len(Front(k)) - 1) :
          Front(k)[i].face # Front(k)[i + 1].face /\ Front(k)[i].step <= Front(k)[i + 1].step
    BY <1>2, <1>3, <1>5
  <2> QED
    BY <1>3, <2>1, <2>2 DEF Stacks
<1>7. Last(k).turns \in 1..3
  BY <1>1, <1>3
<1>8. ASSUME Front(k) # <<>>
      PROVE  Last(Front(k)).face # Last(k).face /\ Last(Front(k)).step <= Last(k).step
  <2>1. Last(Front(k)) = Front(k)[Len(Front(k))] /\ Len(Front(k)) \in Nat \ {0}
    BY <1>3, <1>8, FrontIs
  <2>2. PICK n \in Nat : n = Len(k) - 1 /\ n + 1 = Len(k) /\ n \in 1..(Len(k) - 1)
    BY <1>3, <2>1
  <2>3. Last(Front(k)) = k[n] /\ Last(k) = k[n + 1]
    BY <1>3, <2>1, <2>2
  <2> QED
    BY <1>2, <2>2, <2>3
<1> QED
  BY <1>3, <1>6, <1>7, <1>8

LEMMA StackAppend ==
  ASSUME NEW k \in Stacks, NEW m \in Moves, m.turns \in 1..3,
         k # <<>> => Last(k).face # m.face /\ Last(k).step <= m.step
  PROVE  Append(k, m) \in Stacks
<1>1. k \in Seq(Moves) /\ (\A i \in 1..Len(k) : k[i].turns \in 1..3)
  BY DEF Stacks
<1>2. \A i \in 1..(Len(k) - 1) : k[i].face # k[i + 1].face /\ k[i].step <= k[i + 1].step
  BY DEF Stacks
<1>3. PICK a \in Seq(Moves) : a = Append(k, m)
  BY <1>1, AppendIs
<1>4. Len(a) = Len(k) + 1 /\ a[Len(k) + 1] = m /\ \A i \in 1..Len(k) : a[i] = k[i]
  BY <1>1, <1>3, AppendIs
<1>5. Len(k) \in Nat
  BY <1>1
<1>6. \A i \in 1..Len(a) : a[i].turns \in 1..3
  <2>1. \A i \in 1..Len(a) : i \in 1..Len(k) \/ i = Len(k) + 1
    BY <1>4, <1>5
  <2> QED
    BY <1>1, <1>4, <2>1
<1>7. ASSUME NEW i \in 1..(Len(a) - 1)
      PROVE  a[i].face # a[i + 1].face /\ a[i].step <= a[i + 1].step
  <2>1. i \in 1..Len(k) /\ a[i] = k[i]
    BY <1>4, <1>5
  <2>2. CASE i = Len(k)
    <3>1. k # <<>> /\ Last(k) = k[i]
      BY <1>1, <2>1, <2>2 DEF Last
    <3> QED
      BY <1>4, <2>1, <2>2, <3>1
  <2>3. CASE i # Len(k)
    <3>1. i \in 1..(Len(k) - 1) /\ i + 1 \in 1..Len(k)
      BY <1>5, <2>1, <2>3
    <3> QED
      BY <1>2, <1>4, <2>1, <3>1
  <2> QED
    BY <2>2, <2>3
<1> QED
  BY <1>3, <1>6, <1>7 DEF Stacks

-----------------------------------------------------------------------------
(* A move pushed on                                                        *)

\* An entry of a line for a move: of its face and its step.
Entry(line, move, i) == i \in 1..Len(line) /\ line[i].face = move.face /\ line[i].step = move.step

\* The four cases of Push, on what is kept.
LEMMA PushCases ==
  ASSUME NEW k \in Stacks, NEW m \in Moves
  PROVE  \/ m.turns = 0 /\ Push(k, m) = k
         \/ /\ m.turns \in 1..3 /\ (k # <<>> => Last(k).face # m.face)
            /\ Push(k, m) = Append(k, m)
         \/ /\ k # <<>> /\ Last(k).face = m.face /\ (Last(k).turns + m.turns) % 4 = 0
            /\ Push(k, m) = Front(k)
         \/ /\ k # <<>> /\ Last(k).face = m.face
            /\ \E new \in Moves : /\ new.face = m.face /\ new.step = Last(k).step
                                  /\ new.turns \in 1..3
                                  /\ new.turns = (Last(k).turns + m.turns) % 4
                                  /\ Push(k, m) = Append(Front(k), new)
<1>1. k \in Seq(Moves) /\ m.turns \in 0..3
  BY DEF Stacks, Moves
<1>2. CASE m.turns = 0
  BY <1>1, <1>2, PushIs
<1>3. CASE m.turns # 0 /\ (k = <<>> \/ Last(k).face # m.face)
  BY <1>1, <1>3, PushIs
<1>4. CASE m.turns # 0 /\ k # <<>> /\ Last(k).face = m.face
  <2>1. Last(k) \in Moves /\ Last(k).turns \in 1..3
    BY <1>4, StackFront
  <2>2. PICK t \in 0..3 : t = (Last(k).turns + m.turns) % 4
    BY <1>1, <2>1
  <2>3. CASE t = 0
    BY <1>1, <1>4, <2>2, <2>3, PushIs
  <2>4. CASE t # 0
    <3>1. Push(k, m) = WithTurns(k, t)
      BY <1>1, <1>4, <2>2, <2>4, PushIs
    <3>2. PICK p \in Seq(Moves) :
            /\ p = WithTurns(k, t)
            /\ p # <<>> /\ Front(p) = Front(k)
            /\ Last(p) \in Moves /\ Last(p).turns = t
            /\ Last(p).face = Last(k).face /\ Last(p).step = Last(k).step
      BY <1>1, <1>4, <2>2, Replaced
    <3>3. p = Append(Front(k), Last(p))
      BY <3>2, LineIs
    <3>4. t \in 1..3
      BY <2>4
    <3> QED
      BY <1>4, <2>2, <3>1, <3>2, <3>3, <3>4
  <2> QED
    BY <2>3, <2>4
<1> QED
  BY <1>2, <1>3, <1>4

\* What is kept stays well kept, and does what was kept and then the move does.
LEMMA PushedWell ==
  ASSUME NEW k \in Stacks, NEW m \in Moves, k # <<>> => Last(k).step <= m.step, NEW p, p = Push(k, m)
  PROVE  /\ p \in Stacks
         /\ p # <<>> => Last(p).step <= m.step
         /\ Effect(p) = Turned(Effect(k), m)
         /\ \A i \in 1..Len(p) : Entry(p, m, i) \/ \E j \in 1..Len(k) : Entry(k, p[i], j)
<1>1. k \in Seq(Moves) /\ Effect(k) \in Cubes /\ m.step \in Nat
  BY EffectStep DEF Stacks, Moves
<1>2. CASE m.turns = 0 /\ p = k
  BY <1>1, <1>2, TurnedIs DEF Entry
<1>3. CASE /\ m.turns \in 1..3 /\ (k # <<>> => Last(k).face # m.face)
           /\ p = Append(k, m)
  <2>1. /\ p \in Seq(Moves) /\ p # <<>> /\ Front(p) = k /\ Last(p) = m
        /\ Len(p) = Len(k) + 1 /\ p[Len(k) + 1] = m /\ \A i \in 1..Len(k) : p[i] = k[i]
    BY <1>1, <1>3, AppendIs
  <2>2. p \in Stacks
    BY <1>3, StackAppend
  <2>3. Effect(p) = Turned(Effect(k), m)
    BY <2>1, EffectStep
  <2>4. \A i \in 1..Len(p) : i \in 1..Len(k) \/ i = Len(k) + 1
    BY <1>1, <2>1
  <2>5. \A i \in 1..Len(p) : Entry(p, m, i) \/ \E j \in 1..Len(k) : Entry(k, p[i], j)
    BY <2>1, <2>4 DEF Entry
  <2>6. Last(p).step <= m.step
    BY <1>1, <2>1
  <2> QED
    BY <2>2, <2>3, <2>5, <2>6
<1>4. ASSUME k # <<>>, Last(k).face = m.face
      PROVE  /\ Front(k) \in Seq(Moves) /\ Front(k) \in Stacks
             /\ Last(k) \in Moves /\ Last(k).turns \in 1..3
             /\ Last(k).step \in Nat /\ Last(k).step <= m.step
             /\ Front(k) # <<>> => /\ Last(Front(k)).face # m.face
                                   /\ Last(Front(k)).step <= Last(k).step
                                   /\ Last(Front(k)).step \in Nat
             /\ Len(Front(k)) \in Nat /\ Len(k) = Len(Front(k)) + 1 /\ Last(k) = k[Len(k)]
             /\ \A i \in 1..Len(Front(k)) : i \in 1..Len(k) /\ Front(k)[i] = k[i]
             /\ Effect(Front(k)) \in Cubes /\ Effect(k) = Turned(Effect(Front(k)), Last(k))
  <2>1. /\ Front(k) \in Stacks /\ Last(k) \in Moves /\ Last(k).turns \in 1..3
        /\ Front(k) # <<>> => /\ Last(Front(k)).face # Last(k).face
                              /\ Last(Front(k)).step <= Last(k).step
    BY <1>4, StackFront
  <2>2. Front(k) \in Seq(Moves)
    BY <2>1 DEF Stacks
  <2>3. Front(k) # <<>> => Last(Front(k)) \in Moves
    BY <2>1, StackFront
  <2>4. \A x \in Moves : x.step \in Nat
    BY DEF Moves
  <2>5. /\ Len(Front(k)) \in Nat /\ Len(k) = Len(Front(k)) + 1 /\ Last(k) = k[Len(k)]
        /\ \A i \in 1..Len(Front(k)) : i \in 1..Len(k) /\ Front(k)[i] = k[i]
    BY <1>1, <1>4, FrontIs
  <2>6. Effect(Front(k)) \in Cubes /\ Effect(k) = Turned(Effect(Front(k)), Last(k))
    BY <1>1, <1>4, <2>2, EffectStep
  <2> QED
    BY <1>4, <2>1, <2>2, <2>3, <2>4, <2>5, <2>6
<1>5. CASE /\ k # <<>> /\ Last(k).face = m.face /\ (Last(k).turns + m.turns) % 4 = 0
           /\ p = Front(k)
  <2>1. PICK sum \in Moves : sum.face = m.face /\ sum.turns = 0
    <3>1. [m EXCEPT !.turns = 0] \in Moves
      BY DEF Moves
    <3>2. [m EXCEPT !.turns = 0].face = m.face /\ [m EXCEPT !.turns = 0].turns = 0
      BY DEF Moves
    <3> QED
      BY <3>1, <3>2
  <2>2. Turned(Effect(k), m) = Turned(Effect(Front(k)), sum)
    BY <1>4, <1>5, <2>1, TurnedTwice
  <2>3. Turned(Effect(Front(k)), sum) = Effect(Front(k))
    BY <1>4, <1>5, <2>1, TurnedIs
  <2>4. p # <<>> => Last(p).step <= m.step
    BY <1>1, <1>4, <1>5
  <2>5. \A i \in 1..Len(p) : \E j \in 1..Len(k) : Entry(k, p[i], j)
    BY <1>4, <1>5 DEF Entry
  <2>6. p \in Stacks /\ Effect(p) = Turned(Effect(k), m)
    BY <1>4, <1>5, <2>2, <2>3
  <2> QED
    BY <2>4, <2>5, <2>6
<1>6. ASSUME k # <<>>, Last(k).face = m.face,
             NEW new \in Moves, new.face = m.face, new.step = Last(k).step, new.turns \in 1..3,
             new.turns = (Last(k).turns + m.turns) % 4,
             p = Append(Front(k), new)
      PROVE  /\ p \in Stacks
             /\ p # <<>> => Last(p).step <= m.step
             /\ Effect(p) = Turned(Effect(k), m)
             /\ \A i \in 1..Len(p) : \E j \in 1..Len(k) : Entry(k, p[i], j)
  <2>1. /\ p \in Seq(Moves) /\ p # <<>> /\ Front(p) = Front(k) /\ Last(p) = new
        /\ Len(p) = Len(Front(k)) + 1 /\ p[Len(Front(k)) + 1] = new
        /\ \A i \in 1..Len(Front(k)) : p[i] = Front(k)[i]
    BY <1>4, <1>6, AppendIs
  <2>2. p \in Stacks
    BY <1>4, <1>6, StackAppend
  <2>3. Effect(p) = Turned(Effect(Front(k)), new)
    BY <2>1, EffectStep
  <2>4. Turned(Effect(k), m) = Turned(Effect(Front(k)), new)
    BY <1>4, <1>6, TurnedTwice
  <2>5. \A i \in 1..Len(p) : i \in 1..Len(Front(k)) \/ i = Len(k)
    BY <1>4, <1>6, <2>1
  <2>6. \A i \in 1..Len(p) : \E j \in 1..Len(k) : Entry(k, p[i], j)
    <3>1. \A i \in 1..Len(Front(k)) : Entry(k, p[i], i)
      BY <1>4, <1>6, <2>1 DEF Entry
    <3>2. Len(k) \in 1..Len(k) /\ Entry(k, p[Len(k)], Len(k))
      BY <1>4, <1>6, <2>1 DEF Entry
    <3>3. \A i \in 1..Len(Front(k)) : i \in 1..Len(k)
      BY <1>4, <1>6
    <3> QED
      BY <2>5, <3>1, <3>2, <3>3
  <2> QED
    BY <1>4, <1>6, <2>1, <2>2, <2>3, <2>4, <2>6
<1> QED
  BY <1>2, <1>3, <1>5, <1>6, PushCases

-----------------------------------------------------------------------------
(* A whole line                                                            *)

\* The lines a solver makes: their steps are in order.
Lines == {line \in Seq(Moves) : \A i \in 1..(Len(line) - 1) : line[i].step <= line[i + 1].step}

WellMerged(line) ==
  LET merged == Merged(line) IN
  /\ merged \in Stacks
  /\ merged # <<>> => line # <<>> /\ Last(merged).step <= Last(line).step
  /\ Effect(merged) = Effect(line)
  /\ \A i \in 1..Len(merged) : \E j \in 1..Len(line) : Entry(line, merged[i], j)

LEMMA LineFront ==
  ASSUME NEW line \in Lines, line # <<>>
  PROVE  /\ Front(line) \in Lines
         /\ Front(line) # <<>> => Last(Front(line)).step <= Last(line).step
<1>1. /\ line \in Seq(Moves)
      /\ \A i \in 1..(Len(line) - 1) : line[i].step <= line[i + 1].step
  BY DEF Lines
<1>2. /\ Front(line) \in Seq(Moves) /\ Len(line) \in Nat \ {0} /\ Len(Front(line)) = Len(line) - 1
      /\ \A i \in 1..(Len(line) - 1) : Front(line)[i] = line[i]
      /\ Last(line) = line[Len(line)]
  BY <1>1, FrontIs
<1>3. \A i \in 1..((Len(line) - 1) - 1) : i \in 1..(Len(line) - 1) /\ i + 1 \in 1..(Len(line) - 1)
  BY <1>2
<1>4. \A i \in 1..(Len(Front(line)) - 1) : Front(line)[i].step <= Front(line)[i + 1].step
  BY <1>1, <1>2, <1>3
<1>5. ASSUME Front(line) # <<>> PROVE Last(Front(line)).step <= Last(line).step
  <2>1. Last(Front(line)) = Front(line)[Len(Front(line))] /\ Len(Front(line)) \in Nat \ {0}
    BY <1>2, <1>5, FrontIs
  <2>2. PICK n \in Nat : n = Len(line) - 1 /\ n + 1 = Len(line) /\ n \in 1..(Len(line) - 1)
    BY <1>2, <2>1
  <2>3. Last(Front(line)) = line[n] /\ Last(line) = line[n + 1]
    BY <1>2, <2>1, <2>2
  <2> QED
    BY <1>1, <2>2, <2>3
<1> QED
  BY <1>2, <1>4, <1>5 DEF Lines

LEMMA MergedWell ==
  ASSUME NEW line \in Lines
  PROVE  WellMerged(line)
<1> DEFINE Good == {n \in Nat : \A l \in Lines : Len(l) = n => WellMerged(l)}
<1>1. 0 \in Good
  <2> SUFFICES ASSUME NEW l \in Lines, Len(l) = 0 PROVE WellMerged(l)
    OBVIOUS
  <2>1. l \in Seq(Moves) /\ l = <<>>
    BY DEF Lines
  <2>2. Merged(l) = <<>>
    BY <2>1, MergedStep
  <2>3. <<>> \in Stacks
    BY DEF Stacks
  <2> QED
    BY <2>1, <2>2, <2>3 DEF WellMerged
<1>2. ASSUME NEW n \in Nat, n \in Good PROVE n + 1 \in Good
  <2> SUFFICES ASSUME NEW l \in Lines, Len(l) = n + 1 PROVE WellMerged(l)
    OBVIOUS
  <2>1. l \in Seq(Moves) /\ l # <<>>
    BY DEF Lines
  <2>2. /\ Front(l) \in Seq(Moves) /\ Len(Front(l)) = n
        /\ \A i \in 1..n : Front(l)[i] = l[i]
        /\ Last(l) \in Moves /\ Last(l) = l[n + 1]
    <3>1. /\ Front(l) \in Seq(Moves) /\ Len(Front(l)) = Len(l) - 1
          /\ \A i \in 1..(Len(l) - 1) : Front(l)[i] = l[i]
          /\ Last(l) \in Moves /\ Last(l) = l[Len(l)]
      BY <2>1, FrontIs
    <3>2. Len(l) - 1 = n
      OBVIOUS
    <3> QED
      BY <3>1, <3>2
  <2>3. /\ Front(l) \in Lines
        /\ Front(l) # <<>> => Last(Front(l)).step <= Last(l).step
    BY <2>1, LineFront
  <2>4. WellMerged(Front(l))
    BY <1>2, <2>2, <2>3
  <2>5. PICK k : k = Merged(Front(l))
    OBVIOUS
  <2>6. PICK p : p = Push(k, Last(l))
    OBVIOUS
  <2>7. Merged(l) = p
    BY <2>1, <2>5, <2>6, MergedStep
  <2>8. /\ k \in Stacks /\ (k # <<>> => Front(l) # <<>> /\ Last(k).step <= Last(Front(l)).step)
        /\ Effect(k) = Effect(Front(l))
        /\ \A i \in 1..Len(k) : \E j \in 1..n : Entry(Front(l), k[i], j)
    BY <2>2, <2>4, <2>5 DEF WellMerged
  <2>9. k # <<>> => Last(k).step <= Last(l).step
    <3>1. k # <<>> => /\ Last(k) \in Moves /\ Last(Front(l)) \in Moves
      BY <2>2, <2>8, StackFront, FrontIs
    <3>2. \A x \in Moves : x.step \in Nat
      BY DEF Moves
    <3> QED
      BY <2>2, <2>3, <2>8, <3>1, <3>2
  <2>10. /\ p \in Stacks /\ (p # <<>> => Last(p).step <= Last(l).step)
         /\ Effect(p) = Turned(Effect(k), Last(l))
         /\ \A i \in 1..Len(p) : Entry(p, Last(l), i) \/ \E j \in 1..Len(k) : Entry(k, p[i], j)
    BY <2>2, <2>6, <2>8, <2>9, PushedWell
  <2>11. Effect(p) = Effect(l)
    BY <2>1, <2>8, <2>10, EffectStep
  <2>12. ASSUME NEW i \in 1..Len(p) PROVE \E j \in 1..Len(l) : Entry(l, p[i], j)
    <3>1. CASE Entry(p, Last(l), i)
      <4>1. n + 1 \in 1..Len(l)
        OBVIOUS
      <4>2. Entry(l, p[i], n + 1)
        BY <2>2, <3>1, <4>1 DEF Entry
      <4> QED
        BY <4>1, <4>2
    <3>2. ASSUME NEW j \in 1..Len(k), Entry(k, p[i], j) PROVE \E h \in 1..Len(l) : Entry(l, p[i], h)
      <4>1. PICK h \in 1..n : Entry(Front(l), k[j], h)
        BY <2>8
      <4>2. h \in 1..Len(l)
        BY <4>1
      <4>3. Entry(l, p[i], h)
        BY <2>2, <3>2, <4>1, <4>2 DEF Entry
      <4> QED
        BY <4>2, <4>3
    <3> QED
      BY <2>10, <3>1, <3>2
  <2> QED
    BY <2>1, <2>7, <2>10, <2>11, <2>12 DEF WellMerged
<1> HIDE DEF Good
<1>3. \A n \in Nat : n \in Good
  BY <1>1, <1>2, Induct
<1>4. Len(line) \in Nat
  BY DEF Lines
<1> QED
  BY <1>3, <1>4 DEF Good

\* There is nothing to merge in what is kept.
LEMMA MergedAgain ==
  ASSUME NEW kept \in Stacks
  PROVE  Merged(kept) = kept
<1> DEFINE Good == {n \in Nat : \A k \in Stacks : Len(k) = n => Merged(k) = k}
<1>1. 0 \in Good
  <2> SUFFICES ASSUME NEW k \in Stacks, Len(k) = 0 PROVE Merged(k) = k
    OBVIOUS
  <2>1. k \in Seq(Moves) /\ k = <<>>
    BY DEF Stacks
  <2> QED
    BY <2>1, MergedStep
<1>2. ASSUME NEW n \in Nat, n \in Good PROVE n + 1 \in Good
  <2> SUFFICES ASSUME NEW k \in Stacks, Len(k) = n + 1 PROVE Merged(k) = k
    OBVIOUS
  <2>1. k \in Seq(Moves) /\ k # <<>>
    BY DEF Stacks
  <2>2. Len(Front(k)) = n /\ Front(k) \in Seq(Moves)
    BY <2>1, FrontIs
  <2>3. /\ Front(k) \in Stacks /\ Last(k) \in Moves /\ Last(k).turns \in 1..3
        /\ Front(k) # <<>> => Last(Front(k)).face # Last(k).face
    BY <2>1, StackFront
  <2>4. Merged(Front(k)) = Front(k)
    BY <1>2, <2>2, <2>3
  <2>5. Merged(k) = Push(Front(k), Last(k))
    BY <2>1, <2>4, MergedStep
  <2>6. Push(Front(k), Last(k)) = Append(Front(k), Last(k))
    BY <2>2, <2>3, PushIs
  <2> QED
    BY <2>1, <2>5, <2>6, LineIs
<1> HIDE DEF Good
<1>3. \A n \in Nat : n \in Good
  BY <1>1, <1>2, Induct
<1>4. Len(kept) \in Nat
  BY DEF Stacks
<1> QED
  BY <1>3, <1>4 DEF Good

-----------------------------------------------------------------------------
(* The moves of a solution are put on in the order of its steps.           *)
MergingInv ==
  /\ solution \in Lines /\ steps \in Nat
  /\ \A i \in DOMAIN solution : solution[i].step <= steps

LEMMA MergingInitInv == MergingInit => MergingInv
BY DEF MergingInit, MergingInv, Lines

LEMMA MergingNextInv == MergingInv /\ [MergingNext]_mergingVars => MergingInv'
<1> SUFFICES ASSUME MergingInv, [MergingNext]_mergingVars PROVE MergingInv'
  OBVIOUS
<1>1. /\ solution \in Seq(Moves) /\ steps \in Nat
      /\ \A i \in 1..(Len(solution) - 1) : solution[i].step <= solution[i + 1].step
      /\ \A i \in 1..Len(solution) : solution[i].step <= steps
  BY DEF MergingInv, Lines
<1>2. ASSUME NEW face \in Faces, NEW turns \in Turns, AddMove(face, turns) PROVE MergingInv'
  <2>1. PICK m \in Moves : m = [step |-> steps, face |-> face, turns |-> turns]
    BY <1>1, MergingAssumption DEF Moves
  <2>2. m.step = steps /\ solution' = Append(solution, m) /\ steps' = steps
    BY <1>2, <2>1 DEF AddMove
  <2>3. PICK L \in Nat : L = Len(solution)
    BY <1>1
  <2>4. /\ solution' \in Seq(Moves) /\ Len(solution') = L + 1
        /\ solution'[L + 1].step = steps /\ \A i \in 1..L : solution'[i] = solution[i]
    BY <1>1, <2>2, <2>3, AppendIs
  <2>5. ASSUME NEW i \in 1..L PROVE solution'[i].step <= solution'[i + 1].step
    <3>1. CASE i = L
      BY <1>1, <2>3, <2>4, <3>1
    <3>2. CASE i # L
      <4>1. i \in 1..(L - 1) /\ i + 1 \in 1..L
        BY <3>2
      <4> QED
        BY <1>1, <2>3, <2>4, <4>1
    <3> QED
      BY <3>1, <3>2
  <2>6. \A i \in 1..(L + 1) : solution'[i].step <= steps
    <3>1. \A i \in 1..(L + 1) : i \in 1..L \/ i = L + 1
      OBVIOUS
    <3> QED
      BY <1>1, <2>3, <2>4, <3>1
  <2>7. DOMAIN solution' = 1..(L + 1) /\ (Len(solution') - 1) = L
    BY <2>4
  <2> QED
    BY <1>1, <2>2, <2>4, <2>5, <2>6, <2>7 DEF MergingInv, Lines
<1>3. CASE NextStage
  <2>1. solution' = solution /\ steps' = steps + 1
    BY <1>3 DEF NextStage
  <2>2. \A m \in Moves : m.step \in Nat
    BY DEF Moves
  <2>3. \A i \in DOMAIN solution : solution[i] \in Moves
    BY <1>1
  <2>4. \A i \in DOMAIN solution : solution[i].step <= steps + 1
    BY <1>1, <2>2, <2>3
  <2>5. solution \in Lines /\ steps + 1 \in Nat
    BY <1>1 DEF MergingInv
  <2> QED
    BY <2>1, <2>4, <2>5 DEF MergingInv
<1>4. CASE UNCHANGED mergingVars
  BY <1>4 DEF mergingVars, MergingInv
<1> QED
  BY <1>2, <1>3, <1>4 DEF MergingNext

LEMMA InOrderMergedDoesTheSame == MergingInv => MergedDoesTheSame
<1> SUFFICES ASSUME MergingInv PROVE MergedDoesTheSame
  OBVIOUS
<1>1. solution \in Lines /\ WellMerged(solution)
  BY MergedWell DEF MergingInv
<1>2. DOMAIN solution = 1..Len(solution)
  BY <1>1 DEF Lines
<1>3. PICK merged : merged = Merged(solution)
  OBVIOUS
<1>4. /\ merged \in Stacks /\ Effect(merged) = Effect(solution)
      /\ \A i \in 1..Len(merged) : \E j \in 1..Len(solution) : Entry(solution, merged[i], j)
  BY <1>1, <1>3 DEF WellMerged
<1>5. /\ DOMAIN merged = 1..Len(merged)
      /\ \A i \in 1..Len(merged) : merged[i].turns \in 1..3
      /\ \A i \in 1..(Len(merged) - 1) :
           merged[i].face # merged[i + 1].face /\ merged[i].step <= merged[i + 1].step
  BY <1>4 DEF Stacks
<1>6. Merged(merged) = merged
  BY <1>4, MergedAgain
<1>7. \A i \in DOMAIN merged : \E j \in DOMAIN solution :
        solution[j].face = merged[i].face /\ solution[j].step = merged[i].step
  BY <1>2, <1>4, <1>5 DEF Entry
<1> QED
  BY <1>3, <1>4, <1>5, <1>6, <1>7 DEF MergedDoesTheSame

(* A merged solution does to a cube what the solution does, with no two    *)
(* moves of a face beside each other, in the order of its steps, each move *)
(* in a step that turned its face, and nothing left to merge.              *)
THEOREM MergingKeepsTheEffect == MergingSpec => []MergedDoesTheSame
<1>1. MergingSpec => []MergingInv
  BY MergingInitInv, MergingNextInv, PTL DEF MergingSpec
<1> QED
  BY <1>1, InOrderMergedDoesTheSame, PTL

\* The moves of a solution are moves, in steps it has.
THEOREM MergingStaysTyped == MergingSpec => []MergingTypeOK
<1>1. MergingSpec => []MergingInv
  BY MergingInitInv, MergingNextInv, PTL DEF MergingSpec
<1>2. MergingInv => MergingTypeOK
  BY DEF MergingInv, MergingTypeOK, Lines
<1> QED
  BY <1>1, <1>2, PTL

-----------------------------------------------------------------------------
(* The parts together                                                      *)

\* A step of the parts is a step of each one, or leaves it standing still.
LEMMA PartsStep ==
  ASSUME [PartsNext]_partsVars
  PROVE  /\ [Next]_vars /\ [RecorderNext]_recorderVars /\ [IsolationNext]_isolationVars
         /\ [SidesNext]_sidesVars /\ [MergingNext]_mergingVars
  BY DEF PartsNext, Camera, partsVars

\* What is checked of the five parts in one run is what each one does by itself:
\* a behaviour of the parts is one of each part's own specification, so every
\* theorem about a part is one about the behaviours that the run explores.
THEOREM PartsAreTheirOwn ==
  PartsSpec => Spec /\ RecorderSpec /\ IsolationSpec /\ SidesSpec /\ MergingSpec
<1>1. PartsInit => Init /\ RecorderInit /\ IsolationInit /\ SidesInit /\ MergingInit
  BY DEF PartsInit
<1>2. [PartsNext]_partsVars =>
        /\ [Next]_vars /\ [RecorderNext]_recorderVars /\ [IsolationNext]_isolationVars
        /\ [SidesNext]_sidesVars /\ [MergingNext]_mergingVars
  BY PartsStep
<1> QED
  BY <1>1, <1>2, PTL DEF PartsSpec, Spec, RecorderSpec, IsolationSpec, SidesSpec, MergingSpec

LoadsInBounds == loads \in [Tabs -> 0..MaxLoads]

LEMMA LoadsInit == IsolationInit => LoadsInBounds
  BY LoadsCounted DEF IsolationInit, LoadsInBounds

LEMMA LoadsStep == LoadsInBounds /\ [IsolationNext]_isolationVars => LoadsInBounds'
<1> SUFFICES ASSUME LoadsInBounds, [IsolationNext]_isolationVars PROVE LoadsInBounds'
  OBVIOUS
<1>1. ASSUME NEW t \in Tabs, Load(t) PROVE LoadsInBounds'
  <2>1. loads[t] \in 0..MaxLoads /\ loads[t] < MaxLoads
    BY <1>1 DEF Load, LoadsInBounds
  <2>2. loads[t] + 1 \in 0..MaxLoads /\ loads' = [loads EXCEPT ![t] = @ + 1]
    BY <1>1, <2>1, LoadsCounted DEF Load
  <2> QED
    BY <2>2 DEF LoadsInBounds
<1>2. ASSUME UNCHANGED loads PROVE LoadsInBounds'
  BY <1>2 DEF LoadsInBounds
<1>3. (\E t \in Tabs : Load(t)) \/ UNCHANGED loads
  BY DEF IsolationNext, isolationVars, Run, Registered, Rejected, Activated, Activate, NotInstalled
<1> QED
  BY <1>1, <1>2, <1>3

\* The page's state keeps its type: no page is loaded more often than by hand.
THEOREM IsolationStaysTyped == IsolationSpec => []IsolationTypeOK
<1>1. IsolationInv /\ LoadsInBounds => IsolationTypeOK
  BY DEF LoadsInBounds, IsolationInv, IsolationTypes, IsolationTypeOK, Pages
<1> QED
  BY <1>1, IsolationStarts, IsolationStep, LoadsInit, LoadsStep, PTL DEF IsolationSpec

\* Every part keeps the types of its state.
THEOREM PartsStayTyped == PartsSpec => []PartsTypeOK
<1>1. TypeOK /\ RecorderTypeOK /\ IsolationTypeOK /\ SidesTypeOK /\ MergingTypeOK => PartsTypeOK
  BY DEF PartsTypeOK
<1> QED
  BY <1>1, PartsAreTheirOwn, CameraTypes, RecorderTypes, IsolationStaysTyped, SidesStayTyped,
     MergingStaysTyped, PTL

\* And what is promised of each: nothing that was opened stays on, the device is
\* left as it was found, no event is torn, a page reloads itself once, the sides
\* in view are on the list, and a merged solution does the same to every cube.
THEOREM PartsKeepTheirPromises ==
  PartsSpec => [](/\ NothingLeftOn /\ ModesPutBack /\ WhatIsReportedIsSo
                  /\ NoTornEvent /\ OneReload /\ SidesInView /\ MergedDoesTheSame)
BY PartsAreTheirOwn, NothingStaysOn, LeavesModesAsFound, ReportsAreSo, NothingTorn, OneReloadEach,
   SidesAlwaysInView, MergingKeepsTheEffect, PTL

=============================================================================

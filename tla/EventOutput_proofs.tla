-------------------------- MODULE EventOutput_proofs --------------------------
(***************************************************************************)
(* Theorems about EventOutput, for any number of channels, any lengths of  *)
(* packets that fit the FIFO of the manager, and any number of events and  *)
(* of writes of the host: the types, and that the components together      *)
(* implement PacketStream.                                                 *)
(***************************************************************************)
EXTENDS EventOutput, TLAPS, FiniteSetTheorems, SequenceTheorems

-----------------------------------------------------------------------------
(* A pulse processor.                                                      *)

(* Numbers of samples that may lie between two settings of the host.       *)
Between(s) == \E m, n \in Waveforms : s \in m..n

States == {"Idle", "WaitMgrGrant", "Send", "WriteSeparator_0", "Finalize"}
Processors == [state : States, event : 0..Events, place : 1..FifoWords,
               EventReady : BOOLEAN, word : Words]

(* Without the grant it says nothing.                                      *)
Resting(p) ==
  /\ p.state \in {"Idle", "WaitMgrGrant", "Finalize"} /\ p.word = NoWord
  /\ p.EventReady <=> p.state = "WaitMgrGrant"
  /\ p.state = "WaitMgrGrant" => p.event > 0 /\ p.place = 1

(* With the grant it goes through its packet.                              *)
Granted(p) == p.state = "WaitMgrGrant" /\ Resting(p)
Sends(ch, p) ==
  /\ p.state = "Send" /\ p.EventReady /\ p.event > 0
  /\ p.word = IF p.place = 1 THEN NoWord ELSE Word(ch, p, p.place - 1)
  /\ \E n \in Waveforms : p.place <= HeaderWords + n + 1
Separates(ch, p) ==
  /\ p.state = "WriteSeparator_0" /\ p.EventReady /\ p.event > 0
  /\ p.word \in {NoWord, Word(ch, p, p.place - 1)}
  /\ p.place > HeaderWords /\ Between(p.place - 1 - HeaderWords)
Ends(ch, p) ==
  /\ p.state = "Finalize" /\ p.EventReady /\ p.event > 0
  /\ p.word = Word(ch, p, End)
  /\ p.place > HeaderWords /\ Between(p.place - 1 - HeaderWords)
Sent(p) ==
  /\ p.state = "Finalize" /\ ~p.EventReady /\ p.event > 0 /\ p.word = NoWord
  /\ p.place > HeaderWords /\ Between(p.place - 1 - HeaderWords)
AtWork(ch, p) ==
  Granted(p) \/ Sends(ch, p) \/ Separates(ch, p) \/ Ends(ch, p) \/ Sent(p)

(* Words of its packet that have gone into the FIFO of the manager.        *)
InFifo(p) ==
  IF p.state = "WaitMgrGrant" THEN 0
  ELSE IF Sent(p) THEN p.place
  ELSE IF p.word = NoWord \/ p.state = "Finalize" THEN p.place - 1
  ELSE p.place - 2

ProcessorsWork ==
  /\ processor \in [Channel -> Processors]
  /\ \A ch \in Channel : IF ch \in Grant THEN AtWork(ch, processor[ch])
                                         ELSE Resting(processor[ch])

-----------------------------------------------------------------------------
(* The consumer manager.                                                   *)

Transfers == {"TransferToEventFIFO0", "TransferToEventFIFO1", "TransferToEventFIFO2"}
Quiet == {"Initialize", "Idle", "WaitReset", "Finalize"}

ManagerTypes ==
  /\ UserModule_state \in Quiet \cup Transfers \cup {"Grant"}
  /\ LoopI \in 0..NumberOfConsumerNodes
  /\ ResetDone \in BOOLEAN /\ FifoReadEnable \in BOOLEAN /\ EventFIFOWriteEnable \in BOOLEAN
  /\ fifo \in Seq(Words \ {NoWord}) /\ Len(fifo) <= FifoWords
  /\ FifoDataOut \in Words /\ EventFIFOWriteData \in Words
RegisterTypes ==
  /\ iBus_beWritten_state \in {"Initialize", "Idle", "DataReceive", "WaitDone",
                               "WaitResetDone"}
  /\ beWritten \in Writes \cup {NoWrite}
  /\ iBus_beWritten_state = "DataReceive" => beWritten # NoWrite
  /\ EventOutputDisable \in BOOLEAN /\ EventPacket_NumberOfWaveform \in Waveforms
  /\ ResetRegister \in BOOLEAN
EventFifoTypes ==
  /\ EventFIFOReset \in BOOLEAN /\ count \in 0..EventFifoWords /\ last \in Words
  /\ seen \in [Channel -> Nat] /\ skipped \in Nat /\ resets \in Nat

ManagerWorks ==
  /\ Grant = IF At("Grant") THEN {LoopI} ELSE {}
  /\ At("Grant") => LoopI \in Channel
  /\ ResetDone <=> At("WaitReset")
  /\ FifoReadEnable <=> At("TransferToEventFIFO1")
  /\ At("TransferToEventFIFO1") => fifo # << >>
  /\ EventFIFOWriteEnable => /\ At("TransferToEventFIFO0") /\ EventFIFOWriteData # NoWord
                             /\ count < EventFifoWords
  /\ At("TransferToEventFIFO2") => FifoDataOut # NoWord
  /\ UserModule_state \in Quiet => fifo = << >>
  /\ EventFIFOReset /\ ~ResetRegister => At("WaitReset")

-----------------------------------------------------------------------------
(* The words on their way to the EventFIFO are one packet, or the rest of  *)
(* one.                                                                    *)

Follows(v, w) ==
  /\ v.place # End /\ w.ch = v.ch /\ w.event = v.event
  /\ \/ w.place = v.place + 1
     \/ w.place = End /\ Between(v.place - HeaderWords)
Chain(s) == \A i \in 1..Len(s) - 1 : Follows(s[i], s[i + 1])

(* While it is granted the packet is in the FIFO from its first word on.   *)
Gathers(ch, p, s) ==
  /\ Len(s) = InFifo(p)
  /\ s # << >> => /\ s[1] = Word(ch, p, 1)
                  /\ s[Len(s)] = IF Sent(p) THEN Word(ch, p, End) ELSE Word(ch, p, Len(s))
PacketComes == At("Grant") => Gathers(LoopI, processor[LoopI], fifo)

(* In the transfer the end flag is the last of the words that are left,    *)
(* and the word ahead of the FIFO goes before them.                        *)
Ahead ==
  IF EventFIFOWriteEnable THEN EventFIFOWriteData
  ELSE IF At("TransferToEventFIFO2") THEN FifoDataOut ELSE NoWord
Front == IF Ahead # NoWord THEN Ahead ELSE IF fifo # << >> THEN fifo[1] ELSE NoWord
PacketGoes ==
  UserModule_state \in Transfers =>
    /\ IF fifo # << >> THEN fifo[Len(fifo)].place = End ELSE Ahead.place = End
    /\ Ahead # NoWord /\ fifo # << >> => Follows(Ahead, fifo[1])

(* What the EventFIFO has of the packet goes before what is left of it.    *)
OnTheWay == UserModule_state \in Transfers /\ Front # NoWord
Fits ==
  /\ EventFIFOReset => last = NoWord
  /\ ~EventFIFOReset => IF OnTheWay /\ Front.place # 1 THEN Follows(last, Front)
                                                       ELSE last.place = End

-----------------------------------------------------------------------------
(* The number of the event whose packet was begun last.                    *)
Begun(p) == IF p.state = "WaitMgrGrant" THEN p.event - 1 ELSE p.event

(* Its first word has not come to the EventFIFO.                           *)
StillToCome(ch) ==
  \/ At("Grant") /\ ch = LoopI /\ processor[ch].state # "WaitMgrGrant"
  \/ OnTheWay /\ Front.ch = ch /\ Front.place = 1
Expected(ch) ==
  IF StillToCome(ch) THEN Begun(processor[ch]) ELSE Begun(processor[ch]) + 1

(* Events that a reset has swallowed and no later event has shown missing. *)
Missing(s, e) == {ce \in Channel \X (1..Events) : s[ce[1]] < ce[2] /\ ce[2] < e[ce[1]]}
AllExpected == [ch \in Channel |-> Expected(ch)]
Swallowed == Missing(seen, AllExpected)

EventsCount ==
  /\ OnTheWay => Front.event = Begun(processor[Front.ch])
  /\ \A ch \in Channel : seen[ch] < Expected(ch)

(* A reset swallows one event at most, and while it lasts one may come.    *)
Comes == At("Grant") \/ (OnTheWay /\ Front.place = 1)
OneForEachReset ==
  skipped + Cardinality(Swallowed) + (IF EventFIFOReset /\ Comes THEN 1 ELSE 0) <= resets

IInv ==
  /\ ProcessorsWork /\ ManagerTypes /\ RegisterTypes /\ EventFifoTypes
  /\ ManagerWorks /\ Chain(fifo) /\ PacketComes /\ PacketGoes /\ Fits
  /\ EventsCount /\ OneForEachReset

USE ConstantsAssumption

-----------------------------------------------------------------------------
(* The constants, the words and what the channels are.                     *)
LEMMA Sizes ==
  /\ HeaderWords \in Nat /\ HeaderWords >= 1 /\ FifoWords \in Nat
  /\ HeaderWords + 1 <= FifoWords /\ EventFifoWords \in Nat /\ EventFifoWords >= 1
  /\ Events \in Nat /\ NumberOfConsumerNodes \in Nat
  /\ \A n \in Waveforms : n \in Nat /\ HeaderWords + n + 1 <= FifoWords
  /\ \A ch \in Channel : ch \in Nat /\ ch \in 0..NumberOfConsumerNodes
  /\ \A ch \in 0..NumberOfConsumerNodes : ch # NumberOfConsumerNodes => ch \in Channel
  /\ End = 0
<1>1. End = 0 BY DEF End, Stream!End
<1>2. \A n \in Waveforms : n \in Nat /\ HeaderWords + n + 1 <= FifoWords
  OBVIOUS
<1>3. HeaderWords + 1 <= FifoWords
  <2>1. PICK n : n \in Waveforms OBVIOUS
  <2> QED BY <1>2, <2>1
<1> QED BY <1>1, <1>2, <1>3 DEF Channel

(* A word is its channel, its event and its place.                         *)
LEMMA WordFields ==
  /\ NoWord \in Words /\ NoWord.place = End /\ NoWord.ch = -1
  /\ \A w \in Words : w # NoWord =>
       w.ch \in Channel /\ w.event \in 1..Events /\ w.place \in 0..FifoWords
  /\ \A ch \in Channel, p \in Processors, k \in 0..FifoWords : p.event > 0 =>
       /\ Word(ch, p, k) \in Words /\ Word(ch, p, k) # NoWord
       /\ Word(ch, p, k).ch = ch /\ Word(ch, p, k).event = p.event
       /\ Word(ch, p, k).place = k
<1>1. NoWord = [ch |-> -1, event |-> 0, place |-> 0]
  BY DEF NoWord, Stream!NoWord, Stream!End
<1>2. NoWord \in Words /\ NoWord.place = End /\ NoWord.ch = -1
  BY <1>1, Sizes DEF Words
<1>3. ASSUME NEW w \in Words, w # NoWord
      PROVE  w.ch \in Channel /\ w.event \in 1..Events /\ w.place \in 0..FifoWords
  BY <1>3, Sizes DEF Words
<1>4. ASSUME NEW ch \in Channel, NEW p \in Processors, NEW k \in 0..FifoWords, p.event > 0
      PROVE  /\ Word(ch, p, k) \in Words /\ Word(ch, p, k) # NoWord
             /\ Word(ch, p, k).ch = ch /\ Word(ch, p, k).event = p.event
             /\ Word(ch, p, k).place = k
  <2>1. p.event \in 1..Events BY <1>4, Sizes DEF Processors
  <2>2. k \in {End} \cup 1..FifoWords BY Sizes
  <2>3. Word(ch, p, k) \in Words BY <2>1, <2>2 DEF Word, Words
  <2>4. ch # -1 BY Sizes
  <2>5. Word(ch, p, k).ch = ch /\ Word(ch, p, k).event = p.event /\ Word(ch, p, k).place = k
    BY DEF Word
  <2>6. Word(ch, p, k) # NoWord BY <1>2, <2>4, <2>5
  <2> QED BY <2>3, <2>5, <2>6
<1> QED BY <1>2, <1>3, <1>4

-----------------------------------------------------------------------------
(* What a tick makes of a pulse processor without the grant, and of the    *)
(* one that has it.                                                        *)
RestStep(p, q) ==
  /\ q \in Processors /\ Resting(q) /\ Begun(q) = Begun(p)
  /\ p.EventReady => q = p
WorkStep(ch, p, q) ==
  /\ q \in Processors /\ AtWork(ch, q) /\ q.state # "WaitMgrGrant" /\ q.event = p.event
  /\ InFifo(p) \in Nat /\ InFifo(q) = InFifo(p) + (IF p.word # NoWord THEN 1 ELSE 0)
  /\ p.word # NoWord =>
       /\ p.word = IF Sent(q) THEN Word(ch, p, End) ELSE Word(ch, p, InFifo(q))
       /\ ~Sent(p) /\ InFifo(p) < FifoWords
       /\ InFifo(p) > 0 => Follows(Word(ch, p, InFifo(p)), p.word)
       /\ InFifo(p) = 0 => p.word = Word(ch, p, 1)
  /\ p.word = NoWord => (Sent(q) <=> Sent(p))
  /\ ~p.EventReady => Sent(p) /\ q = p

(* A pulse processor without the grant takes a step of those it may take.  *)
LEMMA RestStepHolds ==
  ASSUME NEW ch \in Channel, NEW p \in Processors, Resting(p), ch \notin Grant
  PROVE  /\ RestStep(p, After(ch, p))
         /\ p.state = "Idle" /\ p.event < Events => RestStep(p, TakeEvent(p))
<1> USE DEF Resting
<1>1. CASE p.state = "Idle"
  <2>1. After(ch, p) = p BY <1>1 DEF After
  <2>2. RestStep(p, After(ch, p)) BY <1>1, <2>1 DEF RestStep
  <2>3. ASSUME p.event < Events PROVE RestStep(p, TakeEvent(p))
    <3> DEFINE q == TakeEvent(p)
    <3>1. /\ q.state = "WaitMgrGrant" /\ q.event = p.event + 1 /\ q.place = 1
          /\ q.EventReady = TRUE /\ q.word = NoWord
      BY <1>1 DEF TakeEvent, Processors
    <3>2. p.event \in Nat BY Sizes DEF Processors
    <3>3. q \in Processors
      <4>1. p.event + 1 \in 0..Events BY <2>3, <3>2, Sizes
      <4>2. 1 \in 1..FifoWords BY Sizes
      <4>3. q \in [state : States, event : 0..Events, place : 1..FifoWords,
                   EventReady : {TRUE}, word : Words]
        BY <4>1, <4>2 DEF TakeEvent, Processors, States
      <4> QED BY <4>3 DEF Processors
    <3>4. Begun(q) = Begun(p) BY <1>1, <3>1, <3>2 DEF Begun
    <3>5. Resting(q) BY <3>1, <3>2
    <3>6. ~p.EventReady BY <1>1
    <3> QED BY <3>3, <3>4, <3>5, <3>6 DEF RestStep
  <2> QED BY <2>2, <2>3
<1>2. CASE p.state = "WaitMgrGrant"
  <2>1. After(ch, p) = p BY <1>2 DEF After, WaitMgrGrant
  <2> QED BY <1>2, <2>1 DEF RestStep
<1>3. CASE p.state = "Finalize"
  <2> DEFINE q == After(ch, p)
  <2>1. q = [p EXCEPT !.word = NoWord, !.EventReady = FALSE, !.state = "Idle"]
    BY <1>3 DEF After, Finalize
  <2>2. /\ q.state = "Idle" /\ q.event = p.event /\ q.EventReady = FALSE /\ q.word = NoWord
        /\ q \in Processors
    BY <2>1, WordFields DEF Processors, States
  <2>3. Begun(q) = Begun(p) BY <1>3, <2>2 DEF Begun
  <2>4. ~p.EventReady BY <1>3
  <2> QED BY <1>3, <2>2, <2>3, <2>4 DEF RestStep
<1> QED BY <1>1, <1>2, <1>3

(* The words of a packet in their order.                                   *)
LEMMA WordsFollow ==
  ASSUME NEW ch \in Channel, NEW p \in Processors, p.event > 0, NEW k \in 1..FifoWords
  PROVE  /\ k + 1 <= FifoWords => Follows(Word(ch, p, k), Word(ch, p, k + 1))
         /\ Between(k - HeaderWords) => Follows(Word(ch, p, k), Word(ch, p, End))
<1>1. /\ Word(ch, p, k).ch = ch /\ Word(ch, p, k).event = p.event /\ Word(ch, p, k).place = k
      /\ k # End
  BY WordFields, Sizes
<1>2. ASSUME k + 1 <= FifoWords PROVE Follows(Word(ch, p, k), Word(ch, p, k + 1))
  <2>1. k + 1 \in 0..FifoWords BY <1>2, Sizes
  <2>2. /\ Word(ch, p, k + 1).ch = ch /\ Word(ch, p, k + 1).event = p.event
        /\ Word(ch, p, k + 1).place = k + 1
    BY <2>1, WordFields
  <2> QED BY <1>1, <2>2 DEF Follows
<1>3. ASSUME Between(k - HeaderWords) PROVE Follows(Word(ch, p, k), Word(ch, p, End))
  <2>1. End \in 0..FifoWords BY Sizes
  <2>2. /\ Word(ch, p, End).ch = ch /\ Word(ch, p, End).event = p.event
        /\ Word(ch, p, End).place = End
    BY <2>1, WordFields
  <2> QED BY <1>1, <1>3, <2>2 DEF Follows
<1> QED BY <1>2, <1>3

(* A processor whose output has a word has sent those before it.           *)
LEMMA WorkStepHolds ==
  ASSUME NEW ch \in Channel, NEW p \in Processors, AtWork(ch, p), ch \in Grant,
         EventPacket_NumberOfWaveform \in Waveforms
  PROVE  WorkStep(ch, p, After(ch, p))
<1> SUFFICES ASSUME NEW q, q = After(ch, p), NEW k, k = p.place,
                    NEW N \in Waveforms, N = EventPacket_NumberOfWaveform
             PROVE  WorkStep(ch, p, q)
  OBVIOUS
<1>1. /\ k \in 1..FifoWords /\ k \in Nat /\ k >= 1 /\ p.event \in Nat /\ p.EventReady \in BOOLEAN
  BY Sizes DEF Processors
<1>2. N \in Nat /\ HeaderWords + N + 1 <= FifoWords BY Sizes
<1>3. CASE Granted(p)
  <2>1. /\ p.state = "WaitMgrGrant" /\ p.word = NoWord /\ p.event > 0 /\ k = 1 /\ p.EventReady
    BY <1>3 DEF Granted, Resting
  <2>2. q = [p EXCEPT !.state = "Send"] BY <2>1 DEF After, WaitMgrGrant
  <2>3. /\ q \in Processors /\ q.state = "Send" /\ q.word = NoWord /\ q.place = 1
        /\ q.event = p.event /\ q.EventReady
    BY <2>1, <2>2 DEF Processors, States
  <2>4. Sends(ch, q)
    <3>1. PICK n : n \in Waveforms OBVIOUS
    <3>2. 1 <= HeaderWords + n + 1 BY <3>1, Sizes
    <3> QED BY <2>1, <2>3, <3>1, <3>2 DEF Sends
  <2>5. InFifo(p) = 0 /\ InFifo(q) = 0 /\ ~Sent(p) /\ ~Sent(q)
    BY <2>1, <2>3 DEF InFifo, Sent
  <2> QED BY <2>1, <2>3, <2>4, <2>5 DEF WorkStep, AtWork
<1>4. CASE Sends(ch, p)
  <2>1. /\ p.state = "Send" /\ p.EventReady /\ p.event > 0
        /\ p.word = IF k = 1 THEN NoWord ELSE Word(ch, p, k - 1)
    BY <1>4 DEF Sends
  <2>2. PICK n \in Waveforms : k <= HeaderWords + n + 1 BY <1>4 DEF Sends
  <2>3. n \in Nat /\ HeaderWords + n + 1 <= FifoWords BY Sizes
  <2>4. ~Sent(p) BY <2>1 DEF Sent
  <2>5. k > 1 => p.word # NoWord /\ p.word = Word(ch, p, k - 1) /\ k - 1 \in 1..FifoWords
    <3>1. k > 1 => k - 1 \in 1..FifoWords /\ k - 1 \in 0..FifoWords BY <1>1, Sizes
    <3> QED BY <1>1, <2>1, <3>1, WordFields
  <2>6. InFifo(p) = (IF k = 1 THEN 0 ELSE k - 2)
    <3>1. p.state # "WaitMgrGrant" /\ p.state # "Finalize" BY <2>1
    <3>2. CASE k = 1
      <4>1. InFifo(p) = k - 1 BY <2>1, <2>4, <3>1, <3>2 DEF InFifo
      <4> QED BY <3>2, <4>1
    <3>3. CASE k # 1
      <4>1. p.word # NoWord BY <1>1, <2>5, <3>3
      <4> QED BY <2>4, <3>1, <3>3, <4>1 DEF InFifo
    <3> QED BY <3>2, <3>3
  <2>7. /\ p.word # NoWord =>
             /\ p.word = Word(ch, p, InFifo(p) + 1) /\ InFifo(p) < FifoWords
             /\ InFifo(p) > 0 => Follows(Word(ch, p, InFifo(p)), p.word)
             /\ InFifo(p) = 0 => p.word = Word(ch, p, 1)
        /\ InFifo(p) \in Nat /\ InFifo(p) + (IF p.word # NoWord THEN 1 ELSE 0) = k - 1
    <3>1. CASE k = 1 BY <1>1, <2>1, <2>6, <3>1
    <3>2. CASE k # 1
      <4>1. k > 1 /\ InFifo(p) = k - 2 /\ (k - 2) + 1 = k - 1 /\ k - 2 \in Nat
            /\ k - 2 < FifoWords
        BY <1>1, <2>6, <3>2, Sizes
      <4>2. k - 2 > 0 => Follows(Word(ch, p, k - 2), Word(ch, p, k - 1))
        <5>1. k - 2 > 0 => k - 2 \in 1..FifoWords /\ (k - 2) + 1 <= FifoWords BY <1>1, Sizes
        <5> QED BY <2>1, <4>1, <5>1, WordsFollow
      <4>3. k - 2 = 0 => k - 1 = 1 BY <1>1
      <4> QED BY <2>5, <4>1, <4>2, <4>3
    <3> QED BY <3>1, <3>2
  <2> DEFINE Result == /\ q \in Processors /\ q.event = p.event
                       /\ Sends(ch, q) \/ Separates(ch, q)
                       /\ InFifo(q) = k - 1
  <2>8. ASSUME k <= HeaderWords PROVE Result
    <3>1. q = SendHeader(ch, p) BY <1>1, <2>1, <2>8, Sizes DEF After
    <3>2. k + 1 \in 1..FifoWords /\ (k + 1) - 1 = k /\ k \in 0..FifoWords /\ k + 1 # 1
          /\ (k + 1) - 2 = k - 1
      BY <1>1, <2>8, Sizes
    <3> DEFINE st == IF k = HeaderWords /\ N = 0 THEN "WriteSeparator_0" ELSE "Send"
    <3>3. q = [p EXCEPT !.word = Word(ch, p, k), !.place = k + 1, !.state = st]
      BY <3>1 DEF SendHeader
    <3>4. Word(ch, p, k) \in Words /\ Word(ch, p, k) # NoWord BY <2>1, <3>2, WordFields
    <3>5. /\ q \in Processors /\ q.word = Word(ch, p, k) /\ q.place = k + 1
          /\ q.event = p.event /\ q.EventReady = p.EventReady /\ q.state = st
      BY <3>2, <3>3, <3>4 DEF Processors, States
    <3>6. Word(ch, q, k) = Word(ch, p, k) BY <3>5 DEF Word
    <3>7. InFifo(q) = k - 1
      <4>1. q.state # "WaitMgrGrant" /\ q.state # "Finalize" BY <3>5
      <4>2. ~Sent(q) BY <4>1 DEF Sent
      <4>3. InFifo(q) = (k + 1) - 2 BY <3>4, <3>5, <4>1, <4>2 DEF InFifo
      <4> QED BY <3>2, <4>3
    <3>8. CASE k = HeaderWords /\ N = 0
      <4>1. Between((k + 1) - 1 - HeaderWords)
        <5>1. (k + 1) - 1 - HeaderWords = 0 BY <1>1, <3>8, Sizes
        <5>2. 0 \in N..N BY <3>8
        <5> QED BY <5>1, <5>2 DEF Between
      <4>2. k + 1 > HeaderWords BY <3>8, Sizes
      <4>3. Separates(ch, q) BY <2>1, <3>2, <3>5, <3>6, <3>8, <4>1, <4>2 DEF Separates
      <4> QED BY <3>5, <3>7, <4>3
    <3>9. CASE ~(k = HeaderWords /\ N = 0)
      <4>1. k + 1 <= HeaderWords + N + 1 BY <1>1, <1>2, <2>8, Sizes
      <4>2. Sends(ch, q) BY <2>1, <3>2, <3>5, <3>6, <3>9, <4>1 DEF Sends
      <4> QED BY <3>5, <3>7, <4>2
    <3> QED BY <3>8, <3>9
  <2>9. ASSUME k > HeaderWords PROVE Result
    <3>0. ~(k <= HeaderWords) /\ k > 1 BY <1>1, <2>9, Sizes
    <3>1. q = SendWaveform(ch, p) BY <2>1, <2>9, <3>0 DEF After
    <3>2. CASE k - HeaderWords > N
      <4>1. q = [p EXCEPT !.word = NoWord, !.state = "WriteSeparator_0"]
        BY <3>1, <3>2 DEF SendWaveform
      <4>2. /\ q \in Processors /\ q.word = NoWord /\ q.place = k /\ q.event = p.event
            /\ q.EventReady = p.EventReady /\ q.state = "WriteSeparator_0"
        <5>1. NoWord \in Words BY WordFields
        <5>2. q \in Processors BY <2>1, <4>1, <5>1 DEF Processors, States
        <5>3. /\ q.word = NoWord /\ q.state = "WriteSeparator_0"
              /\ q.place = p.place /\ q.event = p.event /\ q.EventReady = p.EventReady
          BY <2>1, <4>1 DEF Processors
        <5> QED BY <2>1, <5>2, <5>3
      <4>3. Between(k - 1 - HeaderWords)
        <5>1. k - 1 - HeaderWords \in N..n BY <1>1, <1>2, <2>2, <2>3, <2>9, <3>2, Sizes
        <5> QED BY <5>1 DEF Between
      <4>4. Separates(ch, q) BY <2>1, <2>9, <4>2, <4>3 DEF Separates
      <4>5. InFifo(q) = k - 1 BY <4>2 DEF InFifo, Sent
      <4> QED BY <4>2, <4>4, <4>5
    <3>3. CASE ~(k - HeaderWords > N)
      <4>1. q = [p EXCEPT !.word = Word(ch, p, k), !.place = k + 1]
        BY <3>1, <3>3 DEF SendWaveform
      <4>2. k + 1 \in 1..FifoWords /\ (k + 1) - 1 = k /\ k \in 0..FifoWords /\ k + 1 # 1
            /\ (k + 1) - 2 = k - 1 /\ k + 1 <= HeaderWords + N + 1
        BY <1>1, <1>2, <3>3, Sizes
      <4>3. Word(ch, p, k) \in Words /\ Word(ch, p, k) # NoWord BY <2>1, <4>2, WordFields
      <4>4. /\ q \in Processors /\ q.word = Word(ch, p, k) /\ q.place = k + 1
            /\ q.event = p.event /\ q.EventReady = p.EventReady /\ q.state = "Send"
        BY <2>1, <4>1, <4>2, <4>3 DEF Processors, States
      <4>5. Word(ch, q, k) = Word(ch, p, k) BY <4>4 DEF Word
      <4>6. InFifo(q) = k - 1
        <5>1. ~Sent(q) BY <4>4 DEF Sent
        <5>2. InFifo(q) = (k + 1) - 2 BY <4>3, <4>4, <5>1 DEF InFifo
        <5> QED BY <4>2, <5>2
      <4>7. Sends(ch, q) BY <2>1, <4>2, <4>4, <4>5 DEF Sends
      <4> QED BY <4>4, <4>6, <4>7
    <3> QED BY <3>2, <3>3
  <2>10. Result BY <1>1, <2>8, <2>9, Sizes
  <2>11. q.state # "WaitMgrGrant" /\ ~Sent(q) BY <2>10 DEF Sends, Separates, Sent
  <2>12. p.word # NoWord => InFifo(q) = InFifo(p) + 1 BY <2>7, <2>10
  <2> QED BY <2>1, <2>4, <2>7, <2>10, <2>11, <2>12 DEF WorkStep, AtWork
<1>5. CASE Separates(ch, p)
  <2>1. /\ p.state = "WriteSeparator_0" /\ p.EventReady /\ p.event > 0
        /\ p.word \in {NoWord, Word(ch, p, k - 1)}
        /\ k > HeaderWords /\ Between(k - 1 - HeaderWords)
    BY <1>5 DEF Separates
  <2>2. q = [p EXCEPT !.word = Word(ch, p, End), !.state = "Finalize"]
    BY <2>1 DEF After, WriteSeparator
  <2>3. Word(ch, p, End) \in Words /\ Word(ch, p, End) # NoWord
    <3>1. End \in 0..FifoWords BY Sizes
    <3> QED BY <2>1, <3>1, WordFields
  <2>4. /\ q \in Processors /\ q.word = Word(ch, p, End) /\ q.place = k /\ q.event = p.event
        /\ q.EventReady = p.EventReady /\ q.state = "Finalize"
    BY <2>2, <2>3 DEF Processors, States
  <2>5. Word(ch, q, End) = Word(ch, p, End) BY <2>4 DEF Word
  <2>6. Ends(ch, q) BY <2>1, <2>4, <2>5 DEF Ends
  <2>7. ~Sent(p) /\ ~Sent(q) BY <2>1, <2>4, <2>3 DEF Sent
  <2>8. InFifo(q) = k - 1 BY <2>4, <2>7 DEF InFifo
  <2>9. k - 1 \in 1..FifoWords /\ k - 1 \in 0..FifoWords /\ k - 2 \in Nat /\ k - 2 < FifoWords
        /\ (k - 2) + 1 = k - 1 /\ k - 1 \in Nat
    BY <1>1, <2>1, Sizes
  <2>10. CASE p.word = NoWord
    <3>1. InFifo(p) = k - 1 BY <2>1, <2>7, <2>10 DEF InFifo
    <3> QED BY <2>1, <2>4, <2>6, <2>7, <2>8, <2>9, <2>10, <3>1 DEF WorkStep, AtWork
  <2>11. CASE p.word # NoWord
    <3>1. p.word = Word(ch, p, k - 1) BY <2>1, <2>11
    <3>2. InFifo(p) = k - 2 BY <2>1, <2>7, <2>11 DEF InFifo
    <3>3. k - 2 > 0 => Follows(Word(ch, p, k - 2), Word(ch, p, k - 1))
      <4>1. k - 2 > 0 => k - 2 \in 1..FifoWords /\ (k - 2) + 1 <= FifoWords BY <2>9, Sizes
      <4> QED BY <2>1, <2>9, <4>1, WordsFollow
    <3>4. k - 2 = 0 => k - 1 = 1 BY <2>9
    <3>5. q.state # "WaitMgrGrant" BY <2>4
    <3> QED BY <2>1, <2>4, <2>6, <2>7, <2>8, <2>9, <2>11, <3>1, <3>2, <3>3, <3>4, <3>5
            DEF WorkStep, AtWork
  <2> QED BY <2>10, <2>11
<1>6. CASE Ends(ch, p)
  <2>1. /\ p.state = "Finalize" /\ p.EventReady /\ p.event > 0 /\ p.word = Word(ch, p, End)
        /\ k > HeaderWords /\ Between(k - 1 - HeaderWords)
    BY <1>6 DEF Ends
  <2>2. q = [p EXCEPT !.word = NoWord, !.EventReady = FALSE, !.state = "Finalize"]
    BY <2>1 DEF After, Finalize
  <2>3. p.word # NoWord
    <3>1. End \in 0..FifoWords BY Sizes
    <3> QED BY <2>1, <3>1, WordFields
  <2>4. /\ q \in Processors /\ q.word = NoWord /\ q.place = k /\ q.event = p.event
        /\ q.EventReady = FALSE /\ q.state = "Finalize"
    BY <2>1, <2>2, WordFields, ZenonT(30) DEF Processors, States
  <2>5. Sent(q) /\ ~Sent(p) BY <2>1, <2>4 DEF Sent
  <2>6. InFifo(p) = k - 1 /\ InFifo(q) = k BY <2>1, <2>4, <2>5 DEF InFifo
  <2>7. k - 1 \in 1..FifoWords /\ k - 1 < FifoWords /\ k - 1 > 0 /\ (k - 1) + 1 = k
        /\ k - 1 \in Nat
    BY <1>1, <2>1, Sizes
  <2>8. Follows(Word(ch, p, k - 1), Word(ch, p, End)) BY <2>1, <2>7, WordsFollow
  <2> QED BY <2>1, <2>3, <2>4, <2>5, <2>6, <2>7, <2>8 DEF WorkStep, AtWork
<1>7. CASE Sent(p)
  <2>1. /\ p.state = "Finalize" /\ ~p.EventReady /\ p.word = NoWord
        /\ k > HeaderWords
    BY <1>7 DEF Sent
  <2>2. q = [p EXCEPT !.word = NoWord, !.EventReady = FALSE, !.state = "Finalize"]
    BY <2>1 DEF After, Finalize
  <2>3. q = p
    <3>1. p.EventReady = FALSE BY <1>1, <2>1
    <3> QED BY <2>1, <2>2, <3>1, ZenonT(30) DEF Processors
  <2>4. InFifo(p) = k BY <1>7, <2>1 DEF InFifo
  <2> QED BY <1>1, <1>7, <2>1, <2>3, <2>4 DEF WorkStep, AtWork
<1> QED BY <1>3, <1>4, <1>5, <1>6, <1>7 DEF AtWork

(* What a tick makes of all of them.                                       *)
LEMMA ProcessorsTick ==
  ASSUME ProcessorsWork, PulseProcessors, EventPacket_NumberOfWaveform \in Waveforms
  PROVE  /\ processor' \in [Channel -> Processors]
         /\ \A ch \in Channel : IF ch \in Grant THEN WorkStep(ch, processor[ch], processor'[ch])
                                ELSE RestStep(processor[ch], processor'[ch])
<1>1. processor \in [Channel -> Processors] BY DEF ProcessorsWork
<1>2. PICK ready \in SUBSET HasEvent :
        processor' = [ch \in Channel |-> IF ch \in ready THEN TakeEvent(processor[ch])
                                                         ELSE After(ch, processor[ch])]
  BY DEF PulseProcessors
<1>3. ASSUME NEW ch \in Channel
      PROVE  IF ch \in Grant THEN WorkStep(ch, processor[ch], processor'[ch])
             ELSE RestStep(processor[ch], processor'[ch])
  <2>1. processor[ch] \in Processors BY <1>1
  <2>2. CASE ch \in Grant
    <3>1. AtWork(ch, processor[ch]) BY <2>2 DEF ProcessorsWork
    <3>2. processor[ch].state # "Idle"
      BY <3>1 DEF AtWork, Granted, Sends, Separates, Ends, Sent
    <3>3. ch \notin ready BY <1>2, <3>2 DEF HasEvent
    <3>4. processor'[ch] = After(ch, processor[ch]) BY <1>2, <3>3
    <3> QED BY <2>1, <2>2, <3>1, <3>4, WorkStepHolds
  <2>3. CASE ch \notin Grant
    <3>1. Resting(processor[ch]) BY <2>3 DEF ProcessorsWork
    <3>2. CASE ch \in ready
      <4>1. processor'[ch] = TakeEvent(processor[ch]) BY <1>2, <3>2
      <4>2. processor[ch].state = "Idle" /\ processor[ch].event < Events
        BY <1>2, <3>2 DEF HasEvent
      <4> QED BY <2>1, <2>3, <3>1, <4>1, <4>2, RestStepHolds
    <3>3. CASE ch \notin ready
      <4>1. processor'[ch] = After(ch, processor[ch]) BY <1>2, <3>3
      <4> QED BY <2>1, <2>3, <3>1, <4>1, RestStepHolds
    <3> QED BY <3>2, <3>3
  <2> QED BY <2>2, <2>3
<1>4. \A ch \in Channel : processor'[ch] \in Processors BY <1>3 DEF WorkStep, RestStep
<1>5. processor' \in [Channel -> Processors]
  <2>1. processor' = [ch \in Channel |-> processor'[ch]] BY <1>2
  <2> QED BY <1>4, <2>1
<1> QED BY <1>3, <1>5

-----------------------------------------------------------------------------
(* What a tick makes of the FIFO of the manager, in each of its states.    *)
Appended(w) ==
  IF w = NoWord THEN fifo' = fifo ELSE Len(fifo) < FifoWords /\ fifo' = Append(fifo, w)

(* What a clock does to the FIFO of the manager: a word more while a       *)
(* channel has the grant, one fewer when the manager takes it.             *)
LEMMA FifoTick ==
  ASSUME IInv, NEW read \in BOOLEAN, Clock(read)
  PROVE  /\ ~At("Grant") /\ ~At("TransferToEventFIFO1") =>
              fifo' = fifo /\ FifoDataOut' = FifoDataOut
         /\ At("TransferToEventFIFO1") => fifo' = Tail(fifo) /\ FifoDataOut' = fifo[1]
         /\ At("Grant") =>
              /\ FifoDataOut' = FifoDataOut /\ LoopI \in Channel /\ Grant = {LoopI}
              /\ processor[LoopI] \in Processors
              /\ WorkStep(LoopI, processor[LoopI], processor'[LoopI])
              /\ Appended(processor[LoopI].word)
<1>1. /\ ProcessorsWork /\ ManagerTypes /\ RegisterTypes /\ ManagerWorks /\ PacketComes
      /\ PulseProcessors /\ ManagerFifo
  BY DEF IInv, Clock
<1>2. /\ fifo \in Seq(Words \ {NoWord}) /\ fifo \in Seq(Words)
      /\ FifoReadEnable <=> At("TransferToEventFIFO1")
      /\ At("TransferToEventFIFO1") => fifo # << >>
      /\ Grant = IF At("Grant") THEN {LoopI} ELSE {}
      /\ At("Grant") => LoopI \in Channel
  <2>1. fifo \in Seq(Words \ {NoWord}) BY <1>1 DEF ManagerTypes
  <2>2. fifo \in Seq(Words) BY <2>1, ElementOfSeq
  <2> QED BY <1>1, <2>1, <2>2 DEF ManagerWorks
<1>3. /\ \A ch \in Channel : processor[ch] \in Processors
      /\ \A ch \in Channel : IF ch \in Grant THEN WorkStep(ch, processor[ch], processor'[ch])
                             ELSE Resting(processor[ch])
  <2>1. EventPacket_NumberOfWaveform \in Waveforms BY <1>1 DEF RegisterTypes
  <2> QED BY <1>1, <2>1, ProcessorsTick DEF ProcessorsWork
<1>4. ~At("Grant") => Arriving = << >>
  <2>1. ~At("Grant") /\ LoopI \in Channel => processor[LoopI].word = NoWord
    BY <1>2, <1>3 DEF Resting
  <2> QED BY <2>1 DEF Arriving
<1>5. fifo \o << >> = fifo /\ Tail(fifo) \o << >> = Tail(fifo)
  <2>1. fifo \o << >> = fifo BY <1>2, ConcatEmptySeq
  <2>2. CASE fifo = << >> BY <2>1, <2>2
  <2>3. CASE fifo # << >>
    <3>1. Tail(fifo) \in Seq(Words) BY <1>2, <2>3, HeadTailProperties
    <3> QED BY <2>1, <3>1, ConcatEmptySeq
  <2> QED BY <2>2, <2>3
<1>6. ASSUME ~At("Grant"), ~At("TransferToEventFIFO1")
      PROVE  fifo' = fifo /\ FifoDataOut' = FifoDataOut
  BY <1>1, <1>2, <1>4, <1>5, <1>6 DEF ManagerFifo
<1>7. ASSUME At("TransferToEventFIFO1")
      PROVE  fifo' = Tail(fifo) /\ FifoDataOut' = fifo[1]
  <2>1. ~At("Grant") BY <1>7 DEF At
  <2>2. Head(fifo) = fifo[1] BY <1>2, <1>7, HeadTailProperties
  <2> QED BY <1>1, <1>2, <1>4, <1>5, <1>7, <2>1, <2>2 DEF ManagerFifo
<1>8. ASSUME At("Grant")
      PROVE  /\ FifoDataOut' = FifoDataOut /\ LoopI \in Channel /\ Grant = {LoopI}
             /\ processor[LoopI] \in Processors
             /\ WorkStep(LoopI, processor[LoopI], processor'[LoopI])
             /\ Appended(processor[LoopI].word)
  <2>1. ~At("TransferToEventFIFO1") BY <1>8 DEF At
  <2>2. fifo' = fifo \o Arriving /\ FifoDataOut' = FifoDataOut
    BY <1>1, <1>2, <2>1 DEF ManagerFifo
  <2>3. /\ LoopI \in Channel /\ Grant = {LoopI} /\ processor[LoopI] \in Processors
        /\ WorkStep(LoopI, processor[LoopI], processor'[LoopI])
    BY <1>2, <1>3, <1>8
  <2> DEFINE w == processor[LoopI].word
  <2>4. CASE w = NoWord
    <3>1. Arriving = << >> BY <2>4 DEF Arriving
    <3> QED BY <1>5, <2>2, <2>3, <2>4, <3>1 DEF Appended
  <2>5. CASE w # NoWord
    <3>1. Len(fifo) < FifoWords BY <1>1, <1>8, <2>3, <2>5 DEF PacketComes, Gathers, WorkStep
    <3>2. Arriving = <<w>> BY <2>3, <2>5, <3>1 DEF Arriving
    <3>3. w \in Words BY <2>3 DEF Processors
    <3>4. fifo \o <<w>> = Append(fifo, w) BY <1>2, <3>3, AppendIsConcat
    <3> QED BY <2>2, <2>3, <2>5, <3>1, <3>2, <3>4 DEF Appended
  <2> QED BY <2>4, <2>5
<1> QED BY <1>6, <1>7, <1>8

(* The registers: only the reset that is done is taken back.               *)
LEMMA RegistersTick ==
  ASSUME RegisterTypes, Registers
  PROVE  RegisterTypes' /\ (ResetRegister /\ ~ResetRegister' => ResetDone)
<1> USE DEF RegisterTypes
<1>1. CASE AskWrite BY <1>1 DEF AskWrite
<1>2. CASE BeginWrite BY <1>2 DEF BeginWrite
<1>3. CASE DataReceive
  <2>1. beWritten \in Writes /\ beWritten' = NoWrite
    BY <1>3 DEF DataReceive
  <2>2. EventPacket_NumberOfWaveform' \in Waveforms
    <3>1. beWritten[1] = "NumberOfWaveform" => beWritten[2] \in Waveforms
      BY <2>1 DEF Writes
    <3> QED BY <1>3, <3>1 DEF DataReceive
  <2>3. EventOutputDisable' \in BOOLEAN
    <3>1. CASE beWritten[1] = "EventOutputDisable" BY <1>3, <3>1 DEF DataReceive
    <3>2. CASE beWritten[1] # "EventOutputDisable" BY <1>3, <3>2 DEF DataReceive
    <3> QED BY <3>1, <3>2
  <2>4. ResetRegister' \in BOOLEAN /\ (ResetRegister => ResetRegister')
    BY <1>3 DEF DataReceive
  <2>5. iBus_beWritten_state' \in {"WaitDone", "WaitResetDone"} BY <1>3 DEF DataReceive
  <2> QED BY <2>1, <2>2, <2>3, <2>4, <2>5
<1>4. CASE WaitDone BY <1>4 DEF WaitDone
<1>5. CASE WaitResetDone BY <1>5 DEF WaitResetDone
<1>6. CASE BeWrittenInitialize BY <1>6 DEF BeWrittenInitialize
<1> QED BY <1>1, <1>2, <1>3, <1>4, <1>5, <1>6 DEF Registers

(* The EventFIFO: a tick leaves what it holds alone, empties it, or takes  *)
(* a word.                                                                 *)
Stays ==
  /\ UNCHANGED <<last, seen, skipped, resets>>
  /\ EventFIFOReset \/ (~ResetRegister /\ ~EventFIFOWriteEnable)
Resets ==
  /\ ~EventFIFOReset /\ ResetRegister
  /\ last' = NoWord /\ resets' = resets + 1 /\ UNCHANGED <<seen, skipped>>
Receives ==
  /\ ~EventFIFOReset /\ ~ResetRegister /\ EventFIFOWriteEnable
  /\ last' = EventFIFOWriteData /\ UNCHANGED resets
  /\ LET w == EventFIFOWriteData
     IN  IF w.place = 1
         THEN /\ seen' = [seen EXCEPT ![w.ch] = w.event]
              /\ skipped' = skipped + (w.event - seen[w.ch] - 1)
         ELSE UNCHANGED <<seen, skipped>>

(* A clock of the EventFIFO: nothing new is seen, it is reset, or it       *)
(* receives a word.                                                        *)
LEMMA EventFifoTick ==
  ASSUME EventFifoTypes, ManagerWorks, NEW read \in BOOLEAN, EventFifo(read)
  PROVE  /\ EventFIFOReset' = ResetRegister
         /\ count' \in 0..EventFifoWords
         /\ ~EventFIFOWriteEnable => count' <= count
         /\ Stays \/ Resets \/ Receives
<1>1. /\ count \in Nat /\ count <= EventFifoWords /\ EventFifoWords \in Nat
      /\ EventFIFOWriteEnable => count < EventFifoWords
      /\ Size(read) \in {0, 1} /\ (read <=> Size(read) = 1)
      /\ Size(Taken) \in {0, 1} /\ (Taken <=> Size(Taken) = 1)
      /\ Taken <=> EventFIFOWriteEnable /\ ~EventFIFOReset
  <2>1. /\ count \in Nat /\ count <= EventFifoWords /\ EventFifoWords \in Nat
    BY Sizes DEF EventFifoTypes
  <2>2. EventFIFOWriteEnable => count < EventFifoWords BY DEF ManagerWorks
  <2>3. Taken <=> EventFIFOWriteEnable /\ ~EventFIFOReset BY <2>2 DEF Taken
  <2> QED BY <2>1, <2>2, <2>3 DEF Size
<1>2. EventFIFOReset' = ResetRegister BY DEF EventFifo
<1>3. CASE EventFIFOReset
  <2>1. count' = 0 /\ UNCHANGED <<last, seen, skipped, resets>> BY <1>3 DEF EventFifo
  <2> QED BY <1>1, <1>2, <1>3, <2>1 DEF Stays
<1>4. CASE ~EventFIFOReset
  <2>1. count' = count + Size(Taken) - Size(read) /\ (read => count > 0)
    BY <1>4 DEF EventFifo
  <2>2. count' \in 0..EventFifoWords /\ (~EventFIFOWriteEnable => count' <= count)
    BY <1>1, <1>4, <2>1
  <2>3. CASE ResetRegister
    <3>1. Resets BY <1>4, <2>3 DEF EventFifo, Resets
    <3> QED BY <1>2, <2>2, <3>1
  <2>4. CASE ~ResetRegister /\ ~EventFIFOWriteEnable
    <3>1. ~Taken BY <1>1, <2>4
    <3>2. Stays BY <1>4, <2>4, <3>1 DEF EventFifo, Stays
    <3> QED BY <1>2, <2>2, <3>2
  <2>5. CASE ~ResetRegister /\ EventFIFOWriteEnable
    <3>1. Taken BY <1>1, <1>4, <2>5
    <3>2. Receives
      <4> DEFINE w == EventFIFOWriteData
      <4>1. CASE w.place = 1 BY <1>4, <2>5, <3>1, <4>1 DEF EventFifo, Receives
      <4>2. CASE w.place # 1 BY <1>4, <2>5, <3>1, <4>2 DEF EventFifo, Receives
      <4> QED BY <4>1, <4>2
    <3> QED BY <1>2, <2>2, <3>2
  <2> QED BY <2>3, <2>4, <2>5
<1> QED BY <1>3, <1>4

(* The packet that gathers in the FIFO.                                    *)
LEMMA GathersStep ==
  ASSUME NEW ch \in Channel, NEW p \in Processors, NEW q, WorkStep(ch, p, q),
         NEW s \in Seq(Words \ {NoWord}), Gathers(ch, p, s), Chain(s)
  PROVE  /\ p.word = NoWord => Gathers(ch, q, s)
         /\ p.word # NoWord => Gathers(ch, q, Append(s, p.word)) /\ Chain(Append(s, p.word))
<1>1. \A k : Word(ch, q, k) = Word(ch, p, k)
  BY DEF WorkStep, Word
<1>2. /\ InFifo(q) = InFifo(p) + (IF p.word # NoWord THEN 1 ELSE 0) /\ InFifo(p) \in Nat
      /\ Len(s) = InFifo(p)
  BY DEF WorkStep, Gathers
<1>3. ASSUME p.word = NoWord PROVE Gathers(ch, q, s)
  <2>1. Sent(q) <=> Sent(p) BY <1>3 DEF WorkStep
  <2> QED BY <1>1, <1>2, <1>3, <2>1 DEF Gathers
<1>4. ASSUME p.word # NoWord
      PROVE  Gathers(ch, q, Append(s, p.word)) /\ Chain(Append(s, p.word))
  <2> DEFINE t == Append(s, p.word)
  <2>1. p.word \in Words \ {NoWord} BY <1>4 DEF Processors
  <2>2. /\ t # << >> /\ Len(t) = Len(s) + 1 /\ t[Len(s) + 1] = p.word
        /\ \A i \in 1..Len(s) : t[i] = s[i]
    BY <2>1, AppendProperties
  <2>3. Len(t) = InFifo(q) BY <1>2, <1>4, <2>2
  <2>4. /\ p.word = IF Sent(q) THEN Word(ch, p, End) ELSE Word(ch, p, Len(t))
        /\ ~Sent(p)
        /\ Len(s) > 0 => Follows(Word(ch, p, Len(s)), p.word)
        /\ Len(s) = 0 => p.word = Word(ch, p, 1)
    BY <1>2, <1>4, <2>3 DEF WorkStep
  <2>5. CASE Len(s) = 0
    <3>1. t[1] = p.word /\ Len(t) = 1 BY <2>2, <2>5
    <3>2. Gathers(ch, q, t) BY <1>1, <2>2, <2>3, <2>4, <2>5, <3>1 DEF Gathers
    <3>3. Chain(t) BY <3>1 DEF Chain
    <3> QED BY <3>2, <3>3
  <2>6. CASE Len(s) # 0
    <3>1. Len(s) \in Nat /\ Len(s) > 0 /\ s # << >> BY <1>2, <2>6, EmptySeq
    <3>2. s[1] = Word(ch, p, 1) /\ s[Len(s)] = Word(ch, p, Len(s))
      BY <2>4, <3>1 DEF Gathers
    <3>3. t[1] = s[1] /\ t[Len(s)] = s[Len(s)] BY <2>2, <3>1
    <3>4. Gathers(ch, q, t) BY <1>1, <2>2, <2>3, <2>4, <3>2, <3>3 DEF Gathers
    <3>5. ASSUME NEW i \in 1..Len(t) - 1 PROVE Follows(t[i], t[i + 1])
      <4>1. CASE i = Len(s)
        <5>1. t[i] = Word(ch, p, Len(s)) /\ t[i + 1] = p.word BY <2>2, <3>2, <3>3, <4>1
        <5> QED BY <2>4, <3>1, <5>1
      <4>2. CASE i # Len(s)
        <5>1. i \in 1..Len(s) - 1 /\ i \in 1..Len(s) /\ i + 1 \in 1..Len(s)
          BY <2>2, <3>1, <4>2
        <5>2. t[i] = s[i] /\ t[i + 1] = s[i + 1] BY <2>2, <5>1
        <5> QED BY <5>1, <5>2 DEF Chain
      <4> QED BY <4>1, <4>2
    <3>6. Chain(t) BY <3>5 DEF Chain
    <3> QED BY <3>4, <3>6
  <2> QED BY <2>5, <2>6
<1> QED BY <1>3, <1>4

(* The FIFO of the manager keeps its type, and the order of its words.     *)
LEMMA FifoTypesTick ==
  ASSUME IInv, NEW read \in BOOLEAN, Clock(read)
  PROVE  /\ fifo' \in Seq(Words \ {NoWord}) /\ Len(fifo') <= FifoWords /\ Chain(fifo')
         /\ FifoDataOut' \in Words
         /\ At("TransferToEventFIFO1") =>
              /\ FifoDataOut' # NoWord /\ fifo # << >>
              /\ fifo' # << >> => fifo'[Len(fifo')] = fifo[Len(fifo)] /\ Follows(fifo[1], fifo'[1])
              /\ fifo' = << >> => fifo[1] = fifo[Len(fifo)]
         /\ At("Grant") => Gathers(LoopI, processor'[LoopI], fifo')
<1>1. /\ ManagerTypes /\ Chain(fifo) /\ PacketComes /\ ManagerWorks
  BY DEF IInv
<1>2. /\ fifo \in Seq(Words \ {NoWord}) /\ Len(fifo) <= FifoWords /\ FifoDataOut \in Words
      /\ Len(fifo) \in Nat
      /\ At("TransferToEventFIFO1") => fifo # << >>
  BY <1>1, LenProperties DEF ManagerTypes, ManagerWorks
<1>3. CASE At("Grant")
  <2> DEFINE p == processor[LoopI]
             w == p.word
  <2>1. /\ FifoDataOut' = FifoDataOut /\ LoopI \in Channel /\ p \in Processors
        /\ WorkStep(LoopI, p, processor'[LoopI]) /\ Appended(w)
    BY <1>3, FifoTick
  <2>2. Gathers(LoopI, p, fifo) BY <1>1, <1>3 DEF PacketComes
  <2>3. ~At("TransferToEventFIFO1") BY <1>3 DEF At
  <2>4. CASE w = NoWord
    <3>1. fifo' = fifo BY <2>1, <2>4 DEF Appended
    <3>2. Gathers(LoopI, processor'[LoopI], fifo)
      BY <1>1, <1>2, <2>1, <2>2, <2>4, GathersStep
    <3> QED BY <1>1, <1>2, <2>1, <2>3, <3>1, <3>2
  <2>5. CASE w # NoWord
    <3>1. fifo' = Append(fifo, w) /\ Len(fifo) < FifoWords BY <2>1, <2>5 DEF Appended
    <3>2. w \in Words \ {NoWord} BY <2>1, <2>5 DEF Processors
    <3>3. fifo' \in Seq(Words \ {NoWord}) /\ Len(fifo') = Len(fifo) + 1
      BY <1>2, <3>1, <3>2, AppendProperties
    <3>4. Gathers(LoopI, processor'[LoopI], fifo') /\ Chain(fifo')
      BY <1>1, <1>2, <2>1, <2>2, <2>5, <3>1, GathersStep
    <3>5. Len(fifo') <= FifoWords BY <1>2, <3>1, <3>3, Sizes
    <3> QED BY <1>2, <2>1, <2>3, <3>3, <3>4, <3>5
  <2> QED BY <2>4, <2>5
<1>4. CASE At("TransferToEventFIFO1")
  <2>1. fifo' = Tail(fifo) /\ FifoDataOut' = fifo[1] /\ ~At("Grant")
    BY <1>4, FifoTick DEF At
  <2>2. /\ fifo' \in Seq(Words \ {NoWord}) /\ Len(fifo') = Len(fifo) - 1
        /\ \A i \in 1..Len(fifo') : fifo'[i] = fifo[i + 1]
        /\ Len(fifo') \in Nat
    BY <1>2, <1>4, <2>1, HeadTailProperties, LenProperties
  <2>3. Len(fifo) >= 1 BY <1>2, <1>4, EmptySeq, <2>2
  <2>4. fifo[1] \in Words \ {NoWord} BY <1>2, <2>3, ElementOfSeq
  <2>5. Chain(fifo')
    <3>1. ASSUME NEW i \in 1..Len(fifo') - 1 PROVE Follows(fifo'[i], fifo'[i + 1])
      <4>1. i \in 1..Len(fifo') /\ i + 1 \in 1..Len(fifo') /\ i + 1 \in 1..Len(fifo) - 1
        BY <2>2
      <4>2. fifo'[i] = fifo[i + 1] /\ fifo'[i + 1] = fifo[(i + 1) + 1] BY <2>2, <4>1
      <4> QED BY <1>1, <4>1, <4>2 DEF Chain
    <3> QED BY <3>1 DEF Chain
  <2>6. ASSUME fifo' # << >>
        PROVE  fifo'[Len(fifo')] = fifo[Len(fifo)] /\ Follows(fifo[1], fifo'[1])
    <3>1. Len(fifo') >= 1 BY <2>2, <2>6, EmptySeq
    <3>2. fifo'[Len(fifo')] = fifo[Len(fifo)] BY <1>2, <2>2, <3>1
    <3>3. 1 \in 1..Len(fifo) - 1 /\ fifo'[1] = fifo[1 + 1] BY <2>2, <3>1
    <3>4. Follows(fifo[1], fifo[1 + 1]) BY <1>1, <3>3 DEF Chain
    <3> QED BY <3>2, <3>3, <3>4
  <2>7. ASSUME fifo' = << >> PROVE fifo[1] = fifo[Len(fifo)]
    <3>1. Len(fifo) = 1 BY <1>2, <2>2, <2>7
    <3> QED BY <3>1
  <2>8. Len(fifo') <= FifoWords BY <1>2, <2>2, Sizes
  <2> QED BY <1>2, <1>4, <2>1, <2>2, <2>4, <2>5, <2>6, <2>7, <2>8
<1>5. CASE ~At("Grant") /\ ~At("TransferToEventFIFO1")
  <2>1. fifo' = fifo /\ FifoDataOut' = FifoDataOut BY <1>5, FifoTick
  <2> QED BY <1>1, <1>2, <1>5, <2>1
<1> QED BY <1>3, <1>4, <1>5

-----------------------------------------------------------------------------
(* What a tick makes of the consumer manager.                              *)

(* A granted processor whose EventReady is down has sent its packet.       *)
LEMMA GrantEnds ==
  ASSUME IInv, NEW read \in BOOLEAN, Clock(read), At("Grant"), ~processor[LoopI].EventReady
  PROVE  /\ Sent(processor[LoopI]) /\ processor'[LoopI] = processor[LoopI]
         /\ fifo' = fifo /\ fifo # << >>
         /\ fifo[1] = Word(LoopI, processor[LoopI], 1)
         /\ fifo[Len(fifo)] = Word(LoopI, processor[LoopI], End)
<1> DEFINE p == processor[LoopI]
<1>1. /\ LoopI \in Channel /\ p \in Processors /\ WorkStep(LoopI, p, processor'[LoopI])
      /\ Appended(p.word)
  BY FifoTick
<1>2. Sent(p) /\ processor'[LoopI] = p BY <1>1 DEF WorkStep
<1>3. fifo' = fifo BY <1>1, <1>2 DEF Appended, Sent
<1>4. Gathers(LoopI, p, fifo) BY DEF IInv, PacketComes
<1>5. p.place \in 1..FifoWords BY <1>1 DEF Processors
<1>6. InFifo(p) = p.place BY <1>2 DEF InFifo, Sent
<1>7. Len(fifo) >= 1 BY <1>4, <1>5, <1>6, Sizes DEF Gathers
<1>8. fifo # << >> BY <1>7, EmptySeq
<1> QED BY <1>2, <1>3, <1>4, <1>8 DEF Gathers

(* The registers of the manager keep their types and their meaning.        *)
LEMMA ManagerTick ==
  ASSUME IInv, NEW read \in BOOLEAN, Clock(read)
  PROVE  ManagerTypes' /\ ManagerWorks'
<1>1. /\ ManagerTypes /\ RegisterTypes /\ EventFifoTypes /\ ManagerWorks
      /\ ConsumerManager /\ Registers /\ EventFifo(read)
  BY DEF IInv, Clock
<1>2. /\ fifo' \in Seq(Words \ {NoWord}) /\ Len(fifo') <= FifoWords
      /\ FifoDataOut' \in Words
      /\ At("TransferToEventFIFO1") => FifoDataOut' # NoWord
  BY FifoTypesTick
<1>3. /\ ~At("Grant") /\ ~At("TransferToEventFIFO1") =>
           fifo' = fifo /\ FifoDataOut' = FifoDataOut
  BY FifoTick
<1>4. /\ EventFIFOReset' = ResetRegister
      /\ ResetRegister /\ ~ResetRegister' => ResetDone
      /\ count \in 0..EventFifoWords /\ count' \in 0..EventFifoWords
      /\ ~EventFIFOWriteEnable => count' <= count
      /\ EventFifoWords \in Nat
  BY <1>1, RegistersTick, EventFifoTick, Sizes DEF EventFifoTypes
<1>5. /\ LoopI \in 0..NumberOfConsumerNodes /\ ResetDone \in BOOLEAN
      /\ FifoReadEnable \in BOOLEAN /\ EventFIFOWriteEnable \in BOOLEAN
      /\ EventFIFOWriteData \in Words /\ FifoDataOut \in Words
  BY <1>1 DEF ManagerTypes
<1>6. /\ Grant = IF At("Grant") THEN {LoopI} ELSE {}
      /\ At("Grant") => LoopI \in Channel
      /\ ResetDone <=> At("WaitReset")
      /\ FifoReadEnable <=> At("TransferToEventFIFO1")
      /\ At("TransferToEventFIFO1") => fifo # << >>
      /\ EventFIFOWriteEnable => At("TransferToEventFIFO0") /\ EventFIFOWriteData # NoWord
      /\ At("TransferToEventFIFO2") => FifoDataOut # NoWord
      /\ UserModule_state \in Quiet => fifo = << >>
  BY <1>1 DEF ManagerWorks
<1> DEFINE Rest == \/ At("WaitReset")' /\ UserModule_state' = "WaitReset"
                   \/ ~(EventFIFOReset' /\ ~ResetRegister')
<1> USE DEF At, Goto, Quiet, Transfers
<1>7. ~At("WaitReset") => Rest BY <1>4, <1>6
<1>8. CASE MgrInitialize
  <2>1. /\ UserModule_state' = "Idle" /\ LoopI' = 0 /\ Grant' = {} /\ ResetDone' = FALSE
        /\ FifoReadEnable' = FALSE /\ EventFIFOWriteEnable' = FALSE
        /\ EventFIFOWriteData' = EventFIFOWriteData /\ fifo' = << >> /\ Rest
    BY <1>3, <1>5, <1>6, <1>7, <1>8 DEF MgrInitialize
  <2>2. ManagerTypes'
    <3>1. LoopI' \in 0..NumberOfConsumerNodes BY <2>1, Sizes
    <3> QED BY <1>2, <1>5, <2>1, <3>1 DEF ManagerTypes
  <2>3. ManagerWorks' BY <2>1 DEF ManagerWorks
  <2> QED BY <2>2, <2>3
<1>9. CASE MgrIdle
  <2>1. /\ At("Idle") /\ FifoReadEnable' = FALSE /\ EventFIFOWriteEnable' = FALSE
        /\ EventFIFOWriteData' = EventFIFOWriteData /\ fifo' = << >> /\ Rest
        /\ Grant = {} /\ ResetDone = FALSE
    BY <1>3, <1>5, <1>6, <1>7, <1>9 DEF MgrIdle
  <2>2. /\ LoopI' \in 0..NumberOfConsumerNodes
        /\ \/ UserModule_state' = "Idle" /\ Grant' = {} /\ ResetDone' = FALSE
           \/ UserModule_state' = "WaitReset" /\ Grant' = {} /\ ResetDone' = TRUE
           \/ /\ UserModule_state' = "Grant" /\ Grant' = {LoopI'} /\ LoopI' \in Channel
              /\ ResetDone' = FALSE
    <3>1. CASE LoopI = NumberOfConsumerNodes /\ LoopI' = 0 /\ UserModule_state' = "Idle"
                 /\ UNCHANGED <<ResetDone, Grant>>
      BY <2>1, <3>1, Sizes
    <3>2. CASE LoopI \in Channel /\ ResetDone' = TRUE /\ UserModule_state' = "WaitReset"
                 /\ UNCHANGED <<LoopI, Grant>>
      BY <1>5, <2>1, <3>2
    <3>3. CASE LoopI \in Channel /\ Grant' = Grant \cup {LoopI} /\ UserModule_state' = "Grant"
                 /\ UNCHANGED <<LoopI, ResetDone>>
      BY <1>5, <2>1, <3>3
    <3>4. CASE LoopI \in Channel /\ LoopI' = LoopI + 1 /\ UserModule_state' = "Idle"
                 /\ UNCHANGED <<ResetDone, Grant>>
      <4>1. LoopI + 1 \in 0..NumberOfConsumerNodes BY <3>4, Sizes DEF Channel
      <4> QED BY <2>1, <3>4, <4>1
    <3> QED BY <1>9, <3>1, <3>2, <3>3, <3>4 DEF MgrIdle
  <2>3. ManagerTypes' BY <1>2, <1>5, <2>1, <2>2 DEF ManagerTypes
  <2>4. ManagerWorks' BY <2>1, <2>2 DEF ManagerWorks
  <2> QED BY <2>3, <2>4
<1>10. CASE MgrWaitReset
  <2>1. /\ At("WaitReset") /\ FifoReadEnable' = FALSE /\ EventFIFOWriteEnable' = FALSE
        /\ EventFIFOWriteData' = EventFIFOWriteData /\ fifo' = << >>
        /\ Grant' = {} /\ LoopI' = LoopI /\ ResetDone = TRUE
    BY <1>3, <1>5, <1>6, <1>10 DEF MgrWaitReset
  <2>2. /\ \/ UserModule_state' = "Initialize" /\ ResetDone' = FALSE
           \/ UserModule_state' = "WaitReset" /\ ResetDone' = TRUE
        /\ Rest
    BY <1>4, <1>10, <2>1 DEF MgrWaitReset
  <2>3. ManagerTypes' BY <1>2, <1>5, <2>1, <2>2 DEF ManagerTypes
  <2>4. ManagerWorks' BY <2>1, <2>2 DEF ManagerWorks
  <2> QED BY <2>3, <2>4
<1>11. CASE MgrGrant
  <2>1. /\ At("Grant") /\ FifoReadEnable' = FALSE /\ EventFIFOWriteEnable' = FALSE
        /\ EventFIFOWriteData' = EventFIFOWriteData /\ Rest
        /\ LoopI' = LoopI /\ ResetDone' = FALSE /\ LoopI \in Channel /\ Grant = {LoopI}
    BY <1>5, <1>6, <1>7, <1>11 DEF MgrGrant
  <2>2. \/ UserModule_state' = "TransferToEventFIFO0" /\ Grant' = {}
        \/ UserModule_state' = "Grant" /\ Grant' = {LoopI'}
    BY <1>11, <2>1 DEF MgrGrant
  <2>3. ManagerTypes' BY <1>2, <1>5, <2>1, <2>2 DEF ManagerTypes
  <2>4. ManagerWorks' BY <2>1, <2>2 DEF ManagerWorks
  <2> QED BY <2>3, <2>4
<1>12. CASE Transfer0
  <2>1. /\ At("TransferToEventFIFO0") /\ EventFIFOWriteEnable' = FALSE
        /\ EventFIFOWriteData' = EventFIFOWriteData /\ fifo' = fifo /\ Rest
        /\ Grant' = {} /\ LoopI' = LoopI /\ ResetDone' = FALSE
    BY <1>3, <1>5, <1>6, <1>7, <1>12 DEF Transfer0
  <2>2. \/ fifo = << >> /\ UserModule_state' = "Finalize" /\ FifoReadEnable' = FALSE
        \/ fifo # << >> /\ UserModule_state' = "TransferToEventFIFO1" /\ FifoReadEnable' = TRUE
    BY <1>5, <1>6, <1>12, <2>1 DEF Transfer0
  <2>3. ManagerTypes' BY <1>2, <1>5, <2>1, <2>2 DEF ManagerTypes
  <2>4. ManagerWorks' BY <2>1, <2>2 DEF ManagerWorks
  <2> QED BY <2>3, <2>4
<1>13. CASE Transfer1
  <2>1. /\ At("TransferToEventFIFO1") /\ EventFIFOWriteEnable' = FALSE
        /\ UserModule_state' = "TransferToEventFIFO2" /\ FifoReadEnable' = FALSE
        /\ EventFIFOWriteData' = EventFIFOWriteData /\ Rest
        /\ Grant' = {} /\ LoopI' = LoopI /\ ResetDone' = FALSE
    BY <1>5, <1>6, <1>7, <1>13 DEF Transfer1
  <2>2. ManagerTypes' BY <1>2, <1>5, <2>1 DEF ManagerTypes
  <2>3. ManagerWorks' BY <1>2, <2>1 DEF ManagerWorks
  <2> QED BY <2>2, <2>3
<1>14. CASE Transfer2
  <2>1. /\ At("TransferToEventFIFO2") /\ EventFIFOWriteEnable = FALSE /\ FifoReadEnable' = FALSE
        /\ EventFIFOWriteData' = FifoDataOut /\ Rest /\ FifoDataOut' = FifoDataOut
        /\ FifoDataOut # NoWord
        /\ Grant' = {} /\ LoopI' = LoopI /\ ResetDone' = FALSE
    BY <1>3, <1>5, <1>6, <1>7, <1>14 DEF Transfer2
  <2>2. \/ /\ UserModule_state' = "TransferToEventFIFO0" /\ EventFIFOWriteEnable' = TRUE
           /\ count' < EventFifoWords
        \/ UserModule_state' = "TransferToEventFIFO2" /\ EventFIFOWriteEnable' = FALSE
    <3>1. ~EventFIFOFull => count' < EventFifoWords BY <1>4, <2>1 DEF EventFIFOFull
    <3> QED BY <1>14, <2>1, <3>1 DEF Transfer2
  <2>3. ManagerTypes' BY <1>2, <1>5, <2>1, <2>2 DEF ManagerTypes
  <2>4. ManagerWorks' BY <2>1, <2>2 DEF ManagerWorks
  <2> QED BY <2>3, <2>4
<1>15. CASE MgrFinalize
  <2>1. /\ At("Finalize") /\ UserModule_state' = "Idle" /\ FifoReadEnable' = FALSE
        /\ EventFIFOWriteEnable' = FALSE
        /\ EventFIFOWriteData' = EventFIFOWriteData /\ fifo' = << >> /\ Rest
        /\ Grant' = {} /\ LoopI' = LoopI /\ ResetDone' = FALSE
    BY <1>3, <1>5, <1>6, <1>7, <1>15 DEF MgrFinalize
  <2>2. ManagerTypes' BY <1>2, <1>5, <2>1 DEF ManagerTypes
  <2>3. ManagerWorks' BY <2>1 DEF ManagerWorks
  <2> QED BY <2>2, <2>3
<1> QED BY <1>1, <1>8, <1>9, <1>10, <1>11, <1>12, <1>13, <1>14, <1>15 DEF ConsumerManager

-----------------------------------------------------------------------------
(* What a tick makes of the packet on its way: there is none, or it        *)
(* gathers in the FIFO, sets out, waits, or its next word goes into the    *)
(* EventFIFO, where it may be received or lost to a reset.                 *)
StaysAway ==
  /\ ~OnTheWay /\ ~OnTheWay' /\ ~EventFIFOWriteEnable /\ ~At("Grant")
  /\ At("Grant")' => /\ LoopI' = LoopI /\ LoopI \in Channel /\ ~ResetRegister
                     /\ processor[LoopI].EventReady
GathersOn ==
  /\ ~OnTheWay /\ ~OnTheWay' /\ ~EventFIFOWriteEnable
  /\ At("Grant") /\ At("Grant")' /\ LoopI' = LoopI
SetsOut ==
  /\ ~OnTheWay /\ OnTheWay' /\ ~EventFIFOWriteEnable
  /\ At("Grant") /\ ~At("Grant")' /\ Sent(processor[LoopI])
  /\ Front' = Word(LoopI, processor[LoopI], 1)
Waits ==
  /\ OnTheWay /\ OnTheWay' /\ ~EventFIFOWriteEnable
  /\ ~At("Grant") /\ ~At("Grant")'
  /\ Front' = Front
Goes ==
  /\ OnTheWay /\ EventFIFOWriteEnable /\ Front = EventFIFOWriteData
  /\ ~At("Grant") /\ ~At("Grant")'
  /\ IF OnTheWay' THEN Follows(Front, Front') ELSE Front.place = End

(* The ways of a packet through the FIFO of the manager in one clock.      *)
LEMMA WayTick ==
  ASSUME IInv, NEW read \in BOOLEAN, Clock(read)
  PROVE  /\ PacketComes' /\ PacketGoes'
         /\ StaysAway \/ GathersOn \/ SetsOut \/ Waits \/ Goes
<1>1. ManagerTypes /\ ManagerWorks /\ PacketGoes /\ ConsumerManager
  BY DEF IInv, Clock
<1>2. /\ EventFIFOWriteEnable =>
           UserModule_state = "TransferToEventFIFO0" /\ EventFIFOWriteData # NoWord
      /\ At("TransferToEventFIFO2") => FifoDataOut # NoWord
      /\ At("TransferToEventFIFO1") => fifo # << >>
      /\ EventFIFOWriteEnable \in BOOLEAN
  BY <1>1 DEF ManagerWorks, ManagerTypes, At
<1>3. /\ ~At("Grant") /\ ~At("TransferToEventFIFO1") =>
           fifo' = fifo /\ FifoDataOut' = FifoDataOut
      /\ At("TransferToEventFIFO1") => fifo' = Tail(fifo) /\ FifoDataOut' = fifo[1]
  BY FifoTick
<1>4. \A i \in 1..Len(fifo) : fifo[i] # NoWord
  BY <1>1, ElementOfSeq DEF ManagerTypes
<1>5. fifo # << >> => fifo[1] # NoWord
  <2>1. fifo # << >> => 1 \in 1..Len(fifo)
    BY <1>1, EmptySeq, LenProperties DEF ManagerTypes
  <2> QED BY <1>4, <2>1
<1>6. /\ Ahead = IF EventFIFOWriteEnable THEN EventFIFOWriteData
                 ELSE IF UserModule_state = "TransferToEventFIFO2" THEN FifoDataOut ELSE NoWord
      /\ Ahead' = IF EventFIFOWriteEnable' THEN EventFIFOWriteData'
                  ELSE IF UserModule_state' = "TransferToEventFIFO2" THEN FifoDataOut' ELSE NoWord
  BY DEF Ahead, At
<1>7. /\ Front = IF Ahead # NoWord THEN Ahead ELSE IF fifo # << >> THEN fifo[1] ELSE NoWord
      /\ Front' = IF Ahead' # NoWord THEN Ahead' ELSE IF fifo' # << >> THEN fifo'[1] ELSE NoWord
  BY DEF Front
<1>8. /\ OnTheWay <=> UserModule_state \in Transfers /\ Front # NoWord
      /\ OnTheWay' <=> UserModule_state' \in Transfers /\ Front' # NoWord
  BY DEF OnTheWay
<1>9. NoWord.place = End BY WordFields
<1> USE DEF At, Goto, Transfers
<1>10. ASSUME ~At("Grant")' PROVE PacketComes' BY <1>10 DEF PacketComes
<1>11. ASSUME UserModule_state' \notin Transfers PROVE PacketGoes' BY <1>11 DEF PacketGoes
<1>12. CASE MgrInitialize \/ MgrWaitReset \/ MgrFinalize
  <2>1. /\ UserModule_state \notin Transfers /\ UserModule_state' \notin Transfers
        /\ UserModule_state # "Grant" /\ UserModule_state' # "Grant"
    BY <1>12 DEF MgrInitialize, MgrWaitReset, MgrFinalize
  <2>2. StaysAway BY <1>2, <1>8, <2>1 DEF StaysAway
  <2> QED BY <1>10, <1>11, <2>1, <2>2
<1>13. CASE MgrIdle
  <2>1. UserModule_state = "Idle" /\ UserModule_state' \in {"Idle", "WaitReset", "Grant"}
    BY <1>13 DEF MgrIdle
  <2>2. ASSUME At("Grant")'
        PROVE  /\ LoopI' = LoopI /\ LoopI \in Channel /\ ~ResetRegister
               /\ processor[LoopI].EventReady
    BY <1>13, <2>2 DEF MgrIdle, Wanted
  <2>3. StaysAway BY <1>2, <1>8, <2>1, <2>2 DEF StaysAway
  <2>4. ASSUME At("Grant")' PROVE PacketComes'
    <3> DEFINE p == processor[LoopI]
    <3>1. LoopI \in Channel /\ p.EventReady /\ LoopI' = LoopI BY <2>2, <2>4
    <3>2. ProcessorsWork /\ PulseProcessors /\ RegisterTypes BY DEF IInv, Clock
    <3>3. Grant = {} BY <1>1, <2>1 DEF ManagerWorks
    <3>4. RestStep(p, processor'[LoopI]) /\ Resting(p)
      <4>1. EventPacket_NumberOfWaveform \in Waveforms BY <3>2 DEF RegisterTypes
      <4> QED BY <3>1, <3>2, <3>3, <4>1, ProcessorsTick DEF ProcessorsWork
    <3>5. processor'[LoopI] = p /\ p.state = "WaitMgrGrant"
      BY <3>1, <3>4 DEF RestStep, Resting
    <3>6. fifo' = << >> BY <1>1, <1>3, <2>1 DEF ManagerWorks, Quiet
    <3>7. Gathers(LoopI, p, << >>) BY <3>5 DEF Gathers, InFifo
    <3> QED BY <3>1, <3>5, <3>6, <3>7 DEF PacketComes
  <2> QED BY <1>10, <1>11, <2>1, <2>3, <2>4
<1>14. CASE MgrGrant
  <2>1. /\ UserModule_state = "Grant" /\ LoopI' = LoopI
        /\ EventFIFOWriteEnable = FALSE /\ EventFIFOWriteEnable' = FALSE
    BY <1>2, <1>14 DEF MgrGrant
  <2>2. CASE processor[LoopI].EventReady
    <3>1. UserModule_state' = "Grant" BY <1>14, <2>2 DEF MgrGrant
    <3>2. GathersOn BY <1>8, <2>1, <3>1 DEF GathersOn
    <3>3. Gathers(LoopI, processor'[LoopI], fifo') BY <2>1, FifoTypesTick
    <3>4. PacketComes' BY <2>1, <3>3 DEF PacketComes
    <3> QED BY <1>11, <3>1, <3>2, <3>4
  <2>3. CASE ~processor[LoopI].EventReady
    <3> DEFINE p == processor[LoopI]
    <3>1. UserModule_state' = "TransferToEventFIFO0" BY <1>14, <2>3 DEF MgrGrant
    <3>2. /\ Sent(p) /\ fifo' = fifo /\ fifo # << >>
          /\ fifo[1] = Word(LoopI, p, 1) /\ fifo[Len(fifo)] = Word(LoopI, p, End)
      BY <2>1, <2>3, GrantEnds
    <3>3. Ahead' = NoWord BY <1>6, <2>1, <3>1
    <3>4. Front' = Word(LoopI, p, 1) /\ OnTheWay' BY <1>5, <1>7, <1>8, <3>1, <3>2, <3>3
    <3>5. SetsOut BY <1>8, <2>1, <3>1, <3>2, <3>4 DEF SetsOut
    <3>6. PacketGoes'
      <4>1. fifo'[Len(fifo')].place = End BY <3>2 DEF Word
      <4> QED BY <3>2, <3>3, <4>1 DEF PacketGoes
    <3> QED BY <1>10, <3>1, <3>5, <3>6
  <2> QED BY <2>2, <2>3
<1>15. CASE Transfer0
  <2>1. /\ UserModule_state = "TransferToEventFIFO0" /\ EventFIFOWriteEnable' = FALSE
        /\ fifo' = fifo
        /\ \/ fifo = << >> /\ UserModule_state' = "Finalize"
           \/ fifo # << >> /\ UserModule_state' = "TransferToEventFIFO1"
    BY <1>3, <1>15 DEF Transfer0
  <2>2. Ahead' = NoWord BY <1>6, <2>1
  <2>3. /\ IF fifo # << >> THEN fifo[Len(fifo)].place = End ELSE Ahead.place = End
        /\ Ahead # NoWord /\ fifo # << >> => Follows(Ahead, fifo[1])
    BY <1>1, <2>1 DEF PacketGoes
  <2>4. PacketGoes' BY <2>1, <2>2, <2>3 DEF PacketGoes
  <2>5. CASE EventFIFOWriteEnable
    <3>1. Ahead = EventFIFOWriteData /\ Front = Ahead /\ OnTheWay
      BY <1>2, <1>6, <1>7, <1>8, <2>1, <2>5
    <3>2. CASE fifo = << >>
      <4>1. ~OnTheWay' BY <1>8, <2>1, <3>2
      <4> QED BY <1>10, <2>1, <2>3, <2>4, <2>5, <3>1, <3>2, <4>1 DEF Goes
    <3>3. CASE fifo # << >>
      <4>1. Front' = fifo[1] /\ OnTheWay' BY <1>5, <1>7, <1>8, <2>1, <2>2, <3>3
      <4> QED BY <1>2, <1>10, <2>1, <2>3, <2>4, <2>5, <3>1, <3>3, <4>1 DEF Goes
    <3> QED BY <3>2, <3>3
  <2>6. CASE ~EventFIFOWriteEnable
    <3>1. Ahead = NoWord BY <1>6, <2>1, <2>6
    <3>2. CASE fifo = << >>
      <4>1. ~OnTheWay /\ ~OnTheWay' BY <1>7, <1>8, <2>1, <3>1, <3>2
      <4> QED BY <1>10, <2>1, <2>4, <2>6, <4>1, <3>2 DEF StaysAway
    <3>3. CASE fifo # << >>
      <4>1. Front = fifo[1] /\ Front' = fifo[1] /\ OnTheWay /\ OnTheWay'
        BY <1>5, <1>7, <1>8, <2>1, <2>2, <3>1, <3>3
      <4> QED BY <1>10, <2>1, <2>4, <2>6, <3>3, <4>1 DEF Waits
    <3> QED BY <3>2, <3>3
  <2> QED BY <2>5, <2>6
<1>16. CASE Transfer1
  <2>1. /\ UserModule_state = "TransferToEventFIFO1" /\ EventFIFOWriteEnable = FALSE
        /\ UserModule_state' = "TransferToEventFIFO2" /\ EventFIFOWriteEnable' = FALSE
        /\ FifoDataOut' = fifo[1] /\ fifo # << >>
    BY <1>2, <1>3, <1>16 DEF Transfer1
  <2>2. Ahead = NoWord /\ Ahead' = fifo[1] BY <1>6, <2>1
  <2>3. /\ Front = fifo[1] /\ Front' = fifo[1] /\ OnTheWay /\ OnTheWay'
    BY <1>5, <1>7, <1>8, <2>1, <2>2
  <2>4. Waits BY <2>1, <2>3 DEF Waits
  <2>5. fifo[Len(fifo)].place = End BY <1>1, <2>1 DEF PacketGoes
  <2>6. /\ fifo' # << >> => fifo'[Len(fifo')] = fifo[Len(fifo)] /\ Follows(fifo[1], fifo'[1])
        /\ fifo' = << >> => fifo[1] = fifo[Len(fifo)]
    BY <2>1, FifoTypesTick
  <2>7. PacketGoes' BY <2>2, <2>5, <2>6 DEF PacketGoes
  <2> QED BY <1>10, <2>1, <2>4, <2>7
<1>17. CASE Transfer2
  <2>1. /\ UserModule_state = "TransferToEventFIFO2" /\ EventFIFOWriteEnable = FALSE
        /\ EventFIFOWriteData' = FifoDataOut /\ FifoDataOut' = FifoDataOut /\ fifo' = fifo
        /\ FifoDataOut # NoWord
    BY <1>2, <1>3, <1>17 DEF Transfer2
  <2>2. \/ UserModule_state' = "TransferToEventFIFO0" /\ EventFIFOWriteEnable' = TRUE
        \/ UserModule_state' = "TransferToEventFIFO2" /\ EventFIFOWriteEnable' = FALSE
    BY <1>17, <2>1 DEF Transfer2
  <2>3. Ahead = FifoDataOut /\ Ahead' = FifoDataOut BY <1>6, <2>1, <2>2
  <2>4. Front = FifoDataOut /\ Front' = FifoDataOut /\ OnTheWay /\ OnTheWay'
    BY <1>7, <1>8, <2>1, <2>2, <2>3
  <2>5. Waits BY <2>1, <2>2, <2>4 DEF Waits
  <2>6. PacketGoes' BY <1>1, <2>1, <2>2, <2>3 DEF PacketGoes
  <2> QED BY <1>10, <2>2, <2>5, <2>6
<1> QED BY <1>1, <1>12, <1>13, <1>14, <1>15, <1>16, <1>17 DEF ConsumerManager

(* A word that follows another is not the first of its packet.             *)
LEMMA FollowsFacts ==
  ASSUME NEW v \in Words, v # NoWord, NEW w, Follows(v, w)
  PROVE  w.place # 1 /\ w.ch = v.ch /\ w.event = v.event /\ v.place # End
<1>1. v.place \in Nat /\ End = 0
  <2>1. v.place \in 0..FifoWords BY WordFields
  <2> QED BY <2>1, Sizes
<1>2. /\ v.place # End /\ w.ch = v.ch /\ w.event = v.event
      /\ w.place = v.place + 1 \/ w.place = End
  BY DEF Follows
<1> QED BY <1>1, <1>2

(* The packet on its way has a channel and an event.                       *)
LEMMA FrontFacts ==
  ASSUME ManagerTypes, OnTheWay
  PROVE  /\ Front \in Words /\ Front # NoWord /\ Front.ch \in Channel
         /\ Front.event \in 1..Events
<1>1. fifo # << >> => fifo[1] \in Words
  <2>1. fifo # << >> => 1 \in 1..Len(fifo)
    BY EmptySeq, LenProperties DEF ManagerTypes
  <2> QED BY <2>1, ElementOfSeq DEF ManagerTypes
<1>2. Front \in Words
  <2>1. Ahead \in Words BY WordFields DEF Ahead, ManagerTypes
  <2> QED BY <1>1, <2>1, WordFields DEF Front
<1>3. Front # NoWord BY DEF OnTheWay
<1> QED BY <1>2, <1>3, WordFields

(* A packet on its way still fits into the EventFIFO.                      *)
LEMMA FitsTick ==
  ASSUME IInv, NEW read \in BOOLEAN, Clock(read)
  PROVE  Fits'
<1>1. /\ Fits /\ ManagerTypes /\ EventFifoTypes /\ RegisterTypes /\ ManagerWorks
      /\ EventFifo(read) /\ ConsumerManager
  BY DEF IInv, Clock
<1>2. /\ EventFIFOReset' = ResetRegister /\ (Stays \/ Resets \/ Receives)
  BY <1>1, EventFifoTick
<1>3. StaysAway \/ GathersOn \/ SetsOut \/ Waits \/ Goes BY WayTick
<1>4. /\ EventFIFOReset => last = NoWord
      /\ ~EventFIFOReset => IF OnTheWay /\ Front.place # 1 THEN Follows(last, Front)
                                                           ELSE last.place = End
      /\ NoWord.place = End
  BY <1>1, WordFields DEF Fits
<1>5. CASE ResetRegister
  <2>1. last' = NoWord BY <1>2, <1>4, <1>5 DEF Stays, Resets, Receives
  <2> QED BY <1>2, <1>5, <2>1 DEF Fits
<1>6. CASE ~ResetRegister /\ EventFIFOReset
  <2>1. At("WaitReset") BY <1>1, <1>6 DEF ManagerWorks
  <2>2. UserModule_state' \notin Transfers
    BY <1>1, <2>1 DEF ConsumerManager, MgrInitialize, MgrIdle, MgrWaitReset, MgrGrant,
       Transfer0, Transfer1, Transfer2, MgrFinalize, At, Goto, Transfers
  <2>3. ~OnTheWay' BY <2>2 DEF OnTheWay
  <2>4. last' = NoWord BY <1>2, <1>4, <1>6 DEF Stays, Resets, Receives
  <2> QED BY <1>2, <1>4, <1>6, <2>3, <2>4 DEF Fits
<1>7. CASE ~ResetRegister /\ ~EventFIFOReset
  <2>0. /\ ~EventFIFOReset'
        /\ IF OnTheWay /\ Front.place # 1 THEN Follows(last, Front) ELSE last.place = End
    BY <1>2, <1>4, <1>7
  <2>1. SUFFICES IF OnTheWay' /\ Front'.place # 1 THEN Follows(last', Front')
                                                  ELSE last'.place = End
    BY <2>0 DEF Fits
  <2>2. ~EventFIFOWriteEnable => last' = last BY <1>2, <1>7 DEF Stays, Resets, Receives
  <2>3. EventFIFOWriteEnable => last' = EventFIFOWriteData
    BY <1>2, <1>7 DEF Stays, Resets, Receives
  <2>4. CASE StaysAway \/ GathersOn
    BY <2>0, <2>2, <2>4 DEF StaysAway, GathersOn
  <2>5. CASE SetsOut
    <3>1. Front'.place = 1 BY <2>5 DEF SetsOut, Word
    <3>2. last' = last /\ last.place = End BY <2>0, <2>2, <2>5 DEF SetsOut
    <3> QED BY <3>1, <3>2
  <2>6. CASE Waits
    <3>1. OnTheWay /\ OnTheWay' /\ Front' = Front /\ last' = last
      BY <2>2, <2>6 DEF Waits
    <3> QED BY <2>0, <3>1
  <2>7. CASE Goes
    <3>1. last' = Front BY <2>3, <2>7 DEF Goes
    <3>2. CASE OnTheWay'
      <4>1. Follows(Front, Front') BY <2>7, <3>2 DEF Goes
      <4>2. Front \in Words /\ Front # NoWord BY <1>1, <2>7, FrontFacts DEF Goes
      <4>3. Front'.place # 1 BY <4>1, <4>2, FollowsFacts
      <4> QED BY <3>1, <3>2, <4>1, <4>3
    <3>3. CASE ~OnTheWay' BY <2>7, <3>1, <3>3 DEF Goes
    <3> QED BY <3>2, <3>3
  <2> QED BY <1>3, <2>4, <2>5, <2>6, <2>7
<1> QED BY <1>1, <1>5, <1>6, <1>7 DEF EventFifoTypes, RegisterTypes

(* The processors are at work or resting, as the grant says.               *)
LEMMA ProcessorsWorkTick ==
  ASSUME IInv, NEW read \in BOOLEAN, Clock(read)
  PROVE  /\ ProcessorsWork'
         /\ \A ch \in Channel : ~(ch = LoopI /\ At("Grant")) =>
              Begun(processor'[ch]) = Begun(processor[ch])
         /\ At("Grant") => /\ LoopI \in Channel
                           /\ Begun(processor'[LoopI]) = processor[LoopI].event
                           /\ processor'[LoopI].state # "WaitMgrGrant"
         /\ \A ch \in Channel : ~(ch = LoopI /\ At("Grant")) /\ ch = LoopI' /\ At("Grant")' =>
              processor'[ch].state = "WaitMgrGrant"
<1>1. /\ ProcessorsWork /\ ManagerWorks /\ RegisterTypes /\ PulseProcessors
  BY DEF IInv, Clock
<1>2. /\ processor' \in [Channel -> Processors]
      /\ \A ch \in Channel : IF ch \in Grant THEN WorkStep(ch, processor[ch], processor'[ch])
                             ELSE RestStep(processor[ch], processor'[ch])
  BY <1>1, ProcessorsTick DEF RegisterTypes
<1>3. /\ Grant = IF At("Grant") THEN {LoopI} ELSE {}
      /\ At("Grant") => LoopI \in Channel
      /\ Grant' = IF At("Grant")' THEN {LoopI'} ELSE {}
  <2>1. ManagerWorks' BY ManagerTick
  <2> QED BY <1>1, <2>1 DEF ManagerWorks
<1>4. StaysAway \/ GathersOn \/ SetsOut \/ Waits \/ Goes BY WayTick
<1>5. ASSUME NEW ch \in Channel, ch \notin Grant, ch \in Grant'
      PROVE  Granted(processor'[ch])
  <2>1. At("Grant")' /\ ch = LoopI' BY <1>3, <1>5
  <2>2. StaysAway BY <1>3, <1>4, <1>5, <2>1 DEF GathersOn, SetsOut, Waits, Goes
  <2>3. ch = LoopI /\ processor[ch].EventReady BY <2>1, <2>2 DEF StaysAway
  <2>4. processor'[ch] = processor[ch] /\ Resting(processor[ch])
    BY <1>1, <1>2, <1>5, <2>3 DEF RestStep, ProcessorsWork
  <2> QED BY <2>3, <2>4 DEF Granted, Resting
<1>6. ASSUME NEW ch \in Channel, ch \in Grant, ch \notin Grant'
      PROVE  Resting(processor'[ch])
  <2>1. At("Grant") /\ ch = LoopI BY <1>3, <1>6
  <2>2. ~GathersOn BY <1>3, <1>6, <2>1 DEF GathersOn
  <2>3. Sent(processor[ch]) BY <1>4, <2>1, <2>2 DEF StaysAway, SetsOut, Waits, Goes
  <2>4. processor'[ch] = processor[ch]
    BY <1>2, <1>6, <2>3 DEF WorkStep, Sent
  <2> QED BY <2>3, <2>4 DEF Sent, Resting
<1>7. ASSUME NEW ch \in Channel
      PROVE  IF ch \in Grant' THEN AtWork(ch, processor'[ch]) ELSE Resting(processor'[ch])
  <2>1. CASE ch \in Grant /\ ch \in Grant' BY <1>2, <2>1 DEF WorkStep
  <2>2. CASE ch \in Grant /\ ch \notin Grant' BY <1>6, <2>2
  <2>3. CASE ch \notin Grant /\ ch \in Grant' BY <1>5, <2>3 DEF AtWork
  <2>4. CASE ch \notin Grant /\ ch \notin Grant' BY <1>2, <2>4 DEF RestStep
  <2> QED BY <2>1, <2>2, <2>3, <2>4
<1>8. ProcessorsWork' BY <1>2, <1>7 DEF ProcessorsWork
<1>9. ASSUME NEW ch \in Channel, ~(ch = LoopI /\ At("Grant"))
      PROVE  Begun(processor'[ch]) = Begun(processor[ch])
  BY <1>2, <1>3, <1>9 DEF RestStep
<1>10. ASSUME At("Grant")
       PROVE  /\ LoopI \in Channel /\ Begun(processor'[LoopI]) = processor[LoopI].event
              /\ processor'[LoopI].state # "WaitMgrGrant"
  BY <1>2, <1>3, <1>10 DEF WorkStep, Begun
<1>11. ASSUME NEW ch \in Channel, ~(ch = LoopI /\ At("Grant")), ch = LoopI', At("Grant")'
       PROVE  processor'[ch].state = "WaitMgrGrant"
  BY <1>3, <1>5, <1>11 DEF Granted
<1> QED BY <1>8, <1>9, <1>10, <1>11

(* A packet passes with its first word: then, and only then, the next      *)
(* event of its channel is expected.                                       *)
Passes == EventFIFOWriteEnable /\ EventFIFOWriteData.place = 1

(* The event that is expected next of a channel becomes the one after it   *)
(* when a packet has gone, and only then.                                  *)
LEMMA ExpectedTick ==
  ASSUME IInv, NEW read \in BOOLEAN, Clock(read)
  PROVE  /\ \A ch \in Channel :
              /\ Expected(ch) \in Nat
              /\ ~(Passes /\ EventFIFOWriteData.ch = ch) => Expected(ch)' = Expected(ch)
              /\ Passes /\ EventFIFOWriteData.ch = ch =>
                   /\ Expected(ch) = EventFIFOWriteData.event
                   /\ Expected(ch)' = EventFIFOWriteData.event + 1
         /\ Passes => /\ EventFIFOWriteData.ch \in Channel
                      /\ EventFIFOWriteData.event \in 1..Events
                      /\ Comes /\ ~Comes'
         /\ OnTheWay' => Front'.event = Begun(processor'[Front'.ch])
         /\ Comes' /\ ResetRegister => Comes
<1>1. /\ ManagerTypes /\ ProcessorsWork /\ EventsCount /\ ManagerWorks
  BY DEF IInv
<1>2. /\ \A ch \in Channel : ~(ch = LoopI /\ At("Grant")) =>
           Begun(processor'[ch]) = Begun(processor[ch])
      /\ At("Grant") => /\ LoopI \in Channel
                        /\ Begun(processor'[LoopI]) = processor[LoopI].event
                        /\ processor'[LoopI].state # "WaitMgrGrant"
      /\ \A ch \in Channel : ~(ch = LoopI /\ At("Grant")) /\ ch = LoopI' /\ At("Grant")' =>
           processor'[ch].state = "WaitMgrGrant"
  BY ProcessorsWorkTick
<1>3. StaysAway \/ GathersOn \/ SetsOut \/ Waits \/ Goes BY WayTick
<1>4. /\ OnTheWay => /\ Front \in Words /\ Front # NoWord /\ Front.ch \in Channel
                     /\ Front.event \in 1..Events /\ Front.event = Begun(processor[Front.ch])
  BY <1>1, FrontFacts DEF EventsCount
<1>5. \A ch \in Channel :
        /\ processor[ch].event \in Nat
        /\ Begun(processor[ch]) =
             IF processor[ch].state = "WaitMgrGrant" THEN processor[ch].event - 1
             ELSE processor[ch].event
  BY <1>1, Sizes DEF ProcessorsWork, Processors, Begun
<1>6. \A ch \in Channel : processor[ch].state = "WaitMgrGrant" => processor[ch].event > 0
  BY <1>1 DEF ProcessorsWork, AtWork, Granted, Sends, Separates, Ends, Sent, Resting
<1>7. \A ch \in Channel : Begun(processor[ch]) \in Nat BY <1>5, <1>6
<1>8. \A ch \in Channel :
        /\ Expected(ch) = IF StillToCome(ch) THEN Begun(processor[ch])
                          ELSE Begun(processor[ch]) + 1
        /\ Expected(ch)' = IF StillToCome(ch)' THEN Begun(processor'[ch])
                           ELSE Begun(processor'[ch]) + 1
  BY DEF Expected
<1>9. \A ch \in Channel :
        /\ StillToCome(ch) <=> \/ At("Grant") /\ ch = LoopI /\ processor[ch].state # "WaitMgrGrant"
                               \/ OnTheWay /\ Front.ch = ch /\ Front.place = 1
        /\ StillToCome(ch)' <=> \/ At("Grant")' /\ ch = LoopI' /\ processor'[ch].state # "WaitMgrGrant"
                                \/ OnTheWay' /\ Front'.ch = ch /\ Front'.place = 1
  BY DEF StillToCome
<1>10. /\ Comes <=> At("Grant") \/ (OnTheWay /\ Front.place = 1)
       /\ Comes' <=> At("Grant")' \/ (OnTheWay' /\ Front'.place = 1)
  BY DEF Comes
<1>11. \A ch \in Channel : Expected(ch) \in Nat BY <1>7, <1>8
<1> DEFINE Same == \A ch \in Channel : Expected(ch)' = Expected(ch)
           FrontEvent == OnTheWay' => Front'.event = Begun(processor'[Front'.ch])
<1>12. CASE StaysAway
  <2>1. /\ ~OnTheWay /\ ~OnTheWay' /\ ~EventFIFOWriteEnable /\ ~At("Grant")
        /\ At("Grant")' => ~ResetRegister
    BY <1>12 DEF StaysAway
  <2>2. Same BY <1>2, <1>8, <1>9, <2>1
  <2> QED BY <1>10, <1>11, <2>1, <2>2 DEF Passes
<1>13. CASE GathersOn
  <2>1. /\ ~OnTheWay /\ ~OnTheWay' /\ ~EventFIFOWriteEnable
        /\ At("Grant") /\ At("Grant")' /\ LoopI' = LoopI
    BY <1>13 DEF GathersOn
  <2>2. ASSUME NEW ch \in Channel, ch # LoopI PROVE Expected(ch)' = Expected(ch)
    BY <1>2, <1>8, <1>9, <2>1, <2>2
  <2>3. ASSUME NEW ch \in Channel, ch = LoopI PROVE Expected(ch)' = Expected(ch)
    <3>1. StillToCome(ch)' /\ (StillToCome(ch) <=> processor[ch].state # "WaitMgrGrant")
      BY <1>2, <1>9, <2>1, <2>3
    <3>2. Expected(ch)' = processor[ch].event BY <1>2, <1>8, <2>1, <2>3, <3>1
    <3>3. Expected(ch) = processor[ch].event
      <4>1. processor[ch].event \in Nat BY <1>5
      <4>2. CASE processor[ch].state = "WaitMgrGrant"
        <5>1. Expected(ch) = (processor[ch].event - 1) + 1 BY <1>5, <1>8, <3>1, <4>2
        <5> QED BY <4>1, <5>1
      <4>3. CASE processor[ch].state # "WaitMgrGrant" BY <1>5, <1>8, <3>1, <4>3
      <4> QED BY <4>2, <4>3
    <3> QED BY <3>2, <3>3
  <2>4. Same BY <2>2, <2>3
  <2> QED BY <1>10, <1>11, <2>1, <2>4 DEF Passes
<1>14. CASE SetsOut
  <2> DEFINE p == processor[LoopI]
  <2>1. /\ ~OnTheWay /\ OnTheWay' /\ ~EventFIFOWriteEnable
        /\ At("Grant") /\ ~At("Grant")' /\ Sent(p) /\ Front' = Word(LoopI, p, 1)
    BY <1>14 DEF SetsOut
  <2>2. Front'.ch = LoopI /\ Front'.event = p.event /\ Front'.place = 1 BY <2>1 DEF Word
  <2>3. ASSUME NEW ch \in Channel, ch # LoopI PROVE Expected(ch)' = Expected(ch)
    <3>1. Begun(processor'[ch]) = Begun(processor[ch]) BY <1>2, <2>3
    <3>2. ~StillToCome(ch) /\ ~StillToCome(ch)' BY <1>9, <2>1, <2>2, <2>3
    <3> QED BY <1>8, <3>1, <3>2
  <2>4. ASSUME NEW ch \in Channel, ch = LoopI PROVE Expected(ch)' = Expected(ch)
    <3>1. processor[ch].state # "WaitMgrGrant" BY <2>1, <2>4 DEF Sent
    <3>2. StillToCome(ch) /\ StillToCome(ch)' BY <1>9, <2>1, <2>2, <2>4, <3>1
    <3> QED BY <1>2, <1>5, <1>8, <2>1, <2>4, <3>1, <3>2
  <2>5. Same BY <2>3, <2>4
  <2>6. FrontEvent BY <1>2, <2>1, <2>2
  <2> QED BY <1>10, <1>11, <2>1, <2>5, <2>6 DEF Passes
<1>15. CASE Waits
  <2>1. /\ OnTheWay /\ OnTheWay' /\ ~EventFIFOWriteEnable
        /\ ~At("Grant") /\ ~At("Grant")' /\ Front' = Front
    BY <1>15 DEF Waits
  <2>2. Same BY <1>2, <1>8, <1>9, <2>1
  <2>3. FrontEvent BY <1>2, <1>4, <2>1
  <2> QED BY <1>10, <1>11, <2>1, <2>2, <2>3 DEF Passes
<1>16. CASE Goes
  <2>1. /\ OnTheWay /\ EventFIFOWriteEnable /\ Front = EventFIFOWriteData
        /\ ~At("Grant") /\ ~At("Grant")'
        /\ OnTheWay' => Follows(Front, Front')
    BY <1>16 DEF Goes
  <2>2. OnTheWay' => Front'.place # 1 /\ Front'.ch = Front.ch /\ Front'.event = Front.event
    BY <1>4, <2>1, FollowsFacts
  <2>3. \A ch \in Channel : ~StillToCome(ch)' BY <1>9, <2>1, <2>2
  <2>4. \A ch \in Channel : StillToCome(ch) <=> Front.ch = ch /\ Front.place = 1
    BY <1>9, <2>1
  <2>5. \A ch \in Channel : Begun(processor'[ch]) = Begun(processor[ch]) BY <1>2, <2>1
  <2>6. FrontEvent BY <1>4, <2>1, <2>2, <2>5
  <2>7. Passes <=> Front.place = 1 BY <2>1 DEF Passes
  <2>8. \A ch \in Channel : ~(Passes /\ EventFIFOWriteData.ch = ch) => Expected(ch)' = Expected(ch)
    BY <1>8, <2>1, <2>3, <2>4, <2>5, <2>7
  <2>9. ASSUME NEW ch \in Channel, Passes, Front.ch = ch
        PROVE  Expected(ch) = Front.event /\ Expected(ch)' = Front.event + 1
    <3>1. Front.event = Begun(processor[ch]) BY <1>4, <2>1, <2>9
    <3>2. StillToCome(ch) BY <2>4, <2>7, <2>9
    <3> QED BY <1>8, <2>3, <2>5, <3>1, <3>2
  <2>10. Passes => Front.ch \in Channel /\ Front.event \in 1..Events /\ Comes /\ ~Comes'
    BY <1>4, <1>10, <2>1, <2>2, <2>7
  <2>11. Comes' => Comes BY <1>10, <2>1, <2>2
  <2> QED BY <1>11, <2>1, <2>6, <2>8, <2>9, <2>10, <2>11
<1> QED BY <1>3, <1>12, <1>13, <1>14, <1>15, <1>16

-----------------------------------------------------------------------------
(* How many events are missing between those seen and those expected, when *)
(* one more is expected, and when the one that was expected is seen.       *)
LEMMA MissingIsFinite ==
  ASSUME NEW s, NEW e
  PROVE  IsFiniteSet(Missing(s, e)) /\ Cardinality(Missing(s, e)) \in Nat
<1>1. IsFiniteSet(Channel) /\ IsFiniteSet(1..Events)
  <2>1. NumberOfConsumerNodes - 1 \in Int /\ Events \in Int BY Sizes
  <2> QED BY <2>1, FS_Interval DEF Channel
<1>2. IsFiniteSet(Channel \X (1..Events)) BY <1>1, FS_Product
<1>3. Missing(s, e) \in SUBSET (Channel \X (1..Events)) BY DEF Missing
<1> QED BY <1>2, <1>3, FS_Subset, FS_CardinalityType

(* An event that is expected no longer and was not seen is one more        *)
(* missing.                                                                *)
LEMMA OneMoreIsMissing ==
  ASSUME NEW s \in [Channel -> Nat], NEW e \in [Channel -> Nat], NEW c \in Channel,
         e[c] \in 1..Events, s[c] < e[c]
  PROVE  Cardinality(Missing(s, [e EXCEPT ![c] = e[c] + 1])) = Cardinality(Missing(s, e)) + 1
<1> DEFINE e2 == [e EXCEPT ![c] = e[c] + 1]
           new == <<c, e[c]>>
<1>1. \A ch \in Channel : e2[ch] = IF ch = c THEN e[c] + 1 ELSE e[ch]
  OBVIOUS
<1>2. \A ch \in Channel : s[ch] \in Nat /\ e[ch] \in Nat
  OBVIOUS
<1>3. new \notin Missing(s, e) BY <1>2 DEF Missing
<1>4. ASSUME NEW ch \in Channel, NEW ev \in 1..Events
      PROVE  <<ch, ev>> \in Missing(s, e2) <=> <<ch, ev>> \in Missing(s, e) \/ <<ch, ev>> = new
  <2>1. ev \in Nat BY Sizes
  <2>2. /\ <<ch, ev>> \in Missing(s, e2) <=> s[ch] < ev /\ ev < e2[ch]
        /\ <<ch, ev>> \in Missing(s, e) <=> s[ch] < ev /\ ev < e[ch]
    BY DEF Missing
  <2>3. CASE ch = c
    <3>1. ev < e[c] + 1 <=> ev < e[c] \/ ev = e[c] BY <1>2, <2>1
    <3> QED BY <1>1, <2>2, <2>3, <3>1
  <2>4. CASE ch # c BY <1>1, <2>2, <2>4
  <2> QED BY <2>3, <2>4
<1>5. Missing(s, e2) = Missing(s, e) \cup {new}
  <2>1. /\ Missing(s, e2) \subseteq Channel \X (1..Events)
        /\ Missing(s, e) \cup {new} \subseteq Channel \X (1..Events)
    BY DEF Missing
  <2>2. \A ce \in Channel \X (1..Events) :
          \E ch \in Channel, ev \in 1..Events : ce = <<ch, ev>>
    OBVIOUS
  <2>3. \A ce \in Channel \X (1..Events) :
          ce \in Missing(s, e2) <=> ce \in Missing(s, e) \cup {new}
    <3> SUFFICES ASSUME NEW ce \in Channel \X (1..Events)
                 PROVE  ce \in Missing(s, e2) <=> ce \in Missing(s, e) \/ ce = new
      OBVIOUS
    <3> PICK ch \in Channel, ev \in 1..Events : ce = <<ch, ev>> BY <2>2
    <3> HIDE DEF e2, new
    <3> QED BY <1>4
  <2> HIDE DEF e2, new
  <2> QED BY <2>1, <2>3
<1>6. IsFiniteSet(Missing(s, e)) BY MissingIsFinite
<1> HIDE DEF e2, new
<1>7. Cardinality(Missing(s, e2)) = Cardinality(Missing(s, e)) + 1
  BY <1>3, <1>5, <1>6, FS_AddElement
<1> QED BY <1>7 DEF e2

(* An event that is seen passes over the events missing before it, and no  *)
(* other is missing after it.                                              *)
LEMMA NoneIsMissing ==
  ASSUME NEW s \in [Channel -> Nat], NEW e \in [Channel -> Nat], NEW c \in Channel,
         e[c] \in 1..Events, s[c] < e[c]
  PROVE  Cardinality(Missing([s EXCEPT ![c] = e[c]], [e EXCEPT ![c] = e[c] + 1]))
           + (e[c] - s[c] - 1) = Cardinality(Missing(s, e))
<1> DEFINE s2 == [s EXCEPT ![c] = e[c]]
           e2 == [e EXCEPT ![c] = e[c] + 1]
           I == s[c] + 1 .. e[c] - 1
           D == {c} \X I
<1>1. \A ch \in Channel : /\ e2[ch] = IF ch = c THEN e[c] + 1 ELSE e[ch]
                          /\ s2[ch] = IF ch = c THEN e[c] ELSE s[ch]
  OBVIOUS
<1>2. \A ch \in Channel : s[ch] \in Nat /\ e[ch] \in Nat
  OBVIOUS
<1>3. IsFiniteSet(I) /\ Cardinality(I) = e[c] - s[c] - 1
  <2>1. s[c] + 1 \in Int /\ e[c] - 1 \in Int BY <1>2
  <2>2. /\ IsFiniteSet(I)
        /\ Cardinality(I) = IF s[c] + 1 > e[c] - 1 THEN 0 ELSE (e[c] - 1) - (s[c] + 1) + 1
    BY <2>1, FS_Interval
  <2> QED BY <1>2, <2>2
<1>4. IsFiniteSet(D) /\ Cardinality(D) = e[c] - s[c] - 1
  <2>1. IsFiniteSet({c}) /\ Cardinality({c}) = 1 BY FS_Singleton
  <2>2. IsFiniteSet(D) /\ Cardinality(D) = 1 * Cardinality(I) BY <1>3, <2>1, FS_Product
  <2> QED BY <1>2, <1>3, <2>2
<1>5. D \subseteq Channel \X (1..Events)
  <2>1. I \subseteq 1..Events BY <1>2, Sizes
  <2> QED BY <2>1
<1>6. ASSUME NEW ch \in Channel, NEW ev \in 1..Events
      PROVE  /\ <<ch, ev>> \in Missing(s, e) <=> <<ch, ev>> \in Missing(s2, e2) \/ <<ch, ev>> \in D
             /\ ~(<<ch, ev>> \in Missing(s2, e2) /\ <<ch, ev>> \in D)
  <2>1. ev \in Nat BY Sizes
  <2>2. /\ <<ch, ev>> \in Missing(s2, e2) <=> s2[ch] < ev /\ ev < e2[ch]
        /\ <<ch, ev>> \in Missing(s, e) <=> s[ch] < ev /\ ev < e[ch]
    BY DEF Missing
  <2>3. <<ch, ev>> \in D <=> ch = c /\ ev \in I
    OBVIOUS
  <2>4. CASE ch = c
    <3>1. ~(e[c] < ev /\ ev < e[c] + 1) BY <1>2, <2>1
    <3>2. ev \in I <=> s[c] < ev /\ ev < e[c] BY <1>2, <2>1
    <3> QED BY <1>1, <2>2, <2>3, <2>4, <3>1, <3>2
  <2>5. CASE ch # c BY <1>1, <2>2, <2>3, <2>5
  <2> QED BY <2>4, <2>5
<1> HIDE DEF s2, e2, D, I
<1>7. Missing(s, e) = Missing(s2, e2) \cup D /\ Missing(s2, e2) \cap D = {}
  <2>1. /\ Missing(s2, e2) \subseteq Channel \X (1..Events)
        /\ Missing(s, e) \subseteq Channel \X (1..Events)
    BY DEF Missing
  <2>2. \A ce \in Channel \X (1..Events) :
          \E ch \in Channel, ev \in 1..Events : ce = <<ch, ev>>
    OBVIOUS
  <2>3. \A ce \in Channel \X (1..Events) :
          /\ ce \in Missing(s, e) <=> ce \in Missing(s2, e2) \/ ce \in D
          /\ ~(ce \in Missing(s2, e2) /\ ce \in D)
    BY <1>6, <2>2
  <2> QED BY <1>5, <2>1, <2>3
<1>8. Cardinality(Missing(s, e)) = Cardinality(Missing(s2, e2)) + Cardinality(D)
  <2>1. IsFiniteSet(Missing(s2, e2)) /\ Cardinality(Missing(s2, e2)) \in Nat
    BY MissingIsFinite
  <2>2. Cardinality(Missing(s2, e2) \cup D)
          = Cardinality(Missing(s2, e2)) + Cardinality(D) - Cardinality(Missing(s2, e2) \cap D)
    BY <1>4, <2>1, FS_Union
  <2>3. Cardinality(D) \in Nat BY <1>4, FS_CardinalityType
  <2>4. Cardinality(Missing(s2, e2) \cap D) = 0 BY <1>7, FS_EmptySet
  <2> QED BY <1>7, <2>1, <2>2, <2>3, <2>4
<1>9. Cardinality(Missing(s2, e2)) + (e[c] - s[c] - 1) = Cardinality(Missing(s, e))
  BY <1>4, <1>8
<1> QED BY <1>9 DEF s2, e2

(* What is expected, all channels together.                                *)
LEMMA AllExpectedTick ==
  ASSUME IInv, NEW read \in BOOLEAN, Clock(read)
  PROVE  /\ AllExpected \in [Channel -> Nat] /\ AllExpected' \in [Channel -> Nat]
         /\ \A ch \in Channel : seen[ch] < AllExpected[ch]
         /\ ~Passes => AllExpected' = AllExpected
         /\ LET w == EventFIFOWriteData
            IN  Passes => /\ w.ch \in Channel /\ w.event \in 1..Events
                          /\ AllExpected[w.ch] = w.event
                          /\ AllExpected' = [AllExpected EXCEPT ![w.ch] = AllExpected[w.ch] + 1]
<1> DEFINE w == EventFIFOWriteData
<1>1. /\ \A ch \in Channel :
           /\ Expected(ch) \in Nat
           /\ ~(Passes /\ w.ch = ch) => Expected(ch)' = Expected(ch)
           /\ Passes /\ w.ch = ch => Expected(ch) = w.event /\ Expected(ch)' = w.event + 1
      /\ Passes => w.ch \in Channel /\ w.event \in 1..Events
  BY ExpectedTick
<1>2. /\ AllExpected = [ch \in Channel |-> Expected(ch)]
      /\ AllExpected' = [ch \in Channel |-> Expected(ch)']
  BY DEF AllExpected
<1>3. /\ \A ch \in Channel : AllExpected[ch] = Expected(ch)
      /\ AllExpected \in [Channel -> Nat]
  BY <1>1, <1>2
<1>4. \A ch \in Channel : seen[ch] < AllExpected[ch]
  BY <1>3 DEF IInv, EventsCount
<1>5. ~Passes => AllExpected' = AllExpected BY <1>1, <1>2
<1>6. ASSUME Passes
      PROVE  /\ AllExpected[w.ch] = w.event
             /\ AllExpected' = [AllExpected EXCEPT ![w.ch] = AllExpected[w.ch] + 1]
  <2>1. AllExpected[w.ch] = w.event BY <1>1, <1>3, <1>6
  <2>2. [AllExpected EXCEPT ![w.ch] = AllExpected[w.ch] + 1]
          = [ch \in Channel |-> IF ch = w.ch THEN w.event + 1 ELSE Expected(ch)]
    BY <1>2, <1>3, <2>1
  <2>3. \A ch \in Channel : Expected(ch)' = IF ch = w.ch THEN w.event + 1 ELSE Expected(ch)
    BY <1>1, <1>6
  <2> QED BY <1>2, <2>1, <2>2, <2>3
<1>7. AllExpected' \in [Channel -> Nat]
  <2>1. CASE ~Passes BY <1>3, <1>5, <2>1
  <2>2. CASE Passes
    <3>1. w.event + 1 \in Nat BY <1>1, <2>2, Sizes
    <3> QED BY <1>3, <1>6, <2>2, <3>1
  <2> QED BY <2>1, <2>2
<1> QED BY <1>1, <1>3, <1>4, <1>5, <1>6, <1>7

(* The EventFIFO and what it has seen.                                     *)
LEMMA EventsTick ==
  ASSUME IInv, NEW read \in BOOLEAN, Clock(read)
  PROVE  EventFifoTypes' /\ EventsCount' /\ OneForEachReset'
<1> DEFINE w == EventFIFOWriteData
<1>1. /\ ManagerTypes /\ RegisterTypes /\ EventFifoTypes /\ ManagerWorks
      /\ EventFifo(read) /\ OneForEachReset
  BY DEF IInv, Clock
<1>2. /\ EventFIFOReset' = ResetRegister /\ count' \in 0..EventFifoWords
      /\ Stays \/ Resets \/ Receives
  BY <1>1, EventFifoTick
<1>3. /\ seen \in [Channel -> Nat] /\ skipped \in Nat /\ resets \in Nat /\ last \in Words
      /\ w \in Words
  BY <1>1 DEF EventFifoTypes, ManagerTypes
<1> SUFFICES ASSUME NEW e, e = AllExpected, NEW e2, e2 = AllExpected'
             PROVE  EventFifoTypes' /\ EventsCount' /\ OneForEachReset'
  OBVIOUS
<1>4. /\ e \in [Channel -> Nat] /\ e2 \in [Channel -> Nat]
      /\ \A ch \in Channel : seen[ch] < e[ch]
      /\ ~Passes => e2 = e
      /\ Passes => /\ w.ch \in Channel /\ w.event \in 1..Events /\ e[w.ch] = w.event
                   /\ e2 = [e EXCEPT ![w.ch] = e[w.ch] + 1]
  BY AllExpectedTick
<1>5. /\ OnTheWay' => Front'.event = Begun(processor'[Front'.ch])
      /\ Comes' /\ ResetRegister => Comes
      /\ Passes => Comes /\ ~Comes'
  BY ExpectedTick
<1>6. ~(Passes /\ Receives) => UNCHANGED <<seen, skipped>>
  BY <1>2 DEF Stays, Resets, Receives, Passes
<1>7. Passes /\ Receives => /\ seen' = [seen EXCEPT ![w.ch] = w.event]
                            /\ skipped' = skipped + (w.event - seen[w.ch] - 1)
                            /\ resets' = resets /\ ~ResetRegister
  BY DEF Receives, Passes
<1>8. seen' \in [Channel -> Nat] /\ skipped' \in Nat /\ \A ch \in Channel : seen'[ch] < e2[ch]
  <2>1. CASE ~Passes BY <1>3, <1>4, <1>6, <2>1
  <2>2. CASE Passes /\ ~Receives
    <3>1. \A ch \in Channel : e2[ch] = IF ch = w.ch THEN e[ch] + 1 ELSE e[ch]
      BY <1>4, <2>2
    <3>2. \A ch \in Channel : seen[ch] \in Nat /\ e[ch] \in Nat BY <1>3, <1>4
    <3> QED BY <1>3, <1>4, <1>6, <2>2, <3>1, <3>2
  <2>3. CASE Passes /\ Receives
    <3>1. w.ch \in Channel /\ w.event \in Nat /\ seen[w.ch] \in Nat /\ seen[w.ch] < w.event
          /\ e[w.ch] = w.event
      BY <1>3, <1>4, <2>3, Sizes
    <3>2. seen' \in [Channel -> Nat] BY <1>3, <1>7, <2>3, <3>1
    <3>3. skipped' \in Nat BY <1>3, <1>7, <2>3, <3>1
    <3>4. \A ch \in Channel : /\ e2[ch] = IF ch = w.ch THEN w.event + 1 ELSE e[ch]
                              /\ seen'[ch] = IF ch = w.ch THEN w.event ELSE seen[ch]
      BY <1>3, <1>4, <1>7, <2>3, <3>1
    <3>5. \A ch \in Channel : seen'[ch] < e2[ch] BY <1>4, <3>1, <3>4
    <3> QED BY <3>2, <3>3, <3>5
  <2> QED BY <2>1, <2>2, <2>3
<1>9. EventFifoTypes'
  <2>1. ResetRegister \in BOOLEAN BY <1>1 DEF RegisterTypes
  <2>2. EventFIFOReset' \in BOOLEAN BY <1>2, <2>1
  <2>3. last' \in Words BY <1>2, <1>3, WordFields DEF Stays, Resets, Receives
  <2>4. resets' \in Nat BY <1>2, <1>3 DEF Stays, Resets, Receives
  <2> QED BY <1>2, <1>8, <2>2, <2>3, <2>4 DEF EventFifoTypes
<1>10. EventsCount'
  <2>1. \A ch \in Channel : Expected(ch)' = e2[ch]
    <3>1. AllExpected' = [ch \in Channel |-> Expected(ch)'] BY DEF AllExpected
    <3> QED BY <3>1
  <2> QED BY <1>5, <1>8, <2>1 DEF EventsCount
<1>11. OneForEachReset'
  <2> DEFINE B == IF EventFIFOReset /\ Comes THEN 1 ELSE 0
  <2>1. \A n2, k2, r2, b2 \in Nat :
          (n2 = skipped' /\ k2 = Cardinality(Missing(seen', e2)) /\ r2 = resets'
             /\ b2 = (IF ResetRegister /\ Comes' THEN 1 ELSE 0) /\ n2 + k2 + b2 <= r2)
            => OneForEachReset'
    <3>1. Swallowed' = Missing(seen', e2) BY DEF Swallowed
    <3> QED BY <1>2, <3>1 DEF OneForEachReset
  <2> SUFFICES ASSUME NEW n2 \in Nat, n2 = skipped',
                      NEW k2 \in Nat, k2 = Cardinality(Missing(seen', e2)),
                      NEW r2 \in Nat, r2 = resets',
                      NEW b2 \in {0, 1}, b2 = IF ResetRegister /\ Comes' THEN 1 ELSE 0
               PROVE  n2 + k2 + b2 <= r2
    <3>1. Cardinality(Missing(seen', e2)) \in Nat BY MissingIsFinite
    <3>2. skipped' \in Nat /\ resets' \in Nat BY <1>8, <1>9 DEF EventFifoTypes
    <3> QED BY <2>1, <3>1, <3>2
  <2>2. PICK k \in Nat : k = Cardinality(Missing(seen, e)) BY MissingIsFinite
  <2>3. PICK b \in {0, 1} : b = B OBVIOUS
  <2>4. skipped + k + b <= resets
    BY <1>1, <2>2, <2>3 DEF OneForEachReset, Swallowed
  <2> HIDE DEF B
  <2>5. CASE ~Passes
    <3>1. k2 = k /\ n2 = skipped BY <1>4, <1>6, <2>2, <2>5
    <3>2. CASE Receives
      <4>1. b2 = 0 /\ r2 = resets BY <3>2 DEF Receives
      <4> QED BY <1>3, <2>4, <3>1, <4>1
    <3>3. CASE Resets
      <4>1. r2 = resets + 1 /\ b = 0 BY <2>3, <3>3 DEF Resets, B
      <4> QED BY <1>3, <2>4, <3>1, <4>1
    <3>4. CASE Stays
      <4>1. r2 = resets BY <3>4 DEF Stays
      <4>2. b2 = 1 => b = 1 BY <1>5, <2>3, <3>4 DEF Stays, B
      <4> QED BY <1>3, <2>4, <3>1, <4>1, <4>2
    <3> QED BY <1>2, <3>2, <3>3, <3>4
  <2>6. CASE Passes
    <3>1. /\ b2 = 0 /\ e[w.ch] = w.event /\ w.ch \in Channel /\ w.event \in 1..Events
          /\ seen[w.ch] < e[w.ch] /\ e2 = [e EXCEPT ![w.ch] = e[w.ch] + 1]
      BY <1>4, <1>5, <2>6
    <3>2. seen[w.ch] \in Nat /\ w.event \in Nat BY <1>3, <3>1, Sizes
    <3>3. CASE Receives
      <4>1. n2 = skipped + (w.event - seen[w.ch] - 1) /\ r2 = resets BY <1>7, <2>6, <3>3
      <4>2. seen' = [seen EXCEPT ![w.ch] = e[w.ch]] BY <1>7, <2>6, <3>1, <3>3
      <4>3. k2 + (w.event - seen[w.ch] - 1) = k
        BY <1>3, <1>4, <2>2, <3>1, <4>2, NoneIsMissing, ZenonT(30)
      <4> QED BY <1>3, <2>4, <3>1, <3>2, <4>1, <4>3
    <3>4. CASE ~Receives
      <4>1. n2 = skipped /\ seen' = seen BY <1>6, <3>4
      <4>2. k2 = k + 1
        <5>1. /\ seen \in [Channel -> Nat] /\ e \in [Channel -> Nat] /\ w.ch \in Channel
              /\ e[w.ch] \in 1..Events /\ seen[w.ch] < e[w.ch]
          BY <1>3, <1>4, <3>1
        <5>2. Cardinality(Missing(seen, [e EXCEPT ![w.ch] = e[w.ch] + 1]))
                = Cardinality(Missing(seen, e)) + 1
          BY <5>1, OneMoreIsMissing
        <5>3. k2 = Cardinality(Missing(seen, e2)) BY <4>1
        <5>4. e2 = [e EXCEPT ![w.ch] = e[w.ch] + 1] BY <3>1
        <5> QED BY <2>2, <5>2, <5>3, <5>4
      <4>3. CASE Resets
        <5>1. r2 = resets + 1 BY <4>3 DEF Resets
        <5> QED BY <1>3, <2>4, <3>1, <4>1, <4>2, <5>1
      <4>4. CASE Stays
        <5>1. r2 = resets /\ b = 1 BY <1>5, <2>3, <2>6, <4>4 DEF Stays, Passes, B
        <5> QED BY <1>3, <2>4, <3>1, <4>1, <4>2, <5>1
      <4> QED BY <1>2, <3>4, <4>3, <4>4
    <3> QED BY <3>3, <3>4
  <2> QED BY <2>5, <2>6
<1> QED BY <1>9, <1>10, <1>11

-----------------------------------------------------------------------------
(* The invariant holds initially.                                          *)
LEMMA InitHolds == Init => IInv
<1> SUFFICES ASSUME Init PROVE IInv OBVIOUS
<1>1. \A ch \in Channel :
        /\ processor[ch] = [state |-> "Idle", event |-> 0, place |-> 1, EventReady |-> FALSE,
                            word |-> NoWord]
        /\ processor[ch] \in Processors /\ Resting(processor[ch])
  <2>1. 0 \in 0..Events /\ 1 \in 1..FifoWords /\ NoWord \in Words BY Sizes, WordFields
  <2>2. [state |-> "Idle", event |-> 0, place |-> 1, EventReady |-> FALSE, word |-> NoWord]
          \in [state : States, event : 0..Events, place : 1..FifoWords, EventReady : {FALSE},
               word : Words]
    BY <2>1 DEF States
  <2>3. [state |-> "Idle", event |-> 0, place |-> 1, EventReady |-> FALSE, word |-> NoWord]
          \in Processors
    BY <2>2 DEF Processors
  <2> QED BY <2>3 DEF Init, Resting
<1>2. ProcessorsWork
  <2>1. processor \in [Channel -> Processors] BY <1>1 DEF Init
  <2>2. Grant = {} BY DEF Init
  <2> QED BY <1>1, <2>1, <2>2 DEF ProcessorsWork
<1>3. ManagerTypes
  <2>1. << >> \in Seq(Words \ {NoWord}) /\ Len(<< >>) = 0 BY EmptySeq
  <2>2. 0 <= FifoWords /\ 0 \in 0..NumberOfConsumerNodes BY Sizes
  <2> QED BY <2>1, <2>2, WordFields DEF Init, ManagerTypes, Quiet
<1>4. RegisterTypes BY DEF Init, RegisterTypes
<1>5. EventFifoTypes
  <2>1. /\ EventFIFOReset = FALSE /\ count = 0 /\ last = NoWord
        /\ seen = [ch \in Channel |-> 0] /\ skipped = 0 /\ resets = 0
    BY DEF Init
  <2>2. 0 \in 0..EventFifoWords BY Sizes
  <2>3. NoWord \in Words BY WordFields
  <2> QED BY <2>1, <2>2, <2>3 DEF EventFifoTypes
<1>6. ManagerWorks BY DEF Init, ManagerWorks, At
<1>7. Chain(fifo)
  <2>1. Len(fifo) = 0 BY DEF Init
  <2> QED BY <2>1 DEF Chain
<1>8. PacketComes /\ PacketGoes BY DEF Init, PacketComes, PacketGoes, At, Transfers
<1>9. ~OnTheWay /\ ~Comes BY DEF Init, OnTheWay, Comes, Transfers, At
<1>10. Fits BY <1>9, WordFields DEF Init, Fits
<1>11. \A ch \in Channel : Expected(ch) = 1 /\ seen[ch] = 0
  <2>1. \A ch \in Channel : ~StillToCome(ch) BY <1>9 DEF StillToCome, Comes
  <2>2. \A ch \in Channel : Begun(processor[ch]) = 0 BY <1>1 DEF Begun
  <2>3. seen = [ch \in Channel |-> 0] BY DEF Init
  <2>4. \A ch \in Channel : Expected(ch) = 0 + 1 BY <2>1, <2>2 DEF Expected
  <2> QED BY <2>3, <2>4
<1>12. EventsCount BY <1>9, <1>11 DEF EventsCount
<1>13. OneForEachReset
  <2>1. \A ch \in Channel : AllExpected[ch] = 1 BY <1>11 DEF AllExpected
  <2>2. Swallowed = {}
    <3>1. \A ce \in Channel \X (1..Events) :
            ~(seen[ce[1]] < ce[2] /\ ce[2] < AllExpected[ce[1]])
      <4>1. SUFFICES ASSUME NEW ce \in Channel \X (1..Events)
                     PROVE  ~(ce[2] < AllExpected[ce[1]])
        OBVIOUS
      <4>2. ce[1] \in Channel /\ ce[2] \in 1..Events BY <4>1
      <4>3. ce[2] \in Nat /\ ce[2] >= 1 BY <4>2, Sizes
      <4> QED BY <2>1, <4>2, <4>3
    <3> QED BY <3>1 DEF Swallowed, Missing
  <2>3. Cardinality(Swallowed) = 0 BY <2>2, FS_EmptySet
  <2>4. skipped = 0 /\ resets = 0 BY DEF Init
  <2> QED BY <1>9, <2>3, <2>4 DEF OneForEachReset
<1> QED BY <1>2, <1>3, <1>4, <1>5, <1>6, <1>7, <1>8, <1>10, <1>12, <1>13 DEF IInv

(* Every step keeps the invariant.                                         *)
LEMMA StepHolds == IInv /\ [Next]_vars => IInv'
<1> SUFFICES ASSUME IInv, [Next]_vars PROVE IInv' OBVIOUS
<1>1. CASE Next
  <2>1. PICK read \in BOOLEAN : Clock(read) BY <1>1 DEF Next
  <2>2. ProcessorsWork' BY <2>1, ProcessorsWorkTick
  <2>3. ManagerTypes' /\ ManagerWorks' BY <2>1, ManagerTick
  <2>4. RegisterTypes'
    <3>1. RegisterTypes /\ Registers BY <2>1 DEF IInv, Clock
    <3> QED BY <3>1, RegistersTick
  <2>5. Chain(fifo)'
    <3>1. Chain(fifo') BY <2>1, FifoTypesTick
    <3> QED BY <3>1
  <2>6. PacketComes' /\ PacketGoes' BY <2>1, WayTick
  <2>7. Fits' BY <2>1, FitsTick
  <2>8. EventFifoTypes' /\ EventsCount' /\ OneForEachReset' BY <2>1, EventsTick
  <2> QED BY <2>2, <2>3, <2>4, <2>5, <2>6, <2>7, <2>8 DEF IInv
<1>2. CASE UNCHANGED vars
  <2> USE <1>2 DEF vars, managerFifo, manager, registers, eventFifo
  <2>1. ProcessorsWork' /\ ManagerTypes' /\ RegisterTypes' /\ EventFifoTypes'
    BY DEF IInv, ProcessorsWork, ManagerTypes, RegisterTypes, EventFifoTypes
  <2>2. ManagerWorks' /\ Chain(fifo)' /\ PacketComes'
    BY DEF IInv, ManagerWorks, PacketComes, At
  <2>3. /\ PacketGoes' /\ (OnTheWay' <=> OnTheWay) /\ Front' = Front
    BY DEF IInv, PacketGoes, OnTheWay, Front, Ahead, At
  <2>4. Fits' BY <2>3 DEF IInv, Fits
  <2>5. \A ch \in Channel : StillToCome(ch)' <=> StillToCome(ch)
    BY <2>3 DEF StillToCome, At
  <2>6. \A ch \in Channel : Expected(ch)' = Expected(ch) BY <2>5 DEF Expected
  <2>7. EventsCount' BY <2>3, <2>6 DEF IInv, EventsCount
  <2>8. AllExpected' = AllExpected BY <2>6 DEF AllExpected
  <2>9. Comes' <=> Comes BY <2>3 DEF Comes, At
  <2>10. OneForEachReset' BY <2>8, <2>9 DEF IInv, OneForEachReset, Swallowed
  <2> QED BY <2>1, <2>2, <2>3, <2>4, <2>7, <2>10 DEF IInv
<1> QED BY <1>1, <1>2

(* The state at every tick is as IInv says.                                *)
THEOREM Invariance == Spec => []IInv
BY InitHolds, StepHolds, PTL DEF Spec

(* Every variable has its type.                                            *)
THEOREM TypeCorrect == Spec => []TypeOK
<1>1. IInv => TypeOK
  <2> SUFFICES ASSUME IInv PROVE TypeOK OBVIOUS
  <2>1. \A ch \in Channel :
          /\ processor[ch].state \in States
          /\ processor[ch].event \in 0..Events /\ processor[ch].place \in 1..FifoWords
          /\ processor[ch].EventReady \in BOOLEAN /\ processor[ch].word \in Words
    BY DEF IInv, ProcessorsWork, Processors
  <2>2. /\ fifo \in Seq(Words \ {NoWord}) /\ Len(fifo) <= FifoWords
        /\ FifoReadEnable \in BOOLEAN /\ FifoDataOut \in Words
        /\ UserModule_state \in Quiet \cup Transfers \cup {"Grant"}
        /\ LoopI \in 0..NumberOfConsumerNodes
        /\ ResetDone \in BOOLEAN /\ EventFIFOWriteEnable \in BOOLEAN
        /\ EventFIFOWriteData \in Words
    BY DEF IInv, ManagerTypes
  <2>3. fifo \in Seq(Words) BY <2>2, ElementOfSeq
  <2>4. Grant \subseteq Channel BY DEF IInv, ManagerWorks
  <2>5. /\ iBus_beWritten_state \in {"Initialize", "Idle", "DataReceive", "WaitDone",
                                     "WaitResetDone"}
        /\ beWritten \in Writes \cup {NoWrite}
        /\ EventOutputDisable \in BOOLEAN /\ EventPacket_NumberOfWaveform \in Waveforms
        /\ ResetRegister \in BOOLEAN
    BY DEF IInv, RegisterTypes
  <2>6. /\ EventFIFOReset \in BOOLEAN /\ count \in 0..EventFifoWords /\ last \in Words
    BY DEF IInv, EventFifoTypes
  <2> QED BY <2>1, <2>2, <2>3, <2>4, <2>5, <2>6 DEF TypeOK, States, Quiet, Transfers
<1> QED BY <1>1, Invariance, PTL

(* The refinement: the EventFIFO holds whole packets in order.  What a tick *)
(* writes to it is the next word of the packet that was begun, or the       *)
(* first of one that is newer than all seen of its channel; an event is     *)
(* passed over only when a reset has swallowed it.                          *)
THEOREM Refinement == Spec => StreamHolds
<1>1. Init => Stream!Init BY DEF Init, Stream!Init, NoWord
<1>2. ASSUME IInv, IInv', [Next]_vars
      PROVE  [Stream!Next]_<<last, seen, skipped, resets>>
  <2>1. CASE Next
    <3>1. PICK read \in BOOLEAN : Clock(read) BY <2>1 DEF Next
    <3>2. EventFifoTypes /\ ManagerWorks /\ ManagerTypes /\ EventFifo(read) /\ Fits
      BY <1>2, <3>1 DEF IInv, Clock
    <3>3. Stays \/ Resets \/ Receives BY <3>2, EventFifoTick
    <3>4. CASE Stays BY <3>4 DEF Stays
    <3>5. CASE Resets
      <4>1. Stream!Reset BY <3>5 DEF Resets, Stream!Reset, NoWord
      <4> QED BY <4>1 DEF Stream!Next
    <3>6. CASE Receives
      <4> DEFINE w == EventFIFOWriteData
      <4>1. /\ last' = w /\ resets' = resets /\ ~EventFIFOReset /\ EventFIFOWriteEnable
            /\ IF w.place = 1
               THEN /\ seen' = [seen EXCEPT ![w.ch] = w.event]
                    /\ skipped' = skipped + (w.event - seen[w.ch] - 1)
               ELSE UNCHANGED <<seen, skipped>>
        BY <3>6 DEF Receives
      <4>2. Goes
        BY <1>2, <3>1, <4>1, WayTick DEF StaysAway, GathersOn, SetsOut, Waits
      <4>3. OnTheWay /\ Front = w BY <4>2 DEF Goes
      <4>4. IF w.place # 1 THEN Follows(last, w) ELSE last.place = End
        BY <3>2, <4>1, <4>3 DEF Fits
      <4>5. CASE w.place = 1
        <5>1. w.ch \in Channel /\ AllExpected[w.ch] = w.event /\ seen[w.ch] < AllExpected[w.ch]
          BY <1>2, <3>1, <4>1, <4>5, AllExpectedTick DEF Passes
        <5>2. w.event \in Nat /\ seen[w.ch] \in Nat
          <6>1. w.event \in 1..Events
            BY <1>2, <3>1, <4>1, <4>5, AllExpectedTick DEF Passes
          <6> QED BY <3>2, <5>1, <6>1, Sizes DEF EventFifoTypes
        <5>3. w.event > seen[w.ch] BY <5>1, <5>2
        <5>4. skipped' <= resets
          <6>1. OneForEachReset' /\ EventFifoTypes' BY <1>2 DEF IInv
          <6>2. Cardinality(Swallowed') \in Nat
            <7>1. Swallowed' = Missing(seen', AllExpected') BY DEF Swallowed
            <7> QED BY <7>1, MissingIsFinite
          <6>3. skipped' \in Nat /\ resets' \in Nat BY <6>1 DEF EventFifoTypes
          <6>4. skipped' + Cardinality(Swallowed') + (IF EventFIFOReset' /\ Comes' THEN 1 ELSE 0)
                  <= resets'
            BY <6>1 DEF OneForEachReset
          <6> QED BY <4>1, <6>2, <6>3, <6>4
        <5>5. Stream!Begin(w) BY <4>1, <4>4, <4>5, <5>3, <5>4 DEF Stream!Begin, End
        <5> QED BY <4>1, <5>5 DEF Stream!Next, Stream!Write
      <4>6. CASE w.place # 1
        <5>1. Follows(last, w) /\ UNCHANGED <<seen, skipped>> BY <4>1, <4>4, <4>6
        <5>2. Stream!Continue(w) BY <5>1 DEF Stream!Continue, Follows, Between, End
        <5> QED BY <4>1, <5>2 DEF Stream!Next, Stream!Write
      <4> QED BY <4>5, <4>6
    <3> QED BY <3>3, <3>4, <3>5, <3>6
  <2>2. CASE UNCHANGED vars BY <2>2 DEF vars, eventFifo
  <2> QED BY <1>2, <2>1, <2>2
<1>3. Spec => Stream!Spec
  BY <1>1, <1>2, Invariance, PTL DEF Spec, Stream!Spec
<1> QED BY <1>3 DEF StreamHolds
=============================================================================

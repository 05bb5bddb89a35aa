------------------------- MODULE ChannelBuffer_proofs -------------------------
(***************************************************************************)
(* Theorems about ChannelBuffer, for any lengths of waveforms and headers, *)
(* any depth of the FIFO that the assumption allows and any number of      *)
(* triggers.                                                               *)
(***************************************************************************)
EXTENDS ChannelBuffer, TLAPS, SequenceTheorems

EventWords == NumberOfSamples + 1 + SizeOfHeader

-----------------------------------------------------------------------------
(* The types.                                                              *)

TriggerTypes ==
  /\ TriggerMode \in TriggerModes
  /\ Trigger_state \in {"Initialize", "Idle", "Triggered", "Finalize"}
  /\ SampledNumber \in 0..NumberOfSamples
  /\ TriggerEnd \in BOOLEAN /\ Veto_latched_in_Idle_state \in BOOLEAN
  /\ TriggerPrevious \in BOOLEAN
  /\ trigger \in 0..MaxTriggers /\ managerVeto \in BOOLEAN
BufferTypes ==
  /\ Buffer_state \in {"Initialize", "Idle", "WaitVetoOff", "WaitTriggerOff",
                       "WriteHeader", "Finalize"}
  /\ WriteEnable \in BOOLEAN /\ DataIn \in Words /\ Busy \in BOOLEAN
  /\ RealTime_latched \in 0..MaxTriggers /\ pending \in Seq(1..MaxTriggers)
FifoTypes ==
  /\ fifo \in Seq(Words) /\ unseen \in 0..1 /\ since \in 0..3
  /\ WriteDataCount <= DepthOfWaveformBufferFIFO
  /\ reader \in {"Idle", "Copy", "Analysis"} /\ copied \in Seq(Words)

-----------------------------------------------------------------------------
(* The trigger module counts a trigger one tick after it began.            *)
CountFollows ==
  /\ TriggerCount = IF Trigger /\ ~TriggerPrevious THEN trigger - 1 ELSE trigger
  /\ Trigger_state = "Triggered" => trigger > 0
  /\ Trigger_state = "Initialize" => ~TriggerPrevious

(* The buffer module is ready for every trigger that is not vetoed, from   *)
(* its first sample on, and has room for all of the event but its last     *)
(* word; while it is at work no other trigger passes.                      *)
Untaken == TriggerOut /\ Buffer_state = "Idle"
TriggerMeetsBuffer ==
  /\ TriggerOut => Buffer_state \in {"Idle", "WaitTriggerOff"}
  /\ Buffer_state = "Initialize" => Trigger_state = "Initialize"
  /\ Busy <=> Buffer_state \in {"WaitTriggerOff", "WriteHeader", "Finalize"}
  /\ WriteEnable <=> Busy
  /\ Untaken => /\ SampledNumber = 0
                /\ WriteDataCount + EventWords <= DepthOfWaveformBufferFIFO + 1

(* The word the buffer module offers, from state to state, is of the event *)
(* taken last.                                                             *)
WordInHand ==
  /\ Busy => pending # << >> /\ RealTime_latched = pending[Len(pending)]
  /\ Buffer_state = "WaitTriggerOff" =>
       /\ TriggerCount >= RealTime_latched
       /\ TriggerOut => trigger = RealTime_latched /\ SampledNumber > 0
  /\ Buffer_state \in {"WriteHeader", "Finalize"} => TriggerCount >= RealTime_latched
  /\ Buffer_state = "WriteHeader" =>
       \/ DataIn = W("flag", 0, 0)
       \/ DataIn = W("time", RealTime_latched, DataIn.n) /\ DataIn.n \in 1..TimeWords

(* Words of the event in hand that are still to come.                      *)
Remaining ==
  IF Buffer_state = "WaitTriggerOff"
  THEN IF TriggerOut THEN EventWords - SampledNumber ELSE SizeOfHeader
  ELSE IF Buffer_state = "WriteHeader"
  THEN IF DataIn.kind = "flag" THEN SizeOfHeader - 1 ELSE SizeOfHeader - 1 - DataIn.n
  ELSE 0

(* What was written of the events that are not analysed: the words the     *)
(* pulse processor has, those in the FIFO, and the one on its way into it. *)
InHand == IF WriteEnable THEN 1 ELSE 0
Total == Len(copied) + Len(fifo) + InHand
Item(i) ==
  IF i <= Len(copied) THEN copied[i]
  ELSE IF i <= Len(copied) + Len(fifo) THEN fifo[i - Len(copied)]
  ELSE DataIn

(* It is whole events but for the words that are still to come.            *)
WholeEvents == Total + Remaining = Len(pending) * EventWords
ReaderInEvent ==
  /\ reader = "Idle" => Len(copied) = 0
  /\ reader = "Copy" => Len(copied) < EventWords
  /\ reader = "Analysis" => Len(copied) = EventWords

(* The r-th word of the q-th event.                                        *)
Right(q, r, w) ==
  /\ r <= NumberOfSamples + 1 => w = W("sample", pending[q], r - 1)
  /\ r = NumberOfSamples + 2 => w = W("flag", 0, 0)
  /\ r > NumberOfSamples + 2 /\ r < EventWords =>
       w = W("time", pending[q], r - NumberOfSamples - 2)
  /\ r = EventWords =>
       /\ w.kind = "count" /\ w.n >= pending[q] /\ w.n <= trigger
       /\ q < Len(pending) => w.n < pending[q + 1]
       /\ Untaken => w.n < trigger
WordsRight ==
  \A q \in 1..Len(pending), r \in 1..EventWords :
    (q - 1) * EventWords + r <= Total => Right(q, r, Item((q - 1) * EventWords + r))

-----------------------------------------------------------------------------
(* A word that was read is no longer counted three ticks later.            *)
CountCatchesUp ==
  /\ unseen = 1 => since < 3
  /\ since = 0 => unseen = 1

(* The last word of an event, for which no room was asked, finds room: the *)
(* FIFO does not end with the event, unless the pulse processor is in the  *)
(* middle of another one, and then it takes a word in time.                *)
Needed == WriteDataCount + InHand + Remaining
RoomForTheLast ==
  /\ Busy /\ Needed > DepthOfWaveformBufferFIFO =>
       /\ Needed = DepthOfWaveformBufferFIFO + 1
       /\ \/ unseen = 1 /\ 3 <= Remaining + since
          \/ unseen = 0 /\ reader = "Copy" /\ 6 <= Remaining + since
  /\ Untaken /\ WriteDataCount + EventWords = DepthOfWaveformBufferFIFO + 1 /\ unseen = 0 =>
       since >= 2

IInv ==
  /\ TriggerTypes /\ BufferTypes /\ FifoTypes
  /\ CountFollows /\ TriggerMeetsBuffer /\ WordInHand
  /\ WholeEvents /\ ReaderInEvent /\ WordsRight
  /\ CountCatchesUp /\ RoomForTheLast

USE ConstantsAssumption

-----------------------------------------------------------------------------
(* The lengths of an event.                                                *)
LEMMA Lengths ==
  /\ NumberOfSamples \in Nat /\ SizeOfHeader \in Nat /\ SizeOfHeader >= 3
  /\ DepthOfWaveformBufferFIFO \in Nat /\ MaxTriggers \in Nat
  /\ EventWords \in Nat /\ EventWords = NumberOfSamples + 1 + SizeOfHeader
  /\ TimeWords \in Nat /\ TimeWords = SizeOfHeader - 2
BY DEF EventWords, TimeWords

(* Products of natural numbers.                                            *)
LEMMA Products ==
  ASSUME NEW a \in Nat, NEW b \in Nat, NEW c \in Nat
  PROVE  /\ a * c \in Nat
         /\ (a + 1) * c = a * c + c
         /\ a <= b => a * c <= b * c
OBVIOUS

(* A word has one place in one event only.                                 *)
LEMMA Places ==
  ASSUME NEW q \in Nat, NEW p \in Nat, NEW r \in 1..EventWords, NEW s \in 1..EventWords,
         q * EventWords + r = p * EventWords + s
  PROVE  q = p /\ r = s
<1> DEFINE Q == q * EventWords
           P == p * EventWords
<1>1. Q \in Nat /\ P \in Nat /\ (q + 1) * EventWords = Q + EventWords
      /\ (p + 1) * EventWords = P + EventWords
  BY Products, Lengths
<1>2. q < p => Q + EventWords <= P
  <2> SUFFICES ASSUME q < p PROVE (q + 1) * EventWords <= p * EventWords
    BY <1>1
  <2>1. q + 1 \in Nat /\ q + 1 <= p OBVIOUS
  <2> QED BY <2>1, Products, Lengths
<1>3. p < q => P + EventWords <= Q
  <2> SUFFICES ASSUME p < q PROVE (p + 1) * EventWords <= q * EventWords
    BY <1>1
  <2>1. p + 1 \in Nat /\ p + 1 <= q OBVIOUS
  <2> QED BY <2>1, Products, Lengths
<1>4. Q + r = P + s OBVIOUS
<1> HIDE DEF Q, P
<1>5. ~(q < p) BY <1>1, <1>2, <1>4, Lengths
<1>6. ~(p < q) BY <1>1, <1>3, <1>4, Lengths
<1>7. q = p BY <1>5, <1>6
<1> QED BY <1>1, <1>4, <1>7, Lengths DEF Q, P

(* The depth of the FIFO is no whole number of events but one word.        *)
LEMMA DepthIsOdd ==
  ASSUME NEW k \in Nat
  PROVE  k * EventWords # DepthOfWaveformBufferFIFO + 1
<1>1. \A a, b \in Nat : b > 0 => (a * b) % b = 0
  OBVIOUS
<1>2. (k * EventWords) % EventWords = 0 BY <1>1, Lengths
<1>3. EventWords = NumberOfSamples + 1 + SizeOfHeader BY Lengths
<1>4. (DepthOfWaveformBufferFIFO + 1) % EventWords # 0 BY <1>3
<1> QED BY <1>2, <1>4

-----------------------------------------------------------------------------
(* What a tick makes of the trigger module.                                *)
TriggerAfter ==
  /\ TriggerOut => trigger' = trigger
  /\ TriggerOut /\ SampledNumber < NumberOfSamples =>
       TriggerOut' /\ SampledNumber' = SampledNumber + 1
  /\ TriggerOut /\ ~(SampledNumber < NumberOfSamples) => ~TriggerOut'
  /\ ~TriggerOut /\ TriggerOut' =>
       ~Veto /\ SampledNumber' = 0 /\ trigger' = trigger + 1
  /\ trigger' \in {trigger, trigger + 1}

(* A clock of the trigger module: what it may do, its types, and its       *)
(* counter follows it.                                                     *)
LEMMA TriggerTick ==
  ASSUME TriggerTypes, CountFollows, NEW above \in BOOLEAN, NEW closed \in BOOLEAN,
         above => trigger < MaxTriggers, TriggerModule(above, closed),
         UNCHANGED <<TriggerMode, managerVeto>>
  PROVE  TriggerAfter /\ TriggerTypes' /\ CountFollows'
<1> USE DEF TriggerTypes
<1>1. TriggerPrevious' = Trigger /\ TriggerCount' = Counted BY DEF TriggerModule
<1>2. TriggerPrevious' \in BOOLEAN
  <2>1. Trigger \in BOOLEAN BY DEF Trigger
  <2> QED BY <1>1, <2>1
<1>7. CASE Trigger_state = "Initialize"
  <2>1. /\ Trigger_state' = "Idle" /\ SampledNumber' = 0 /\ TriggerEnd' = FALSE
        /\ UNCHANGED <<Veto_latched_in_Idle_state, trigger>>
    BY <1>7 DEF TriggerModule
  <2>2. ~Trigger /\ ~Trigger' /\ ~TriggerOut /\ ~TriggerOut'
    BY <1>7, <2>1 DEF Trigger, TriggerOut
  <2>3. TriggerAfter BY <2>1, <2>2 DEF TriggerAfter
  <2>4. CountFollows' BY <1>1, <2>1, <2>2 DEF CountFollows, Counted
  <2>5. TriggerTypes'
    <3>1. TriggerEnd' \in BOOLEAN BY <2>1
    <3> QED BY <1>2, <2>1, <3>1, Lengths
  <2> QED BY <2>3, <2>4, <2>5
<1>3. CASE Trigger_state = "Idle"
  <2>1. /\ SampledNumber' = 0 /\ TriggerEnd' = FALSE
        /\ Veto_latched_in_Idle_state' = Veto
        /\ Trigger_state' = IF above THEN "Triggered" ELSE "Idle"
        /\ trigger' = IF above THEN trigger + 1 ELSE trigger
    BY <1>3 DEF TriggerModule
  <2>2. ~Trigger /\ ~TriggerOut BY <1>3 DEF Trigger, TriggerOut
  <2>3. (TriggerOut' <=> (above /\ ~Veto)) /\ (Trigger' <=> above)
    BY <2>1 DEF Trigger, TriggerOut
  <2>4. TriggerAfter BY <2>1, <2>2, <2>3 DEF TriggerAfter
  <2>5. CountFollows' BY <1>1, <2>1, <2>2, <2>3 DEF CountFollows, Counted
  <2>6. TriggerTypes'
    <3>1. Veto \in BOOLEAN BY DEF Veto
    <3>2. trigger' \in 0..MaxTriggers BY <2>1, Lengths
    <3>3. Veto_latched_in_Idle_state' \in BOOLEAN BY <2>1, <3>1
    <3>4. TriggerEnd' \in BOOLEAN BY <2>1
    <3>5. SampledNumber' \in 0..NumberOfSamples BY <2>1, Lengths
    <3>6. Trigger_state' \in {"Initialize", "Idle", "Triggered", "Finalize"} BY <2>1
    <3> QED BY <1>2, <3>2, <3>3, <3>4, <3>5, <3>6
  <2> QED BY <2>4, <2>5, <2>6
<1>4. CASE Trigger_state = "Triggered" /\ ~Enough
  <2>1. /\ SampledNumber' = SampledNumber + 1
        /\ UNCHANGED <<Trigger_state, TriggerEnd, Veto_latched_in_Idle_state, trigger>>
    BY <1>4 DEF TriggerModule
  <2>2. SampledNumber < NumberOfSamples BY <1>4, Lengths DEF Enough
  <2>3. (TriggerOut' <=> TriggerOut) /\ (Trigger' <=> Trigger)
    BY <2>1 DEF Trigger, TriggerOut
  <2>4. TriggerAfter BY <2>1, <2>2, <2>3 DEF TriggerAfter
  <2>5. CountFollows' BY <1>1, <1>4, <2>1, <2>3 DEF CountFollows, Counted
  <2>6. TriggerTypes' BY <1>2, <2>1, <2>2, Lengths
  <2> QED BY <2>4, <2>5, <2>6
<1>5. CASE Trigger_state = "Triggered" /\ Enough
  <2>1. /\ TriggerEnd' = (TriggerEnd \/ TriggerMode # 1)
        /\ Trigger_state' = IF Closes(closed) THEN "Finalize" ELSE "Triggered"
        /\ UNCHANGED <<SampledNumber, Veto_latched_in_Idle_state, trigger>>
    BY <1>5 DEF TriggerModule, Enough
  <2>2. SampledNumber = NumberOfSamples /\ ~(SampledNumber < NumberOfSamples)
    BY <1>5, Lengths DEF Enough
  <2>3. ~Trigger' /\ ~TriggerOut'
    <3>1. TriggerMode # 1 \/ Closes(closed) BY DEF Closes
    <3> QED BY <2>1, <3>1 DEF Trigger, TriggerOut
  <2>4. TriggerAfter BY <2>1, <2>2, <2>3 DEF TriggerAfter
  <2>5. CountFollows' BY <1>1, <1>5, <2>1, <2>3 DEF CountFollows, Counted
  <2>6. TriggerTypes'
    <3>2. TriggerEnd' \in BOOLEAN BY <2>1
    <3> QED BY <1>2, <2>1, <3>2, Lengths
  <2> QED BY <2>4, <2>5, <2>6
<1>6. CASE Trigger_state = "Finalize"
  <2>1. /\ Trigger_state' = "Idle"
        /\ UNCHANGED <<SampledNumber, TriggerEnd, Veto_latched_in_Idle_state, trigger>>
    BY <1>6 DEF TriggerModule
  <2>2. ~Trigger /\ ~Trigger' /\ ~TriggerOut /\ ~TriggerOut'
    BY <1>6, <2>1 DEF Trigger, TriggerOut
  <2>3. TriggerAfter BY <2>1, <2>2 DEF TriggerAfter
  <2>4. CountFollows' BY <1>1, <2>1, <2>2 DEF CountFollows, Counted
  <2>5. TriggerTypes' BY <1>2, <2>1, Lengths
  <2> QED BY <2>3, <2>4, <2>5
<1> QED BY <1>3, <1>4, <1>5, <1>6, <1>7

-----------------------------------------------------------------------------
(* What a tick makes of the buffer module: it takes an event, rests, offers *)
(* the next word of an event, or has come to its end.                      *)
Takes ==
  /\ Untaken
  /\ pending' = Append(pending, trigger) /\ RealTime_latched' = trigger
  /\ WriteEnable' = TRUE /\ Busy' = TRUE /\ Buffer_state' = "WaitTriggerOff"
  /\ DataIn' = W("sample", trigger, 0)
Rests ==
  /\ Buffer_state \in {"Initialize", "Idle", "WaitVetoOff"} /\ ~Untaken
  /\ Buffer_state' \in {"Idle", "WaitVetoOff"} /\ (~Veto => Buffer_state' = "Idle")
  /\ Busy' = FALSE /\ WriteEnable' = FALSE
  /\ DataIn' \in {DataIn, Sample} /\ UNCHANGED <<RealTime_latched, pending>>
OffersSample ==
  /\ Buffer_state = "WaitTriggerOff" /\ TriggerOut
  /\ Buffer_state' = "WaitTriggerOff" /\ DataIn' = Sample
OffersFlag ==
  /\ Buffer_state = "WaitTriggerOff" /\ ~TriggerOut
  /\ Buffer_state' = "WriteHeader" /\ DataIn' = W("flag", 0, 0)
OffersTime ==
  /\ Buffer_state = "WriteHeader" /\ Buffer_state' = "WriteHeader"
  /\ \/ DataIn = W("flag", 0, 0) /\ DataIn' = W("time", RealTime_latched, 1)
     \/ \E n \in 1..TimeWords : /\ DataIn = W("time", RealTime_latched, n) /\ n < TimeWords
                                /\ DataIn' = W("time", RealTime_latched, n + 1)
OffersCount ==
  /\ Buffer_state = "WriteHeader" /\ Buffer_state' = "Finalize"
  /\ DataIn = W("time", RealTime_latched, TimeWords)
  /\ DataIn' = W("count", 0, TriggerCount)
Offers ==
  /\ OffersSample \/ OffersFlag \/ OffersTime \/ OffersCount
  /\ UNCHANGED <<WriteEnable, Busy, RealTime_latched, pending>>
Ends ==
  /\ Buffer_state = "Finalize" /\ Buffer_state' = "Idle"
  /\ Busy' = FALSE /\ WriteEnable' = FALSE
  /\ UNCHANGED <<DataIn, RealTime_latched, pending>>
BufferAfter == Takes \/ Rests \/ Offers \/ Ends

(* A word is its kind, its trigger and its number.                         *)
LEMMA WordFields ==
  ASSUME NEW k, NEW t, NEW n
  PROVE  W(k, t, n).kind = k /\ W(k, t, n).trig = t /\ W(k, t, n).n = n
BY DEF W

(* The buffer module takes every event whose trigger meets it in Idle.     *)
LEMMA BufferTick ==
  ASSUME TriggerTypes, BufferTypes, FifoTypes, TriggerMeetsBuffer, WordInHand, BufferModule
  PROVE  BufferAfter
<1> USE DEF BufferTypes
<1>1. CASE Buffer_state = "Initialize"
  <2>1. Rests BY <1>1 DEF BufferModule, Rests, Untaken
  <2> QED BY <2>1 DEF BufferAfter
<1>2. CASE Buffer_state = "Idle"
  <2>1. DataIn' = Sample BY <1>2 DEF BufferModule
  <2>2. CASE TriggerOut
    <3>1. SampledNumber = 0 /\ WriteDataCount + EventWords <= DepthOfWaveformBufferFIFO + 1
      BY <1>2, <2>2 DEF TriggerMeetsBuffer, Untaken
    <3>2. WriteDataCount \in Nat
      BY LenProperties DEF FifoTypes, WriteDataCount
    <3>3. ~Full /\ ~NoRoomForMoreEvent
      BY <3>1, <3>2, Lengths DEF Full, NoRoomForMoreEvent
    <3>4. Takes
      BY <1>2, <2>1, <2>2, <3>1, <3>3 DEF BufferModule, Takes, Untaken, Sample
    <3> QED BY <3>4 DEF BufferAfter
  <2>3. CASE ~TriggerOut
    <3>1. Busy = FALSE /\ WriteEnable = FALSE BY <1>2 DEF TriggerMeetsBuffer
    <3>2. Rests BY <1>2, <2>1, <2>3, <3>1 DEF BufferModule, Rests, Untaken
    <3> QED BY <3>2 DEF BufferAfter
  <2> QED BY <2>2, <2>3
<1>3. CASE Buffer_state = "WaitVetoOff"
  <2>1. Busy = FALSE /\ WriteEnable = FALSE BY <1>3 DEF TriggerMeetsBuffer
  <2>2. ~Veto => ~TriggerOut BY DEF Veto
  <2>3. Rests BY <1>3, <2>1, <2>2 DEF BufferModule, Rests, Untaken
  <2> QED BY <2>3 DEF BufferAfter
<1>4. CASE Buffer_state = "WaitTriggerOff"
  <2>1. Offers BY <1>4 DEF BufferModule, Offers, OffersSample, OffersFlag
  <2> QED BY <2>1 DEF BufferAfter
<1>5. CASE Buffer_state = "WriteHeader"
  <2>1. UNCHANGED <<WriteEnable, Busy, RealTime_latched, pending>>
    BY <1>5 DEF BufferModule
  <2>2. \/ /\ DataIn.kind = "flag"
           /\ DataIn' = W("time", RealTime_latched, 1) /\ Buffer_state' = "WriteHeader"
        \/ /\ DataIn.kind = "time" /\ DataIn.n < TimeWords
           /\ DataIn' = W("time", RealTime_latched, DataIn.n + 1)
           /\ Buffer_state' = "WriteHeader"
        \/ /\ DataIn.kind = "time" /\ DataIn.n = TimeWords
           /\ DataIn' = W("count", 0, TriggerCount) /\ Buffer_state' = "Finalize"
    BY <1>5 DEF BufferModule
  <2>3. \/ DataIn = W("flag", 0, 0) /\ DataIn.kind = "flag"
        \/ /\ DataIn = W("time", RealTime_latched, DataIn.n) /\ DataIn.n \in 1..TimeWords
           /\ DataIn.kind = "time"
    BY <1>5, WordFields DEF WordInHand
  <2>4. OffersTime \/ OffersCount
    BY <1>5, <2>2, <2>3 DEF OffersTime, OffersCount
  <2> QED BY <2>1, <2>4 DEF BufferAfter, Offers
<1>6. CASE Buffer_state = "Finalize"
  <2>1. ~TriggerOut BY <1>6 DEF TriggerMeetsBuffer
  <2>2. Ends BY <1>6, <2>1 DEF BufferModule, TriggerOff, Ends
  <2> QED BY <2>2 DEF BufferAfter
<1> QED BY <1>1, <1>2, <1>3, <1>4, <1>5, <1>6

(* The words it offers are words.                                          *)
LEMMA BufferTypesKept ==
  ASSUME TriggerTypes, BufferTypes, CountFollows, BufferAfter
  PROVE  BufferTypes'
<1>1. \A k \in Kinds, t \in 0..MaxTriggers, n \in Nat :
        n <= NumberOfSamples + SizeOfHeader + MaxTriggers => W(k, t, n) \in Words
  BY Lengths DEF W, Words
<1>2. Sample \in Words
  BY <1>1, Lengths DEF Sample, TriggerTypes, Kinds
<1>3. TriggerCount \in 0..MaxTriggers
  BY Lengths DEF CountFollows, TriggerTypes, Trigger
<1>4. CASE Takes
  <2>1. TriggerOut /\ trigger \in 1..MaxTriggers
    BY <1>4, Lengths DEF Takes, Untaken, TriggerOut, Trigger, CountFollows, TriggerTypes
  <2>2. W("sample", trigger, 0) \in Words
    BY <1>1, <2>1, Lengths DEF Kinds
  <2>3. pending' \in Seq(1..MaxTriggers)
    BY <1>4, <2>1, AppendProperties DEF Takes, BufferTypes
  <2> QED BY <1>4, <2>1, <2>2, <2>3, Lengths DEF Takes, BufferTypes
<1>5. CASE Rests BY <1>2, <1>5 DEF Rests, BufferTypes
<1>6. CASE Offers
  <2>1. DataIn' \in Words
    <3>1. CASE OffersSample BY <1>2, <3>1 DEF OffersSample
    <3>2. CASE OffersFlag
      <4>1. W("flag", 0, 0) \in Words BY <1>1, Lengths DEF Kinds
      <4> QED BY <3>2, <4>1 DEF OffersFlag
    <3>3. CASE OffersTime
      <4>1. RealTime_latched \in 0..MaxTriggers BY DEF BufferTypes
      <4>2. \A n \in 1..TimeWords : W("time", RealTime_latched, n) \in Words
        BY <1>1, <4>1, Lengths DEF Kinds
      <4>3. 1 \in 1..TimeWords /\ \A n \in 1..TimeWords : n < TimeWords => n + 1 \in 1..TimeWords
        BY Lengths
      <4> QED BY <3>3, <4>2, <4>3 DEF OffersTime
    <3>4. CASE OffersCount
      <4>1. W("count", 0, TriggerCount) \in Words BY <1>1, <1>3, Lengths DEF Kinds
      <4> QED BY <3>4, <4>1 DEF OffersCount
    <3> QED BY <1>6, <3>1, <3>2, <3>3, <3>4 DEF Offers
  <2>2. Buffer_state' \in {"WaitTriggerOff", "WriteHeader", "Finalize"}
    BY <1>6 DEF Offers, OffersSample, OffersFlag, OffersTime, OffersCount
  <2> QED BY <1>6, <2>1, <2>2 DEF Offers, BufferTypes
<1>7. CASE Ends BY <1>7 DEF Ends, BufferTypes
<1> QED BY <1>4, <1>5, <1>6, <1>7 DEF BufferAfter

-----------------------------------------------------------------------------
(* What a tick makes of the control of the two modules.                    *)

(* What else the trigger module does.                                      *)
CountAfter ==
  /\ TriggerCount \in Nat /\ TriggerCount <= trigger
  /\ TriggerCount' \in {TriggerCount, TriggerCount + 1}
  /\ TriggerOut => TriggerCount' = trigger

(* The counter of triggers counts the triggers of a clock.                 *)
LEMMA CountTick ==
  ASSUME TriggerTypes, CountFollows, NEW above, NEW closed, TriggerModule(above, closed)
  PROVE  CountAfter
<1>1. TriggerCount' = Counted BY DEF TriggerModule
<1>2. TriggerCount \in Nat /\ TriggerCount <= trigger
  BY Lengths DEF CountFollows, TriggerTypes, Trigger
<1>3. TriggerOut => TriggerCount' = trigger
  BY <1>1, Lengths DEF Counted, TriggerOut, CountFollows, TriggerTypes
<1> QED BY <1>1, <1>2, <1>3 DEF CountAfter, Counted

(* The count of the FIFO falls but for a word that is written.             *)
FifoShrinks == WriteDataCount' <= WriteDataCount + InHand

(* A new trigger that passes finds the buffer module at rest.              *)
LEMMA NewTrigger ==
  ASSUME TriggerMeetsBuffer, TriggerAfter, BufferAfter, TriggerOut'
  PROVE  /\ ~TriggerOut => Rests /\ ~Veto
         /\ TriggerOut => Takes \/ (Offers /\ OffersSample)
         /\ TriggerOut => Buffer_state' = "WaitTriggerOff"
<1>1. ASSUME ~TriggerOut PROVE Rests /\ ~Veto
  <2>1. ~Veto /\ ~Busy BY <1>1 DEF TriggerAfter, Veto
  <2>2. ~Takes BY <1>1 DEF Takes, Untaken
  <2>3. ~Offers
    BY <2>1 DEF Offers, OffersSample, OffersFlag, OffersTime, OffersCount, TriggerMeetsBuffer
  <2>4. ~Ends BY <2>1 DEF Ends, TriggerMeetsBuffer
  <2> QED BY <2>1, <2>2, <2>3, <2>4 DEF BufferAfter
<1>2. TriggerOut => (Takes \/ (Offers /\ OffersSample)) /\ Buffer_state' = "WaitTriggerOff"
  BY DEF TriggerMeetsBuffer, BufferAfter, Takes, Rests, Untaken, Ends, Offers, OffersSample,
         OffersFlag, OffersTime, OffersCount
<1> QED BY <1>1, <1>2

(* A trigger the buffer has not taken yet went out in this clock, while    *)
(* the buffer rested and had room.                                         *)
LEMMA UntakenTick ==
  ASSUME TriggerMeetsBuffer, TriggerAfter, BufferAfter, Untaken'
  PROVE  /\ Rests /\ ~Veto /\ ~TriggerOut /\ TriggerOut' /\ ~NoRoomForMoreEvent /\ InHand = 0
<1>1. TriggerOut' /\ Buffer_state' # "WaitTriggerOff" BY DEF Untaken
<1>2. ~TriggerOut /\ Rests /\ ~Veto BY <1>1, NewTrigger
<1>3. ~NoRoomForMoreEvent /\ ~Busy BY <1>2 DEF Veto
<1>4. InHand = 0 BY <1>3 DEF InHand, TriggerMeetsBuffer
<1> QED BY <1>1, <1>2, <1>3, <1>4

(* The trigger module and the buffer still meet after a clock.             *)
LEMMA MeetingTick ==
  ASSUME TriggerTypes, BufferTypes, FifoTypes, TriggerMeetsBuffer, WordInHand,
         TriggerAfter, BufferAfter, FifoShrinks, WriteDataCount' \in Nat
  PROVE  TriggerMeetsBuffer'
<1>1. WriteDataCount \in Nat BY LenProperties DEF FifoTypes, WriteDataCount
<1>4. TriggerOut' => Buffer_state' \in {"Idle", "WaitTriggerOff"}
  BY NewTrigger DEF Rests
<1>5. Buffer_state' # "Initialize"
  BY DEF BufferAfter, Takes, Rests, Ends, Offers, OffersSample, OffersFlag, OffersTime,
         OffersCount
<1>6. /\ Busy' <=> Buffer_state' \in {"WaitTriggerOff", "WriteHeader", "Finalize"}
      /\ WriteEnable' <=> Busy'
  BY DEF BufferAfter, Takes, Rests, Ends, Offers, OffersSample, OffersFlag, OffersTime,
         OffersCount, TriggerMeetsBuffer
<1>7. Untaken' => SampledNumber' = 0
                  /\ WriteDataCount' + EventWords <= DepthOfWaveformBufferFIFO + 1
  <2> SUFFICES ASSUME Untaken'
               PROVE  SampledNumber' = 0
                      /\ WriteDataCount' + EventWords <= DepthOfWaveformBufferFIFO + 1
    OBVIOUS
  <2>1. ~TriggerOut /\ TriggerOut' BY UntakenTick
  <2>2. SampledNumber' = 0 BY <2>1 DEF TriggerAfter
  <2>3. ~NoRoomForMoreEvent /\ InHand = 0 BY UntakenTick
  <2>4. WriteDataCount + EventWords <= DepthOfWaveformBufferFIFO + 1
    BY <1>1, <2>3, Lengths DEF NoRoomForMoreEvent
  <2>5. WriteDataCount' <= WriteDataCount BY <1>1, <2>3 DEF FifoShrinks
  <2>6. WriteDataCount' + EventWords <= DepthOfWaveformBufferFIFO + 1
    <3>1. \A a, b, c, d \in Nat : a <= b /\ b + c <= d + 1 => a + c <= d + 1
      OBVIOUS
    <3> QED BY <1>1, <2>4, <2>5, <3>1, Lengths
  <2> QED BY <2>2, <2>6
<1> QED BY <1>4, <1>5, <1>6, <1>7 DEF TriggerMeetsBuffer

(* The word in the hand of the buffer is of the event it writes.           *)
LEMMA HandTick ==
  ASSUME TriggerTypes, BufferTypes, TriggerMeetsBuffer, WordInHand,
         TriggerAfter, CountAfter, BufferAfter, TriggerMeetsBuffer'
  PROVE  WordInHand'
<1> USE DEF BufferTypes
<1>1. trigger \in Nat /\ RealTime_latched \in Nat /\ TriggerCount \in Nat /\ SampledNumber \in Nat
  BY Lengths DEF TriggerTypes, CountAfter
<1>2. CASE Takes
  <2>1. pending' # << >> /\ RealTime_latched' = pending'[Len(pending')]
    <3>1. Len(pending') = Len(pending) + 1 /\ pending'[Len(pending) + 1] = trigger
          /\ Len(pending) \in Nat
      BY <1>2, AppendProperties, LenProperties DEF Takes
    <3> QED BY <1>2, <3>1 DEF Takes
  <2>2. TriggerCount' >= RealTime_latched'
    BY <1>1, <1>2 DEF Takes, Untaken, CountAfter
  <2>3. TriggerOut' => trigger' = RealTime_latched' /\ SampledNumber' > 0
    BY <1>1, <1>2 DEF Takes, Untaken, TriggerAfter
  <2> QED BY <1>2, <2>1, <2>2, <2>3 DEF Takes, WordInHand
<1>3. CASE Rests \/ Ends
  <2>1. ~Busy' /\ Buffer_state' \notin {"WaitTriggerOff", "WriteHeader", "Finalize"}
    BY <1>3 DEF Rests, Ends
  <2> QED BY <2>1 DEF WordInHand
<1>4. CASE Offers
  <2>1. Busy /\ UNCHANGED <<RealTime_latched, pending>>
    BY <1>4 DEF Offers, OffersSample, OffersFlag, OffersTime, OffersCount, TriggerMeetsBuffer
  <2>2. pending' # << >> /\ RealTime_latched' = pending'[Len(pending')]
    BY <2>1 DEF WordInHand
  <2>3. TriggerCount' >= RealTime_latched'
    <3>1. TriggerCount >= RealTime_latched
      BY <1>4 DEF Offers, OffersSample, OffersFlag, OffersTime, OffersCount, WordInHand
    <3> QED BY <1>1, <2>1, <3>1 DEF CountAfter
  <2>4. Buffer_state' = "WaitTriggerOff" /\ TriggerOut' =>
          trigger' = RealTime_latched' /\ SampledNumber' > 0
    <3> SUFFICES ASSUME Buffer_state' = "WaitTriggerOff", TriggerOut'
                 PROVE  trigger' = RealTime_latched' /\ SampledNumber' > 0
      OBVIOUS
    <3>1. OffersSample BY <1>4 DEF Offers, OffersFlag, OffersTime, OffersCount
    <3>2. TriggerOut /\ trigger = RealTime_latched BY <3>1 DEF OffersSample, WordInHand
    <3> QED BY <1>1, <2>1, <3>2 DEF TriggerAfter
  <2>5. Buffer_state' = "WriteHeader" =>
          \/ DataIn' = W("flag", 0, 0)
          \/ /\ DataIn' = W("time", RealTime_latched', DataIn'.n)
             /\ DataIn'.n \in 1..TimeWords
    <3> SUFFICES ASSUME OffersFlag \/ OffersTime
                 PROVE  \/ DataIn' = W("flag", 0, 0)
                        \/ /\ DataIn' = W("time", RealTime_latched', DataIn'.n)
                           /\ DataIn'.n \in 1..TimeWords
      BY <1>4 DEF Offers, OffersSample, OffersCount
    <3>1. CASE OffersFlag BY <3>1 DEF OffersFlag
    <3>2. CASE OffersTime
      <4>1. PICK n \in 1..TimeWords : DataIn' = W("time", RealTime_latched, n)
        BY <3>2, Lengths DEF OffersTime
      <4> QED BY <2>1, <4>1, WordFields
    <3> QED BY <3>1, <3>2
  <2> QED BY <2>2, <2>3, <2>4, <2>5 DEF WordInHand
<1> QED BY <1>2, <1>3, <1>4 DEF BufferAfter

(* Every tick of an event brings it one word nearer to its end.            *)
LEMMA RemainingTick ==
  ASSUME TriggerTypes, BufferTypes, TriggerMeetsBuffer, WordInHand, TriggerAfter, BufferAfter
  PROVE  /\ Remaining \in Nat
         /\ Takes => Remaining = 0 /\ Remaining' = EventWords - 1
         /\ Rests \/ Ends => Remaining = 0 /\ Remaining' = 0
         /\ Offers => Remaining' \in Nat /\ Remaining = Remaining' + 1
<1>1. SampledNumber \in 0..NumberOfSamples BY DEF TriggerTypes
<1>2. CASE Takes
  <2>1. Remaining = 0 BY <1>2 DEF Takes, Untaken, Remaining
  <2>2. SampledNumber = 0 /\ TriggerOut BY <1>2 DEF Takes, Untaken, TriggerMeetsBuffer
  <2>3. Remaining' = EventWords - 1
    BY <1>2, <2>2, Lengths DEF Takes, Remaining, TriggerAfter
  <2>4. ~Rests /\ ~Ends /\ ~Offers
    BY <1>2 DEF Takes, Untaken, Rests, Ends, Offers, OffersSample, OffersFlag, OffersTime,
                OffersCount
  <2> QED BY <2>1, <2>3, <2>4
<1>3. CASE Rests \/ Ends
  <2>1. Remaining = 0 /\ Remaining' = 0 BY <1>3 DEF Rests, Ends, Remaining
  <2>2. ~Takes /\ ~Offers
    BY <1>3 DEF Takes, Untaken, Rests, Ends, Offers, OffersSample, OffersFlag, OffersTime,
                OffersCount
  <2> QED BY <2>1, <2>2
<1>4. CASE Offers
  <2>1. ~Takes /\ ~Rests /\ ~Ends
    BY <1>4 DEF Takes, Untaken, Rests, Ends, Offers, OffersSample, OffersFlag, OffersTime,
                OffersCount
  <2>2. CASE OffersSample
    <3>1. Remaining = EventWords - SampledNumber BY <2>2 DEF OffersSample, Remaining
    <3>2. CASE SampledNumber < NumberOfSamples
      <4>1. Remaining' = EventWords - (SampledNumber + 1)
        BY <2>2, <3>2 DEF OffersSample, Remaining, TriggerAfter
      <4> QED BY <1>1, <2>1, <3>1, <4>1, Lengths
    <3>3. CASE ~(SampledNumber < NumberOfSamples)
      <4>1. Remaining' = SizeOfHeader
        BY <2>2, <3>3 DEF OffersSample, Remaining, TriggerAfter
      <4> QED BY <1>1, <2>1, <3>1, <3>3, <4>1, Lengths
    <3> QED BY <3>2, <3>3
  <2>3. CASE OffersFlag
    <3>1. Remaining = SizeOfHeader /\ Remaining' = SizeOfHeader - 1
      BY <2>3, WordFields DEF OffersFlag, Remaining
    <3> QED BY <2>1, <3>1, Lengths
  <2>4. CASE OffersTime
    <3>1. \/ Remaining = SizeOfHeader - 1 /\ Remaining' = SizeOfHeader - 1 - 1
          \/ \E n \in 1..TimeWords : /\ n < TimeWords
                                     /\ Remaining = SizeOfHeader - 1 - n
                                     /\ Remaining' = SizeOfHeader - 1 - (n + 1)
      BY <2>4, WordFields DEF OffersTime, Remaining
    <3> QED BY <2>1, <3>1, Lengths
  <2>5. CASE OffersCount
    <3>1. Remaining = SizeOfHeader - 1 - TimeWords /\ Remaining' = 0
      BY <2>5, WordFields DEF OffersCount, Remaining
    <3> QED BY <2>1, <3>1, Lengths
  <2> QED BY <1>4, <2>2, <2>3, <2>4, <2>5 DEF Offers
<1> QED BY <1>2, <1>3, <1>4 DEF BufferAfter

-----------------------------------------------------------------------------
(* What a tick makes of the FIFO and of the stream of words.               *)
FifoAfter ==
  /\ fifo' = IF WriteEnable /\ ~Full THEN Append(fifo, DataIn) ELSE fifo
  /\ since' = IF since < 3 THEN since + 1 ELSE 3
  /\ unseen' \in IF since' = 3 THEN {0} ELSE {0, unseen}
  /\ UNCHANGED <<reader, copied>>
  /\ reader = "Copy" => since < 3

(* The lengths of the queues are numbers.                                  *)
LEMMA LengthsNat ==
  ASSUME BufferTypes, FifoTypes
  PROVE  /\ Len(fifo) \in Nat /\ Len(copied) \in Nat /\ Len(pending) \in Nat
         /\ unseen \in {0, 1} /\ InHand \in {0, 1}
         /\ WriteDataCount \in Nat /\ WriteDataCount = Len(fifo) + unseen
         /\ Total \in Nat /\ Total = Len(copied) + Len(fifo) + InHand
<1>1. Len(fifo) \in Nat /\ Len(copied) \in Nat /\ Len(pending) \in Nat
  BY LenProperties DEF BufferTypes, FifoTypes
<1>2. unseen \in {0, 1} BY DEF FifoTypes
<1>3. InHand \in {0, 1} BY DEF InHand
<1> QED BY <1>1, <1>2, <1>3 DEF WriteDataCount, Total

(* The word that is written finds room.                                    *)
LEMMA RoomIsThere ==
  ASSUME BufferTypes, FifoTypes, TriggerMeetsBuffer, RoomForTheLast, CountCatchesUp,
         Remaining \in Nat, WriteEnable
  PROVE  ~Full
<1>1. Busy /\ InHand = 1 BY DEF TriggerMeetsBuffer, InHand
<1>2. Needed = WriteDataCount + 1 + Remaining BY <1>1 DEF Needed
<1>3. WriteDataCount \in Nat /\ since \in 0..3 BY LengthsNat DEF FifoTypes
<1>4. CASE Needed > DepthOfWaveformBufferFIFO
  <2>1. /\ Needed = DepthOfWaveformBufferFIFO + 1
        /\ (unseen = 1 /\ 3 <= Remaining + since) \/ 6 <= Remaining + since
    BY <1>1, <1>4 DEF RoomForTheLast
  <2>2. Remaining > 0 BY <1>3, <2>1 DEF CountCatchesUp
  <2> QED BY <1>2, <1>3, <2>1, <2>2, Lengths DEF Full
<1>5. CASE ~(Needed > DepthOfWaveformBufferFIFO)
  BY <1>2, <1>3, <1>5, Lengths DEF Full
<1> QED BY <1>4, <1>5

(* A clock of the FIFO, which is not full when it is written.              *)
LEMMA FifoTick ==
  ASSUME BufferTypes, FifoTypes, FifoAfter, WriteEnable => ~Full
  PROVE  /\ FifoTypes' /\ FifoShrinks /\ WriteDataCount' \in Nat
         /\ Len(fifo') = Len(fifo) + InHand
         /\ WriteDataCount' = Len(fifo) + InHand + unseen' /\ unseen' \in {0, 1}
<1>1. fifo' \in Seq(Words) /\ Len(fifo') = Len(fifo) + InHand
  <2>1. CASE WriteEnable
    <3>1. fifo' = Append(fifo, DataIn) /\ InHand = 1 BY <2>1 DEF FifoAfter, InHand
    <3> QED BY <3>1, AppendProperties DEF BufferTypes, FifoTypes
  <2>2. CASE ~WriteEnable
    <3>1. fifo' = fifo /\ InHand = 0 BY <2>2 DEF FifoAfter, InHand
    <3> QED BY <3>1, LengthsNat DEF FifoTypes
  <2> QED BY <2>1, <2>2
<1>2. since \in 0..3 BY DEF FifoTypes
<1>3. since' \in 0..3 /\ unseen' \in {0, 1} /\ unseen' <= unseen
  BY <1>2, LengthsNat DEF FifoAfter
<1>4. WriteDataCount' = Len(fifo) + InHand + unseen'
  BY <1>1 DEF WriteDataCount
<1>5. WriteDataCount + InHand <= DepthOfWaveformBufferFIFO
  <2>1. CASE WriteEnable
    <3>1. WriteDataCount # DepthOfWaveformBufferFIFO BY <2>1 DEF Full
    <3>2. WriteDataCount <= DepthOfWaveformBufferFIFO BY DEF FifoTypes
    <3>3. InHand = 1 BY <2>1 DEF InHand
    <3> QED BY <3>1, <3>2, <3>3, LengthsNat, Lengths
  <2>2. CASE ~WriteEnable BY <2>2, LengthsNat DEF InHand, FifoTypes
  <2> QED BY <2>1, <2>2
<1> DEFINE c == WriteDataCount
           d == WriteDataCount'
<1>6. c \in Nat /\ c = Len(fifo) + unseen /\ d = Len(fifo) + InHand + unseen'
      /\ c + InHand <= DepthOfWaveformBufferFIFO
  BY <1>4, <1>5, LengthsNat
<1> HIDE DEF c, d
<1>7. d \in Nat /\ d <= c + InHand /\ d <= DepthOfWaveformBufferFIFO
  BY <1>3, <1>6, LengthsNat, Lengths, SMTT(30)
<1>8. FifoTypes'
  <2>1. UNCHANGED <<reader, copied>> BY DEF FifoAfter
  <2>2. WriteDataCount' <= DepthOfWaveformBufferFIFO BY <1>7 DEF d
  <2> QED BY <1>1, <1>3, <2>1, <2>2 DEF FifoTypes
<1> QED BY <1>1, <1>3, <1>4, <1>7, <1>8 DEF FifoShrinks, c, d

(* The words that were there stay in their places, and one may join them.  *)
LEMMA ItemsTick ==
  ASSUME BufferTypes, FifoTypes, FifoAfter, WriteEnable => ~Full
  PROVE  /\ Total' = Total + InHand'
         /\ \A i \in 1..Total : Item(i)' = Item(i)
         /\ InHand' = 1 => \A i \in Nat : i = Total' => Item(i)' = DataIn'
<1>1. Len(fifo') = Len(fifo) + InHand /\ copied' = copied BY FifoTick DEF FifoAfter
<1>2. InHand' \in {0, 1} BY DEF InHand
<1>3. Total' = Total + InHand'
  BY <1>1, <1>2, LengthsNat DEF Total
<1>4. ASSUME NEW i \in 1..Total PROVE Item(i)' = Item(i)
  <2>1. CASE i <= Len(copied) BY <1>1, <2>1 DEF Item
  <2>2. CASE ~(i <= Len(copied)) /\ i <= Len(copied) + Len(fifo)
    <3>1. Item(i) = fifo[i - Len(copied)] BY <2>2 DEF Item
    <3>2. i <= Len(copied) + Len(fifo') BY <1>1, <2>2, LengthsNat
    <3>3. Item(i)' = fifo'[i - Len(copied)] BY <1>1, <2>2, <3>2 DEF Item
    <3>4. i - Len(copied) \in 1..Len(fifo) BY <2>2, LengthsNat
    <3>5. fifo'[i - Len(copied)] = fifo[i - Len(copied)]
      <4>1. CASE WriteEnable
        <5>1. fifo' = Append(fifo, DataIn) BY <4>1 DEF FifoAfter
        <5> QED BY <3>4, <5>1, AppendProperties DEF BufferTypes, FifoTypes
      <4>2. CASE ~WriteEnable
        <5>1. fifo' = fifo BY <4>2 DEF FifoAfter
        <5> QED BY <5>1
      <4> QED BY <4>1, <4>2
    <3> QED BY <3>1, <3>3, <3>5
  <2>3. CASE ~(i <= Len(copied)) /\ ~(i <= Len(copied) + Len(fifo))
    <3>1. Item(i) = DataIn BY <2>3 DEF Item
    <3>2. InHand = 1 /\ i = Len(copied) + Len(fifo) + 1 BY <2>3, LengthsNat
    <3>3. WriteEnable BY <3>2 DEF InHand
    <3>4. fifo' = Append(fifo, DataIn) BY <3>3 DEF FifoAfter
    <3>5. fifo'[Len(fifo) + 1] = DataIn
      BY <3>4, AppendProperties DEF BufferTypes, FifoTypes
    <3>6. i - Len(copied) = Len(fifo) + 1 /\ i <= Len(copied) + Len(fifo')
      BY <1>1, <3>2, LengthsNat
    <3>7. Item(i)' = fifo'[i - Len(copied)] BY <1>1, <2>3, <3>6 DEF Item
    <3> QED BY <3>1, <3>5, <3>6, <3>7
  <2> QED BY <2>1, <2>2, <2>3
<1>5. ASSUME InHand' = 1, NEW i \in Nat, i = Total' PROVE Item(i)' = DataIn'
  <2>1. i = Len(copied) + Len(fifo') + 1 BY <1>1, <1>5 DEF Total
  <2>2. ~(i <= Len(copied')) /\ ~(i <= Len(copied') + Len(fifo'))
    BY <1>1, <2>1, LengthsNat
  <2> QED BY <2>2 DEF Item
<1> QED BY <1>3, <1>4, <1>5

-----------------------------------------------------------------------------
(* A tick keeps the stream of words right.                                 *)

Working ==
  /\ TriggerTypes /\ BufferTypes /\ FifoTypes
  /\ TriggerMeetsBuffer /\ WordInHand /\ CountFollows
Ticked ==
  /\ TriggerAfter /\ CountAfter /\ BufferAfter /\ FifoAfter
  /\ WriteEnable => ~Full
WorkingNext ==
  /\ TriggerTypes' /\ BufferTypes' /\ FifoTypes'
  /\ TriggerMeetsBuffer' /\ WordInHand'

(* The word in hand belongs to the event taken last.                       *)
LEMMA HandAfter ==
  ASSUME Working, Ticked, WorkingNext
  PROVE  /\ Takes \/ Offers => InHand' = 1 /\ Busy'
         /\ Rests \/ Ends => InHand' = 0 /\ ~Busy'
<1>1. Takes \/ Offers => Busy'
  BY DEF Takes, Offers, OffersSample, OffersFlag, OffersTime, OffersCount, Working,
         TriggerMeetsBuffer
<1>2. Rests \/ Ends => ~Busy' BY DEF Rests, Ends
<1>3. WriteEnable' <=> Busy' BY DEF WorkingNext, TriggerMeetsBuffer
<1> QED BY <1>1, <1>2, <1>3 DEF InHand

(* The buffer leaves whole events in the FIFO.                             *)
LEMMA WholeTick ==
  ASSUME Working, Ticked, WorkingNext, WholeEvents
  PROVE  WholeEvents'
<1> DEFINE e == EventWords
           p == Len(pending)
           t == Total
           m == Remaining
           t2 == Total'
           m2 == Remaining'
           p2 == Len(pending')
<1>1. e \in Nat /\ p \in Nat /\ t \in Nat /\ m \in Nat /\ p2 \in Nat /\ e > 0
  <2>1. p \in Nat /\ t \in Nat BY LengthsNat DEF Working
  <2>2. m \in Nat BY RemainingTick DEF Working, Ticked
  <2>3. p2 \in Nat BY LenProperties DEF WorkingNext, BufferTypes
  <2> QED BY <2>1, <2>2, <2>3, Lengths
<1>2. t + m = p * e BY DEF WholeEvents
<1>3. p * e \in Nat /\ (p + 1) * e = p * e + e BY <1>1, Products
<1>4. t2 = t + InHand' BY ItemsTick DEF Working, Ticked
<1>5. CASE Takes
  <2>1. m = 0 /\ m2 = e - 1 BY <1>5, RemainingTick DEF Working, Ticked
  <2>2. p2 = p + 1 BY <1>5, AppendProperties DEF Takes, Working, BufferTypes
  <2>3. t2 = t + 1 BY <1>4, <1>5, HandAfter
  <2> HIDE DEF e, p, t, m, t2, m2, p2
  <2>4. t2 + m2 = p2 * e BY <1>1, <1>2, <1>3, <2>1, <2>2, <2>3
  <2> QED BY <2>4 DEF e, t2, m2, p2, WholeEvents
<1>6. CASE Offers
  <2>1. m2 \in Nat /\ m = m2 + 1 BY <1>6, RemainingTick DEF Working, Ticked
  <2>2. p2 = p BY <1>6 DEF Offers
  <2>3. t2 = t + 1 BY <1>4, <1>6, HandAfter
  <2> HIDE DEF e, p, t, m, t2, m2, p2
  <2>4. t2 + m2 = p2 * e BY <1>1, <1>2, <1>3, <2>1, <2>2, <2>3
  <2> QED BY <2>4 DEF e, t2, m2, p2, WholeEvents
<1>7. CASE Rests \/ Ends
  <2>1. m = 0 /\ m2 = 0 BY <1>7, RemainingTick DEF Working, Ticked
  <2>2. p2 = p BY <1>7 DEF Rests, Ends
  <2>3. t2 = t + 0 BY <1>4, <1>7, HandAfter
  <2> HIDE DEF e, p, t, m, t2, m2, p2
  <2>4. t2 + m2 = p2 * e BY <1>1, <1>2, <1>3, <2>1, <2>2, <2>3
  <2> QED BY <2>4 DEF e, t2, m2, p2, WholeEvents
<1> QED BY <1>5, <1>6, <1>7 DEF Ticked, BufferAfter

(* The word that is offered is the one whose turn it is.                   *)
WordOffered == Right(Len(pending), EventWords - Remaining, DataIn)

(* The word offered when an event is begun or goes on is the one whose     *)
(* turn it is.                                                             *)
LEMMA OfferedTick ==
  ASSUME Working, Ticked, WorkingNext, Takes \/ Offers
  PROVE  WordOffered' /\ Remaining' \in 0..EventWords - 1
<1> DEFINE q == Len(pending')
           m2 == Remaining'
<1>1. pending'[q] = RealTime_latched' BY HandAfter DEF WorkingNext, WordInHand
<1>2. trigger \in Nat /\ trigger' \in Nat /\ SampledNumber \in 0..NumberOfSamples
      /\ RealTime_latched \in Nat
  BY Lengths DEF Working, WorkingNext, TriggerTypes, BufferTypes
<1>8. ASSUME NEW r \in Nat, r = EventWords - m2, Right(Len(pending), r, DataIn)'
      PROVE  WordOffered'
  BY <1>8 DEF WordOffered
<1>3. CASE Takes
  <2>1. m2 = EventWords - 1 BY <1>3, RemainingTick DEF Working, Ticked
  <2>2. DataIn' = W("sample", pending'[q], 0) BY <1>1, <1>3 DEF Takes
  <2>3. Right(Len(pending), 1, DataIn)' BY <2>2, Lengths DEF Right
  <2> HIDE DEF m2
  <2>4. 1 = EventWords - m2 /\ m2 \in 0..EventWords - 1 BY <2>1, Lengths
  <2>5. WordOffered' BY <1>8, <2>3, <2>4
  <2> QED BY <2>4, <2>5 DEF m2
<1>4. CASE OffersSample /\ Offers
  <2>1. RealTime_latched' = RealTime_latched /\ RealTime_latched = trigger
    BY <1>4 DEF Offers, OffersSample, Working, WordInHand
  <2>2. DataIn' = W("sample", pending'[q], SampledNumber)
    BY <1>1, <1>4, <2>1 DEF OffersSample, Sample
  <2>3. Remaining = EventWords - SampledNumber BY <1>4 DEF OffersSample, Remaining
  <2>4. m2 \in Nat /\ Remaining = m2 + 1
    BY <1>4, RemainingTick DEF Working, Ticked
  <2>5. PICK n \in 0..NumberOfSamples : n = SampledNumber BY <1>2
  <2>6. Right(Len(pending), n + 1, DataIn)' BY <2>2, <2>5, Lengths DEF Right
  <2> HIDE DEF m2
  <2>7. m2 + 1 = EventWords - n BY <2>3, <2>4, <2>5
  <2>8. n + 1 = EventWords - m2 /\ m2 \in 0..EventWords - 1 /\ n + 1 \in Nat
    BY <2>4, <2>7, Lengths
  <2>9. WordOffered' BY <1>8, <2>6, <2>8
  <2> QED BY <2>8, <2>9 DEF m2
<1>5. CASE OffersFlag /\ Offers
  <2>1. DataIn' = W("flag", 0, 0) BY <1>5 DEF OffersFlag
  <2>2. m2 = SizeOfHeader - 1 BY <1>5, WordFields DEF OffersFlag, Remaining
  <2>3. Right(Len(pending), NumberOfSamples + 2, DataIn)' BY <2>1, Lengths DEF Right
  <2> HIDE DEF m2
  <2>4. NumberOfSamples + 2 = EventWords - m2 /\ m2 \in 0..EventWords - 1
        /\ NumberOfSamples + 2 \in Nat
    BY <2>2, Lengths
  <2>5. WordOffered' BY <1>8, <2>3, <2>4
  <2> QED BY <2>4, <2>5 DEF m2
<1>6. CASE OffersTime /\ Offers
  <2>1. PICK n \in 1..TimeWords : DataIn' = W("time", RealTime_latched, n)
    BY <1>6, Lengths DEF OffersTime
  <2>2. DataIn' = W("time", pending'[q], n) BY <1>1, <1>6, <2>1 DEF Offers
  <2>3. m2 = SizeOfHeader - 1 - n
    BY <1>6, <2>1, WordFields DEF OffersTime, Remaining
  <2>4. PICK r \in Nat : r = NumberOfSamples + 2 + n BY Lengths
  <2>5. r > NumberOfSamples + 2 /\ r < EventWords /\ r - NumberOfSamples - 2 = n
    BY <2>4, Lengths
  <2>6. ~(r <= NumberOfSamples + 1) /\ r # NumberOfSamples + 2 /\ r # EventWords
    BY <2>4, <2>5, Lengths
  <2>7. Right(Len(pending), r, DataIn)' BY <2>2, <2>5, <2>6 DEF Right
  <2> HIDE DEF m2
  <2>8. r = EventWords - m2 /\ m2 \in 0..EventWords - 1
    BY <2>3, <2>4, Lengths
  <2>9. WordOffered' BY <1>8, <2>7, <2>8
  <2> QED BY <2>8, <2>9 DEF m2
<1>7. CASE OffersCount /\ Offers
  <2>1. DataIn' = W("count", 0, TriggerCount) BY <1>7 DEF OffersCount
  <2>2. DataIn'.kind = "count" /\ DataIn'.n = TriggerCount BY <2>1, WordFields
  <2>3. m2 = 0 BY <1>7 DEF OffersCount, Remaining
  <2>5. TriggerCount >= RealTime_latched /\ RealTime_latched' = RealTime_latched
    BY <1>7 DEF Offers, OffersCount, Working, WordInHand
  <2>6. TriggerCount <= trigger' /\ TriggerCount \in Nat
    BY <1>2 DEF Ticked, TriggerAfter, CountAfter
  <2>7. ~Untaken' BY <1>7 DEF OffersCount, Untaken
  <2>8. ~(q < Len(pending')) BY LenProperties DEF WorkingNext, BufferTypes
  <2>9. Right(Len(pending), EventWords, DataIn)'
    <3>1. ~(EventWords <= NumberOfSamples + 1) /\ EventWords # NumberOfSamples + 2
          /\ ~(EventWords < EventWords)
      BY Lengths
    <3>2. DataIn'.n >= pending'[q] /\ DataIn'.n <= trigger' BY <1>1, <2>2, <2>5, <2>6
    <3> QED BY <2>2, <2>7, <2>8, <3>1, <3>2 DEF Right
  <2> HIDE DEF m2
  <2>10. EventWords = EventWords - m2 /\ m2 \in 0..EventWords - 1 BY <2>3, Lengths
  <2>11. WordOffered' BY <1>8, <2>9, <2>10, Lengths
  <2> QED BY <2>10, <2>11 DEF m2
<1> QED BY <1>3, <1>4, <1>5, <1>6, <1>7 DEF Offers

(* The place of a word, counted through the events.                        *)
LEMMA PlaceNat ==
  ASSUME NEW q \in Nat, q > 0, NEW r \in 1..EventWords
  PROVE  /\ (q - 1) * EventWords \in Nat /\ (q - 1) * EventWords + r \in Nat
         /\ (q - 1) * EventWords + r >= 1
         /\ (q - 1) * EventWords + EventWords = q * EventWords
<1> DEFINE p == q - 1
<1>1. p \in Nat /\ p + 1 = q OBVIOUS
<1> HIDE DEF p
<1>2. p * EventWords \in Nat /\ (p + 1) * EventWords = p * EventWords + EventWords
  BY <1>1, Products, Lengths
<1>3. p * EventWords + r \in Nat /\ p * EventWords + r >= 1
  <2> DEFINE Q == p * EventWords
  <2>1. Q \in Nat BY <1>2
  <2> HIDE DEF Q
  <2>2. Q + r \in Nat /\ Q + r >= 1 BY <2>1, Lengths
  <2> QED BY <2>2 DEF Q
<1> QED BY <1>1, <1>2, <1>3 DEF p

(* A word that is there belongs to an event that was taken.                *)
LEMMA EventOfPlace ==
  ASSUME NEW q \in Nat, q > 0, NEW r \in 1..EventWords, NEW n \in Nat, NEW t \in Nat,
         t <= n * EventWords, (q - 1) * EventWords + r <= t
  PROVE  q <= n
<1> SUFFICES ASSUME ~(q <= n) PROVE FALSE
  OBVIOUS
<1>1. n <= q - 1 /\ q - 1 \in Nat OBVIOUS
<1> DEFINE Q == (q - 1) * EventWords
           N == n * EventWords
<1>2. N <= Q /\ Q \in Nat /\ N \in Nat BY <1>1, Products, Lengths
<1>3. t <= N /\ Q + r <= t OBVIOUS
<1> HIDE DEF Q, N
<1> QED BY <1>2, <1>3, Lengths

(* The words before, in and after the FIFO stay those of their events.     *)
LEMMA WordsTick ==
  ASSUME Working, Ticked, WorkingNext, WholeEvents, WholeEvents', WordsRight
  PROVE  WordsRight'
<1> SUFFICES ASSUME NEW q \in 1..Len(pending'), NEW r \in 1..EventWords,
                    (q - 1) * EventWords + r <= Total'
             PROVE  Right(q, r, Item((q - 1) * EventWords + r))'
  BY DEF WordsRight
<1> DEFINE i == (q - 1) * EventWords + r
<1>1. /\ Len(pending) \in Nat /\ Len(pending') \in Nat /\ Total \in Nat
      /\ Remaining \in Nat
  <2>1. Len(pending') \in Nat BY LenProperties DEF WorkingNext, BufferTypes
  <2>2. Remaining \in Nat BY RemainingTick DEF Working, Ticked
  <2> QED BY <2>1, <2>2, LengthsNat DEF Working
<1>2. q \in Nat /\ q > 0 BY <1>1
<1>3. i \in Nat /\ i >= 1 BY <1>2, PlaceNat
<1>4. /\ Total' = Total + InHand' /\ InHand' \in {0, 1}
      /\ \A k \in 1..Total : Item(k)' = Item(k)
      /\ InHand' = 1 => \A k \in Nat : k = Total' => Item(k)' = DataIn'
  BY ItemsTick DEF Working, Ticked, InHand
<1>5. trigger \in Nat /\ trigger' \in {trigger, trigger + 1}
  BY Lengths DEF Working, TriggerTypes, Ticked, TriggerAfter
<1>6. CASE i <= Total
  <2>1. q <= Len(pending)
    <3>1. Total <= Len(pending) * EventWords
      <4> DEFINE P == Len(pending) * EventWords
      <4>1. P \in Nat BY <1>1, Products, Lengths
      <4>2. Total + Remaining = P BY DEF WholeEvents
      <4> HIDE DEF P
      <4>3. Total <= P BY <1>1, <4>1, <4>2
      <4> QED BY <4>3 DEF P
    <3>2. (q - 1) * EventWords + r <= Total BY <1>6
    <3> QED BY <1>1, <1>2, <3>1, <3>2, EventOfPlace
  <2>2. q \in 1..Len(pending) BY <1>1, <1>2, <2>1
  <2>3. Right(q, r, Item(i)) BY <1>6, <2>2 DEF WordsRight
  <2>4. Item(i)' = Item(i) BY <1>1, <1>3, <1>4, <1>6
  <2>5. /\ \A k \in 1..Len(pending) : pending'[k] = pending[k]
        /\ \/ pending' = pending
           \/ /\ Len(pending') = Len(pending) + 1 /\ pending'[Len(pending) + 1] = trigger
              /\ Untaken
    <3>1. CASE Takes
      BY <3>1, AppendProperties DEF Takes, Working, BufferTypes
    <3>2. CASE ~Takes
      BY <3>2 DEF Ticked, BufferAfter, Rests, Offers, Ends
    <3> QED BY <3>1, <3>2
  <2> DEFINE w == Item(i)
  <2>6. r = EventWords => Right(q, r, w)'
    <3> SUFFICES ASSUME r = EventWords PROVE Right(q, r, w)'
      OBVIOUS
    <3>1. /\ w.kind = "count" /\ w.n >= pending[q] /\ w.n <= trigger
          /\ q < Len(pending) => w.n < pending[q + 1]
          /\ Untaken => w.n < trigger
      BY <2>3 DEF Right
    <3>2. ~(r <= NumberOfSamples + 1) /\ r # NumberOfSamples + 2 /\ ~(r < EventWords)
      BY Lengths
    <3>3. w.n \in Int
      <4>1. i <= Len(copied) \/ (i > Len(copied) /\ i <= Len(copied) + Len(fifo))
            \/ i > Len(copied) + Len(fifo)
        BY <1>3, LengthsNat DEF Working
      <4>2. w \in Words
        <5>1. CASE i <= Len(copied)
          <6>1. i \in 1..Len(copied) BY <1>3, <5>1, LengthsNat DEF Working
          <6>2. w = copied[i] BY <5>1 DEF Item
          <6> QED BY <6>1, <6>2, ElementOfSeq DEF Working, FifoTypes
        <5>2. CASE i > Len(copied) /\ i <= Len(copied) + Len(fifo)
          <6>1. i - Len(copied) \in 1..Len(fifo) /\ ~(i <= Len(copied))
            BY <1>3, <5>2, LengthsNat DEF Working
          <6>2. w = fifo[i - Len(copied)] BY <5>2, <6>1 DEF Item
          <6> QED BY <6>1, <6>2, ElementOfSeq DEF Working, FifoTypes
        <5>3. CASE i > Len(copied) + Len(fifo)
          <6>1. ~(i <= Len(copied)) /\ ~(i <= Len(copied) + Len(fifo))
            BY <1>3, <5>3, LengthsNat DEF Working
          <6>2. w = DataIn BY <6>1 DEF Item
          <6> QED BY <6>2 DEF Working, BufferTypes
        <5> QED BY <4>1, <5>1, <5>2, <5>3
      <4> QED BY <4>2, Lengths DEF Words
    <3>4. w.n <= trigger' BY <1>5, <3>1, <3>3
    <3>5. q < Len(pending') => w.n < pending'[q + 1]
      <4>1. CASE pending' = pending BY <3>1, <4>1
      <4>2. CASE /\ Len(pending') = Len(pending) + 1 /\ pending'[Len(pending) + 1] = trigger
                 /\ Untaken
        <5>1. CASE q < Len(pending)
          <6>1. q + 1 \in 1..Len(pending) BY <1>1, <1>2, <5>1
          <6>2. pending'[q + 1] = pending[q + 1] BY <2>5, <6>1
          <6> QED BY <3>1, <5>1, <6>2
        <5>2. CASE ~(q < Len(pending))
          <6>1. q = Len(pending) BY <1>1, <1>2, <2>1, <5>2
          <6>2. pending'[q + 1] = trigger BY <4>2, <6>1
          <6> QED BY <3>1, <4>2, <6>2
        <5> QED BY <5>1, <5>2
      <4> QED BY <2>5, <4>1, <4>2
    <3>6. Untaken' => w.n < trigger'
      <4> SUFFICES ASSUME Untaken' PROVE w.n < trigger'
        OBVIOUS
      <4>1. ~TriggerOut /\ TriggerOut' BY UntakenTick DEF Working, Ticked
      <4>2. trigger' = trigger + 1 BY <4>1 DEF Ticked, TriggerAfter
      <4> QED BY <1>5, <3>1, <3>3, <4>2
    <3>7. w' = w BY <2>4
    <3>8. pending'[q] = pending[q] BY <2>2, <2>5
    <3> HIDE DEF w
    <3> QED BY <3>1, <3>2, <3>4, <3>5, <3>6, <3>7, <3>8 DEF Right
  <2>7. r # EventWords => Right(q, r, w)'
    <3>1. w' = w BY <2>4
    <3>2. pending'[q] = pending[q] BY <2>2, <2>5
    <3> HIDE DEF w
    <3> QED BY <2>3, <3>1, <3>2 DEF Right, w
  <2> QED BY <2>6, <2>7
<1>7. CASE ~(i <= Total)
  <2>1. i = Total' /\ InHand' = 1 BY <1>1, <1>3, <1>4, <1>7
  <2>2. Takes \/ Offers
    <3>1. ~(Rests \/ Ends) BY <2>1, HandAfter
    <3> QED BY <3>1 DEF Ticked, BufferAfter
  <2>3. Item(i)' = DataIn' BY <1>3, <1>4, <2>1
  <2> DEFINE p == Len(pending') - 1
             m2 == Remaining'
             s == EventWords - m2
  <2>4. WordOffered' /\ m2 \in 0..EventWords - 1 BY <2>2, OfferedTick
  <2>5. p \in Nat /\ q - 1 \in Nat BY <1>1, <1>2
  <2>6. s \in 1..EventWords
    <3> HIDE DEF m2
    <3> QED BY <2>4, Lengths
  <2>7. p * EventWords + s = i
    <3> DEFINE P == p * EventWords
               t2 == Total'
    <3>1. P \in Nat /\ (p + 1) * EventWords = P + EventWords BY <2>5, Products, Lengths
    <3>2. p + 1 = Len(pending') BY <1>1
    <3>3. t2 + m2 = P + EventWords BY <3>1, <3>2 DEF WholeEvents
    <3>4. i = t2 BY <2>1
    <3> HIDE DEF P, i, p, t2, m2
    <3>5. P + s = i BY <1>3, <2>4, <3>1, <3>3, <3>4, Lengths
    <3> QED BY <3>5 DEF P
  <2>8. q - 1 = p /\ r = s
    <3> HIDE DEF p, s
    <3>1. (q - 1) * EventWords + r = p * EventWords + s BY <2>7
    <3> QED BY <2>5, <2>6, <3>1, Places
  <2>9. q = Len(pending') /\ r = EventWords - Remaining' BY <1>1, <1>2, <2>8
  <2>10. Right(q, r, DataIn)' BY <2>4, <2>9 DEF WordOffered
  <2> QED BY <2>3, <2>10 DEF Right
<1> QED BY <1>6, <1>7

(* The FIFO does not end with an event: only in the middle of another one  *)
(* it can lack room for the last word.                                     *)
LEMMA NoRoomInCopy ==
  ASSUME Working, WholeEvents, ReaderInEvent, Remaining = 0, InHand = 0, unseen = 0,
         WriteDataCount + EventWords = DepthOfWaveformBufferFIFO + 1
  PROVE  reader = "Copy"
<1> SUFFICES ASSUME reader # "Copy" PROVE FALSE
  OBVIOUS
<1> DEFINE p == Len(pending)
           f == Len(fifo)
           c == Len(copied)
<1>1. p \in Nat /\ f \in Nat /\ c \in Nat BY LengthsNat DEF Working
<1>2. WriteDataCount = f BY <1>1, LengthsNat DEF Working
<1>3. Total = c + f BY <1>1, LengthsNat DEF Working
<1>4. c + f = p * EventWords
  <2>1. p * EventWords \in Nat BY <1>1, Products, Lengths
  <2>2. Total + 0 = p * EventWords BY DEF WholeEvents
  <2> QED BY <1>1, <1>3, <2>1, <2>2
<1>5. f + EventWords = DepthOfWaveformBufferFIFO + 1 BY <1>2
<1>6. reader = "Idle" \/ reader = "Analysis" BY DEF Working, FifoTypes
<1> HIDE DEF f, c, p
<1>7. CASE reader = "Idle"
  <2>1. c = 0 BY <1>7 DEF ReaderInEvent, c
  <2>2. (p + 1) * EventWords = p * EventWords + EventWords BY <1>1, Products, Lengths
  <2>3. (p + 1) * EventWords = DepthOfWaveformBufferFIFO + 1
    BY <1>1, <1>4, <1>5, <2>1, <2>2
  <2> QED BY <1>1, <2>3, DepthIsOdd
<1>8. CASE reader = "Analysis"
  <2>1. c = EventWords BY <1>8 DEF ReaderInEvent, c
  <2>2. p * EventWords = DepthOfWaveformBufferFIFO + 1
    BY <1>1, <1>4, <1>5, <2>1, Lengths
  <2> QED BY <1>1, <2>2, DepthIsOdd
<1> QED BY <1>6, <1>7, <1>8

(* There is room for the rest of an event whose header was let in.         *)
LEMMA RoomTick ==
  ASSUME Working, Ticked, WorkingNext, WholeEvents, ReaderInEvent, CountCatchesUp,
         RoomForTheLast
  PROVE  RoomForTheLast' /\ CountCatchesUp'
<1> DEFINE d == DepthOfWaveformBufferFIFO
           f == Len(fifo)
           wdc == WriteDataCount
           m == Remaining
           h == InHand
           u == unseen
           s == since
           wdc2 == WriteDataCount'
           m2 == Remaining'
           h2 == InHand'
           u2 == unseen'
           s2 == since'
<1>1. /\ f \in Nat /\ wdc \in Nat /\ wdc = f + u /\ u \in {0, 1} /\ h \in {0, 1}
      /\ m \in Nat /\ s \in 0..3
  <2>1. m \in Nat BY RemainingTick DEF Working, Ticked
  <2>2. s \in 0..3 BY DEF Working, FifoTypes
  <2> QED BY <2>1, <2>2, LengthsNat DEF Working
<1>2. wdc2 \in Nat /\ wdc2 = f + h + u2 /\ u2 \in {0, 1}
  BY FifoTick DEF Working, Ticked
<1>3. /\ s2 = IF s < 3 THEN s + 1 ELSE 3
      /\ u2 \in IF s2 = 3 THEN {0} ELSE {0, u}
      /\ reader' = reader /\ (reader = "Copy" => s < 3)
  BY DEF Ticked, FifoAfter
<1>4. (u = 1 => s < 3) /\ (s = 0 => u = 1) BY DEF CountCatchesUp
<1>5. d \in Nat /\ EventWords \in Nat /\ EventWords >= 4 BY Lengths
<1>6. CountCatchesUp'
  <2> HIDE DEF s2, u2, s, u
  <2>1. (u2 = 1 => s2 < 3) /\ s2 # 0 BY <1>1, <1>3
  <2> QED BY <2>1 DEF CountCatchesUp, s2, u2
<1>7. /\ Untaken' /\ WriteDataCount' + EventWords = DepthOfWaveformBufferFIFO + 1
      /\ unseen' = 0
      => since' >= 2
  <2> SUFFICES ASSUME Untaken', wdc2 + EventWords = d + 1, u2 = 0 PROVE s2 >= 2
    OBVIOUS
  <2>1. ~NoRoomForMoreEvent /\ h = 0 BY UntakenTick DEF Working, Ticked
  <2>2. wdc + EventWords <= d + 1
    BY <1>1, <2>1, Lengths DEF NoRoomForMoreEvent
  <2> HIDE DEF d, f, wdc, u, s, h, wdc2, u2, s2
  <2>3. u = 0 BY <1>1, <1>2, <1>5, <2>1, <2>2
  <2> QED BY <1>1, <1>3, <1>4, <2>3
<1>8. ASSUME Busy', Needed' > DepthOfWaveformBufferFIFO
      PROVE  /\ Needed' = DepthOfWaveformBufferFIFO + 1
             /\ \/ unseen' = 1 /\ 3 <= Remaining' + since'
                \/ unseen' = 0 /\ reader' = "Copy" /\ 6 <= Remaining' + since'
  <2>1. Takes \/ Offers
    <3>1. ~(Rests \/ Ends) BY <1>8, HandAfter
    <3> QED BY <3>1 DEF Ticked, BufferAfter
  <2>2. h2 = 1 BY <2>1, HandAfter
  <2>3. Needed' = wdc2 + 1 + m2 BY <2>2 DEF Needed
  <2>4. wdc2 + 1 + m2 > d BY <1>8, <2>3
  <2>5. CASE Takes
    <3>1. m = 0 /\ m2 = EventWords - 1 BY <2>5, RemainingTick DEF Working, Ticked
    <3>2. h = 0 BY <2>5 DEF Takes, Untaken, Working, TriggerMeetsBuffer, InHand
    <3>3. Untaken /\ wdc + EventWords <= d + 1
      BY <2>5 DEF Takes, Working, TriggerMeetsBuffer
    <3>4. wdc + EventWords = d + 1 /\ u = 0 => s >= 2
      BY <3>3 DEF RoomForTheLast
    <3>5. wdc + EventWords = d + 1 /\ u = 0 => reader = "Copy"
      BY <3>1, <3>2, NoRoomInCopy
    <3> HIDE DEF d, f, wdc, u, s, h, m, wdc2, u2, s2, m2
    <3>6. wdc2 + 1 + m2 = wdc2 + EventWords BY <1>2, <1>5, <3>1
    <3>7. wdc2 + 1 + m2 = d + 1 /\ u2 = u /\ wdc + EventWords = d + 1
      BY <1>1, <1>2, <1>3, <1>5, <2>4, <3>2, <3>3, <3>6
    <3>8. u2 = 1 => 3 <= m2 + s2 BY <1>1, <1>3, <1>5, <3>1
    <3>9. u2 = 0 => reader' = "Copy" /\ 6 <= m2 + s2
      BY <1>1, <1>3, <1>5, <3>1, <3>4, <3>5, <3>7
    <3>10. Needed' = d + 1 BY <2>3, <3>7
    <3> QED BY <1>2, <3>8, <3>9, <3>10 DEF d, u2, m2, s2
  <2>6. CASE Offers
    <3>1. m2 \in Nat /\ m = m2 + 1 BY <2>6, RemainingTick DEF Working, Ticked
    <3>2. Busy BY <2>6 DEF Offers, OffersSample, OffersFlag, OffersTime, OffersCount,
                           Working, TriggerMeetsBuffer
    <3>3. h = 1 BY <3>2 DEF InHand, Working, TriggerMeetsBuffer
    <3>4. Needed = wdc + 1 + m BY <3>3 DEF Needed
    <3>5. wdc + 1 + m > d =>
            /\ wdc + 1 + m = d + 1
            /\ (u = 1 /\ 3 <= m + s) \/ (u = 0 /\ reader = "Copy" /\ 6 <= m + s)
      BY <3>2, <3>4 DEF RoomForTheLast
    <3> HIDE DEF d, f, wdc, u, s, h, m, wdc2, u2, s2, m2
    <3>6. wdc2 + u + 1 + m2 + 1 = wdc + 1 + m + u2 + 1 BY <1>1, <1>2, <3>1, <3>3
    <3>7. wdc2 + 1 + m2 = d + 1 /\ u2 = u /\ wdc + 1 + m > d
      BY <1>1, <1>2, <1>3, <1>5, <2>4, <3>1, <3>5, <3>6
    <3>8. s < 3 BY <1>3, <1>4, <3>5, <3>7
    <3>9. s2 + m2 = s + m BY <1>1, <1>3, <3>1, <3>8
    <3>10. u2 = 1 => 3 <= m2 + s2 BY <1>1, <1>3, <3>1, <3>5, <3>7, <3>9
    <3>11. u2 = 0 => reader' = "Copy" /\ 6 <= m2 + s2
      BY <1>1, <1>3, <3>1, <3>5, <3>7, <3>9
    <3>12. Needed' = d + 1 BY <2>3, <3>7
    <3> QED BY <1>2, <3>10, <3>11, <3>12 DEF d, u2, m2, s2
  <2> QED BY <2>1, <2>5, <2>6
<1> HIDE DEF d, f, wdc, u, s, h, m, wdc2, u2, s2, m2, h2
<1>9. RoomForTheLast' BY <1>7, <1>8 DEF RoomForTheLast
<1> QED BY <1>6, <1>9

-----------------------------------------------------------------------------
(* The steps.                                                              *)

(* A clock of the board keeps the invariant.                               *)
LEMMA TickStep ==
  ASSUME IInv, NEW above \in BOOLEAN, NEW closed \in BOOLEAN, Tick(above, closed)
  PROVE  IInv'
<1>1. Working BY DEF IInv, Working
<1>2. /\ above => trigger < MaxTriggers
      /\ TriggerModule(above, closed) /\ BufferModule
      /\ UNCHANGED <<TriggerMode, managerVeto>>
  BY DEF Tick
<1>3. TriggerAfter /\ TriggerTypes' /\ CountFollows'
  BY <1>1, <1>2, TriggerTick DEF Working
<1>4. CountAfter BY <1>1, <1>2, CountTick DEF Working
<1>5. BufferAfter BY <1>1, <1>2, BufferTick DEF Working
<1>6. FifoAfter
  BY DEF Tick, FifoAfter
<1>7. WriteEnable => ~Full
  <2>1. Remaining \in Nat BY <1>1, <1>3, <1>5, RemainingTick DEF Working
  <2> QED BY <1>1, <2>1, RoomIsThere DEF IInv, Working
<1>8. Ticked BY <1>3, <1>4, <1>5, <1>6, <1>7 DEF Ticked
<1>9. BufferTypes' BY <1>1, <1>5, BufferTypesKept DEF Working
<1>10. FifoTypes' /\ FifoShrinks /\ WriteDataCount' \in Nat
  BY <1>1, <1>6, <1>7, FifoTick DEF Working
<1>11. TriggerMeetsBuffer' BY <1>1, <1>3, <1>5, <1>10, MeetingTick DEF Working
<1>12. WordInHand' BY <1>1, <1>3, <1>4, <1>5, <1>11, HandTick DEF Working
<1>13. WorkingNext BY <1>3, <1>9, <1>10, <1>11, <1>12 DEF WorkingNext
<1>14. WholeEvents' BY <1>1, <1>8, <1>13, WholeTick DEF IInv
<1>15. WordsRight' BY <1>1, <1>8, <1>13, <1>14, WordsTick DEF IInv
<1>16. RoomForTheLast' /\ CountCatchesUp' BY <1>1, <1>8, <1>13, RoomTick DEF IInv
<1>17. ReaderInEvent' BY <1>6 DEF IInv, ReaderInEvent, FifoAfter
<1> QED BY <1>3, <1>9, <1>10, <1>11, <1>12, <1>14, <1>15, <1>16, <1>17 DEF IInv

(* The invariant holds initially.                                          *)
LEMMA InitIInv == Init => IInv
<1> SUFFICES ASSUME Init PROVE IInv
  OBVIOUS
<1> USE DEF Init
<1>1. ~Trigger /\ ~TriggerOut /\ ~Untaken /\ ~Busy BY DEF Trigger, TriggerOut, Untaken
<1>2. NoWord \in Words BY Lengths DEF NoWord, W, Words, Kinds
<1>3. TriggerTypes
  <2>1. TriggerEnd \in BOOLEAN /\ Veto_latched_in_Idle_state \in BOOLEAN
        /\ TriggerPrevious \in BOOLEAN /\ managerVeto \in BOOLEAN
    OBVIOUS
  <2> QED BY <2>1, Lengths DEF TriggerTypes
<1>4. BufferTypes
  <2>1. WriteEnable \in BOOLEAN /\ Busy \in BOOLEAN OBVIOUS
  <2>2. pending \in Seq(1..MaxTriggers) BY EmptySeq
  <2> QED BY <1>2, <2>1, <2>2, Lengths DEF BufferTypes
<1>5. Len(fifo) = 0 /\ Len(copied) = 0 /\ Len(pending) = 0 BY EmptySeq
<1>6. FifoTypes BY <1>5, EmptySeq, Lengths DEF FifoTypes, WriteDataCount
<1>7. CountFollows BY <1>1 DEF CountFollows
<1>8. TriggerMeetsBuffer BY <1>1 DEF TriggerMeetsBuffer
<1>9. WordInHand BY <1>1 DEF WordInHand
<1>10. Remaining = 0 /\ InHand = 0 /\ Total = 0 BY <1>5 DEF Remaining, InHand, Total
<1>11. WholeEvents BY <1>5, <1>10, Lengths DEF WholeEvents
<1>12. ReaderInEvent BY <1>5 DEF ReaderInEvent
<1>13. WordsRight BY <1>5 DEF WordsRight
<1>14. CountCatchesUp BY DEF CountCatchesUp
<1>15. RoomForTheLast BY <1>1 DEF RoomForTheLast
<1> QED BY <1>3, <1>4, <1>6, <1>7, <1>8, <1>9, <1>11, <1>12, <1>13, <1>14, <1>15 DEF IInv

(* What the two modules know does not change while they rest.              *)
Modules == <<TriggerMode, triggerModule, Buffer_state, WriteEnable, DataIn, Busy,
             RealTime_latched>>

(* When the modules rest, what is derived from their state does too.       *)
LEMMA ModulesRest ==
  ASSUME IInv, UNCHANGED Modules, managerVeto' \in BOOLEAN
  PROVE  /\ TriggerTypes' /\ CountFollows'
         /\ (Trigger' <=> Trigger) /\ (TriggerOut' <=> TriggerOut) /\ (Untaken' <=> Untaken)
         /\ UNCHANGED <<Remaining, InHand>>
<1> USE DEF Modules, triggerModule
<1>1. (Trigger' <=> Trigger) /\ (TriggerOut' <=> TriggerOut) /\ (Untaken' <=> Untaken)
  BY DEF Trigger, TriggerOut, Untaken
<1>2. TriggerTypes' BY DEF IInv, TriggerTypes
<1>3. CountFollows' BY <1>1 DEF IInv, CountFollows
<1>4. UNCHANGED <<Remaining, InHand>>
  <2>1. InHand' = InHand BY DEF InHand
  <2>2. Remaining' = Remaining BY <1>1 DEF Remaining
  <2> QED BY <2>1, <2>2
<1> QED BY <1>1, <1>2, <1>3, <1>4

(* A step of the manager that moves no word keeps the invariant.           *)
LEMMA StepOfOthers ==
  ASSUME IInv, UNCHANGED Modules, managerVeto' \in BOOLEAN,
         UNCHANGED <<pending, fifo, unseen, copied, since>>,
         reader' = reader \/ (reader = "Idle" /\ reader' = "Copy")
  PROVE  IInv'
<1>1. /\ TriggerTypes' /\ CountFollows'
      /\ (TriggerOut' <=> TriggerOut) /\ (Untaken' <=> Untaken)
      /\ UNCHANGED <<Remaining, InHand>>
  BY ModulesRest
<1>2. UNCHANGED <<TriggerCount, trigger, SampledNumber, Trigger_state, Buffer_state, WriteEnable,
                  DataIn, Busy, RealTime_latched>>
  BY DEF Modules, triggerModule
<1>3. BufferTypes' BY <1>2 DEF IInv, BufferTypes
<1>4. UNCHANGED <<WriteDataCount, Total, Needed>>
  BY <1>1 DEF WriteDataCount, Total, Needed
<1>5. FifoTypes' BY <1>4 DEF IInv, FifoTypes
<1>6. TriggerMeetsBuffer' BY <1>1, <1>2, <1>4 DEF IInv, TriggerMeetsBuffer
<1>7. WordInHand' BY <1>1, <1>2 DEF IInv, WordInHand
<1>8. WholeEvents' BY <1>1, <1>4 DEF IInv, WholeEvents
<1>9. ReaderInEvent'
  <2>1. EventWords > 0 BY Lengths
  <2> QED BY <2>1 DEF IInv, ReaderInEvent
<1>10. WordsRight'
  <2>1. \A i \in Nat : Item(i)' = Item(i) BY <1>2 DEF Item
  <2> SUFFICES ASSUME NEW q \in 1..Len(pending), NEW r \in 1..EventWords,
                      (q - 1) * EventWords + r <= Total
               PROVE  Right(q, r, Item((q - 1) * EventWords + r))'
    BY <1>4 DEF WordsRight
  <2> DEFINE i == (q - 1) * EventWords + r
  <2>2. i \in Nat
    <3>1. q \in Nat /\ q > 0 BY LengthsNat DEF IInv
    <3> QED BY <3>1, PlaceNat
  <2>3. Right(q, r, Item(i)) BY DEF IInv, WordsRight
  <2>4. Item(i)' = Item(i) BY <2>1, <2>2
  <2> QED BY <1>1, <1>2, <2>3, <2>4 DEF Right
<1>11. CountCatchesUp' BY DEF IInv, CountCatchesUp
<1>12. RoomForTheLast' BY <1>1, <1>2, <1>4 DEF IInv, RoomForTheLast
<1> QED BY <1>1, <1>3, <1>5, <1>6, <1>7, <1>8, <1>9, <1>10, <1>11, <1>12 DEF IInv

(* Where there is a word there is an event it belongs to.                  *)
LEMMA SomeEvent ==
  ASSUME NEW n \in Nat, NEW t \in Nat, t <= n * EventWords
  PROVE  (t > 0 => n >= 1) /\ (t > EventWords => n >= 2)
<1>1. ~(n >= 1) => n * EventWords = 0 BY Lengths
<1>2. ~(n >= 2) => n = 0 \/ n = 1 OBVIOUS
<1>3. n = 0 \/ n = 1 => n * EventWords <= EventWords BY Lengths
<1> HIDE DEF EventWords
<1>4. n * EventWords \in Nat BY Products, Lengths
<1> QED BY <1>1, <1>2, <1>3, <1>4, Lengths

(* Words that are still to come are a number of words.                     *)
LEMMA RemainingNat ==
  ASSUME IInv
  PROVE  Remaining \in Nat
<1>1. Buffer_state = "WaitTriggerOff" => SampledNumber <= EventWords /\ SampledNumber \in Nat
  BY Lengths DEF IInv, TriggerTypes
<1>2. /\ Buffer_state = "WriteHeader" /\ DataIn.kind # "flag"
      => DataIn.n \in 1..TimeWords
  BY WordFields DEF IInv, WordInHand
<1> QED BY <1>1, <1>2, Lengths DEF Remaining

(* There are no more words than whole events have.                         *)
LEMMA TotalBounded ==
  ASSUME IInv
  PROVE  Total \in Nat /\ Len(pending) \in Nat /\ Total <= Len(pending) * EventWords
<1>1. Total \in Nat /\ Len(pending) \in Nat BY LengthsNat DEF IInv
<1>2. Remaining \in Nat BY RemainingNat
<1> DEFINE P == Len(pending) * EventWords
<1>3. P \in Nat BY <1>1, Products, Lengths
<1>4. Total + Remaining = P BY DEF IInv, WholeEvents
<1> HIDE DEF P
<1>5. Total <= P BY <1>1, <1>2, <1>3, <1>4
<1> QED BY <1>1, <1>5 DEF P

(* The kind of a word says how far the event has come.                     *)
LEMMA Completion ==
  ASSUME NEW words, Len(words) \in Nat, Len(words) <= EventWords,
         \A k \in 1..Len(words) : (words[k].kind = "flag") <=> (k = NumberOfSamples + 2)
  PROVE  Complete(words) <=> Len(words) = EventWords
<1>1. ASSUME Complete(words) PROVE Len(words) = EventWords
  <2>1. PICK k \in 1..Len(words) : words[k].kind = "flag" /\ Len(words) = k + SizeOfHeader - 1
    BY <1>1 DEF Complete
  <2>2. k = NumberOfSamples + 2 BY <2>1
  <2> QED BY <2>1, <2>2, Lengths
<1>2. ASSUME Len(words) = EventWords PROVE Complete(words)
  <2> DEFINE k == NumberOfSamples + 2
  <2>1. k \in 1..Len(words) /\ Len(words) = k + SizeOfHeader - 1 BY <1>2, Lengths
  <2>2. words[k].kind = "flag" BY <2>1
  <2>3. \A j \in 1..k - 1 : words[j].kind # "flag"
    <3> TAKE j \in 1..k - 1
    <3>1. j \in 1..Len(words) /\ j # NumberOfSamples + 2 BY <2>1, Lengths
    <3> QED BY <3>1
  <2> HIDE DEF k
  <2> QED BY <2>1, <2>2, <2>3 DEF Complete
<1> QED BY <1>1, <1>2

(* A word is of the kind of its place.                                     *)
LEMMA KindOfPlace ==
  ASSUME NEW r \in 1..EventWords, NEW w, Right(1, r, w)
  PROVE  (w.kind = "flag") <=> (r = NumberOfSamples + 2)
<1>1. CASE r <= NumberOfSamples + 1
  <2>1. w.kind = "sample" BY <1>1, WordFields DEF Right
  <2> QED BY <1>1, <2>1, Lengths
<1>2. CASE r = NumberOfSamples + 2
  BY <1>2, WordFields DEF Right
<1>3. CASE r > NumberOfSamples + 2 /\ r < EventWords
  <2>1. w.kind = "time" BY <1>3, WordFields DEF Right
  <2> QED BY <1>3, <2>1, Lengths
<1>4. CASE r = EventWords
  <2>1. w.kind = "count" BY <1>4 DEF Right
  <2> QED BY <1>4, <2>1, Lengths
<1> QED BY <1>1, <1>2, <1>3, <1>4, Lengths

(* A word that is read goes from the FIFO to the pulse processor.          *)
LEMMA CopyStep ==
  ASSUME IInv, CopyWord
  PROVE  IInv'
<1>1. /\ UNCHANGED Modules /\ UNCHANGED <<managerVeto, pending>>
      /\ reader = "Copy" /\ fifo # << >>
      /\ copied' = Append(copied, Head(fifo)) /\ fifo' = Tail(fifo)
      /\ unseen' = 1 /\ since' = 0
      /\ reader' = IF Complete(copied') THEN "Analysis" ELSE "Copy"
  BY DEF CopyWord, Modules, bufferModule
<1>2. managerVeto' \in BOOLEAN BY <1>1 DEF IInv, TriggerTypes
<1>3. /\ TriggerTypes' /\ CountFollows'
      /\ (TriggerOut' <=> TriggerOut) /\ (Untaken' <=> Untaken)
      /\ UNCHANGED <<Remaining, InHand>>
  BY <1>1, <1>2, ModulesRest
<1>4. UNCHANGED <<TriggerCount, trigger, SampledNumber, Trigger_state, Buffer_state, WriteEnable,
                  DataIn, Busy, RealTime_latched>>
  BY <1>1 DEF Modules, triggerModule
<1>5. /\ fifo \in Seq(Words) /\ copied \in Seq(Words) /\ since \in 0..3
  BY DEF IInv, FifoTypes
<1>6. /\ Len(fifo) \in Nat /\ Len(fifo) > 0 /\ Head(fifo) = fifo[1] /\ Head(fifo) \in Words
      /\ fifo' \in Seq(Words) /\ Len(fifo') = Len(fifo) - 1
      /\ \A k \in 1..Len(fifo') : fifo'[k] = fifo[k + 1]
  <2>1. Len(fifo) > 0 /\ Len(fifo) \in Nat BY <1>1, <1>5, EmptySeq
  <2>2. Head(fifo) = fifo[1] /\ Head(fifo) \in Words BY <1>1, <1>5, HeadTailProperties
  <2>3. /\ fifo' \in Seq(Words) /\ Len(fifo') = Len(fifo) - 1
        /\ \A k \in 1..Len(fifo') : fifo'[k] = fifo[k + 1]
    BY <1>1, <1>5, HeadTailProperties
  <2> QED BY <2>1, <2>2, <2>3
<1>7. /\ copied' \in Seq(Words) /\ Len(copied') = Len(copied) + 1 /\ Len(copied) \in Nat
      /\ \A k \in 1..Len(copied) : copied'[k] = copied[k]
      /\ copied'[Len(copied) + 1] = fifo[1]
  <2>1. Len(copied) \in Nat BY <1>5, LenProperties
  <2> QED BY <1>1, <1>5, <1>6, <2>1, AppendProperties
<1>8. BufferTypes' BY <1>1, <1>4 DEF IInv, BufferTypes
<1>9. /\ WriteDataCount' = Len(fifo) /\ WriteDataCount = Len(fifo) + unseen
      /\ unseen \in {0, 1} /\ WriteDataCount <= DepthOfWaveformBufferFIFO
  <2>1. WriteDataCount' = Len(fifo) BY <1>1, <1>6 DEF WriteDataCount
  <2>2. WriteDataCount = Len(fifo) + unseen /\ unseen \in {0, 1} BY LengthsNat DEF IInv
  <2> QED BY <2>1, <2>2 DEF IInv, FifoTypes
<1> DEFINE wdc == WriteDataCount
           wdc2 == WriteDataCount'
<1>10. wdc \in Nat /\ wdc2 \in Nat /\ wdc2 + unseen = wdc /\ wdc <= DepthOfWaveformBufferFIFO
       /\ wdc2 <= DepthOfWaveformBufferFIFO
  <2>1. wdc2 = Len(fifo) /\ wdc = Len(fifo) + unseen BY <1>9
  <2> HIDE DEF wdc, wdc2
  <2>2. wdc <= DepthOfWaveformBufferFIFO BY <1>9 DEF wdc
  <2> QED BY <1>6, <1>9, <2>1, <2>2, Lengths
<1>11. FifoTypes'
  <2>1. WriteDataCount' <= DepthOfWaveformBufferFIFO BY <1>10
  <2> QED BY <1>1, <1>6, <1>7, <2>1 DEF FifoTypes
<1>12. TriggerMeetsBuffer'
  <2>1. Untaken => wdc2 + EventWords <= DepthOfWaveformBufferFIFO + 1
    <3>1. Untaken => wdc + EventWords <= DepthOfWaveformBufferFIFO + 1
      BY DEF IInv, TriggerMeetsBuffer
    <3> HIDE DEF wdc, wdc2
    <3> QED BY <1>9, <1>10, <3>1, Lengths
  <2> QED BY <1>3, <1>4, <2>1 DEF IInv, TriggerMeetsBuffer
<1>13. WordInHand' BY <1>1, <1>3, <1>4 DEF IInv, WordInHand
<1>14. Total' = Total
  <2>1. Len(copied') + Len(fifo') = Len(copied) + Len(fifo) BY <1>6, <1>7
  <2> QED BY <1>3, <2>1 DEF Total
<1>15. WholeEvents' BY <1>1, <1>3, <1>14 DEF IInv, WholeEvents
<1>16. \A i \in Nat : i >= 1 => Item(i)' = Item(i)
  <2> TAKE i \in Nat
  <2> HAVE i >= 1
  <2>1. CASE i <= Len(copied)
    <3>1. i <= Len(copied') /\ i \in 1..Len(copied) BY <1>7, <2>1
    <3> QED BY <1>7, <2>1, <3>1 DEF Item
  <2>2. CASE i = Len(copied) + 1
    <3>1. i <= Len(copied') /\ ~(i <= Len(copied)) /\ i <= Len(copied) + Len(fifo)
          /\ i - Len(copied) = 1
      BY <1>6, <1>7, <2>2
    <3>2. Item(i) = fifo[1] BY <3>1 DEF Item
    <3>3. Item(i)' = copied'[i] BY <3>1 DEF Item
    <3> QED BY <1>7, <2>2, <3>2, <3>3
  <2>3. CASE i > Len(copied) + 1 /\ i <= Len(copied) + Len(fifo)
    <3>1. ~(i <= Len(copied')) /\ ~(i <= Len(copied)) /\ i <= Len(copied') + Len(fifo')
          /\ i - Len(copied') \in 1..Len(fifo') /\ (i - Len(copied')) + 1 = i - Len(copied)
      BY <1>6, <1>7, <2>3
    <3>2. Item(i) = fifo[i - Len(copied)] BY <2>3, <3>1 DEF Item
    <3>3. Item(i)' = fifo'[i - Len(copied')] BY <3>1 DEF Item
    <3>4. fifo'[i - Len(copied')] = fifo[(i - Len(copied')) + 1] BY <1>6, <3>1
    <3> QED BY <3>1, <3>2, <3>3, <3>4
  <2>4. CASE i > Len(copied) + Len(fifo)
    <3>1. /\ ~(i <= Len(copied')) /\ ~(i <= Len(copied)) /\ ~(i <= Len(copied') + Len(fifo'))
          /\ ~(i <= Len(copied) + Len(fifo))
      BY <1>6, <1>7, <2>4
    <3> QED BY <1>4, <3>1 DEF Item
  <2> QED BY <1>6, <1>7, <2>1, <2>2, <2>3, <2>4
<1>17. WordsRight'
  <2> SUFFICES ASSUME NEW q \in 1..Len(pending), NEW r \in 1..EventWords,
                      (q - 1) * EventWords + r <= Total
               PROVE  Right(q, r, Item((q - 1) * EventWords + r))'
    BY <1>1, <1>14 DEF WordsRight
  <2> DEFINE i == (q - 1) * EventWords + r
  <2>1. i \in Nat /\ i >= 1
    <3>1. q \in Nat /\ q > 0 BY TotalBounded
    <3> QED BY <3>1, PlaceNat
  <2>2. Right(q, r, Item(i)) BY DEF IInv, WordsRight
  <2>3. Item(i)' = Item(i) BY <1>16, <2>1
  <2> QED BY <1>1, <1>3, <1>4, <2>2, <2>3 DEF Right
<1>18. ReaderInEvent'
  <2>1. Len(copied) < EventWords BY <1>1 DEF IInv, ReaderInEvent
  <2>2. Len(copied') <= EventWords /\ Len(copied') \in Nat /\ Len(copied') > 0
    BY <1>7, <2>1, Lengths
  <2>3. Len(copied') <= Total /\ Total > 0
    <3>1. Len(copied) + Len(fifo) <= Total
      BY LengthsNat DEF IInv
    <3> QED BY <1>6, <1>7, <3>1, TotalBounded
  <2>4. 1 \in 1..Len(pending) BY <2>3, TotalBounded, SomeEvent
  <2>5. \A k \in 1..Len(copied') : (copied'[k].kind = "flag") <=> (k = NumberOfSamples + 2)
    <3> TAKE k \in 1..Len(copied')
    <3>1. k \in 1..EventWords /\ k <= Total /\ k \in Nat
      BY <2>2, <2>3, TotalBounded, Lengths
    <3>2. (1 - 1) * EventWords + k = k BY <3>1, Lengths
    <3>3. Right(1, k, Item(k)) BY <2>4, <3>1, <3>2 DEF IInv, WordsRight
    <3>4. Item(k)' = Item(k) BY <1>16, <3>1
    <3>5. Item(k)' = copied'[k] BY <2>2 DEF Item
    <3> QED BY <3>1, <3>3, <3>4, <3>5, KindOfPlace
  <2>6. Complete(copied') <=> Len(copied') = EventWords
    <3> DEFINE words == copied'
    <3>1. Len(words) \in Nat /\ Len(words) <= EventWords
          /\ \A k \in 1..Len(words) : (words[k].kind = "flag") <=> (k = NumberOfSamples + 2)
      BY <2>2, <2>5
    <3> HIDE DEF words
    <3>2. Complete(words) <=> Len(words) = EventWords BY <3>1, Completion
    <3> QED BY <3>2 DEF words
  <2>7. Len(copied') # EventWords => Len(copied') < EventWords BY <2>2, Lengths
  <2> QED BY <1>1, <2>6, <2>7 DEF ReaderInEvent
<1>19. CountCatchesUp' BY <1>1 DEF CountCatchesUp
<1>20. RoomForTheLast'
  <2> DEFINE m == Remaining
             h == InHand
             d == DepthOfWaveformBufferFIFO
  <2>1. Needed = wdc + h + m /\ Needed' = wdc2 + h + m /\ h \in {0, 1} /\ m \in Nat
    <3>1. m \in Nat BY RemainingNat
    <3> QED BY <1>3, <3>1 DEF Needed, InHand
  <2>2. Busy /\ wdc + h + m > d =>
          /\ wdc + h + m = d + 1
          /\ \/ unseen = 1 /\ 3 <= m + since
             \/ unseen = 0 /\ reader = "Copy" /\ 6 <= m + since
    BY <2>1 DEF IInv, RoomForTheLast
  <2> HIDE DEF m, h, d, wdc, wdc2
  <2>3. ASSUME Busy, wdc2 + h + m > d PROVE wdc2 + h + m = d + 1 /\ 3 <= m + 0
    BY <1>5, <1>9, <1>10, <2>1, <2>2, <2>3, Lengths DEF d
  <2>4. Busy' /\ Needed' > d => Needed' = d + 1 /\ 3 <= m + 0
    BY <1>4, <2>1, <2>3
  <2>5. Busy' /\ Needed' > d => unseen' = 1 /\ 3 <= Remaining' + since'
    BY <1>1, <1>3, <2>4 DEF m
  <2> QED BY <1>1, <2>4, <2>5 DEF RoomForTheLast, d
<1> QED BY <1>3, <1>8, <1>11, <1>12, <1>13, <1>15, <1>17, <1>18, <1>19, <1>20 DEF IInv

(* The words of an event that was analysed go, and the next event is the   *)
(* first.                                                                  *)
LEMMA AnalysedStep ==
  ASSUME IInv, Analysed
  PROVE  IInv'
<1>1. /\ UNCHANGED Modules /\ UNCHANGED <<managerVeto, fifo, unseen, since>>
      /\ reader = "Analysis" /\ reader' = "Idle" /\ copied' = << >>
      /\ pending' = Tail(pending)
  BY DEF Analysed, Modules
<1>2. managerVeto' \in BOOLEAN BY <1>1 DEF IInv, TriggerTypes
<1>3. /\ TriggerTypes' /\ CountFollows'
      /\ (TriggerOut' <=> TriggerOut) /\ (Untaken' <=> Untaken)
      /\ UNCHANGED <<Remaining, InHand>>
  BY <1>1, <1>2, ModulesRest
<1>4. UNCHANGED <<TriggerCount, trigger, SampledNumber, Trigger_state, Buffer_state, WriteEnable,
                  DataIn, Busy, RealTime_latched>>
  BY <1>1 DEF Modules, triggerModule
<1> DEFINE n == Len(pending)
<1>5. /\ Len(fifo) \in Nat /\ n \in Nat /\ InHand \in {0, 1} /\ Total \in Nat
      /\ Len(copied) = EventWords /\ Total = EventWords + Len(fifo) + InHand
  BY <1>1, LengthsNat DEF IInv, ReaderInEvent
<1>6. n >= 1 /\ (InHand = 1 => n >= 2)
  <2>1. Total > 0 /\ (InHand = 1 => Total > EventWords) BY <1>5, Lengths
  <2> QED BY <1>5, <2>1, SomeEvent, TotalBounded
<1>7. /\ pending \in Seq(1..MaxTriggers) /\ pending' \in Seq(1..MaxTriggers)
      /\ Len(pending') = n - 1
      /\ \A k \in 1..Len(pending') : pending'[k] = pending[k + 1]
  <2>1. pending \in Seq(1..MaxTriggers) /\ pending # << >>
    BY <1>6, EmptySeq DEF IInv, BufferTypes
  <2> QED BY <1>1, <2>1, HeadTailProperties
<1>8. BufferTypes' BY <1>4, <1>7 DEF IInv, BufferTypes
<1>9. WriteDataCount' = WriteDataCount /\ Needed' = Needed
  BY <1>1, <1>3 DEF WriteDataCount, Needed
<1>10. FifoTypes'
  <2>1. copied' \in Seq(Words) BY <1>1, EmptySeq
  <2> QED BY <1>1, <1>9, <2>1 DEF IInv, FifoTypes
<1>11. TriggerMeetsBuffer' BY <1>3, <1>4, <1>9 DEF IInv, TriggerMeetsBuffer
<1>12. WordInHand'
  <2>1. Busy => pending' # << >> /\ RealTime_latched = pending'[Len(pending')]
    <3> SUFFICES ASSUME Busy PROVE pending' # << >> /\ RealTime_latched = pending'[Len(pending')]
      OBVIOUS
    <3>1. InHand = 1 BY DEF IInv, TriggerMeetsBuffer, InHand
    <3>2. Len(pending') \in 1..Len(pending') /\ Len(pending') + 1 = n
      BY <1>5, <1>6, <1>7, <3>1
    <3>3. pending'[Len(pending')] = pending[n] BY <1>7, <3>2
    <3>4. pending' # << >> BY <3>2, EmptySeq
    <3> QED BY <3>3, <3>4 DEF IInv, WordInHand
  <2> QED BY <1>3, <1>4, <2>1 DEF IInv, WordInHand
<1>13. Len(copied') = 0 BY <1>1, EmptySeq
<1>14. PICK t \in Nat : t = Total' /\ Total = t + EventWords
  <2>1. Total' = Len(fifo) + InHand BY <1>1, <1>3, <1>5, <1>13 DEF Total
  <2>2. Len(fifo) + InHand \in Nat BY <1>5
  <2> QED BY <1>5, <2>1, <2>2, Lengths
<1>15. WholeEvents'
  <2> DEFINE p == n - 1
             P == p * EventWords
  <2>1. p \in Nat /\ p + 1 = n BY <1>5, <1>6
  <2>2. P \in Nat /\ (p + 1) * EventWords = P + EventWords
    <3> HIDE DEF p
    <3> QED BY <2>1, Products, Lengths
  <2>3. Total + Remaining = P + EventWords BY <2>1, <2>2 DEF IInv, WholeEvents
  <2>4. Remaining \in Nat BY RemainingNat
  <2>5. P \in Nat BY <2>2
  <2>6. Total = t + EventWords BY <1>14
  <2> HIDE DEF P
  <2>7. t + Remaining = P BY <2>3, <2>4, <2>5, <2>6, Lengths
  <2> QED BY <1>3, <1>7, <1>14, <2>7 DEF WholeEvents, P
<1>16. ReaderInEvent' BY <1>1, <1>13 DEF ReaderInEvent
<1>17. \A i \in Nat : i >= 1 => Item(i)' = Item(i + EventWords)
  <2> TAKE i \in Nat
  <2> HAVE i >= 1
  <2>1. ~(i <= Len(copied')) /\ ~(i + EventWords <= Len(copied))
        /\ i - Len(copied') = i /\ (i + EventWords) - Len(copied) = i
        /\ (i <= Len(copied') + Len(fifo') <=> i <= Len(fifo))
        /\ (i + EventWords <= Len(copied) + Len(fifo) <=> i <= Len(fifo))
    BY <1>1, <1>5, <1>13, Lengths
  <2>2. Item(i)' = IF i <= Len(fifo) THEN fifo[i] ELSE DataIn BY <1>1, <1>4, <2>1 DEF Item
  <2>3. Item(i + EventWords) = IF i <= Len(fifo) THEN fifo[i] ELSE DataIn BY <2>1 DEF Item
  <2> QED BY <2>2, <2>3
<1>18. WordsRight'
  <2> SUFFICES ASSUME NEW q \in 1..Len(pending'), NEW r \in 1..EventWords,
                      (q - 1) * EventWords + r <= t
               PROVE  Right(q, r, Item((q - 1) * EventWords + r))'
    BY <1>14 DEF WordsRight
  <2> DEFINE i == (q - 1) * EventWords + r
             w == Item(i + EventWords)
  <2>1. q \in Nat /\ q > 0 /\ q + 1 \in 1..n /\ (q + 1) - 1 = q BY <1>5, <1>7
  <2>2. /\ i \in Nat /\ i >= 1 /\ (q - 1) * EventWords \in Nat
        /\ (q - 1) * EventWords + EventWords = q * EventWords
    BY <2>1, PlaceNat
  <2>3. i + EventWords = ((q + 1) - 1) * EventWords + r
    <3> DEFINE P == (q - 1) * EventWords
    <3>1. P \in Nat /\ P + EventWords = q * EventWords BY <2>2
    <3>2. i = P + r OBVIOUS
    <3> HIDE DEF P, i
    <3>3. i + EventWords = (P + EventWords) + r BY <3>1, <3>2, Lengths
    <3>4. i + EventWords = q * EventWords + r BY <3>1, <3>3
    <3> QED BY <2>1, <3>4
  <2>4. i + EventWords <= Total
    <3> HIDE DEF i
    <3>1. i <= t BY DEF i
    <3>2. Total = t + EventWords BY <1>14
    <3>3. i \in Nat BY <2>2
    <3> QED BY <3>1, <3>2, <3>3, Lengths
  <2>5. Right(q + 1, r, w)
    <3>1. ((q + 1) - 1) * EventWords + r <= Total BY <2>3, <2>4
    <3>2. Right(q + 1, r, Item(((q + 1) - 1) * EventWords + r))
      BY <2>1, <3>1 DEF IInv, WordsRight
    <3> QED BY <2>3, <3>2
  <2>6. Item(i)' = w BY <1>17, <2>2
  <2>7. pending'[q] = pending[q + 1] BY <1>7
  <2>8. q < Len(pending') => q + 1 < n /\ pending'[q + 1] = pending[(q + 1) + 1]
    <3> SUFFICES ASSUME q < Len(pending')
                 PROVE  q + 1 < n /\ pending'[q + 1] = pending[(q + 1) + 1]
      OBVIOUS
    <3>1. q < n - 1 BY <1>7
    <3>2. q + 1 \in 1..n - 1 /\ q + 1 < n BY <1>5, <2>1, <3>1, SMTT(30)
    <3> QED BY <1>7, <3>2
  <2> HIDE DEF w, i
  <2>9. ASSUME NEW v, v = w PROVE Right(q, r, v)'
    <3>1. Right(q + 1, r, v) BY <2>5, <2>9
    <3> QED BY <1>3, <1>4, <2>7, <2>8, <3>1 DEF Right
  <2> QED BY <2>6, <2>9 DEF Right, i
<1>19. CountCatchesUp' BY <1>1 DEF IInv, CountCatchesUp
<1>20. RoomForTheLast' BY <1>1, <1>3, <1>4, <1>9 DEF IInv, RoomForTheLast
<1> QED BY <1>3, <1>8, <1>10, <1>11, <1>12, <1>15, <1>16, <1>18, <1>19, <1>20 DEF IInv

(* Every step keeps the invariant.                                         *)
LEMMA StepIInv ==
  ASSUME IInv, [Next]_vars
  PROVE  IInv'
<1>1. CASE Clock
  <2>1. PICK above \in BOOLEAN, closed \in BOOLEAN : Tick(above, closed) BY <1>1 DEF Clock
  <2> QED BY <2>1, TickStep
<1>2. CASE Started
  <2>1. UNCHANGED Modules /\ UNCHANGED <<pending, fifo, unseen, copied, since, reader>>
    BY <1>2 DEF Started, Modules, bufferModule
  <2>2. managerVeto' \in BOOLEAN BY <1>2 DEF Started
  <2> QED BY <2>1, <2>2, StepOfOthers
<1>3. CASE BeginCopy
  <2>1. /\ UNCHANGED Modules /\ UNCHANGED <<managerVeto, pending, fifo, unseen, since>>
        /\ reader = "Idle" /\ reader' = "Copy" /\ copied' = << >>
    BY <1>3 DEF BeginCopy, Modules, bufferModule
  <2>2. copied' = copied
    <3>1. Len(copied) = 0 /\ copied \in Seq(Words)
      BY <2>1 DEF IInv, ReaderInEvent, FifoTypes
    <3> QED BY <2>1, <3>1, EmptySeq
  <2>3. managerVeto' \in BOOLEAN BY <2>1 DEF IInv, TriggerTypes
  <2> QED BY <2>1, <2>2, <2>3, StepOfOthers
<1>4. CASE CopyWord BY <1>4, CopyStep
<1>5. CASE Analysed BY <1>5, AnalysedStep
<1>6. CASE UNCHANGED vars
  <2>1. UNCHANGED Modules
        /\ UNCHANGED <<managerVeto, pending, fifo, unseen, copied, since, reader>>
    BY <1>6 DEF vars, Modules, bufferModule
  <2>2. managerVeto' \in BOOLEAN BY <2>1 DEF IInv, TriggerTypes
  <2> QED BY <2>1, <2>2, StepOfOthers
<1> QED BY <1>1, <1>2, <1>3, <1>4, <1>5, <1>6 DEF Next, Reader

-----------------------------------------------------------------------------
(* The invariant holds in every state of every behaviour.                  *)
THEOREM Invariance == Spec => []IInv
<1>1. Init => IInv BY InitIInv
<1>2. IInv /\ [Next]_vars => IInv' BY StepIInv
<1> QED BY <1>1, <1>2, PTL DEF Spec

(* Every variable has its type, whatever the lengths: no word is ever lost *)
(* because the FIFO is full, and the writer's count of it stays in bounds. *)
THEOREM TypeCorrect == Spec => []TypeOK
<1>1. IInv => TypeOK
  <2> SUFFICES ASSUME IInv PROVE TypeOK
    OBVIOUS
  <2>1. TriggerCount \in 0..MaxTriggers
    BY Lengths DEF IInv, TriggerTypes, CountFollows, Trigger
  <2>2. Len(fifo) <= DepthOfWaveformBufferFIFO
    <3>1. Len(fifo) + unseen <= DepthOfWaveformBufferFIFO BY LengthsNat DEF IInv, FifoTypes
    <3> QED BY <3>1, LengthsNat, Lengths DEF IInv
  <2> QED BY <2>1, <2>2 DEF TypeOK, IInv, TriggerTypes, BufferTypes, FifoTypes
<1> QED BY <1>1, Invariance, PTL

(* The words of the event that the pulse processor has copied, one by one. *)
LEMMA CopiedWords ==
  ASSUME IInv, reader = "Analysis"
  PROVE  /\ pending \in Seq(1..MaxTriggers) /\ Len(pending) \in Nat /\ Len(pending) >= 1
         /\ pending # << >> /\ Head(pending) = pending[1]
         /\ Len(copied) = EventWords
         /\ \A k \in 1..EventWords : Right(1, k, copied[k])
<1>1. Len(copied) = EventWords BY DEF IInv, ReaderInEvent
<1>2. Len(copied) <= Total /\ Total \in Nat /\ Total > 0
  BY <1>1, LengthsNat, Lengths DEF IInv
<1>3. Len(pending) \in Nat /\ Len(pending) >= 1 BY <1>2, TotalBounded, SomeEvent
<1>4. pending \in Seq(1..MaxTriggers) BY DEF IInv, BufferTypes
<1>5. pending # << >> BY <1>3, <1>4, EmptySeq
<1>6. Head(pending) = pending[1] BY <1>4, <1>5, HeadTailProperties
<1>7. ASSUME NEW k \in 1..EventWords PROVE Right(1, k, copied[k])
  <2>1. (1 - 1) * EventWords + k = k /\ k <= Total BY <1>1, <1>2, Lengths
  <2>2. 1 \in 1..Len(pending) BY <1>3
  <2>3. Right(1, k, Item(k)) BY <2>1, <2>2 DEF IInv, WordsRight
  <2>4. Item(k) = copied[k] BY <1>1 DEF Item
  <2> QED BY <2>3, <2>4
<1> QED BY <1>1, <1>3, <1>4, <1>5, <1>6, <1>7

(* The pulse processor never sees a torn event: what it analyses is the    *)
(* waveform and the header of the trigger that was taken next, for any     *)
(* length of waveform that fits, any depth of the FIFO and any delays of   *)
(* the reader.                                                             *)
THEOREM EventsAreWhole == Spec => []EventsWhole
<1>1. IInv => EventsWhole
  <2> SUFFICES ASSUME IInv, reader = "Analysis"
               PROVE  /\ pending # << >>
                      /\ Len(copied) = NumberOfSamples + 2 + SizeOfHeader - 1
                      /\ \A k \in 1..NumberOfSamples + 1 :
                           copied[k] = W("sample", Head(pending), k - 1)
                      /\ copied[NumberOfSamples + 2].kind = "flag"
                      /\ \A k \in 1..TimeWords :
                           copied[NumberOfSamples + 2 + k] = W("time", Head(pending), k)
                      /\ copied[Len(copied)].kind = "count"
    BY DEF EventsWhole
  <2>1. pending # << >> /\ Head(pending) = pending[1] /\ Len(copied) = EventWords
    BY CopiedWords
  <2>2. Len(copied) = NumberOfSamples + 2 + SizeOfHeader - 1 BY <2>1, Lengths
  <2>3. ASSUME NEW k \in 1..NumberOfSamples + 1
        PROVE  copied[k] = W("sample", Head(pending), k - 1)
    <3>1. k \in 1..EventWords /\ k <= NumberOfSamples + 1 BY Lengths
    <3>2. Right(1, k, copied[k]) BY <3>1, CopiedWords
    <3> QED BY <2>1, <3>1, <3>2 DEF Right
  <2>4. copied[NumberOfSamples + 2].kind = "flag"
    <3>1. NumberOfSamples + 2 \in 1..EventWords BY Lengths
    <3>2. Right(1, NumberOfSamples + 2, copied[NumberOfSamples + 2]) BY <3>1, CopiedWords
    <3> QED BY <3>2, WordFields DEF Right
  <2>5. ASSUME NEW k \in 1..TimeWords
        PROVE  copied[NumberOfSamples + 2 + k] = W("time", Head(pending), k)
    <3> DEFINE r == NumberOfSamples + 2 + k
    <3>1. r \in 1..EventWords /\ r > NumberOfSamples + 2 /\ r < EventWords
          /\ r - NumberOfSamples - 2 = k
      BY Lengths
    <3> HIDE DEF r
    <3>2. Right(1, r, copied[r]) BY <3>1, CopiedWords
    <3>3. copied[r] = W("time", pending[1], k) BY <3>1, <3>2 DEF Right
    <3> QED BY <2>1, <3>3 DEF r
  <2>6. copied[Len(copied)].kind = "count"
    <3>1. EventWords \in 1..EventWords BY Lengths
    <3>2. Right(1, EventWords, copied[EventWords]) BY <3>1, CopiedWords
    <3> QED BY <2>1, <3>2 DEF Right
  <2> QED BY <2>1, <2>2, <2>3, <2>4, <2>5, <2>6
<1> QED BY <1>1, Invariance, PTL

(* The trigger count of an event is that of the time of the event: not     *)
(* before its own trigger, and before that of the next event.              *)
THEOREM CountsAreOwn == Spec => []CountsOwnTrigger
<1>1. IInv => CountsOwnTrigger
  <2> SUFFICES ASSUME IInv, reader = "Analysis"
               PROVE  /\ copied[Len(copied)].n >= Head(pending)
                      /\ Len(pending) > 1 => copied[Len(copied)].n < pending[2]
    BY DEF CountsOwnTrigger
  <2>1. Head(pending) = pending[1] /\ Len(copied) = EventWords BY CopiedWords
  <2>2. EventWords \in 1..EventWords BY Lengths
  <2>3. Right(1, EventWords, copied[EventWords]) BY <2>2, CopiedWords
  <2> QED BY <2>1, <2>3 DEF Right
<1> QED BY <1>1, Invariance, PTL
=============================================================================

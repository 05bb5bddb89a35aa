-------------------------- MODULE EventStream_proofs --------------------------
(***************************************************************************)
(* Theorems about EventStream, for any lengths of packets, buffers and     *)
(* reads, any looks of the header words and any number of faults.          *)
(***************************************************************************)
EXTENDS EventStream, TLAPS, SequenceTheorems, FiniteSetTheorems

-----------------------------------------------------------------------------
(* The types, of the board, of getEvent() and of the decoder.              *)

BoardTypes ==
  /\ look \in [TimePackets -> [TimePlaces -> {"data", "FFF0", "FFFF"}]]
  /\ next \in Word /\ head \in Word /\ count \in 0..FifoWords
  /\ dout \in Word \cup {NoWord} /\ faults \in 0..MaxFaults
ReadTypes ==
  /\ pc \in {"count", "read", "decode"}
  /\ want \in 0..ReadWords /\ trial \in 1..Trials
  /\ reply \in Seq(Word) /\ Len(reply) <= want
DecoderTypes ==
  /\ state \in 0..SamplesState /\ raw \in Seq(Word) /\ events \in Seq(Seq(Word))
  /\ last \in Word \cup {NoWord} /\ run \in 0..Settled

(* Where a word is in the stream of the board.                             *)
Position(w) == w.packet * PacketWords + w.place

(* The EventFIFO holds the words from head up to next, and the board sends *)
(* no word after the last packet.                                          *)
FifoInOrder ==
  /\ Position(next) = Position(head) + count
  /\ next.packet <= Packets \/ next = [packet |-> Packets + 1, place |-> 0]

(* A read asks for no more words than there are, so that one that repeats  *)
(* the last output of the FIFO repeats a word.                             *)
ReadsAWord ==
  pc = "read" => want > 0 /\ (dout # NoWord \/ (reply = << >> /\ count >= want))

(* The words of the event under construction are those the state says.     *)
RawAsState ==
  /\ state \in 1..HeaderWords => Len(raw) + 1 = state
  /\ state = SamplesState => Len(raw) >= HeaderWords
  /\ Len(raw) <= HeaderWords + MaxWaveform

(* A decoder in the header of an event began it before the words of this   *)
(* run, or at one of them that looks like a start flag: no sample does.    *)
BeganAtFlag ==
  Samples >= HeaderWords /\ run > 0 /\ state \in 1..HeaderWords =>
    \/ run < state
    \/ last.place + 1 >= state /\ last.place + 1 <= HeaderWords + state

(* The end of a packet finds the decoder outside a header, if the run is   *)
(* longer than a header; from there on it is in step with the packets.     *)
Begun(p, n) == [k \in 1..n |-> [packet |-> p, place |-> k]]
InStep ==
  IF last.place = EndPlace
  THEN /\ state = 0 /\ events # << >>
       /\ events[Len(events)] = Packet(last.packet)
  ELSE /\ state = IF last.place < HeaderWords THEN last.place + 1 ELSE SamplesState
       /\ raw = Begun(last.packet, last.place)
StaysInStep ==
  Samples >= HeaderWords =>
    /\ last.place = EndPlace /\ run > HeaderWords => state = 0
    /\ run > HeaderWords + 1 + last.place => InStep

IInv ==
  /\ BoardTypes /\ ReadTypes /\ DecoderTypes
  /\ FifoInOrder /\ ReadsAWord /\ RawAsState /\ BeganAtFlag /\ StaysInStep

USE ConstantsAssumption

-----------------------------------------------------------------------------
(* The words of the stream.                                                *)

(* Products of natural numbers.                                            *)
LEMMA Products ==
  ASSUME NEW a \in Nat, NEW b \in Nat, NEW c \in Nat
  PROVE  /\ a * c \in Nat
         /\ (a + 1) * c = a * c + c
         /\ a <= b => a * c <= b * c
OBVIOUS

(* The length of a packet, and the places in it.                           *)
LEMMA Lengths ==
  /\ HeaderWords \in Nat /\ HeaderWords > 0 /\ Samples \in Nat /\ Packets \in Nat
  /\ EndPlace \in Nat /\ EndPlace = HeaderWords + Samples + 1
  /\ PacketWords \in Nat /\ PacketWords = EndPlace + 1
  /\ SamplesState = HeaderWords + 1
  /\ Settled \in Nat /\ Settled = 2 * PacketWords
  /\ MaxWaveform \in Nat /\ Samples <= MaxWaveform
BY DEF EndPlace, PacketWords, SamplesState, Settled

(* A word is its packet and its place.                                     *)
LEMMA Fields ==
  ASSUME NEW w \in Word
  PROVE  /\ w = [packet |-> w.packet, place |-> w.place]
         /\ w.packet \in 1..Packets + 1 /\ w.place \in 0..EndPlace
BY DEF Word

(* What the FIFO repeats before its first word is no word of the board.    *)
LEMMA NotAWord == NoWord \notin Word /\ NoWord.packet = 0 /\ NoWord.place = 0
BY DEF Word, NoWord

(* The positions in the stream are numbers.                                *)
LEMMA PositionNat ==
  ASSUME NEW w \in Word
  PROVE  Position(w) \in Nat
<1>1. w.packet \in Nat /\ w.place \in Nat BY Fields, Lengths
<1>2. w.packet * PacketWords \in Nat BY <1>1, Products, Lengths
<1> QED BY <1>1, <1>2 DEF Position

(* So are the packet and the place of the word decoded last.               *)
LEMMA LastPlace ==
  ASSUME DecoderTypes
  PROVE  last.packet \in Nat /\ last.place \in Nat
<1>1. CASE last \in Word BY <1>1, Fields, Lengths
<1>2. CASE last = NoWord BY <1>2, NotAWord
<1> QED BY <1>1, <1>2 DEF DecoderTypes

(* The successor of a word is the next word of the stream.                 *)
LEMMA SuccIsNext ==
  ASSUME NEW w \in Word, w.packet <= Packets
  PROVE  /\ Succ(w) \in Word /\ Position(Succ(w)) = Position(w) + 1
         /\ Succ(w).packet <= Packets \/ Succ(w) = [packet |-> Packets + 1, place |-> 0]
<1> DEFINE p == w.packet
           q == w.place
<1>1. p \in 1..Packets + 1 /\ q \in 0..EndPlace BY Fields
<1>2. CASE q = EndPlace
  <2>1. Succ(w) = [packet |-> p + 1, place |-> 0] BY <1>2 DEF Succ
  <2>2. p + 1 \in 1..Packets + 1 /\ 0 \in 0..EndPlace BY <1>1, Lengths
  <2>3. Succ(w) \in Word BY <2>1, <2>2 DEF Word
  <2>4. (p + 1) * PacketWords = p * PacketWords + EndPlace + 1
    BY Products, <1>1, Lengths
  <2>5. Position(Succ(w)) = (p + 1) * PacketWords + 0 BY <2>1 DEF Position
  <2>6. p * PacketWords \in Nat BY <1>1, Lengths
  <2>7. Position(Succ(w)) = Position(w) + 1
    BY <2>4, <2>5, <2>6, <1>2, Lengths DEF Position
  <2> QED BY <2>1, <2>2, <2>3, <2>7
<1>3. CASE q # EndPlace
  <2>1. Succ(w) = [packet |-> p, place |-> q + 1] BY <1>3 DEF Succ
  <2>2. q + 1 \in 0..EndPlace BY <1>1, <1>3, Lengths
  <2>3. Succ(w) \in Word BY <2>1, <2>2, <1>1 DEF Word
  <2>4. p * PacketWords \in Nat BY <1>1, Lengths
  <2>5. Position(Succ(w)) = Position(w) + 1 BY <2>1, <2>4, <1>1 DEF Position
  <2> QED BY <2>1, <2>3, <2>5
<1> QED BY <1>2, <1>3

(* While the EventFIFO holds a word, the one at its read port is a word of *)
(* a packet of the board.                                                  *)
LEMMA HeadIsSent ==
  ASSUME BoardTypes, FifoInOrder, count > 0
  PROVE  head.packet <= Packets
<1> SUFFICES ASSUME ~(head.packet <= Packets) PROVE FALSE
  OBVIOUS
<1>1. /\ head.packet \in 1..Packets + 1 /\ head.place \in 0..EndPlace
      /\ next.packet \in 1..Packets + 1 /\ next.place \in 0..EndPlace
      /\ count \in Nat
  BY Fields DEF BoardTypes
<1>2. head.packet = Packets + 1 BY <1>1, Lengths
<1> DEFINE N == Packets * PacketWords
<1>3. N \in Nat /\ (Packets + 1) * PacketWords = N + PacketWords
  BY Products, Lengths
<1>4. Position(head) >= N + PacketWords
  BY <1>1, <1>2, <1>3, Lengths DEF Position
<1>5. Position(next) <= N + PacketWords
  <2>1. CASE next.packet <= Packets
    <3>1. next.packet * PacketWords <= N /\ next.packet * PacketWords \in Nat
      BY Products, <2>1, <1>1, Lengths
    <3> QED BY <3>1, <1>1, <1>3, Lengths DEF Position
  <2>2. CASE next = [packet |-> Packets + 1, place |-> 0]
    BY <2>2, <1>3, Lengths DEF Position
  <2> QED BY <2>1, <2>2 DEF FifoInOrder
<1> HIDE DEF N
<1>6. Position(next) \in Nat /\ Position(head) \in Nat BY <1>1, Lengths DEF Position
<1> QED BY Lengths, <1>1, <1>3, <1>4, <1>5, <1>6 DEF FifoInOrder

(* What the words of a packet look like: only the first word and words of  *)
(* the header may look like the start flag, and no sample like a flag.     *)
LEMMA Looks ==
  ASSUME NEW w \in Word
  PROVE  /\ w.place = 0 => Value(w) = "FFF0"
         /\ w.place = EndPlace => Value(w) = "FFFF"
         /\ Value(w) = "FFF0" => w.place <= HeaderWords
         /\ w.place > HeaderWords /\ w.place # EndPlace => Value(w) = "data"
<1>1. w.place \in 0..EndPlace BY Fields
<1>2. \A k \in TimePlaces : k \in 1..HeaderWords OBVIOUS
<1>3. CASE w.place = 0 BY <1>3, Lengths DEF Value
<1>4. CASE w.place = EndPlace BY <1>4, Lengths DEF Value
<1>5. CASE w.place # 0 /\ w.place # EndPlace BY <1>1, <1>2, <1>5, Lengths DEF Value
<1> QED BY <1>3, <1>4, <1>5

-----------------------------------------------------------------------------
(* The initial state, and the steps that leave the decoder alone.          *)

DecoderInv == DecoderTypes /\ RawAsState /\ BeganAtFlag /\ StaysInStep

(* A step that leaves the decoder alone keeps what is said of it.          *)
LEMMA DecoderAlone ==
  ASSUME DecoderInv, UNCHANGED decoder
  PROVE  DecoderInv'
BY DEF decoder, DecoderInv, DecoderTypes, RawAsState, BeganAtFlag, StaysInStep, InStep

(* The invariant holds initially.                                          *)
LEMMA InitIInv == Init => IInv
<1> SUFFICES ASSUME Init PROVE IInv
  OBVIOUS
<1> USE DEF Init
<1>1. FirstWord \in Word /\ FirstWord.packet <= Packets
  BY Lengths DEF FirstWord, Word
<1>2. BoardTypes BY <1>1 DEF BoardTypes
<1>3. ReadTypes
  <2>1. reply \in Seq(Word) /\ Len(reply) = 0 OBVIOUS
  <2> QED BY <2>1 DEF ReadTypes
<1>4. DecoderTypes
  <2>1. raw \in Seq(Word) /\ events \in Seq(Seq(Word)) OBVIOUS
  <2> QED BY <2>1, Lengths DEF DecoderTypes
<1>5. FifoInOrder
  <2>1. Position(FirstWord) = Position(FirstWord) + 0
    BY Products, Lengths DEF Position, FirstWord
  <2> QED BY <1>1, <2>1 DEF FifoInOrder
<1>6. ReadsAWord BY DEF ReadsAWord
<1>7. RawAsState BY Lengths DEF RawAsState
<1>8. BeganAtFlag BY DEF BeganAtFlag
<1>9. StaysInStep BY Lengths, NotAWord DEF StaysInStep
<1> QED BY <1>2, <1>3, <1>4, <1>5, <1>6, <1>7, <1>8, <1>9 DEF IInv

(* The board writes a word to the EventFIFO.                               *)
LEMMA WriteWordIInv == IInv /\ WriteWord => IInv'
<1> SUFFICES ASSUME IInv, WriteWord PROVE IInv'
  OBVIOUS
<1> USE DEF WriteWord
<1>1. DecoderInv' BY DecoderAlone DEF IInv, DecoderInv
<1>2. /\ Succ(next) \in Word /\ Position(Succ(next)) = Position(next) + 1
      /\ Succ(next).packet <= Packets \/ Succ(next) = [packet |-> Packets + 1, place |-> 0]
  BY SuccIsNext DEF IInv, BoardTypes
<1>3. BoardTypes' BY <1>2 DEF IInv, BoardTypes
<1>4. ReadTypes' BY DEF IInv, ReadTypes
<1>5. FifoInOrder'
  <2>1. Position(next') = Position(head') + count'
    <3>1. Position(head) \in Nat /\ count \in Nat
      BY PositionNat DEF IInv, BoardTypes
    <3> QED BY <1>2, <3>1 DEF IInv, FifoInOrder
  <2> QED BY <1>2, <2>1 DEF FifoInOrder
<1>6. ReadsAWord' BY DEF IInv, ReadsAWord, BoardTypes, ReadTypes
<1> QED BY <1>1, <1>3, <1>4, <1>5, <1>6 DEF IInv, DecoderInv

(* The board sends a word of a reply.                                      *)
LEMMA SendWordIInv == IInv /\ SendWord => IInv'
<1> SUFFICES ASSUME IInv, SendWord PROVE IInv'
  OBVIOUS
<1> USE DEF SendWord
<1>1. DecoderInv' BY DecoderAlone DEF IInv, DecoderInv
<1>2. CASE count > 0
  <2>1. Succ(head) \in Word /\ Position(Succ(head)) = Position(head) + 1
    BY <1>2, HeadIsSent, SuccIsNext DEF IInv, BoardTypes
  <2>2. BoardTypes' BY <1>2, <2>1 DEF IInv, BoardTypes
  <2>3. reply' \in Seq(Word) /\ Len(reply') = Len(reply) + 1
    BY <1>2, AppendProperties DEF IInv, BoardTypes, ReadTypes
  <2>4. ReadTypes'
    <3>1. Len(reply) \in Nat BY LenProperties DEF IInv, ReadTypes
    <3> QED BY <2>3, <3>1 DEF IInv, ReadTypes
  <2>5. FifoInOrder'
    <3>1. Position(head) \in Nat /\ count \in Nat
      BY PositionNat DEF IInv, BoardTypes
    <3>2. Position(next') = Position(head') + count'
      BY <1>2, <2>1, <3>1 DEF IInv, FifoInOrder
    <3> QED BY <3>2 DEF IInv, FifoInOrder
  <2>6. ReadsAWord' BY <1>2, NotAWord DEF IInv, ReadsAWord, BoardTypes
  <2> QED BY <1>1, <2>2, <2>4, <2>5, <2>6 DEF IInv, DecoderInv
<1>3. CASE ~(count > 0)
  <2>1. dout \in Word
    <3>1. count = 0 BY <1>3 DEF IInv, BoardTypes
    <3>2. want > 0 /\ (dout # NoWord \/ (reply = << >> /\ count >= want))
      BY DEF IInv, ReadsAWord
    <3>3. dout # NoWord BY <3>1, <3>2 DEF IInv, ReadTypes
    <3> QED BY <3>3 DEF IInv, BoardTypes
  <2>2. reply' \in Seq(Word) /\ Len(reply') = Len(reply) + 1
    BY <1>3, <2>1, AppendProperties DEF IInv, ReadTypes
  <2>3. BoardTypes' /\ FifoInOrder' BY <1>3 DEF IInv, BoardTypes, FifoInOrder
  <2>4. ReadTypes'
    <3>1. Len(reply) \in Nat BY LenProperties DEF IInv, ReadTypes
    <3> QED BY <2>2, <3>1 DEF IInv, ReadTypes
  <2>5. ReadsAWord' BY <1>3, <2>1, NotAWord DEF IInv, ReadsAWord
  <2> QED BY <1>1, <2>3, <2>4, <2>5 DEF IInv, DecoderInv
<1> QED BY <1>2, <1>3

(* getEvent() asks for the count and sizes the read.                       *)
LEMMA ReadDataCountIInv == IInv /\ ReadDataCount => IInv'
<1> SUFFICES ASSUME IInv, ReadDataCount PROVE IInv'
  OBVIOUS
<1> USE DEF ReadDataCount
<1>1. DecoderInv' BY DecoderAlone DEF IInv, DecoderInv
<1>2. want' \in 0..ReadWords /\ want' > 0 /\ want' <= count
  BY DEF SizeOfRead, Least, IInv, BoardTypes
<1>3. BoardTypes' /\ FifoInOrder' BY DEF board, IInv, BoardTypes, FifoInOrder
<1>4. ReadTypes'
  <2>1. reply' \in Seq(Word) /\ Len(reply') = 0 OBVIOUS
  <2> QED BY <1>2, <2>1 DEF ReadTypes
<1>5. ReadsAWord' BY <1>2 DEF ReadsAWord, board, IInv, BoardTypes
<1> QED BY <1>1, <1>3, <1>4, <1>5 DEF IInv, DecoderInv

(* A reply arrives, or the read is tried again.                            *)
LEMMA ReplyIInv == IInv /\ (ReplyArrives \/ Retry \/ Decoded) => IInv'
<1> SUFFICES ASSUME IInv, ReplyArrives \/ Retry \/ Decoded PROVE IInv'
  OBVIOUS
<1>1. UNCHANGED decoder BY DEF ReplyArrives, Retry, Decoded
<1>2. DecoderInv' BY <1>1, DecoderAlone DEF IInv, DecoderInv
<1>3. BoardTypes' /\ FifoInOrder'
  BY DEF ReplyArrives, Retry, Decoded, board, IInv, BoardTypes, FifoInOrder
<1>4. CASE ReplyArrives \/ Decoded
  <2>1. ReadTypes' BY <1>4 DEF ReplyArrives, Decoded, IInv, ReadTypes
  <2>2. ReadsAWord' BY <1>4 DEF ReplyArrives, Decoded, ReadsAWord
  <2> QED BY <1>2, <1>3, <2>1, <2>2 DEF IInv, DecoderInv
<1>5. CASE Retry
  <2> USE <1>5 DEF Retry
  <2>1. reply' \in Seq(Word) /\ Len(reply') = 0 OBVIOUS
  <2>2. ReadTypes' BY <2>1 DEF IInv, ReadTypes
  <2>3. ReadsAWord'
    <3>1. want > 0 /\ (dout # NoWord \/ (reply = << >> /\ count >= want))
      BY DEF IInv, ReadsAWord
    <3> QED BY <3>1 DEF ReadsAWord, board
  <2> QED BY <1>2, <1>3, <2>2, <2>3 DEF IInv, DecoderInv
<1> QED BY <1>4, <1>5

(* A new decoder is in step with nothing.                                  *)
LEMMA NewDecoderIInv == IInv /\ NewDecoder => IInv'
<1> SUFFICES ASSUME IInv, NewDecoder PROVE IInv'
  OBVIOUS
<1> USE DEF NewDecoder
<1>1. raw' \in Seq(Word) /\ reply' \in Seq(Word) /\ Len(raw') = 0 /\ Len(reply') = 0
  OBVIOUS
<1>2. BoardTypes' /\ FifoInOrder' BY DEF board, IInv, BoardTypes, FifoInOrder
<1>3. ReadTypes' BY <1>1 DEF IInv, ReadTypes
<1>4. DecoderTypes' BY <1>1, Lengths DEF IInv, DecoderTypes
<1>5. RawAsState' BY <1>1, Lengths DEF RawAsState
<1>6. BeganAtFlag' /\ ReadsAWord' BY DEF BeganAtFlag, ReadsAWord
<1>7. StaysInStep'
  <2>1. last.place \in Nat BY LastPlace DEF IInv
  <2> QED BY <2>1, Lengths DEF StaysInStep
<1> QED BY <1>2, <1>3, <1>4, <1>5, <1>6, <1>7 DEF IInv

-----------------------------------------------------------------------------
(* One round of the loop of decodeEvent().                                 *)

(* What a round makes of the word w, apart from the history.               *)
Decodes(w) ==
  \/ /\ state = 0
     /\ state' = IF Value(w) = "FFF0" THEN 1 ELSE 0
     /\ raw' = << >> /\ events' = events
  \/ /\ state \in 1..HeaderWords
     /\ state' = state + 1 /\ raw' = Append(raw, w) /\ events' = events
  \/ /\ state = SamplesState /\ Value(w) = "FFFF"
     /\ state' = 0 /\ raw' = raw /\ events' = Append(events, raw)
  \/ /\ state = SamplesState /\ Value(w) # "FFFF" /\ Len(raw) - HeaderWords < MaxWaveform
     /\ state' = state /\ raw' = Append(raw, w) /\ events' = events
  \/ /\ state = SamplesState /\ Value(w) # "FFFF" /\ ~(Len(raw) - HeaderWords < MaxWaveform)
     /\ state' = 0 /\ raw' = raw /\ events' = events

(* The word counts to the run if it follows the word before.               *)
Counts(w) ==
  /\ last' = w
  /\ run' \in 0..Settled
  /\ run' > 1 => w = Succ(last) /\ run > 0
  /\ run' <= run + 1

(* DecodeWord in these terms.                                              *)
LEMMA DecodeParts ==
  ASSUME IInv, DecodeWord
  PROVE  /\ Head(reply) \in Word /\ Decodes(Head(reply)) /\ Counts(Head(reply))
         /\ reply' \in Seq(Word) /\ Len(reply') = Len(reply) - 1 /\ Len(reply) \in Nat
         /\ pc' = pc /\ UNCHANGED <<board, want, trial, faults>>
<1>1. /\ Head(reply) \in Word /\ Tail(reply) \in Seq(Word)
      /\ Len(Tail(reply)) = Len(reply) - 1 /\ Len(reply) \in Nat
  BY HeadTailProperties, LenProperties DEF IInv, ReadTypes, DecodeWord
<1>2. Decodes(Head(reply))
  <2> DEFINE w == Head(reply)
  <2>1. \/ /\ state = 0
           /\ state' = IF Value(w) = "FFF0" THEN 1 ELSE 0
           /\ raw' = << >> /\ events' = events
        \/ /\ state \in 1..HeaderWords
           /\ state' = state + 1 /\ raw' = Append(raw, w) /\ events' = events
        \/ /\ state = SamplesState /\ Value(w) = "FFFF"
           /\ state' = 0 /\ raw' = raw /\ events' = Append(events, raw)
        \/ /\ state = SamplesState /\ Value(w) # "FFFF"
           /\ IF Len(raw) - HeaderWords < MaxWaveform
              THEN raw' = Append(raw, w) /\ state' = state
              ELSE state' = 0 /\ raw' = raw
           /\ events' = events
    BY DEF DecodeWord, RawAtFlag, pushEventToQueue
  <2> HIDE DEF w
  <2>2. Decodes(w) BY <2>1 DEF Decodes
  <2> QED BY <2>2 DEF w
<1>3. Counts(Head(reply))
  <2>1. run \in 0..Settled BY DEF IInv, DecoderTypes
  <2>2. /\ last' = Head(reply)
        /\ run' = IF Head(reply) = Succ(last) \/ run = 0 THEN Least(run + 1, Settled) ELSE 1
    BY DEF DecodeWord
  <2> QED BY <2>1, <2>2, Lengths DEF Counts, Least
<1> QED BY <1>1, <1>2, <1>3 DEF DecodeWord

(* A round keeps the types, and the words as the state says.               *)
LEMMA DecodeTypes ==
  ASSUME DecoderTypes, RawAsState, NEW w \in Word, Decodes(w), Counts(w)
  PROVE  DecoderTypes' /\ RawAsState'
<1>1. /\ Len(raw) \in Nat /\ Append(raw, w) \in Seq(Word)
      /\ Len(Append(raw, w)) = Len(raw) + 1
      /\ Append(events, raw) \in Seq(Seq(Word))
  BY LenProperties, AppendProperties DEF DecoderTypes
<1>2. << >> \in Seq(Word) /\ Len(<< >>) = 0
  OBVIOUS
<1>3. state' \in 0..SamplesState /\ RawAsState'
  BY <1>1, <1>2, Lengths DEF Decodes, DecoderTypes, RawAsState
<1>4. raw' \in Seq(Word) /\ events' \in Seq(Seq(Word))
  BY <1>1, <1>2 DEF Decodes, DecoderTypes
<1>5. last' \in Word \cup {NoWord} /\ run' \in 0..Settled
  BY DEF Counts
<1> QED BY <1>3, <1>4, <1>5 DEF DecoderTypes

(* Where a word is that follows the word before in the stream.             *)
LEMMA Follows ==
  ASSUME DecoderTypes, NEW w \in Word, Counts(w), run' > 1
  PROVE  /\ run \in Nat /\ run > 0 /\ run' <= run + 1
         /\ last.place \in Nat /\ w.place \in 0..EndPlace
         /\ last.place = EndPlace => w.place = 0
         /\ last.place # EndPlace => w.place = last.place + 1 /\ w.packet = last.packet
<1>1. w = Succ(last) /\ run > 0 /\ run' <= run + 1 /\ run' \in 0..Settled
  BY DEF Counts
<1>2. last.place \in Nat /\ w.place \in 0..EndPlace
  <2>1. last.place \in Nat BY LastPlace
  <2>2. w.place \in 0..EndPlace BY Fields
  <2> QED BY <2>1, <2>2
<1>3. run \in 0..Settled BY DEF DecoderTypes
<1>4. run \in Nat /\ run' <= run + 1 BY <1>1, <1>3, Lengths
<1>5. last.place = EndPlace => w.place = 0 BY <1>1 DEF Succ
<1>6. last.place # EndPlace => w.place = last.place + 1 /\ w.packet = last.packet
  BY <1>1 DEF Succ
<1> QED BY <1>1, <1>2, <1>4, <1>5, <1>6

(* A header begins at a word that looks like the start flag, and goes on   *)
(* with the words that follow.                                             *)
LEMMA DecodeBegan ==
  ASSUME DecoderTypes, BeganAtFlag, NEW w \in Word, Decodes(w), Counts(w)
  PROVE  BeganAtFlag'
<1> SUFFICES ASSUME Samples >= HeaderWords, run' > 0, state' \in 1..HeaderWords
             PROVE  \/ run' < state'
                    \/ /\ last'.place + 1 >= state'
                       /\ last'.place + 1 <= HeaderWords + state'
  BY DEF BeganAtFlag
<1>1. last' = w /\ run' \in Nat BY Lengths DEF Counts
<1>2. w.place \in 0..EndPlace BY Fields
<1>3. CASE state = 0
  <2>1. Value(w) = "FFF0" /\ state' = 1 BY <1>3, Lengths DEF Decodes
  <2>2. w.place <= HeaderWords BY <2>1, Looks
  <2> QED BY <1>1, <1>2, <2>1, <2>2, Lengths
<1>4. CASE state \in 1..HeaderWords
  <2>1. state' = state + 1 BY <1>4, Lengths DEF Decodes
  <2>2. CASE run' <= 1 BY <1>1, <1>4, <2>1, <2>2, Lengths
  <2>3. CASE run' > 1
    <3>1. /\ run \in Nat /\ run > 0 /\ run' <= run + 1 /\ last.place \in Nat
          /\ last.place # EndPlace => w.place = last.place + 1
      BY <2>3, Follows
    <3>2. \/ run < state
          \/ last.place + 1 >= state /\ last.place + 1 <= HeaderWords + state
      BY <1>4, <3>1 DEF BeganAtFlag
    <3>3. CASE run < state BY <1>1, <1>4, <2>1, <3>1, <3>3, Lengths
    <3>4. CASE last.place + 1 >= state /\ last.place + 1 <= HeaderWords + state
      <4>1. last.place # EndPlace BY <1>4, <3>1, <3>4, Lengths
      <4> QED BY <1>1, <1>4, <2>1, <3>1, <3>4, <4>1, Lengths
    <3> QED BY <3>2, <3>3, <3>4
  <2> QED BY <1>1, <2>2, <2>3
<1>5. CASE state = SamplesState
  <2>1. state' = 0 \/ state' = SamplesState BY <1>5, Lengths DEF Decodes
  <2> QED BY <2>1, Lengths
<1>6. state = 0 \/ state \in 1..HeaderWords \/ state = SamplesState
  BY DEF Decodes
<1> QED BY <1>3, <1>4, <1>5, <1>6

(* Nothing is begun before the first word of the header, and the next word *)
(* of a packet makes what is begun longer.                                 *)
LEMMA BegunEmpty == \A p : Begun(p, 0) = << >>
BY EmptySeq DEF Begun

(* The next word of a packet makes what is begun of it longer.             *)
LEMMA BegunGrows ==
  ASSUME NEW w \in Word, w.place > 0
  PROVE  Append(Begun(w.packet, w.place - 1), w) = Begun(w.packet, w.place)
<1> DEFINE n == w.place
           p == w.packet
           v(k) == [packet |-> p, place |-> k]
<1>1. n \in Nat /\ n > 0 /\ w = v(n) BY Fields, Lengths
<1>2. PICK m \in Nat : n = m + 1
  <2>1. n - 1 \in Nat /\ n = (n - 1) + 1 BY <1>1
  <2> QED BY <2>1
<1>3. n - 1 = m BY <1>2
<1> HIDE DEF n, p, v
<1>4. Append([k \in 1..m |-> v(k)], v(m + 1)) = [k \in 1..m + 1 |-> v(k)]
  BY <1>2
<1> QED BY <1>1, <1>2, <1>3, <1>4 DEF Begun, n, p, v

(* At the end of a packet the decoder leaves a header or an event behind,  *)
(* unless it is in the header of an event it began before this run.        *)
LEMMA EndsInStep ==
  ASSUME DecoderTypes, BeganAtFlag, Samples >= HeaderWords,
         NEW w \in Word, Decodes(w), Counts(w), w.place = EndPlace, run' > HeaderWords
  PROVE  state' = 0
<1>1. run' > 1 BY Lengths DEF Counts
<1>2. /\ run \in Nat /\ run > 0 /\ run' <= run + 1 /\ last.place \in Nat
      /\ last.place # EndPlace => w.place = last.place + 1
      /\ last.place = EndPlace => w.place = 0
  BY <1>1, Follows
<1>3. last.place + 1 = EndPlace BY <1>2, Lengths
<1>4. state \notin 1..HeaderWords
  <2> SUFFICES ASSUME state \in 1..HeaderWords PROVE FALSE
    OBVIOUS
  <2>1. run' \in Nat BY Lengths DEF Counts
  <2>2. \/ run < state
        \/ last.place + 1 >= state /\ last.place + 1 <= HeaderWords + state
    BY <1>2 DEF BeganAtFlag
  <2> QED BY <1>2, <1>3, <2>1, <2>2, Lengths
<1>5. Value(w) = "FFFF" BY Looks
<1> QED BY <1>4, <1>5 DEF Decodes

(* A decoder that is in step stays so.                                     *)
LEMMA DecodeStays ==
  ASSUME DecoderTypes, RawAsState, StaysInStep, Samples >= HeaderWords,
         NEW w \in Word, Decodes(w), Counts(w), run' > HeaderWords + 1 + w.place
  PROVE  InStep'
<1>1. run' > 1 /\ run' \in Nat /\ last' = w
  <2>1. w.place \in Nat BY Fields, Lengths
  <2> QED BY <2>1, Lengths DEF Counts
<1>2. /\ run \in Nat /\ run > 0 /\ run' <= run + 1 /\ last.place \in Nat
      /\ w.place \in 0..EndPlace
      /\ last.place = EndPlace => w.place = 0
      /\ last.place # EndPlace => w.place = last.place + 1 /\ w.packet = last.packet
  BY <1>1, Follows
<1>3. CASE w.place = 0
  <2>1. last.place = EndPlace BY <1>2, <1>3
  <2>2. run > HeaderWords BY <1>1, <1>2, <1>3, Lengths
  <2>3. state = 0 BY <2>1, <2>2 DEF StaysInStep
  <2>4. Value(w) = "FFF0" BY <1>3, Looks
  <2>5. state' = 1 /\ raw' = << >> BY <2>3, <2>4, Lengths DEF Decodes
  <2>6. w.place # EndPlace /\ w.place < HeaderWords BY <1>3, Lengths
  <2> QED BY <1>1, <1>3, <2>5, <2>6, BegunEmpty DEF InStep
<1>4. CASE w.place > 0
  <2>1. last.place # EndPlace /\ w.place = last.place + 1 /\ w.packet = last.packet
    BY <1>2, <1>4
  <2>2. run > HeaderWords + 1 + last.place BY <1>1, <1>2, <2>1, Lengths
  <2>3. /\ state = IF last.place < HeaderWords THEN last.place + 1 ELSE SamplesState
        /\ raw = Begun(last.packet, last.place)
    BY <2>1, <2>2 DEF StaysInStep, InStep
  <2>4. raw = Begun(w.packet, w.place - 1)
    <3>1. last.place = w.place - 1 BY <1>2, <2>1
    <3> QED BY <2>1, <2>3, <3>1
  <2>5. Append(raw, w) = Begun(w.packet, w.place) BY <1>4, <2>4, BegunGrows
  <2>6. CASE w.place <= HeaderWords
    <3>1. state = w.place /\ state \in 1..HeaderWords
      BY <1>2, <1>4, <2>1, <2>3, <2>6, Lengths
    <3>2. state' = w.place + 1 /\ raw' = Append(raw, w)
      BY <3>1, Lengths DEF Decodes
    <3>3. state' = IF w.place < HeaderWords THEN w.place + 1 ELSE SamplesState
      BY <1>2, <2>6, <3>2, Lengths, SMTT(30)
    <3>4. w.place # EndPlace BY <2>6, Lengths
    <3> QED BY <1>1, <2>5, <3>2, <3>3, <3>4 DEF InStep
  <2>7. CASE w.place > HeaderWords /\ w.place # EndPlace
    <3>1. state = SamplesState BY <1>2, <2>1, <2>3, <2>7, Lengths
    <3>2. Value(w) # "FFFF" BY <2>7, Looks
    <3>3. Len(raw) - HeaderWords < MaxWaveform
      <4>1. Len(raw) = last.place BY <1>2, <2>3 DEF Begun
      <4>2. last.place < HeaderWords + MaxWaveform BY <1>2, <2>1, <2>7, Lengths
      <4>3. last.place >= HeaderWords BY <1>2, <2>1, <2>7, Lengths
      <4> QED BY <1>2, <4>1, <4>2, <4>3, Lengths
    <3>4. state' = SamplesState /\ raw' = Append(raw, w)
      BY <3>1, <3>2, <3>3, Lengths DEF Decodes
    <3>5. ~(w.place < HeaderWords) BY <1>2, <2>7, Lengths
    <3> QED BY <1>1, <2>5, <2>7, <3>4, <3>5 DEF InStep
  <2>8. CASE w.place = EndPlace
    <3>1. state = SamplesState BY <1>2, <2>1, <2>3, <2>8, Lengths
    <3>2. Value(w) = "FFFF" BY <2>8, Looks
    <3>3. state' = 0 /\ events' = Append(events, raw)
      BY <3>1, <3>2, Lengths DEF Decodes
    <3>4. raw = Packet(w.packet)
      <4>1. last.place = HeaderWords + Samples BY <1>2, <2>1, <2>8, Lengths
      <4> QED BY <2>1, <2>3, <4>1 DEF Begun, Packet
    <3>5. events' # << >> /\ events'[Len(events')] = raw
      <4>1. events \in Seq(Seq(Word)) /\ raw \in Seq(Word) BY DEF DecoderTypes
      <4>2. /\ Len(events') = Len(events) + 1 /\ Len(events) \in Nat
            /\ events'[Len(events) + 1] = raw
        BY <3>3, <4>1, AppendProperties, LenProperties
      <4> QED BY <4>2
    <3> QED BY <1>1, <2>8, <3>3, <3>4, <3>5 DEF InStep, Packet, EndPlace
  <2> QED BY <2>6, <2>7, <2>8, <1>2, Lengths
<1> QED BY <1>2, <1>3, <1>4, Lengths

(* A word is decoded.                                                      *)
LEMMA DecodeWordIInv == IInv /\ DecodeWord => IInv'
<1> SUFFICES ASSUME IInv, DecodeWord PROVE IInv'
  OBVIOUS
<1> DEFINE w == Head(reply)
<1>1. /\ w \in Word /\ Decodes(w) /\ Counts(w)
      /\ reply' \in Seq(Word) /\ Len(reply') = Len(reply) - 1 /\ Len(reply) \in Nat
      /\ pc' = pc /\ UNCHANGED <<board, want, trial, faults>>
  BY DecodeParts
<1> HIDE DEF w
<1>2. DecoderTypes' /\ RawAsState' BY <1>1, DecodeTypes DEF IInv
<1>3. BeganAtFlag' BY <1>1, DecodeBegan DEF IInv
<1>4. StaysInStep'
  <2> SUFFICES ASSUME Samples >= HeaderWords
               PROVE  /\ last'.place = EndPlace /\ run' > HeaderWords => state' = 0
                      /\ run' > HeaderWords + 1 + last'.place => InStep'
    BY DEF StaysInStep
  <2>1. last' = w BY <1>1 DEF Counts
  <2>2. w.place = EndPlace /\ run' > HeaderWords => state' = 0
    BY <1>1, EndsInStep DEF IInv
  <2>3. run' > HeaderWords + 1 + w.place => InStep' BY <1>1, DecodeStays DEF IInv
  <2> QED BY <2>1, <2>2, <2>3
<1>5. BoardTypes' /\ FifoInOrder' BY <1>1 DEF board, IInv, BoardTypes, FifoInOrder
<1>6. ReadTypes' BY <1>1 DEF IInv, ReadTypes
<1>7. ReadsAWord' BY DEF DecodeWord, ReadsAWord
<1> QED BY <1>2, <1>3, <1>4, <1>5, <1>6, <1>7 DEF IInv

-----------------------------------------------------------------------------
(* The theorems.                                                           *)

(* Every step keeps the invariant.                                         *)
LEMMA StepIInv == IInv /\ [Next]_vars => IInv'
<1> SUFFICES ASSUME IInv, [Next]_vars PROVE IInv'
  OBVIOUS
<1>1. CASE WriteWord BY <1>1, WriteWordIInv
<1>2. CASE SendWord BY <1>2, SendWordIInv
<1>3. CASE ReadDataCount BY <1>3, ReadDataCountIInv
<1>4. CASE ReplyArrives \/ Retry \/ Decoded BY <1>4, ReplyIInv
<1>5. CASE DecodeWord BY <1>5, DecodeWordIInv
<1>6. CASE NewDecoder BY <1>6, NewDecoderIInv
<1>7. CASE UNCHANGED vars
  <2>1. DecoderInv' BY <1>7, DecoderAlone DEF vars, IInv, DecoderInv
  <2>2. BoardTypes' /\ FifoInOrder' BY <1>7 DEF vars, board, IInv, BoardTypes, FifoInOrder
  <2>3. ReadTypes' BY <1>7 DEF vars, IInv, ReadTypes
  <2>4. ReadsAWord' BY <1>7 DEF vars, board, IInv, ReadsAWord
  <2> QED BY <2>1, <2>2, <2>3, <2>4 DEF IInv, DecoderInv
<1> QED BY <1>1, <1>2, <1>3, <1>4, <1>5, <1>6, <1>7 DEF Next

(* The inductive invariant holds.                                          *)
THEOREM Invariance == Spec => []IInv
BY InitIInv, StepIInv, PTL DEF Spec

(* Every variable has its type; the words of a read and of an event are    *)
(* always words of the board, however often a read is repeated.            *)
THEOREM TypeCorrect == Spec => []TypeOK
<1>1. IInv => TypeOK
  BY DEF IInv, BoardTypes, ReadTypes, DecoderTypes, RawAsState, TypeOK
<1> QED BY <1>1, Invariance, PTL

(* Once a whole packet has passed in stream order, the decoder is in step  *)
(* with the packets again, whatever was lost, repeated or misread before.  *)
THEOREM BackInStep == Spec => []InStepAfterOnePacket
<1>1. IInv => InStepAfterOnePacket
  <2> SUFFICES ASSUME IInv, Samples >= HeaderWords, run = Settled, last.place = EndPlace
               PROVE  events # << >> /\ events[Len(events)] = Packet(last.packet)
    BY DEF InStepAfterOnePacket
  <2>1. run > HeaderWords + 1 + last.place BY Lengths
  <2>2. InStep BY <2>1 DEF IInv, StaysInStep
  <2> QED BY <2>2 DEF InStep
<1> QED BY <1>1, Invariance, PTL
-----------------------------------------------------------------------------
(* The order of the words on their way: those of the event under           *)
(* construction, those of the reply, the one that was read last, and the   *)
(* one at the read port.                                                   *)

(* No word that is still to be decoded comes before the position n, and    *)
(* neither does the word the board would repeat.                           *)
NotAhead(n) ==
  /\ n <= Position(dout)
  /\ \A j \in 1..Len(reply) : n <= Position(reply[j])

ReadInOrder ==
  /\ \A j \in 1..Len(reply) :
       reply[j].packet <= Packets /\ Position(reply[j]) <= Position(dout)
  /\ \A i, j \in 1..Len(reply) : i <= j => Position(reply[i]) <= Position(reply[j])
  /\ Position(dout) < Position(head)
  /\ dout.packet <= Packets

RawInOrder == \A i \in 1..Len(raw) : NotAhead(Position(raw[i]))

(* A packet that was delivered is behind every word still to come.         *)
LastOf(p) == [packet |-> p, place |-> HeaderWords + Samples]
EventsInOrder ==
  \A k \in 1..Len(events), p \in 1..Packets : events[k] = Packet(p) =>
    /\ NotAhead(Position(LastOf(p)))
    /\ state # 0 =>
         \A i \in 1..Len(raw) : Position(LastOf(p)) <= Position(raw[i])

OrderInv == ReadInOrder /\ RawInOrder /\ EventsInOrder

(* What a step may do to the words still to come.                          *)
Ahead == \A n \in Nat : NotAhead(n) => NotAhead(n)'

(* The words at the read port and read last have positions.                *)
LEMMA DoutPosition ==
  ASSUME BoardTypes
  PROVE  Position(dout) \in Nat /\ Position(head) \in Nat
<1>1. Position(head) \in Nat BY PositionNat DEF BoardTypes
<1>2. CASE dout \in Word BY <1>1, <1>2, PositionNat
<1>3. CASE dout = NoWord
  <2>1. Position(dout) = 0 * PacketWords + 0 BY <1>3, NotAWord DEF Position
  <2>2. 0 * PacketWords = 0 BY Lengths
  <2> QED BY <1>1, <2>1, <2>2
<1> QED BY <1>2, <1>3 DEF BoardTypes

(* The words of a reply have positions.                                    *)
LEMMA WordsHavePositions ==
  ASSUME NEW s \in Seq(Word), NEW j \in 1..Len(s)
  PROVE  s[j] \in Word /\ Position(s[j]) \in Nat
<1>1. s[j] \in Word BY ElementOfSeq
<1> QED BY <1>1, PositionNat

(* A reply that grows by a word that is not before the others.             *)
LEMMA SendInOrder ==
  ASSUME IInv, ReadInOrder, SendWord
  PROVE  ReadInOrder' /\ Ahead
<1> DEFINE w == IF count > 0 THEN head ELSE dout
<1>1. w \in Word /\ w.packet <= Packets /\ reply' = Append(reply, w) /\ dout' = w
  <2>1. CASE count > 0
    BY <2>1, HeadIsSent DEF SendWord, IInv, BoardTypes
  <2>2. CASE ~(count > 0)
    <3>1. count = 0 BY <2>2 DEF IInv, BoardTypes
    <3>2. want > 0 /\ (dout # NoWord \/ (reply = << >> /\ count >= want))
      BY DEF IInv, ReadsAWord, SendWord
    <3>3. dout # NoWord BY <3>1, <3>2 DEF IInv, ReadTypes
    <3> QED BY <2>2, <3>3 DEF IInv, BoardTypes, SendWord, ReadInOrder
  <2> QED BY <2>1, <2>2
<1>2. Position(dout) \in Nat /\ Position(head) \in Nat BY DoutPosition DEF IInv
<1>3. Position(w) >= Position(dout) /\ Position(w) \in Nat
  BY <1>2 DEF ReadInOrder
<1>4. Position(dout') < Position(head')
  <2>1. CASE count > 0
    <3>1. head' = Succ(head) /\ head \in Word /\ head.packet <= Packets
      BY <2>1, HeadIsSent DEF SendWord, IInv, BoardTypes
    <3>2. Position(Succ(head)) = Position(head) + 1 BY <3>1, SuccIsNext
    <3> QED BY <2>1, <3>1, <3>2, <1>1, <1>2
  <2>2. CASE ~(count > 0) BY <2>2 DEF SendWord, ReadInOrder
  <2> QED BY <2>1, <2>2
<1> HIDE DEF w
<1>5. /\ reply \in Seq(Word) /\ Len(reply) \in Nat /\ Len(reply') = Len(reply) + 1
      /\ \A j \in 1..Len(reply) : reply'[j] = reply[j]
      /\ reply'[Len(reply) + 1] = w
  BY <1>1, LenProperties, AppendProperties DEF IInv, ReadTypes
<1>6. \A j \in 1..Len(reply) :
        reply[j].packet <= Packets /\ Position(reply[j]) <= Position(dout)
        /\ Position(reply[j]) \in Nat
  BY <1>5, WordsHavePositions DEF ReadInOrder
<1>7. \A j \in 1..Len(reply') :
        \/ j \in 1..Len(reply) /\ reply'[j] = reply[j]
        \/ j = Len(reply) + 1 /\ reply'[j] = w
  BY <1>5
<1>8. ReadInOrder'
  <2>1. \A j \in 1..Len(reply') :
          reply'[j].packet <= Packets /\ Position(reply'[j]) <= Position(dout')
    <3> SUFFICES ASSUME NEW j \in 1..Len(reply')
                 PROVE  reply'[j].packet <= Packets /\ Position(reply'[j]) <= Position(w)
      BY <1>1
    <3>1. CASE j \in 1..Len(reply) /\ reply'[j] = reply[j]
      <4>1. /\ reply[j].packet <= Packets /\ Position(reply[j]) <= Position(dout)
            /\ Position(reply[j]) \in Nat
        BY <3>1, <1>6
      <4>2. Position(reply[j]) <= Position(w) BY <4>1, <1>2, <1>3
      <4> QED BY <3>1, <4>1, <4>2
    <3>2. CASE j = Len(reply) + 1 /\ reply'[j] = w BY <3>2, <1>1, <1>3
    <3> QED BY <3>1, <3>2, <1>7
  <2>2. ASSUME NEW i \in 1..Len(reply'), NEW j \in 1..Len(reply'), i <= j
        PROVE  Position(reply'[i]) <= Position(reply'[j])
    <3>1. CASE j \in 1..Len(reply) /\ reply'[j] = reply[j]
      <4>1. i \in 1..Len(reply) BY <2>2, <3>1, <1>5
      <4>2. Position(reply[i]) <= Position(reply[j]) BY <2>2, <3>1, <4>1 DEF ReadInOrder
      <4> QED BY <3>1, <4>1, <4>2, <1>5
    <3>2. CASE j = Len(reply) + 1 /\ reply'[j] = w BY <3>2, <2>1, <1>1
    <3> QED BY <3>1, <3>2, <1>7
  <2>3. dout'.packet <= Packets BY <1>1
  <2> QED BY <2>1, <2>2, <2>3, <1>4 DEF ReadInOrder
<1>9. ASSUME NEW n \in Nat, NotAhead(n)
      PROVE  NotAhead(n)'
  <2>1. n <= Position(w) BY <1>9, <1>2, <1>3 DEF NotAhead
  <2>2. ASSUME NEW j \in 1..Len(reply')
        PROVE  n <= Position(reply'[j])
    BY <2>1, <1>7, <1>9 DEF NotAhead
  <2> QED BY <2>1, <2>2, <1>1 DEF NotAhead
<1> QED BY <1>8, <1>9 DEF Ahead

(* Every other step leaves the words of the reply, drops them all, or      *)
(* takes the first of them.                                                *)
LEMMA RestInOrder ==
  ASSUME IInv, ReadInOrder, UNCHANGED <<head, dout>>,
         \/ UNCHANGED reply
         \/ reply' = << >>
         \/ reply # << >> /\ reply' = Tail(reply)
  PROVE  ReadInOrder' /\ Ahead
<1>1. CASE UNCHANGED reply
  BY <1>1 DEF ReadInOrder, Ahead, NotAhead
<1>2. CASE reply' = << >>
  <2>1. Len(reply') = 0 BY <1>2
  <2>2. \A j \in 1..Len(reply') : FALSE BY <2>1
  <2> QED BY <2>2 DEF ReadInOrder, Ahead, NotAhead
<1>3. CASE reply # << >> /\ reply' = Tail(reply)
  <2>1. /\ reply \in Seq(Word) /\ Len(reply) \in Nat /\ Len(reply') = Len(reply) - 1
        /\ \A i \in 1..Len(reply') : reply'[i] = reply[i + 1]
    BY <1>3, HeadTailProperties, LenProperties DEF IInv, ReadTypes
  <2>2. \A i \in 1..Len(reply') : i + 1 \in 1..Len(reply) BY <2>1
  <2>3. ReadInOrder'
    <3>1. \A i \in 1..Len(reply') :
            reply'[i].packet <= Packets /\ Position(reply'[i]) <= Position(dout')
      BY <2>1, <2>2 DEF ReadInOrder
    <3>2. ASSUME NEW i \in 1..Len(reply'), NEW j \in 1..Len(reply'), i <= j
          PROVE  Position(reply'[i]) <= Position(reply'[j])
      <4>1. i + 1 \in 1..Len(reply) /\ j + 1 \in 1..Len(reply) /\ i + 1 <= j + 1
        BY <2>1, <3>2
      <4>2. Position(reply[i + 1]) <= Position(reply[j + 1]) BY <4>1 DEF ReadInOrder
      <4> QED BY <2>1, <4>2
    <3> QED BY <3>1, <3>2 DEF ReadInOrder
  <2>4. ASSUME NEW n \in Nat, NotAhead(n)
        PROVE  NotAhead(n)'
    <3>1. \A i \in 1..Len(reply') : n <= Position(reply'[i])
      BY <2>1, <2>2, <2>4 DEF NotAhead
    <3> QED BY <2>4, <3>1 DEF NotAhead
  <2> QED BY <2>3, <2>4 DEF Ahead
<1> QED BY <1>1, <1>2, <1>3

(* No step changes the order of the words still to come.                   *)
LEMMA StepInOrder ==
  ASSUME IInv, ReadInOrder, [Next]_vars
  PROVE  ReadInOrder' /\ Ahead
<1>1. CASE SendWord BY <1>1, SendInOrder
<1>2. CASE ~SendWord
  <2>1. /\ UNCHANGED <<head, dout>>
        /\ \/ UNCHANGED reply
           \/ reply' = << >>
           \/ reply # << >> /\ reply' = Tail(reply)
    BY <1>2 DEF Next, vars, board, WriteWord, ReadDataCount, ReplyArrives, Retry,
                DecodeWord, Decoded, NewDecoder
  <2> QED BY <2>1, RestInOrder
<1> QED BY <1>1, <1>2

(* The last sample of a packet is a word, and it is where the packet says. *)
LEMMA PacketFacts ==
  ASSUME NEW p \in 1..Packets, Samples >= HeaderWords
  PROVE  /\ LastOf(p) \in Word /\ Position(LastOf(p)) \in Nat
         /\ Position(LastOf(p)) = p * PacketWords + HeaderWords + Samples
         /\ Len(Packet(p)) = HeaderWords + Samples /\ HeaderWords + Samples > 1
         /\ Packet(p)[1] = [packet |-> p, place |-> 1]
         /\ Packet(p)[HeaderWords + Samples] = LastOf(p)
<1>1. p \in 1..Packets + 1 /\ HeaderWords + Samples \in 0..EndPlace BY Lengths
<1>2. LastOf(p) \in Word BY <1>1 DEF LastOf, Word
<1>3. Position(LastOf(p)) \in Nat BY <1>2, PositionNat
<1>4. p * PacketWords \in Nat BY Products, Lengths
<1>5. Position(LastOf(p)) = p * PacketWords + HeaderWords + Samples
  BY <1>4, Lengths DEF Position, LastOf
<1>6. HeaderWords + Samples \in Nat /\ HeaderWords + Samples > 1 BY Lengths
<1>7. 1 \in 1..HeaderWords + Samples /\ HeaderWords + Samples \in 1..HeaderWords + Samples
  BY <1>6
<1> QED BY <1>2, <1>3, <1>5, <1>6, <1>7 DEF Packet, LastOf

(* An event with the words of a packet comes from a later packet than the  *)
(* events before it.                                                       *)
LEMMA LaterPacket ==
  ASSUME EventsInOrder, Samples >= HeaderWords, state # 0,
         NEW p \in 1..Packets, raw = Packet(p),
         NEW k \in 1..Len(events), NEW q \in 1..Packets, events[k] = Packet(q)
  PROVE  q < p
<1>1. 1 \in 1..Len(raw) /\ raw[1] = [packet |-> p, place |-> 1]
  BY PacketFacts
<1>2. Position(LastOf(q)) <= Position(raw[1]) BY <1>1 DEF EventsInOrder
<1>3. Position(raw[1]) = p * PacketWords + 1 BY <1>1 DEF Position
<1>4. /\ Position(LastOf(q)) = q * PacketWords + HeaderWords + Samples
      /\ HeaderWords + Samples > 1
  BY PacketFacts
<1>5. q >= p => q * PacketWords >= p * PacketWords BY Products, Lengths
<1>6. q * PacketWords \in Nat /\ p * PacketWords \in Nat BY Products, Lengths
<1> QED BY <1>2, <1>3, <1>4, <1>5, <1>6, Lengths

(* The decoder takes the words in order.                                   *)
LEMMA DecodeInOrder ==
  ASSUME IInv, OrderInv, Samples >= HeaderWords, DecodeWord, Ahead
  PROVE  RawInOrder' /\ EventsInOrder'
<1> DEFINE w == Head(reply)
<1>1. /\ w \in Word /\ Decodes(w) /\ Len(reply) \in Nat
      /\ 1 \in 1..Len(reply) /\ w = reply[1] /\ Position(w) \in Nat
  <2>1. w \in Word /\ Decodes(w) /\ Len(reply) \in Nat BY DecodeParts
  <2>2. reply # << >> /\ reply \in Seq(Word) BY DEF DecodeWord, IInv, ReadTypes
  <2>3. Len(reply) > 0 /\ w = reply[1] BY <2>2
  <2> QED BY <2>1, <2>3, PositionNat
<1> HIDE DEF w
<1>2. NotAhead(Position(w)) BY <1>1 DEF OrderInv, ReadInOrder, NotAhead
<1>3. /\ raw \in Seq(Word) /\ Len(raw) \in Nat
      /\ \A i \in 1..Len(raw) : raw[i] \in Word /\ Position(raw[i]) \in Nat
      /\ events \in Seq(Seq(Word)) /\ Len(events) \in Nat
  BY LenProperties, WordsHavePositions DEF IInv, DecoderTypes
<1>4. /\ Len(Append(raw, w)) = Len(raw) + 1
      /\ \A i \in 1..Len(raw) + 1 :
           \/ i \in 1..Len(raw) /\ Append(raw, w)[i] = raw[i]
           \/ i = Len(raw) + 1 /\ Append(raw, w)[i] = w
  BY <1>1, <1>3, AppendProperties
<1>5. raw' \in {<< >>, raw, Append(raw, w)} BY <1>1 DEF Decodes
<1>6. RawInOrder'
  <2> SUFFICES ASSUME NEW i \in 1..Len(raw') PROVE NotAhead(Position(raw[i]))'
    BY DEF RawInOrder
  <2>1. \/ i \in 1..Len(raw) /\ raw'[i] = raw[i]
        \/ raw'[i] = w
    <3>1. CASE raw' = << >> BY <3>1
    <3>2. CASE raw' = raw BY <3>2
    <3>3. CASE raw' = Append(raw, w) BY <3>3, <1>4
    <3> QED BY <3>1, <3>2, <3>3, <1>5
  <2>2. PICK n \in Nat : n = Position(raw'[i]) /\ NotAhead(n)
    BY <2>1, <1>1, <1>2, <1>3 DEF OrderInv, RawInOrder
  <2>3. NotAhead(n)' BY <2>2 DEF Ahead
  <2> QED BY <2>2, <2>3 DEF NotAhead
<1>7. ASSUME NEW k \in 1..Len(events), NEW p \in 1..Packets, events[k] = Packet(p)
      PROVE  /\ NotAhead(Position(LastOf(p)))'
             /\ state' # 0 =>
                  \A i \in 1..Len(raw') : Position(LastOf(p)) <= Position(raw'[i])
  <2> DEFINE n == Position(LastOf(p))
  <2>1. n \in Nat BY PacketFacts
  <2>2. /\ NotAhead(n)
        /\ state # 0 => \A i \in 1..Len(raw) : n <= Position(raw[i])
    BY <1>7 DEF OrderInv, EventsInOrder
  <2> HIDE DEF n
  <2>3. NotAhead(n)' BY <2>1, <2>2 DEF Ahead
  <2>4. ASSUME state' # 0, NEW i \in 1..Len(raw')
        PROVE  n <= Position(raw'[i])
    <3>1. \/ raw' = << >>
          \/ state # 0 /\ raw' = Append(raw, w)
      BY <1>1, <2>4, Lengths DEF Decodes
    <3>2. state # 0 /\ raw' = Append(raw, w) BY <3>1, <2>4
    <3>3. n <= Position(w) BY <2>2, <1>1 DEF NotAhead
    <3> QED BY <1>4, <2>2, <2>4, <3>2, <3>3
  <2> QED BY <2>3, <2>4 DEF n
<1>8. ASSUME events' = events PROVE EventsInOrder'
  BY <1>7, <1>8 DEF EventsInOrder
<1>9. ASSUME state # 0, state' = 0, events' = Append(events, raw)
      PROVE  EventsInOrder'
  <2>1. /\ Len(events') = Len(events) + 1
        /\ \A k \in 1..Len(events') :
             \/ k \in 1..Len(events) /\ events'[k] = events[k]
             \/ events'[k] = raw
    BY <1>3, <1>9, AppendProperties
  <2>2. ASSUME NEW k \in 1..Len(events'), NEW p \in 1..Packets, events'[k] = Packet(p)
        PROVE  NotAhead(Position(LastOf(p)))'
    <3>1. CASE k \in 1..Len(events) /\ events'[k] = events[k] BY <3>1, <2>2, <1>7
    <3>2. CASE events'[k] = raw
      <4> DEFINE n == Position(LastOf(p))
      <4>1. HeaderWords + Samples \in 1..Len(raw) /\ raw[HeaderWords + Samples] = LastOf(p)
        <5>1. raw = Packet(p) BY <3>2, <2>2
        <5>2. Len(raw) = HeaderWords + Samples /\ raw[HeaderWords + Samples] = LastOf(p)
          BY <5>1, PacketFacts
        <5> QED BY <5>2, Lengths
      <4>2. n \in Nat BY PacketFacts
      <4>3. NotAhead(n) BY <4>1 DEF OrderInv, RawInOrder
      <4> HIDE DEF n
      <4>4. NotAhead(n)' BY <4>2, <4>3 DEF Ahead
      <4> QED BY <4>4 DEF n
    <3> QED BY <3>1, <3>2, <2>1
  <2> QED BY <1>9, <2>2 DEF EventsInOrder
<1>10. \/ events' = events
       \/ state # 0 /\ state' = 0 /\ events' = Append(events, raw)
  BY <1>1, Lengths DEF Decodes
<1> QED BY <1>6, <1>8, <1>9, <1>10

(* The order is kept by every step.                                        *)
LEMMA StepOrder ==
  ASSUME IInv, OrderInv, Samples >= HeaderWords, [Next]_vars
  PROVE  OrderInv'
<1>1. ReadInOrder' /\ Ahead BY StepInOrder DEF OrderInv
<1>2. CASE DecodeWord BY <1>1, <1>2, DecodeInOrder DEF OrderInv
<1>3. CASE UNCHANGED <<state, raw, events>>
  <2>1. ASSUME NEW n \in Nat, NotAhead(n) PROVE NotAhead(n)'
    BY <1>1, <2>1 DEF Ahead
  <2>2. RawInOrder'
    <3> SUFFICES ASSUME NEW i \in 1..Len(raw) PROVE NotAhead(Position(raw[i]))'
      BY <1>3 DEF RawInOrder
    <3>1. PICK n \in Nat : n = Position(raw[i]) /\ NotAhead(n)
      BY WordsHavePositions DEF OrderInv, RawInOrder, IInv, DecoderTypes
    <3>2. NotAhead(n)' BY <2>1, <3>1
    <3> QED BY <1>3, <3>1, <3>2 DEF NotAhead
  <2>3. EventsInOrder'
    <3> SUFFICES ASSUME NEW k \in 1..Len(events), NEW p \in 1..Packets,
                        events[k] = Packet(p)
                 PROVE  /\ NotAhead(Position(LastOf(p)))'
                        /\ state # 0 =>
                             \A i \in 1..Len(raw) : Position(LastOf(p)) <= Position(raw[i])
      BY <1>3 DEF EventsInOrder
    <3>1. Position(LastOf(p)) \in Nat BY PacketFacts
    <3>2. /\ NotAhead(Position(LastOf(p)))
          /\ state # 0 =>
               \A i \in 1..Len(raw) : Position(LastOf(p)) <= Position(raw[i])
      BY DEF OrderInv, EventsInOrder
    <3> QED BY <2>1, <3>1, <3>2
  <2> QED BY <1>1, <2>2, <2>3 DEF OrderInv
<1>4. CASE NewDecoder
  <2>1. raw' = << >> /\ Len(raw') = 0 /\ state' = 0 /\ events' = events
    BY <1>4 DEF NewDecoder
  <2>2. RawInOrder' BY <2>1 DEF RawInOrder
  <2>3. EventsInOrder'
    <3> SUFFICES ASSUME NEW k \in 1..Len(events), NEW p \in 1..Packets,
                        events[k] = Packet(p)
                 PROVE  NotAhead(Position(LastOf(p)))'
      BY <2>1 DEF EventsInOrder
    <3>1. Position(LastOf(p)) \in Nat BY PacketFacts
    <3>2. NotAhead(Position(LastOf(p))) BY DEF OrderInv, EventsInOrder
    <3> QED BY <1>1, <3>1, <3>2 DEF Ahead
  <2> QED BY <1>1, <2>2, <2>3 DEF OrderInv
<1> QED BY <1>2, <1>3, <1>4
     DEF Next, vars, decoder, WriteWord, SendWord, ReadDataCount, ReplyArrives, Retry, Decoded

-----------------------------------------------------------------------------
(* The events that may still be damaged without another fault.             *)

(* The word to be decoded next.                                            *)
NextWord == IF reply = << >> THEN head ELSE Head(reply)

(* The words to be decoded follow each other without a gap or a            *)
(* repetition, those of the read that is under way included.               *)
Smooth ==
  /\ \A j \in 1..Len(reply) : IF j < Len(reply) THEN reply[j + 1] = Succ(reply[j])
                              ELSE head = Succ(reply[j])
  /\ pc = "read" => want <= Len(reply) + count

(* A decoder in state s with the words r meets the word w of a smooth      *)
(* stream: in step with it no further event is damaged; one is when the    *)
(* header began, or may yet begin, at a word that only looks like a start  *)
(* flag; and one before that if the samples began in front of a header.    *)
InStepNext(w, s, r) ==
  \/ s = 0 /\ (w.place = 0 \/ w.place > HeaderWords)
  \/ w.place > 0 /\ r = Begun(w.packet, w.place - 1) /\ s = Least(w.place, SamplesState)
OneMore(w, s) ==
  \/ s = 0
  \/ s \in 1..HeaderWords /\ s <= w.place /\ w.place <= s + Samples
  \/ s = SamplesState /\ w.place > HeaderWords
ToCome(w, s, r) == IF InStepNext(w, s, r) THEN 0 ELSE IF OneMore(w, s) THEN 1 ELSE 2

(* Words that repeat make events of any kind, but each takes a start flag, *)
(* a header and an end flag.                                               *)
InHand == IF pc = "read" THEN want ELSE Len(reply)
EventsIn(n) == n \div (HeaderWords + 2)
MayDamage == IF Smooth THEN ToCome(NextWord, state, raw)
             ELSE 2 + EventsIn(InHand + state)

DamagedSoFar == Cardinality({k \in 1..Len(events) : PacketOf(events[k]) = 0})
DamageBounded ==
  /\ pc = "count" => reply = << >>
  /\ DamagedSoFar + MayDamage <= DamagedPerFault * faults

(* Fewer words make no more events, and each event takes its words.        *)
LEMMA EventsOfWords ==
  ASSUME NEW n \in Nat
  PROVE  /\ EventsIn(n) \in Nat
         /\ \A m \in Nat : m <= n => EventsIn(m) <= EventsIn(n)
         /\ EventsIn(n + HeaderWords + 2) = EventsIn(n) + 1
<1> DEFINE d == HeaderWords + 2
<1>1. d \in Nat \ {0} BY Lengths
<1>2. n + HeaderWords + 2 = n + d BY Lengths
<1> HIDE DEF d
<1>3. n \div d \in Nat BY <1>1
<1>4. ASSUME NEW m \in Nat, m <= n PROVE m \div d <= n \div d BY <1>1, <1>4
<1>5. (n + d) \div d = (n \div d) + 1 BY <1>1
<1>6. \A m : EventsIn(m) = m \div d BY DEF EventsIn, d
<1> QED BY <1>2, <1>3, <1>4, <1>5, <1>6

(* A decoder in step with a smooth stream stays so, and its events are the *)
(* packets.                                                                *)
LEMMA StaysStepByStep ==
  ASSUME DecoderTypes, RawAsState, NEW w \in Word, w.packet <= Packets, Decodes(w),
         InStepNext(w, state, raw)
  PROVE  /\ InStepNext(Succ(w), state', raw')
         /\ events' = events \/ raw = Packet(w.packet)
<1>1. w.place \in 0..EndPlace /\ w.place \in Nat BY Fields, Lengths
<1>2. /\ w.place = EndPlace => Succ(w) = [packet |-> w.packet + 1, place |-> 0]
      /\ w.place # EndPlace => Succ(w) = [packet |-> w.packet, place |-> w.place + 1]
  BY DEF Succ
<1>3. CASE state = 0 /\ w.place = 0
  <2>1. state' = 1 /\ raw' = << >> /\ events' = events
    BY <1>3, Looks, Lengths DEF Decodes
  <2>2. Succ(w).packet = w.packet /\ Succ(w).place = 1 BY <1>2, <1>3, Lengths
  <2>3. Least(1, SamplesState) = 1 BY Lengths DEF Least
  <2> QED BY <2>1, <2>2, <2>3, BegunEmpty DEF InStepNext
<1>4. CASE state = 0 /\ w.place > HeaderWords
  <2>1. Value(w) # "FFF0" BY <1>1, <1>4, Looks, Lengths
  <2>2. state' = 0 /\ events' = events BY <2>1, <1>4, Lengths DEF Decodes
  <2>3. Succ(w).place = 0 \/ Succ(w).place > HeaderWords BY <1>1, <1>2, <1>4, Lengths
  <2> QED BY <2>2, <2>3 DEF InStepNext
<1>5. CASE w.place > 0 /\ raw = Begun(w.packet, w.place - 1)
           /\ state = Least(w.place, SamplesState)
  <2>1. Append(raw, w) = Begun(w.packet, w.place) BY <1>5, BegunGrows
  <2>2. CASE w.place <= HeaderWords
    <3>1. state = w.place /\ state \in 1..HeaderWords
      BY <1>1, <1>5, <2>2, Lengths DEF Least
    <3>2. state' = w.place + 1 /\ raw' = Append(raw, w) /\ events' = events
      BY <3>1, Lengths DEF Decodes
    <3>3. Succ(w).packet = w.packet /\ Succ(w).place = w.place + 1
      BY <1>2, <2>2, Lengths
    <3>4. Least(w.place + 1, SamplesState) = w.place + 1
      BY <1>1, <2>2, Lengths DEF Least
    <3>5. (w.place + 1) - 1 = w.place /\ w.place + 1 > 0 BY <1>1
    <3> QED BY <2>1, <3>2, <3>3, <3>4, <3>5 DEF InStepNext
  <2>3. CASE w.place > HeaderWords /\ w.place # EndPlace
    <3>1. state = SamplesState BY <1>1, <1>5, <2>3, Lengths DEF Least
    <3>2. Value(w) # "FFFF" BY <2>3, Looks
    <3>3. Len(raw) - HeaderWords < MaxWaveform
      <4>1. w.place - 1 \in Nat BY <1>1, <1>5
      <4>2. Len(raw) = w.place - 1 BY <4>1, <1>5 DEF Begun
      <4> QED BY <1>1, <2>3, <4>2, Lengths
    <3>4. state' = SamplesState /\ raw' = Append(raw, w) /\ events' = events
      BY <3>1, <3>2, <3>3, Lengths DEF Decodes
    <3>5. Succ(w).packet = w.packet /\ Succ(w).place = w.place + 1
      BY <1>2, <2>3
    <3>6. Least(w.place + 1, SamplesState) = SamplesState
      BY <1>1, <2>3, Lengths DEF Least
    <3>7. (w.place + 1) - 1 = w.place /\ w.place + 1 > 0 BY <1>1
    <3> QED BY <2>1, <3>4, <3>5, <3>6, <3>7 DEF InStepNext
  <2>4. CASE w.place = EndPlace
    <3>1. state = SamplesState BY <1>1, <1>5, <2>4, Lengths DEF Least
    <3>2. state' = 0 BY <2>4, <3>1, Looks, Lengths DEF Decodes
    <3>3. w.place - 1 = HeaderWords + Samples BY <2>4, Lengths
    <3>4. raw = Packet(w.packet) BY <1>5, <3>3 DEF Begun, Packet
    <3>5. Succ(w).place = 0 BY <1>2, <2>4
    <3> QED BY <3>2, <3>4, <3>5 DEF InStepNext
  <2> QED BY <1>1, <2>2, <2>3, <2>4, Lengths
<1> QED BY <1>3, <1>4, <1>5 DEF InStepNext

(* A decoder out of step damages at most one event in a smooth stream, and *)
(* is in step when it has.                                                 *)
LEMMA OneMoreAtMost ==
  ASSUME DecoderTypes, NEW w \in Word, w.packet <= Packets, Decodes(w),
         Samples >= HeaderWords, OneMore(w, state), ~InStepNext(w, state, raw)
  PROVE  /\ InStepNext(Succ(w), state', raw') \/ OneMore(Succ(w), state')
         /\ events' = events \/ InStepNext(Succ(w), state', raw')
<1>1. w.place \in 0..EndPlace /\ w.place \in Nat BY Fields, Lengths
<1>2. /\ w.place = EndPlace => Succ(w).place = 0
      /\ w.place # EndPlace => Succ(w).place = w.place + 1
  BY DEF Succ
<1>3. CASE state = 0
  <2>1. w.place \in 1..HeaderWords BY <1>1, <1>3, Lengths DEF InStepNext
  <2>2. state' \in {0, 1} /\ events' = events BY <1>3, Lengths DEF Decodes
  <2>3. Succ(w).place = w.place + 1 BY <1>2, <2>1, Lengths
  <2> QED BY <2>1, <2>2, <2>3, Lengths DEF OneMore
<1>4. CASE state \in 1..HeaderWords /\ state <= w.place /\ w.place <= state + Samples
  <2>1. state' = state + 1 /\ events' = events BY <1>4, Lengths DEF Decodes
  <2>2. w.place # EndPlace BY <1>1, <1>4, Lengths
  <2> QED BY <1>1, <1>2, <1>4, <2>1, <2>2, Lengths DEF OneMore
<1>5. CASE state = SamplesState /\ w.place > HeaderWords
  <2>1. CASE w.place = EndPlace
    <3>1. state' = 0 BY <1>5, <2>1, Looks, Lengths DEF Decodes
    <3> QED BY <1>2, <2>1, <3>1 DEF InStepNext
  <2>2. CASE w.place # EndPlace
    <3>1. Value(w) # "FFFF" BY <1>5, <2>2, Looks
    <3>2. state' \in {0, SamplesState} /\ events' = events
      BY <1>5, <3>1, Lengths DEF Decodes
    <3>3. Succ(w).place > HeaderWords BY <1>1, <1>2, <1>5, <2>2, Lengths
    <3> QED BY <3>2, <3>3 DEF OneMore
  <2> QED BY <2>1, <2>2
<1> QED BY <1>3, <1>4, <1>5 DEF OneMore

(* A word of a smooth stream decoded: a damaged event is one less to come. *)
LEMMA ToComeFalls ==
  ASSUME DecoderTypes, RawAsState, NEW w \in Word, w.packet <= Packets, Decodes(w),
         Samples >= HeaderWords
  PROVE  /\ ToCome(Succ(w), state', raw') <= ToCome(w, state, raw)
         /\ \/ events' = events
            \/ \E p \in 1..Packets : raw = Packet(p)
            \/ ToCome(Succ(w), state', raw') + 1 <= ToCome(w, state, raw)
<1>1. CASE InStepNext(w, state, raw)
  <2>1. /\ InStepNext(Succ(w), state', raw')
        /\ events' = events \/ raw = Packet(w.packet)
    BY <1>1, StaysStepByStep
  <2>2. w.packet \in 1..Packets BY Fields, Lengths
  <2> QED BY <1>1, <2>1, <2>2 DEF ToCome
<1>2. CASE ~InStepNext(w, state, raw) /\ OneMore(w, state)
  <2>1. /\ InStepNext(Succ(w), state', raw') \/ OneMore(Succ(w), state')
        /\ events' = events \/ InStepNext(Succ(w), state', raw')
    BY <1>2, OneMoreAtMost
  <2> QED BY <1>2, <2>1 DEF ToCome
<1>3. CASE ~InStepNext(w, state, raw) /\ ~OneMore(w, state)
  <2>1. events' = events \/ OneMore(Succ(w), state') BY DEF Decodes, OneMore
  <2> QED BY <1>3, <2>1 DEF ToCome
<1> QED BY <1>1, <1>2, <1>3

(* Sums are monotonic.                                                     *)
LEMMA Sums ==
  \A a, b, c, d \in Nat : a <= c /\ b <= d => a + b <= c + d /\ c + d \in Nat
OBVIOUS

(* How far off the end of the damage is, at the most: before a step, and   *)
(* after it.                                                               *)
LEMMA DamageFacts ==
  ASSUME NEW h \in Nat, NEW s \in Nat, NEW t \in 0..2,
         NEW d, d = t \/ d = 2 + EventsIn(h + s)
  PROVE  d \in Nat /\ \A n \in Nat : h + s <= n => d <= 2 + EventsIn(n)
<1>1. EventsIn(h + s) \in Nat BY EventsOfWords, SMTT(30)
<1>2. ASSUME NEW n \in Nat, h + s <= n PROVE d <= 2 + EventsIn(n)
  <2>1. EventsIn(n) \in Nat /\ EventsIn(h + s) <= EventsIn(n) BY <1>2, EventsOfWords, SMTT(30)
  <2> QED BY <1>1, <2>1
<1> QED BY <1>1, <1>2

(* What MayDamage is before a step.                                        *)
LEMMA AtMost ==
  ASSUME ReadTypes, DecoderTypes
  PROVE  /\ InHand \in Nat /\ InHand <= ReadWords
         /\ state \in Nat /\ state <= HeaderWords + 1
         /\ ToCome(NextWord, state, raw) \in 0..2
         /\ MayDamage \in Nat
         /\ Smooth => MayDamage = ToCome(NextWord, state, raw)
         /\ ~Smooth => MayDamage = 2 + EventsIn(InHand + state)
         /\ \A n \in Nat : InHand + state <= n => MayDamage <= 2 + EventsIn(n)
<1>1. Len(reply) \in Nat BY LenProperties DEF ReadTypes
<1>2. InHand \in Nat /\ InHand <= ReadWords BY <1>1, Lengths DEF ReadTypes, InHand
<1>3. state \in Nat /\ state <= HeaderWords + 1 BY Lengths DEF DecoderTypes
<1>4. ToCome(NextWord, state, raw) \in 0..2 BY DEF ToCome
<1>5. /\ Smooth => MayDamage = ToCome(NextWord, state, raw)
      /\ ~Smooth => MayDamage = 2 + EventsIn(InHand + state)
  BY DEF MayDamage
<1>6. /\ MayDamage \in Nat
      /\ \A n \in Nat : InHand + state <= n => MayDamage <= 2 + EventsIn(n)
  BY <1>2, <1>3, <1>4, <1>5, DamageFacts
<1> QED BY <1>2, <1>3, <1>4, <1>5, <1>6

(* And after it.                                                           *)
LEMMA AtMostNext ==
  ASSUME ReadTypes', DecoderTypes'
  PROVE  /\ InHand' \in Nat /\ InHand' <= ReadWords
         /\ state' \in Nat /\ state' <= HeaderWords + 1
         /\ ToCome(NextWord', state', raw') \in 0..2
         /\ MayDamage' \in Nat
         /\ Smooth' => MayDamage' = ToCome(NextWord', state', raw')
         /\ ~Smooth' => MayDamage' = 2 + EventsIn(InHand' + state')
         /\ \A n \in Nat : InHand' + state' <= n => MayDamage' <= 2 + EventsIn(n)
<1>1. Len(reply') \in Nat BY LenProperties DEF ReadTypes
<1>2. InHand' \in Nat /\ InHand' <= ReadWords BY <1>1, Lengths DEF ReadTypes, InHand
<1>3. state' \in Nat /\ state' <= HeaderWords + 1 BY Lengths DEF DecoderTypes
<1>4. ToCome(NextWord', state', raw') \in 0..2 BY DEF ToCome
<1>5. /\ Smooth' => MayDamage' = ToCome(NextWord', state', raw')
      /\ ~Smooth' => MayDamage' = 2 + EventsIn(InHand' + state')
  BY DEF MayDamage, ToCome, InStepNext, OneMore, EventsIn
<1>6. /\ MayDamage' \in Nat
      /\ \A n \in Nat : InHand' + state' <= n => MayDamage' <= 2 + EventsIn(n)
  BY <1>2, <1>3, <1>4, <1>5, DamageFacts
<1> QED BY <1>2, <1>3, <1>4, <1>5, <1>6

(* The decoder rests: the words in hand may become fewer, and a smooth     *)
(* stream stays one.                                                       *)
LEMMA RestDamage ==
  ASSUME ReadTypes, DecoderTypes, ReadTypes', DecoderTypes', UNCHANGED <<state, raw>>,
         Smooth => Smooth' /\ NextWord' = NextWord,
         ~Smooth => InHand' <= InHand
  PROVE  MayDamage' <= MayDamage
<1>1. /\ InHand \in Nat /\ state \in Nat /\ MayDamage \in Nat
      /\ Smooth => MayDamage = ToCome(NextWord, state, raw)
      /\ ~Smooth => MayDamage = 2 + EventsIn(InHand + state)
  BY AtMost
<1>2. /\ InHand' \in Nat
      /\ Smooth' => MayDamage' = ToCome(NextWord', state', raw')
      /\ \A n \in Nat : InHand' + state' <= n => MayDamage' <= 2 + EventsIn(n)
  BY AtMostNext
<1>3. CASE Smooth
  <2>1. ToCome(NextWord', state', raw') = ToCome(NextWord, state, raw)
    BY <1>3
  <2>2. ToCome(NextWord, state, raw) \in 0..2 BY AtMost
  <2> QED BY <1>1, <1>2, <1>3, <2>1, <2>2
<1>4. CASE ~Smooth
  <2>1. InHand' + state' <= InHand + state /\ InHand + state \in Nat
    <3> DEFINE a == InHand'
               b == InHand
    <3>1. a \in Nat /\ b \in Nat /\ a <= b /\ state' = state /\ state \in Nat
      BY <1>1, <1>2, <1>4
    <3> HIDE DEF a, b
    <3>2. a + state' <= b + state /\ b + state \in Nat BY <3>1
    <3> QED BY <3>2 DEF a, b
  <2>2. MayDamage' <= 2 + EventsIn(InHand + state) BY <1>2, <2>1
  <2> QED BY <1>1, <1>4, <2>2
<1> QED BY <1>3, <1>4

(* The steps of a read that is not tried again.                            *)
LEMMA ReadDamage ==
  ASSUME IInv, IInv', pc = "count" => reply = << >>,
         WriteWord \/ SendWord \/ ReadDataCount \/ ReplyArrives \/ Decoded
  PROVE  MayDamage' <= MayDamage
<1>1. /\ ReadTypes /\ DecoderTypes /\ ReadTypes' /\ DecoderTypes'
      /\ count \in Nat /\ Len(reply) \in Nat /\ want \in Nat /\ reply \in Seq(Word)
  BY LenProperties DEF IInv, BoardTypes, ReadTypes
<1>2. UNCHANGED <<state, raw>>
  BY DEF WriteWord, SendWord, ReadDataCount, ReplyArrives, Decoded, decoder
<1>3. CASE WriteWord
  <2>1. Smooth => Smooth' BY <1>1, <1>3 DEF WriteWord, Smooth
  <2>2. NextWord' = NextWord /\ InHand' = InHand BY <1>3 DEF WriteWord, NextWord, InHand
  <2>3. InHand \in Nat BY <1>1, AtMost
  <2> QED BY <1>1, <1>2, <2>1, <2>2, <2>3, RestDamage
<1>4. CASE SendWord
  <2>1. InHand' = InHand /\ InHand \in Nat BY <1>1, <1>4, AtMost DEF SendWord, InHand
  <2>2. ASSUME Smooth
        PROVE  Smooth' /\ NextWord' = NextWord
    <3>1. count > 0 BY <1>1, <1>4, <2>2 DEF SendWord, Smooth
    <3>2. /\ reply' = Append(reply, head) /\ head' = Succ(head) /\ count' = count - 1
          /\ pc' = pc /\ want' = want
      BY <1>4, <3>1 DEF SendWord
    <3>3. head \in Word BY DEF IInv, BoardTypes
    <3>4. /\ Len(reply') = Len(reply) + 1
          /\ \A j \in 1..Len(reply) : reply'[j] = reply[j]
          /\ reply'[Len(reply) + 1] = head
      BY <1>1, <3>2, <3>3, AppendProperties
    <3>5. ASSUME NEW j \in 1..Len(reply')
          PROVE  IF j < Len(reply') THEN reply'[j + 1] = Succ(reply'[j])
                                    ELSE head' = Succ(reply'[j])
      <4>1. CASE j = Len(reply) + 1 BY <4>1, <1>1, <3>2, <3>4
      <4>2. CASE j = Len(reply) /\ j # 0
        <5>1. j \in 1..Len(reply) /\ j < Len(reply') BY <4>2, <1>1, <3>4
        <5>2. head = Succ(reply[j]) BY <4>2, <5>1, <2>2, <1>1 DEF Smooth
        <5> QED BY <4>2, <5>1, <5>2, <3>4
      <4>3. CASE j < Len(reply)
        <5>1. j \in 1..Len(reply) /\ j + 1 \in 1..Len(reply) /\ j < Len(reply')
          BY <4>3, <1>1, <3>4
        <5>2. reply[j + 1] = Succ(reply[j]) BY <4>3, <5>1, <2>2 DEF Smooth
        <5> QED BY <5>1, <5>2, <3>4
      <4> QED BY <4>1, <4>2, <4>3, <1>1, <3>4
    <3>6. pc' = "read" => want' <= Len(reply') + count'
      BY <1>1, <2>2, <3>2, <3>4 DEF Smooth
    <3>7. NextWord' = NextWord
      <4>1. CASE reply = << >>
        <5>1. reply' = << head >> BY <4>1, <3>2
        <5>2. Head(reply') = head /\ reply' # << >> BY <5>1
        <5> QED BY <4>1, <5>2 DEF NextWord
      <4>2. CASE reply # << >>
        <5>1. 1 \in 1..Len(reply) /\ Head(reply) = reply[1] BY <4>2, <1>1
        <5>2. reply' # << >> /\ Head(reply') = reply'[1]
          <6>1. reply' \in Seq(Word) BY <1>1 DEF ReadTypes
          <6>2. Len(reply') > 0 BY <1>1, <3>4
          <6> QED BY <6>1, <6>2
        <5> QED BY <4>2, <5>1, <5>2, <3>4 DEF NextWord
      <4> QED BY <4>1, <4>2
    <3> QED BY <3>5, <3>6, <3>7 DEF Smooth
  <2> QED BY <1>1, <1>2, <2>1, <2>2, RestDamage
<1>5. CASE ReadDataCount \/ Decoded
  <2>1. /\ reply = << >> /\ reply' = << >> /\ pc # "read" /\ head' = head
        /\ pc' = "read" => want' <= count' /\ count' \in Nat /\ want' \in Nat
    <3>1. CASE ReadDataCount
      BY <1>1, <3>1 DEF ReadDataCount, board, SizeOfRead, Least, IInv, BoardTypes
    <3>2. CASE Decoded BY <3>2 DEF Decoded, board
    <3> QED BY <1>5, <3>1, <3>2
  <2>2. Len(reply) = 0 /\ Len(reply') = 0 BY <2>1
  <2>3. Smooth /\ Smooth' BY <2>1, <2>2 DEF Smooth
  <2>4. NextWord' = NextWord BY <2>1 DEF NextWord
  <2> QED BY <1>1, <1>2, <2>3, <2>4, RestDamage
<1>6. CASE ReplyArrives
  <2>1. NextWord' = NextWord BY <1>6 DEF ReplyArrives, board, NextWord
  <2>2. InHand' = InHand /\ InHand \in Nat BY <1>1, <1>6, AtMost DEF ReplyArrives, InHand
  <2>3. Smooth => Smooth' BY <1>6 DEF ReplyArrives, board, Smooth
  <2> QED BY <1>1, <1>2, <2>1, <2>2, <2>3, RestDamage
<1> QED BY <1>3, <1>4, <1>5, <1>6

(* A fault: the words of one read may repeat, or a new decoder begins.     *)
LEMMA FaultDamage ==
  ASSUME IInv, IInv', Retry \/ NewDecoder
  PROVE  MayDamage' <= DamagedPerFault
<1> DEFINE n == ReadWords + HeaderWords + 1
<1>1. n \in Nat /\ DamagedPerFault = 2 + EventsIn(n)
  BY Lengths DEF DamagedPerFault, EventsIn
<1>2. /\ InHand' \in Nat /\ InHand' <= ReadWords
      /\ state' \in Nat /\ state' <= HeaderWords + 1
      /\ \A m \in Nat : InHand' + state' <= m => MayDamage' <= 2 + EventsIn(m)
  <2>1. ReadTypes' /\ DecoderTypes' BY DEF IInv
  <2> QED BY <2>1, AtMostNext
<1>3. InHand' + state' <= n
  <2>1. HeaderWords + 1 \in Nat /\ ReadWords \in Nat BY Lengths
  <2>2. InHand' + state' <= ReadWords + (HeaderWords + 1) BY <1>2, <2>1, Sums
  <2>3. n = ReadWords + (HeaderWords + 1) BY <2>1
  <2> QED BY <2>2, <2>3
<1> HIDE DEF n
<1> QED BY <1>1, <1>2, <1>3

(* A word decoded.                                                         *)
LEMMA DecodeDamage ==
  ASSUME IInv, IInv', ReadInOrder, DecodeWord, Samples >= HeaderWords
  PROVE  /\ MayDamage' <= MayDamage
         /\ \/ events' = events
            \/ events' = Append(events, raw) /\ \E p \in 1..Packets : raw = Packet(p)
            \/ events' = Append(events, raw) /\ MayDamage' + 1 <= MayDamage
<1> DEFINE w == Head(reply)
<1>1. /\ w \in Word /\ Decodes(w) /\ Len(reply) \in Nat /\ reply' \in Seq(Word)
      /\ pc = "decode" /\ pc' = pc /\ UNCHANGED <<head, want, count>>
      /\ reply # << >> /\ reply \in Seq(Word) /\ Len(reply') = Len(reply) - 1
  BY DecodeParts DEF DecodeWord, board, IInv, ReadTypes
<1>2. /\ 1 \in 1..Len(reply) /\ w = reply[1] /\ NextWord = w /\ w.packet <= Packets
      /\ \A i \in 1..Len(reply') : reply'[i] = reply[i + 1]
  <2>1. Len(reply) > 0 /\ w = reply[1] BY <1>1
  <2>2. 1 \in 1..Len(reply) BY <2>1, <1>1
  <2>3. \A i \in 1..Len(reply') : reply'[i] = reply[i + 1]
    BY <1>1, HeadTailProperties DEF DecodeWord
  <2> QED BY <1>1, <2>1, <2>2, <2>3 DEF NextWord, ReadInOrder
<1> HIDE DEF w
<1>3. ReadTypes /\ DecoderTypes /\ RawAsState /\ ReadTypes' /\ DecoderTypes' BY DEF IInv
<1>4. \/ events' = events
      \/ events' = Append(events, raw) /\ state = SamplesState /\ state' = 0
  BY <1>1 DEF Decodes
<1>5. CASE Smooth
  <2>1. Smooth'
    <3>1. ASSUME NEW j \in 1..Len(reply')
          PROVE  IF j < Len(reply') THEN reply'[j + 1] = Succ(reply'[j])
                                    ELSE head' = Succ(reply'[j])
      <4>1. j + 1 \in 1..Len(reply) /\ reply'[j] = reply[j + 1] BY <1>1, <1>2
      <4>2. CASE j < Len(reply')
        <5>1. j + 1 \in 1..Len(reply') BY <4>2, <1>1
        <5>2. reply'[j + 1] = reply[(j + 1) + 1] /\ j + 1 < Len(reply)
          BY <5>1, <4>2, <1>1, <1>2
        <5> QED BY <4>1, <4>2, <5>2, <1>5 DEF Smooth
      <4>3. CASE ~(j < Len(reply'))
        <5>1. ~(j + 1 < Len(reply)) BY <4>3, <4>1, <1>1
        <5>2. head = Succ(reply[j + 1]) BY <5>1, <4>1, <1>5 DEF Smooth
        <5> QED BY <4>1, <4>3, <5>2, <1>1
      <4> QED BY <4>2, <4>3
    <3> QED BY <3>1, <1>1 DEF Smooth
  <2>2. NextWord' = Succ(w)
    <3>1. CASE Len(reply) = 1
      <4>1. Len(reply') = 0 BY <3>1, <1>1
      <4>2. reply' = << >> BY <4>1, <1>1
      <4>3. head = Succ(w) BY <3>1, <1>2, <1>5 DEF Smooth
      <4> QED BY <4>2, <4>3, <1>1 DEF NextWord
    <3>2. CASE Len(reply) > 1
      <4>1. Len(reply') > 0 /\ 1 \in 1..Len(reply') BY <3>2, <1>1
      <4>2. reply' # << >> /\ Head(reply') = reply'[1] BY <4>1, <1>1
      <4>3. reply'[1] = reply[1 + 1] BY <4>1, <1>2
      <4>4. reply[1 + 1] = Succ(reply[1]) BY <3>2, <1>2, <1>5 DEF Smooth
      <4> QED BY <4>2, <4>3, <4>4, <1>2 DEF NextWord
    <3> QED BY <3>1, <3>2, <1>1, <1>2
  <2>3. /\ MayDamage = ToCome(w, state, raw)
        /\ MayDamage' = ToCome(Succ(w), state', raw')
    <3>1. MayDamage = ToCome(w, state, raw) BY <1>2, <1>5 DEF MayDamage
    <3>2. MayDamage' = ToCome(NextWord', state', raw') BY <1>3, <2>1, AtMostNext
    <3> QED BY <3>1, <3>2, <2>2
  <2>4. /\ MayDamage' <= MayDamage
        /\ \/ events' = events
           \/ \E p \in 1..Packets : raw = Packet(p)
           \/ MayDamage' + 1 <= MayDamage
    BY <1>1, <1>2, <1>3, <2>3, ToComeFalls
  <2> QED BY <1>4, <2>4
<1>6. CASE ~Smooth
  <2> DEFINE n == InHand + state
             m == InHand' + state'
  <2>1. /\ InHand = Len(reply) /\ InHand' = Len(reply) - 1
        /\ state \in Nat /\ n \in Nat /\ state' \in Nat /\ InHand' \in Nat
        /\ MayDamage = 2 + EventsIn(n)
        /\ Smooth' => MayDamage' <= 2
        /\ ~Smooth' => MayDamage' = 2 + EventsIn(m)
        /\ EventsIn(n) \in Nat /\ MayDamage' \in Nat
    <3>1. InHand = Len(reply) /\ InHand' = Len(reply) - 1 BY <1>1 DEF InHand
    <3>2. /\ state \in Nat /\ InHand \in Nat /\ MayDamage = 2 + EventsIn(n)
      BY <1>3, <1>6, AtMost
    <3>3. /\ state' \in Nat /\ InHand' \in Nat /\ MayDamage' \in Nat
          /\ ToCome(NextWord', state', raw') \in 0..2
          /\ Smooth' => MayDamage' = ToCome(NextWord', state', raw')
          /\ ~Smooth' => MayDamage' = 2 + EventsIn(m)
      BY <1>3, AtMostNext
    <3>4. n \in Nat BY <3>2
    <3>5. EventsIn(n) \in Nat BY <3>4, EventsOfWords
    <3>6. Smooth' => MayDamage' <= 2 BY <3>3
    <3> QED BY <3>1, <3>2, <3>3, <3>4, <3>5, <3>6
  <2>2. m \in Nat BY <2>1
  <2>3. CASE events' = events
    <3>1. state' <= state + 1 BY <1>1, <2>1, Lengths DEF Decodes
    <3>2. m <= n BY <2>1, <3>1, <1>1
    <3>3. EventsIn(m) <= EventsIn(n) /\ EventsIn(m) \in Nat BY <2>1, <2>2, <3>2, EventsOfWords
    <3>4. MayDamage' <= MayDamage BY <2>1, <3>3, SMTT(30)
    <3> QED BY <2>3, <3>4
  <2>4. CASE events' = Append(events, raw) /\ state = SamplesState /\ state' = 0
    <3>1. n = m + HeaderWords + 2 BY <2>1, <2>4, <1>1, Lengths
    <3>2. EventsIn(n) = EventsIn(m) + 1 /\ EventsIn(m) \in Nat BY <2>2, <3>1, EventsOfWords
    <3>3. CASE ~Smooth' BY <2>1, <2>4, <3>2, <3>3, SMTT(30)
    <3>4. CASE Smooth'
      <4>1. MayDamage' <= 2 BY <2>1, <3>4
      <4>2. MayDamage = 2 + EventsIn(m) + 1 BY <2>1, <3>2
      <4>3. MayDamage' + 1 <= MayDamage /\ MayDamage' <= MayDamage
        BY <4>1, <4>2, <3>2, <2>1, SMTT(30)
      <4> QED BY <2>4, <4>3
    <3> QED BY <3>3, <3>4
  <2> QED BY <2>3, <2>4, <1>4
<1> QED BY <1>5, <1>6

-----------------------------------------------------------------------------
(* What the readout delivers.                                              *)

DamagedIn(s) == {k \in 1..Len(s) : PacketOf(s[k]) = 0}

(* A packet is known by its words.                                         *)
LEMMA PacketsKnown ==
  ASSUME NEW e
  PROVE  /\ PacketOf(e) \in 0..Packets
         /\ PacketOf(e) # 0 => e = Packet(PacketOf(e))
         /\ \A p \in 1..Packets : e = Packet(p) => PacketOf(e) = p
<1>1. CASE \E p \in 1..Packets : e = Packet(p)
  <2>1. PacketOf(e) \in 1..Packets /\ e = Packet(PacketOf(e))
    BY <1>1 DEF PacketOf
  <2>2. ASSUME NEW p \in 1..Packets, e = Packet(p) PROVE PacketOf(e) = p
    <3> DEFINE q == PacketOf(e)
    <3>1. q \in 1..Packets /\ Packet(q) = Packet(p) BY <2>1, <2>2
    <3> HIDE DEF q
    <3>2. 1 \in 1..HeaderWords + Samples BY Lengths
    <3>3. Packet(q)[1] = [packet |-> q, place |-> 1] BY <3>2 DEF Packet
    <3>4. Packet(p)[1] = [packet |-> p, place |-> 1] BY <3>2 DEF Packet
    <3>5. q = p BY <3>1, <3>3, <3>4
    <3> QED BY <3>5 DEF q
  <2> QED BY <2>1, <2>2
<1>2. CASE ~\E p \in 1..Packets : e = Packet(p) BY <1>2, Lengths DEF PacketOf
<1> QED BY <1>1, <1>2

(* One more event may be one more damaged one.                             *)
LEMMA DamagedAfter ==
  ASSUME NEW s \in Seq(Seq(Word)), NEW e \in Seq(Word)
  PROVE  /\ Cardinality(DamagedIn(s)) \in Nat
         /\ PacketOf(e) = 0 =>
              Cardinality(DamagedIn(Append(s, e))) = Cardinality(DamagedIn(s)) + 1
         /\ PacketOf(e) # 0 => DamagedIn(Append(s, e)) = DamagedIn(s)
<1>1. /\ Len(s) \in Nat /\ Len(Append(s, e)) = Len(s) + 1
      /\ \A k \in 1..Len(s) : Append(s, e)[k] = s[k]
      /\ Append(s, e)[Len(s) + 1] = e
  BY LenProperties, AppendProperties
<1>2. DamagedIn(s) \in SUBSET (1..Len(s)) BY DEF DamagedIn
<1>3. IsFiniteSet(1..Len(s)) BY <1>1, 1 \in Int, Len(s) \in Int, FS_Interval
<1>4. IsFiniteSet(DamagedIn(s)) BY <1>2, <1>3, FS_Subset
<1>5. Cardinality(DamagedIn(s)) \in Nat BY <1>4, FS_CardinalityType
<1>6. ASSUME PacketOf(e) = 0
      PROVE  DamagedIn(Append(s, e)) = DamagedIn(s) \cup {Len(s) + 1}
  BY <1>1, <1>6 DEF DamagedIn
<1>7. ASSUME PacketOf(e) # 0
      PROVE  DamagedIn(Append(s, e)) = DamagedIn(s)
  BY <1>1, <1>7 DEF DamagedIn
<1>8. Len(s) + 1 \notin DamagedIn(s) BY <1>1, <1>2
<1>9. Cardinality(DamagedIn(s) \cup {Len(s) + 1}) = Cardinality(DamagedIn(s)) + 1
  BY <1>4, <1>8, FS_AddElement
<1> QED BY <1>5, <1>6, <1>7, <1>9

(* Every fault allows for as many damaged events as the one before.        *)
LEMMA FaultsAllow ==
  ASSUME NEW f \in Nat
  PROVE  /\ DamagedPerFault \in Nat /\ DamagedPerFault * f \in Nat
         /\ DamagedPerFault * (f + 1) = DamagedPerFault * f + DamagedPerFault
<1>1. ReadWords + HeaderWords + 1 \in Nat BY Lengths
<1>2. EventsIn(ReadWords + HeaderWords + 1) \in Nat BY <1>1, EventsOfWords
<1>3. DamagedPerFault \in Nat BY <1>2 DEF DamagedPerFault, EventsIn
<1>4. ASSUME NEW c \in Nat PROVE c * f \in Nat /\ c * (f + 1) = c * f + c
  OBVIOUS
<1> QED BY <1>3, <1>4

(* No step makes the damage more than the faults allow.                    *)
LEMMA StepDamage ==
  ASSUME IInv, IInv', ReadInOrder, DamageBounded, Samples >= HeaderWords, [Next]_vars
  PROVE  DamageBounded'
<1>1. /\ events \in Seq(Seq(Word)) /\ raw \in Seq(Word) /\ faults \in Nat /\ faults' \in Nat
      /\ ReadTypes /\ DecoderTypes /\ ReadTypes' /\ DecoderTypes'
  BY DEF IInv, DecoderTypes, BoardTypes
<1> DEFINE d == Cardinality(DamagedIn(events))
           b == DamagedPerFault * faults
           m == MayDamage
           n == MayDamage'
<1>2. d \in Nat /\ DamagedSoFar = d /\ d + m <= b /\ (pc = "count" => reply = << >>)
  BY <1>1, DamagedAfter DEF DamageBounded, DamagedSoFar, DamagedIn
<1>3. m \in Nat /\ n \in Nat
  <2>1. m \in Nat BY <1>1, AtMost
  <2>2. n \in Nat BY <1>1, AtMostNext
  <2> QED BY <2>1, <2>2
<1>4. b \in Nat /\ DamagedPerFault \in Nat BY <1>1, FaultsAllow
<1>5. DamagedSoFar' = Cardinality(DamagedIn(events')) BY DEF DamagedSoFar, DamagedIn
<1>6. pc' = "count" => reply' = << >>
  BY <1>2 DEF Next, vars, board, WriteWord, SendWord, ReadDataCount, ReplyArrives, Retry,
              DecodeWord, Decoded, NewDecoder
<1> HIDE DEF d, m, n, b
<1>7. CASE WriteWord \/ SendWord \/ ReadDataCount \/ ReplyArrives \/ Decoded
  <2>1. n <= m BY <1>2, <1>7, ReadDamage DEF m, n
  <2>2. events' = events /\ faults' = faults
    BY <1>7 DEF WriteWord, SendWord, ReadDataCount, ReplyArrives, Decoded, decoder
  <2>3. d + n <= b BY <1>2, <1>3, <1>4, <2>1
  <2> QED BY <1>5, <1>6, <2>2, <2>3 DEF DamageBounded, d, n, b
<1>8. CASE Retry \/ NewDecoder
  <2>1. n <= DamagedPerFault BY <1>8, FaultDamage DEF n
  <2>2. events' = events /\ faults' = faults + 1
    BY <1>8 DEF Retry, NewDecoder, decoder
  <2>3. DamagedPerFault * faults' = b + DamagedPerFault
    BY <1>1, <2>2, FaultsAllow DEF b
  <2>4. d + n <= b + DamagedPerFault BY <1>2, <1>3, <1>4, <2>1
  <2> QED BY <1>5, <1>6, <2>2, <2>3, <2>4 DEF DamageBounded, d, n
<1>9. CASE DecodeWord
  <2>1. /\ n <= m
        /\ \/ events' = events
           \/ events' = Append(events, raw) /\ \E p \in 1..Packets : raw = Packet(p)
           \/ events' = Append(events, raw) /\ n + 1 <= m
    BY <1>9, DecodeDamage DEF m, n
  <2>2. faults' = faults BY <1>9 DEF DecodeWord
  <2>3. Cardinality(DamagedIn(events')) + n <= b
    <3>1. CASE events' = events
      <4>1. d + n <= b BY <1>2, <1>3, <1>4, <2>1
      <4> QED BY <3>1, <4>1 DEF d
    <3>2. CASE events' = Append(events, raw) /\ \E p \in 1..Packets : raw = Packet(p)
      <4>1. PacketOf(raw) # 0 BY <3>2, PacketsKnown
      <4>2. DamagedIn(events') = DamagedIn(events) BY <1>1, <3>2, <4>1, DamagedAfter
      <4>3. d + n <= b BY <1>2, <1>3, <1>4, <2>1
      <4> QED BY <4>2, <4>3 DEF d
    <3>3. CASE events' = Append(events, raw) /\ n + 1 <= m
      <4>1. CASE PacketOf(raw) = 0
        <5>1. Cardinality(DamagedIn(events')) = d + 1
          BY <1>1, <3>3, <4>1, DamagedAfter DEF d
        <5> QED BY <5>1, <1>2, <1>3, <1>4, <3>3
      <4>2. CASE PacketOf(raw) # 0
        <5>1. DamagedIn(events') = DamagedIn(events) BY <1>1, <3>3, <4>2, DamagedAfter
        <5>2. d + n <= b BY <1>2, <1>3, <1>4, <2>1
        <5> QED BY <5>1, <5>2 DEF d
      <4> QED BY <4>1, <4>2
    <3> QED BY <2>1, <3>1, <3>2, <3>3
  <2> QED BY <1>5, <1>6, <2>2, <2>3 DEF DamageBounded, n, b
<1>10. CASE UNCHANGED vars
  <2>1. n = m
    BY <1>10 DEF n, m, MayDamage, Smooth, NextWord, InHand, ToCome, InStepNext, OneMore,
                 vars, board, decoder
  <2>2. events' = events /\ faults' = faults BY <1>10 DEF vars, decoder
  <2>3. d + n <= b BY <1>2, <2>1
  <2> QED BY <1>5, <1>6, <2>2, <2>3 DEF DamageBounded, d, n, b
<1> QED BY <1>7, <1>8, <1>9, <1>10 DEF Next

-----------------------------------------------------------------------------
(* The readout implements EventDelivery.                                   *)

Delivered == [k \in 1..Len(events) |-> PacketOf(events[k])]

(* An event decoded is delivered last.                                     *)
LEMMA DeliveredNext ==
  ASSUME DecoderTypes, events' = Append(events, raw)
  PROVE  /\ Delivered' = Append(Delivered, PacketOf(raw))
         /\ Len(Delivered) = Len(events)
<1> DEFINE v(k) == PacketOf(events'[k])
<1>1. /\ Len(events) \in Nat /\ Len(events') = Len(events) + 1
      /\ \A k \in 1..Len(events) : events'[k] = events[k]
      /\ events'[Len(events) + 1] = raw
  BY LenProperties, AppendProperties DEF DecoderTypes
<1>2. Delivered = [k \in 1..Len(events) |-> v(k)] BY <1>1 DEF Delivered
<1>3. Delivered' = [k \in 1..Len(events) + 1 |-> v(k)] BY <1>1 DEF Delivered
<1>4. v(Len(events) + 1) = PacketOf(raw) BY <1>1
<1> HIDE DEF v
<1>5. PICK n \in Nat : n = Len(events) BY <1>1
<1>6. Append([k \in 1..n |-> v(k)], v(n + 1)) = [k \in 1..n + 1 |-> v(k)]
  OBVIOUS
<1>7. Len([k \in 1..n |-> v(k)]) = n OBVIOUS
<1> QED BY <1>2, <1>3, <1>4, <1>5, <1>6, <1>7

(* A fault is a Mishap, an event with the words of a packet is Intact, any *)
(* other event is Garble, and every other step changes nothing.            *)
LEMMA StepDelivers ==
  ASSUME IInv, OrderInv, DamageBounded', IInv', Samples >= HeaderWords, [Next]_vars
  PROVE  [Delivery!Next]_<<Delivered, faults>>
<1>1. /\ events \in Seq(Seq(Word)) /\ raw \in Seq(Word)
      /\ Len(events) \in Nat /\ DecoderTypes
  BY LenProperties DEF IInv, DecoderTypes
<1>2. CASE UNCHANGED <<events, faults>>
  BY <1>2 DEF Delivered
<1>3. CASE Retry \/ NewDecoder
  <2>1. events' = events /\ faults' = faults + 1 BY <1>3 DEF Retry, NewDecoder, decoder
  <2>2. Delivery!Mishap BY <2>1 DEF Delivery!Mishap
  <2> QED BY <2>2 DEF Delivery!Next, Delivered
<1>4. CASE DecodeWord /\ events' # events
  <2>1. /\ events' = Append(events, raw) /\ state # 0 /\ faults' = faults
    <3>1. Decodes(Head(reply)) BY <1>4, DecodeParts
    <3> QED BY <1>4, <3>1, Lengths DEF Decodes, DecodeWord
  <2>2. /\ Delivered' = Append(Delivered, PacketOf(raw))
        /\ Len(Delivered) = Len(events)
    BY <1>1, <2>1, DeliveredNext
  <2>3. CASE PacketOf(raw) # 0
    <3> DEFINE p == PacketOf(raw)
    <3>1. p \in 1..Packets /\ raw = Packet(p)
      <4>1. p \in 0..Packets /\ p # 0 /\ raw = Packet(p) BY <2>3, PacketsKnown
      <4> QED BY <4>1, Lengths
    <3>2. ASSUME NEW k \in 1..Len(events) PROVE Delivered[k] < p
      <4> DEFINE q == PacketOf(events[k])
      <4>1. Delivered[k] = q BY DEF Delivered
      <4>2. q \in 0..Packets /\ (q # 0 => events[k] = Packet(q)) BY PacketsKnown
      <4> HIDE DEF p, q
      <4>3. CASE q = 0 BY <3>1, <4>1, <4>3
      <4>4. CASE q # 0
        <5>1. q \in 1..Packets /\ events[k] = Packet(q) BY <4>2, <4>4, Lengths
        <5>2. q < p BY <2>1, <3>1, <5>1, LaterPacket DEF OrderInv
        <5> QED BY <4>1, <5>2
      <4> QED BY <4>3, <4>4
    <3>3. Delivery!Intact(p)
      BY <2>1, <2>2, <3>2 DEF Delivery!Intact, Delivered
    <3> HIDE DEF p
    <3> QED BY <3>1, <3>3 DEF Delivery!Next, Delivered
  <2>4. CASE PacketOf(raw) = 0
    <3>1. Cardinality(DamagedIn(events')) = Cardinality(DamagedIn(events)) + 1
          /\ Cardinality(DamagedIn(events)) \in Nat
      BY <1>1, <2>1, <2>4, DamagedAfter
    <3>2. DamagedSoFar' + MayDamage' <= DamagedPerFault * faults
      BY <2>1 DEF DamageBounded
    <3>3. DamagedSoFar' = Cardinality(DamagedIn(events')) BY DEF DamagedSoFar, DamagedIn
    <3>4. MayDamage' \in Nat BY AtMostNext DEF IInv
    <3>5. DamagedPerFault * faults \in Nat
      <4>1. faults \in Nat BY DEF IInv, BoardTypes
      <4> QED BY <4>1, FaultsAllow
    <3>6. Cardinality(DamagedIn(events)) < DamagedPerFault * faults
      BY <3>1, <3>2, <3>3, <3>4, <3>5
    <3>7. {k \in 1..Len(Delivered) : Delivered[k] = 0} = DamagedIn(events)
      BY <2>2 DEF Delivered, DamagedIn
    <3>8. ASSUME NEW S PROVE Delivery!Cardinality(S) = Cardinality(S)
      BY DEF Delivery!Cardinality, Cardinality
    <3>9. Delivery!Cardinality({k \in 1..Len(Delivered) : Delivered[k] = 0})
            < DamagedPerFault * faults
      BY <3>6, <3>7, <3>8
    <3>10. Delivery!Garble
      BY <2>1, <2>2, <2>4, <3>9 DEF Delivery!Garble, Delivery!Damaged, Delivered
    <3> QED BY <3>10 DEF Delivery!Next, Delivered
  <2> QED BY <2>3, <2>4
<1> QED BY <1>2, <1>3, <1>4
     DEF Next, vars, decoder, WriteWord, SendWord, ReadDataCount, ReplyArrives, DecodeWord,
         Decoded

(* In the initial state everything is in order, and nothing delivered.     *)
LEMMA InitDelivers ==
  ASSUME Init
  PROVE  OrderInv /\ DamageBounded /\ Delivery!Init
<1> USE DEF Init
<1>1. Len(reply) = 0 /\ Len(raw) = 0 /\ Len(events) = 0 OBVIOUS
<1>2. OrderInv
  <2>1. Position(dout) < Position(head) /\ dout.packet <= Packets
    <3>1. Position(dout) = 0 * PacketWords + 0 BY DEF NoWord, Position
    <3>2. Position(head) = 1 * PacketWords + 0 BY DEF FirstWord, Position
    <3>3. 0 * PacketWords = 0 /\ 1 * PacketWords = PacketWords BY Lengths
    <3> QED BY <3>1, <3>2, <3>3, Lengths DEF NoWord
  <2> QED BY <1>1, <2>1 DEF OrderInv, ReadInOrder, RawInOrder, EventsInOrder
<1>3. DamageBounded
  <2>1. Smooth BY <1>1 DEF Smooth
  <2>2. InStepNext(NextWord, state, raw) BY DEF NextWord, FirstWord, InStepNext
  <2>3. MayDamage = 0 BY <2>1, <2>2 DEF MayDamage, ToCome
  <2>4. {k \in 1..Len(events) : PacketOf(events[k]) = 0} = {} BY <1>1
  <2>5. DamagedSoFar = 0 BY <2>4, FS_EmptySet DEF DamagedSoFar
  <2>6. DamagedPerFault * faults \in Nat BY FaultsAllow
  <2> QED BY <2>3, <2>5, <2>6 DEF DamageBounded
<1>4. Delivery!Init
  <2>1. [k \in 1..Len(events) |-> PacketOf(events[k])] = << >> BY <1>1, EmptySeq
  <2> QED BY <2>1 DEF Delivery!Init
<1> QED BY <1>2, <1>3, <1>4

(* The events are the packets of the board in order, each at most once,    *)
(* and each fault damages no more of them than one read repeats, and two:  *)
(* the readout implements EventDelivery, if the samples of a packet are at *)
(* least as many as the words of its header.                               *)
THEOREM Refinement ==
  ASSUME Samples >= HeaderWords
  PROVE  Spec => DeliveryHolds
<1> DEFINE J == IInv /\ OrderInv /\ DamageBounded
<1>1. Init => J BY InitIInv, InitDelivers
<1>2. J /\ [Next]_vars => J'
  <2> SUFFICES ASSUME J, [Next]_vars PROVE J'
    OBVIOUS
  <2>1. IInv' BY StepIInv
  <2>2. OrderInv' BY StepOrder
  <2>3. DamageBounded' BY <2>1, StepDamage DEF OrderInv
  <2> QED BY <2>1, <2>2, <2>3
<1>3. J /\ J' /\ [Next]_vars => [Delivery!Next]_<<Delivered, faults>>
  BY StepDelivers
<1>4. Init => Delivery!Init BY InitDelivers
<1> HIDE DEF J
<1> QED BY <1>1, <1>2, <1>3, <1>4, PTL DEF Spec, DeliveryHolds, Delivery!Spec, Delivered
=============================================================================

----------------------------- MODULE EventStream -----------------------------
(***************************************************************************)
(* The way of an event packet from the EventFIFO of the board to an Event  *)
(* of the host: ConsumerManagerEventFIFO::getEventData() reads at most one *)
(* buffer over RMAP, RMAPHandlerUART::read() retries when no reply comes,  *)
(* and EventDecoder::decodeEvent() cuts the words into events with a state *)
(* machine that survives from one read to the next.                        *)
(*                                                                         *)
(* A word is named by its packet and its place in it: the start flag is    *)
(* place 0, then HeaderWords words, the samples, and the end flag.  What a *)
(* word looks like to the decoder (0xFFF0, 0xFFFF or neither) is Value.    *)
(***************************************************************************)
EXTENDS Naturals, Sequences, FiniteSets

CONSTANTS
  HeaderWords,   (* 12: from ch_realtimeH to baseline                      *)
  Samples,       (* EventPacket_NumberOfWaveform: samples of a packet      *)
  MaxWaveform,   (* SpaceFibreADC::MaxWaveformLength                       *)
  FifoWords,     (* words that fit in the EventFIFO                        *)
  ReadWords,     (* words of one read: ReceiveBufferSize / 2               *)
  Trials,        (* maxNTrials                                             *)
  TimePlaces,    (* places of words that may have any value                *)
  TimePackets,   (* bound: packets in which they look like a flag          *)
  Packets,       (* bound: packets the board sends                         *)
  MaxFaults      (* bound: lost replies and new decoders                   *)

ASSUME ConstantsAssumption ==
  /\ HeaderWords \in Nat \ {0} /\ Samples \in Nat /\ MaxWaveform \in Nat
  /\ Samples <= MaxWaveform
  /\ FifoWords \in Nat \ {0} /\ ReadWords \in Nat \ {0} /\ Trials \in Nat \ {0}
  /\ TimePlaces \subseteq 1..HeaderWords /\ TimePackets \subseteq 1..Packets
  /\ Packets \in Nat \ {0} /\ MaxFaults \in Nat

VARIABLES
  look,       (* what the words at TimePlaces look like, packet by packet  *)
  next,       (* the word the board writes to the EventFIFO next           *)
  head,       (* the word at the read port of the EventFIFO                *)
  count,      (* words in the EventFIFO: from head up to next              *)
  dout,       (* the word that was read last, repeated by an empty FIFO    *)
  pc,         (* where getEvent() is                                       *)
  want, reply, trial,
  state,      (* EventDecoder::state: the place expected, SamplesState     *)
              (* from the first sample on                                  *)
  raw,        (* words of the event under construction                     *)
  events,     (* every event decoded so far                                *)
  last, run,  (* history: the word decoded last, and how many words up to  *)
              (* it were decoded in stream order by the same decoder       *)
  faults      (* history: replies lost and decoders started                *)

board == <<look, next, head, count, dout>>
decoder == <<state, raw, events, last, run>>
vars == <<board, pc, want, reply, trial, decoder, faults>>

-----------------------------------------------------------------------------
EndPlace == HeaderWords + Samples + 1
PacketWords == EndPlace + 1
SamplesState == HeaderWords + 1
Word == [packet : 1..Packets + 1, place : 0..EndPlace]
NoWord == [packet |-> 0, place |-> 0]
FirstWord == [packet |-> 1, place |-> 0]
Succ(w) == IF w.place = EndPlace THEN [packet |-> w.packet + 1, place |-> 0]
                                 ELSE [packet |-> w.packet, place |-> w.place + 1]
Value(w) == IF w.place = 0 THEN "FFF0"
            ELSE IF w.place = EndPlace THEN "FFFF"
            ELSE IF w.packet \in TimePackets /\ w.place \in TimePlaces
                 THEN look[w.packet][w.place] ELSE "data"
Packet(p) == [k \in 1..HeaderWords + Samples |-> [packet |-> p, place |-> k]]
Least(a, b) == IF a < b THEN a ELSE b
Settled == 2 * PacketWords       (* the longest run worth remembering     *)

Init ==
  /\ look \in [TimePackets -> [TimePlaces -> {"data", "FFF0", "FFFF"}]]
  /\ next = FirstWord /\ head = FirstWord /\ count = 0 /\ dout = NoWord
  /\ pc = "count" /\ want = 0 /\ reply = << >> /\ trial = 1
  /\ state = 0 /\ raw = << >> /\ events = << >>
  /\ last = NoWord /\ run = 0
  /\ faults = 0

-----------------------------------------------------------------------------
(* The board.                                                              *)

(* TransferToEventFIFO0..2: a word moves when the EventFIFO has room.      *)
WriteWord ==
  /\ next.packet <= Packets
  /\ count < FifoWords
  /\ next' = Succ(next) /\ count' = count + 1
  /\ UNCHANGED <<look, head, dout, pc, want, reply, trial, decoder, faults>>

(* EventFIFOReadStates Read1, Read2: each word of an RMAP read pops the    *)
(* FIFO; an empty FIFO repeats its last output.                            *)
SendWord ==
  /\ pc = "read" /\ Len(reply) < want
  /\ IF count > 0
     THEN /\ reply' = Append(reply, head) /\ dout' = head
          /\ head' = Succ(head) /\ count' = count - 1
     ELSE /\ reply' = Append(reply, dout)
          /\ UNCHANGED <<head, count, dout>>
  /\ UNCHANGED <<look, next, pc, want, trial, decoder, faults>>

-----------------------------------------------------------------------------
(* The host.                                                               *)

WholeFifo == count                        (* mutant: no limit per read     *)
ReadBeyondCount == Least(count + 1, ReadWords)        (* mutant            *)
SizeOfRead == Least(count, ReadWords)

FullBuffersOnly ==                        (* mutant: waits for a buffer    *)
  /\ pc = "count" /\ count >= ReadWords
  /\ want' = ReadWords
  /\ pc' = "read" /\ reply' = << >> /\ trial' = 1
  /\ UNCHANGED <<board, decoder, faults>>

(* readEventFIFODataCount() and the size of the read; an empty FIFO gives  *)
(* an empty vector, which changes nothing.                                 *)
ReadDataCount ==
  /\ pc = "count" /\ count > 0
  /\ want' = SizeOfRead
  /\ pc' = "read" /\ reply' = << >> /\ trial' = 1
  /\ UNCHANGED <<board, decoder, faults>>

(* The reply arrives in time.                                              *)
ReplyArrives ==
  /\ pc = "read" /\ Len(reply) = want
  /\ pc' = "decode"
  /\ UNCHANGED <<board, want, reply, trial, decoder, faults>>

(* Timeout: the command never reached the board, or its reply did not      *)
(* reach the host.  The same read is tried again.                          *)
Retry ==
  /\ pc = "read" /\ Len(reply) \in {0, want}
  /\ faults < MaxFaults /\ trial < Trials
  /\ trial' = trial + 1 /\ reply' = << >>
  /\ faults' = faults + 1
  /\ UNCHANGED <<board, pc, want, decoder>>

RawKept == raw                            (* mutant: no waveformLength = 0 *)
RawAtFlag == << >>

pushEventToQueue == events' = Append(events, raw)

(* One round of the loop of decodeEvent().                                 *)
DecodeWord ==
  /\ pc = "decode" /\ reply # << >>
  /\ LET w == Head(reply) IN
     /\ \/ /\ state = 0
           /\ state' = IF Value(w) = "FFF0" THEN 1 ELSE 0
           /\ raw' = RawAtFlag
           /\ UNCHANGED events
        \/ /\ state \in 1..HeaderWords
           /\ state' = state + 1
           /\ raw' = Append(raw, w)
           /\ UNCHANGED events
        \/ /\ state = SamplesState /\ Value(w) = "FFFF"
           /\ state' = 0
           /\ pushEventToQueue
           /\ UNCHANGED raw
        \/ /\ state = SamplesState /\ Value(w) # "FFFF"
           /\ IF Len(raw) - HeaderWords < MaxWaveform
              THEN raw' = Append(raw, w) /\ UNCHANGED state
              ELSE state' = 0 /\ UNCHANGED raw
           /\ UNCHANGED events
     /\ last' = w
     /\ run' = IF w = Succ(last) \/ run = 0 THEN Least(run + 1, Settled) ELSE 1
  /\ reply' = Tail(reply)
  /\ UNCHANGED <<board, pc, want, trial, faults>>

Decoded ==
  /\ pc = "decode" /\ reply = << >>
  /\ pc' = "count"
  /\ UNCHANGED <<board, want, reply, trial, decoder, faults>>

(* A new GROWTH_FY2015_ADC with a new EventDecoder: the next run, or the   *)
(* process started again after the retries are exhausted or a crash.       *)
NewDecoder ==
  /\ faults < MaxFaults
  /\ pc' = "count" /\ reply' = << >>
  /\ state' = 0 /\ raw' = << >> /\ run' = 0
  /\ faults' = faults + 1
  /\ UNCHANGED <<board, want, trial, events, last>>

Next ==
  \/ WriteWord \/ SendWord \/ ReadDataCount \/ ReplyArrives \/ Retry
  \/ DecodeWord \/ Decoded \/ NewDecoder

Spec == Init /\ [][Next]_vars

(* The board moves words while it has any, and the host keeps reading.     *)
FairSpec == Spec /\ WF_vars(WriteWord) /\ WF_vars(SendWord)
                 /\ WF_vars(ReadDataCount \/ ReplyArrives \/ DecodeWord \/ Decoded)

-----------------------------------------------------------------------------
(* Every variable has its type.                                            *)
TypeOK ==
  /\ look \in [TimePackets -> [TimePlaces -> {"data", "FFF0", "FFFF"}]]
  /\ next \in Word /\ head \in Word /\ count \in 0..FifoWords
  /\ dout \in Word \cup {NoWord} /\ last \in Word \cup {NoWord}
  /\ pc \in {"count", "read", "decode"}
  /\ want \in 0..ReadWords /\ trial \in 1..Trials
  /\ reply \in Seq(Word) /\ Len(reply) <= want
  /\ state \in 0..SamplesState
  /\ raw \in Seq(Word) /\ Len(raw) <= HeaderWords + MaxWaveform
  /\ events \in Seq(Seq(Word))
  /\ run \in 0..Settled /\ faults \in 0..MaxFaults

(* Whatever was lost, repeated or misread before: once a whole packet has  *)
(* passed in stream order, the decoder is in step again, and every further *)
(* packet that passes in order becomes an event of exactly its words.      *)
InStepAfterOnePacket ==
  Samples >= HeaderWords /\ run = Settled /\ last.place = EndPlace =>
    /\ events # << >>
    /\ events[Len(events)] = Packet(last.packet)

(* A fault damages the events built of the words of one read that repeats  *)
(* words (each takes a start flag, a header and an end flag), and then two *)
(* more: one that was begun in that read or before the words lost, and one *)
(* begun at a word of a header that looks like a flag.                     *)
DamagedPerFault == 2 + (ReadWords + HeaderWords + 1) \div (HeaderWords + 2)

(* The events are the packets in order, each at most once, and no more     *)
(* than DamagedPerFault events per fault are none of them.                 *)
PacketOf(e) == IF \E p \in 1..Packets : e = Packet(p)
               THEN CHOOSE p \in 1..Packets : e = Packet(p) ELSE 0
Delivery == INSTANCE EventDelivery WITH
  delivered <- [k \in 1..Len(events) |-> PacketOf(events[k])]
DeliveryHolds == Delivery!Spec

(* When nothing goes wrong, every packet of the board becomes an event.    *)
AllPacketsArrive == <>(faults > 0 \/ Len(events) = Packets)
=============================================================================

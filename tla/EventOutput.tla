----------------------------- MODULE EventOutput -----------------------------
(***************************************************************************)
(* The way of the events of a board from the pulse processors of its       *)
(* channels to the EventFIFO.  A pulse processor with an event waits for   *)
(* the grant of the consumer manager, sends the packet word by word to a   *)
(* FIFO that all channels share, and the manager moves the words on to the *)
(* EventFIFO.  All of it runs on one clock, so that a step of the model is *)
(* a tick of that clock: every component moves at once, and reads what the *)
(* others had before the tick.                                             *)
(***************************************************************************)
EXTENDS Integers, Sequences

CONSTANTS
  NumberOfConsumerNodes,  (* channels, numbered from 0                     *)
  HeaderWords,            (* words of Send_1 to Send_13                    *)
  Waveforms,              (* values of EventPacket_NumberOfWaveform that   *)
                          (* the host may set                              *)
  FifoWords,              (* words that fit in the FIFO of the manager     *)
  EventFifoWords,         (* words that fit in the EventFIFO               *)
  Events,                 (* bound: events of a channel                    *)
  MaxWrites               (* bound: registers written by the host          *)

(* The host keeps to packets that fit in the FIFO of the manager ("the     *)
(* maximum waveform length is 1000", GROWTH_FY2015_ADC.hh).                *)
ASSUME ConstantsAssumption ==
  /\ NumberOfConsumerNodes \in Nat \ {0} /\ HeaderWords \in Nat \ {0}
  /\ EventFifoWords \in Nat \ {0} /\ FifoWords \in Nat
  /\ Waveforms # {} /\ Waveforms \subseteq Nat
  /\ \A n \in Waveforms : HeaderWords + n + 1 <= FifoWords
  /\ Events \in Nat /\ MaxWrites \in Nat

VARIABLES
  processor,  (* of each channel: its state, the event it works on, the    *)
              (* place of the packet it sends next, EventReady, and the    *)
              (* word at its output (NoWord while WriteEnable is low)      *)
  fifo, FifoReadEnable, FifoDataOut,    (* the FIFO of the manager         *)
  UserModule_state, LoopI, Grant, ResetDone,
  EventFIFOWriteEnable, EventFIFOWriteData,
  iBus_beWritten_state,
  beWritten,  (* the write the bus asks for                                *)
  EventOutputDisable, EventPacket_NumberOfWaveform, ResetRegister,
  EventFIFOReset, count,                (* the EventFIFO                   *)
  last, seen, skipped, resets,          (* history, see PacketStream       *)
  writes                                (* history: writes of the host     *)

Channel == 0..NumberOfConsumerNodes - 1

Stream == INSTANCE PacketStream

NoWord == Stream!NoWord
End == Stream!End
NoWrite == <<"none", 0>>
Writes == {<<"EventOutputDisable", 0>>, <<"EventOutputDisable", 1>>, <<"Reset", 1>>}
            \cup {<<"NumberOfWaveform", n>> : n \in Waveforms}

managerFifo == <<fifo, FifoReadEnable, FifoDataOut>>
manager == <<UserModule_state, LoopI, Grant, ResetDone,
             EventFIFOWriteEnable, EventFIFOWriteData>>
registers == <<iBus_beWritten_state, beWritten, EventOutputDisable,
               EventPacket_NumberOfWaveform, ResetRegister, writes>>
eventFifo == <<EventFIFOReset, count, last, seen, skipped, resets>>
vars == <<processor, managerFifo, manager, registers, eventFifo>>

Init ==
  /\ processor = [ch \in Channel |-> [state |-> "Idle", event |-> 0, place |-> 1,
                                      EventReady |-> FALSE, word |-> NoWord]]
  /\ fifo = << >> /\ FifoReadEnable = FALSE /\ FifoDataOut = NoWord
  /\ UserModule_state = "Initialize" /\ LoopI = 0 /\ Grant = {} /\ ResetDone = FALSE
  /\ EventFIFOWriteEnable = FALSE /\ EventFIFOWriteData = NoWord
  /\ iBus_beWritten_state = "Idle" /\ beWritten = NoWrite /\ EventOutputDisable = FALSE
  /\ EventPacket_NumberOfWaveform \in Waveforms /\ ResetRegister = FALSE
  /\ EventFIFOReset = FALSE /\ count = 0
  /\ last = NoWord /\ seen = [ch \in Channel |-> 0] /\ skipped = 0 /\ resets = 0
  /\ writes = 0

-----------------------------------------------------------------------------
(* A pulse processor p of the channel ch, state by state: what the tick    *)
(* makes of it.                                                            *)

Word(ch, p, place) == [ch |-> ch, event |-> p.event, place |-> place]

(* From Idle to AnalysisDone, which takes a while.                         *)
HasEvent == {ch \in Channel : processor[ch].state = "Idle" /\ processor[ch].event < Events}
TakeEvent(p) ==
  [p EXCEPT !.state = "WaitMgrGrant", !.event = @ + 1, !.place = 1, !.EventReady = TRUE]

WaitMgrGrant(ch, p) == IF ch \in Grant THEN [p EXCEPT !.state = "Send"] ELSE p

(* Send_1 to Send_13, and on to the waveform if there is one.              *)
SendHeader(ch, p) ==
  [p EXCEPT !.word = Word(ch, p, p.place), !.place = @ + 1,
            !.state = IF p.place = HeaderWords /\ EventPacket_NumberOfWaveform = 0
                      THEN "WriteSeparator_0" ELSE "Send"]

OneSampleMore(ch, p) ==                   (* mutant                        *)
  IF p.place - HeaderWords > EventPacket_NumberOfWaveform + 1
  THEN [p EXCEPT !.word = NoWord, !.state = "WriteSeparator_0"]
  ELSE [p EXCEPT !.word = Word(ch, p, p.place), !.place = @ + 1]

(* Send_14, with RamAddress one ahead of the samples that were sent; the   *)
(* assumption keeps it from wrapping at 10 bits.                           *)
SendWaveform(ch, p) ==
  IF p.place - HeaderWords > EventPacket_NumberOfWaveform
  THEN [p EXCEPT !.word = NoWord, !.state = "WriteSeparator_0"]
  ELSE [p EXCEPT !.word = Word(ch, p, p.place), !.place = @ + 1]

WriteSeparator(ch, p) == [p EXCEPT !.word = Word(ch, p, End), !.state = "Finalize"]

ReadyUntilUngranted(ch, p) ==             (* mutant                        *)
  IF ch \in Grant THEN [p EXCEPT !.word = NoWord]
  ELSE [p EXCEPT !.word = NoWord, !.EventReady = FALSE, !.state = "Idle"]

Finalize(ch, p) ==
  [p EXCEPT !.word = NoWord, !.EventReady = FALSE,
            !.state = IF ch \in Grant THEN "Finalize" ELSE "Idle"]

After(ch, p) ==
  CASE p.state = "Idle" -> p
    [] p.state = "WaitMgrGrant" -> WaitMgrGrant(ch, p)
    [] p.state = "Send" /\ p.place <= HeaderWords -> SendHeader(ch, p)
    [] p.state = "Send" /\ p.place > HeaderWords -> SendWaveform(ch, p)
    [] p.state = "WriteSeparator_0" -> WriteSeparator(ch, p)
    [] p.state = "Finalize" -> Finalize(ch, p)

PulseProcessors ==
  \E ready \in SUBSET HasEvent :
    processor' = [ch \in Channel |-> IF ch \in ready THEN TakeEvent(processor[ch])
                                                     ELSE After(ch, processor[ch])]

-----------------------------------------------------------------------------
(* The FIFO of the manager takes the words of the channel LoopI.           *)
Arriving ==
  IF LoopI \in Channel /\ processor[LoopI].word # NoWord /\ Len(fifo) < FifoWords
  THEN <<processor[LoopI].word>> ELSE << >>

ManagerFifo ==
  \/ /\ FifoReadEnable /\ fifo # << >>
     /\ FifoDataOut' = Head(fifo)
     /\ fifo' = Tail(fifo) \o Arriving
  \/ /\ ~(FifoReadEnable /\ fifo # << >>)
     /\ fifo' = fifo \o Arriving
     /\ UNCHANGED FifoDataOut

-----------------------------------------------------------------------------
(* The consumer manager: MainProcess, one action per state.                *)

At(s) == UserModule_state = s
Goto(s) == UserModule_state' = s

(* Initialize and Initialize_2: the loop over the channels takes a while,  *)
(* in which nothing else can happen.                                       *)
MgrInitialize ==
  /\ At("Initialize") /\ Goto("Idle")
  /\ ResetDone' = FALSE /\ LoopI' = 0 /\ Grant' = {}
  /\ UNCHANGED <<FifoReadEnable, EventFIFOWriteEnable, EventFIFOWriteData>>

Wanted == ~EventOutputDisable /\ processor[LoopI].EventReady

MgrIdle ==
  /\ At("Idle")
  /\ \/ /\ LoopI = NumberOfConsumerNodes
        /\ LoopI' = 0 /\ Goto("Idle")
        /\ UNCHANGED <<ResetDone, Grant>>
     \/ /\ LoopI \in Channel /\ ResetRegister
        /\ ResetDone' = TRUE /\ Goto("WaitReset")
        /\ UNCHANGED <<LoopI, Grant>>
     \/ /\ LoopI \in Channel /\ ~ResetRegister /\ Wanted
        /\ Grant' = Grant \cup {LoopI} /\ Goto("Grant")
        /\ UNCHANGED <<LoopI, ResetDone>>
     \/ /\ LoopI \in Channel /\ ~ResetRegister /\ ~Wanted
        /\ LoopI' = LoopI + 1 /\ Goto("Idle")
        /\ UNCHANGED <<ResetDone, Grant>>
  /\ UNCHANGED <<FifoReadEnable, EventFIFOWriteEnable, EventFIFOWriteData>>

MgrWaitReset ==
  /\ At("WaitReset")
  /\ \/ ~ResetRegister /\ ResetDone' = FALSE /\ Goto("Initialize")
     \/ ResetRegister /\ Goto("WaitReset") /\ UNCHANGED ResetDone
  /\ UNCHANGED <<LoopI, Grant, FifoReadEnable, EventFIFOWriteEnable, EventFIFOWriteData>>

(* The packet is complete when EventReady goes down.                       *)
MgrGrant ==
  /\ At("Grant")
  /\ \/ /\ ~processor[LoopI].EventReady
        /\ Grant' = Grant \ {LoopI} /\ Goto("TransferToEventFIFO0")
     \/ /\ processor[LoopI].EventReady
        /\ Goto("Grant") /\ UNCHANGED Grant
  /\ UNCHANGED <<LoopI, ResetDone, FifoReadEnable, EventFIFOWriteEnable, EventFIFOWriteData>>

Transfer0 ==
  /\ At("TransferToEventFIFO0")
  /\ EventFIFOWriteEnable' = FALSE
  /\ \/ fifo = << >> /\ Goto("Finalize") /\ UNCHANGED FifoReadEnable
     \/ fifo # << >> /\ Goto("TransferToEventFIFO1") /\ FifoReadEnable' = TRUE
  /\ UNCHANGED <<LoopI, Grant, ResetDone, EventFIFOWriteData>>

Transfer1 ==
  /\ At("TransferToEventFIFO1") /\ Goto("TransferToEventFIFO2")
  /\ FifoReadEnable' = FALSE
  /\ UNCHANGED <<LoopI, Grant, ResetDone, EventFIFOWriteEnable, EventFIFOWriteData>>

FullInReset == EventFIFOReset \/ count = EventFifoWords       (* mutant    *)
EventFIFOFull == count = EventFifoWords

Transfer2 ==
  /\ At("TransferToEventFIFO2")
  /\ EventFIFOWriteData' = FifoDataOut
  /\ \/ ~EventFIFOFull /\ EventFIFOWriteEnable' = TRUE /\ Goto("TransferToEventFIFO0")
     \/ EventFIFOFull /\ Goto("TransferToEventFIFO2") /\ UNCHANGED EventFIFOWriteEnable
  /\ UNCHANGED <<LoopI, Grant, ResetDone, FifoReadEnable>>

MgrFinalize ==
  /\ At("Finalize") /\ Goto("Idle")
  /\ UNCHANGED <<LoopI, Grant, ResetDone, FifoReadEnable, EventFIFOWriteEnable,
                 EventFIFOWriteData>>

ConsumerManager ==
  \/ MgrInitialize \/ MgrIdle \/ MgrWaitReset \/ MgrGrant
  \/ Transfer0 \/ Transfer1 \/ Transfer2 \/ MgrFinalize

-----------------------------------------------------------------------------
(* The registers: iBus_BeWritten_Process.  A packet on the UART takes far  *)
(* longer than a write, so that the next write finds it in Idle.           *)

AskWrite ==
  /\ iBus_beWritten_state = "Idle" /\ beWritten = NoWrite
  /\ \/ UNCHANGED <<beWritten, writes>>
     \/ writes < MaxWrites /\ writes' = writes + 1 /\ beWritten' \in Writes
  /\ UNCHANGED <<iBus_beWritten_state, EventOutputDisable, EventPacket_NumberOfWaveform,
                 ResetRegister>>

BeginWrite ==
  /\ iBus_beWritten_state = "Idle" /\ beWritten # NoWrite
  /\ iBus_beWritten_state' = "DataReceive"
  /\ UNCHANGED <<beWritten, EventOutputDisable, EventPacket_NumberOfWaveform,
                 ResetRegister, writes>>

DataReceive ==
  /\ iBus_beWritten_state = "DataReceive"
  /\ EventOutputDisable' = IF beWritten[1] = "EventOutputDisable"
                           THEN beWritten[2] = 1 ELSE EventOutputDisable
  /\ EventPacket_NumberOfWaveform' = IF beWritten[1] = "NumberOfWaveform"
                                     THEN beWritten[2] ELSE EventPacket_NumberOfWaveform
  /\ ResetRegister' = (ResetRegister \/ beWritten[1] = "Reset")
  /\ iBus_beWritten_state' = IF beWritten[1] = "Reset" THEN "WaitResetDone" ELSE "WaitDone"
  /\ beWritten' = NoWrite
  /\ UNCHANGED writes

WaitDone ==
  /\ iBus_beWritten_state = "WaitDone"
  /\ iBus_beWritten_state' = "Idle"
  /\ UNCHANGED <<beWritten, EventOutputDisable, EventPacket_NumberOfWaveform,
                 ResetRegister, writes>>

ResetPulse ==                             (* mutant: waits for nobody      *)
  /\ iBus_beWritten_state = "WaitResetDone"
  /\ ResetRegister' = FALSE /\ iBus_beWritten_state' = "Initialize"
  /\ UNCHANGED <<beWritten, EventOutputDisable, EventPacket_NumberOfWaveform, writes>>

WaitResetDone ==
  /\ iBus_beWritten_state = "WaitResetDone"
  /\ \/ /\ ResetDone
        /\ ResetRegister' = FALSE /\ iBus_beWritten_state' = "Initialize"
     \/ /\ ~ResetDone
        /\ UNCHANGED <<ResetRegister, iBus_beWritten_state>>
  /\ UNCHANGED <<beWritten, EventOutputDisable, EventPacket_NumberOfWaveform, writes>>

BeWrittenInitialize ==
  /\ iBus_beWritten_state = "Initialize"
  /\ iBus_beWritten_state' = "Idle"
  /\ UNCHANGED <<beWritten, EventOutputDisable, EventPacket_NumberOfWaveform,
                 ResetRegister, writes>>

Registers == \/ AskWrite \/ BeginWrite \/ DataReceive \/ WaitDone \/ WaitResetDone
             \/ BeWrittenInitialize

-----------------------------------------------------------------------------
(* The EventFIFO.  Its reset follows ResetRegister by one tick and makes it *)
(* empty; while it lasts, words are not taken.  read: the readout process  *)
(* takes a word.                                                           *)
Taken == EventFIFOWriteEnable /\ ~EventFIFOReset /\ count < EventFifoWords
Size(b) == IF b THEN 1 ELSE 0

EventFifo(read) ==
  /\ EventFIFOReset' = ResetRegister
  /\ \/ /\ EventFIFOReset
        /\ ~read
        /\ count' = 0
        /\ UNCHANGED <<last, seen, skipped, resets>>
     \/ /\ ~EventFIFOReset
        /\ read => count > 0
        /\ count' = count + Size(Taken) - Size(read)
        /\ IF ResetRegister
           THEN /\ last' = NoWord /\ resets' = resets + 1
                /\ UNCHANGED <<seen, skipped>>
           ELSE /\ last' = IF Taken THEN EventFIFOWriteData ELSE last
                /\ LET w == EventFIFOWriteData
                       new == Taken /\ w.place = 1
                   IN /\ seen' = IF new THEN [seen EXCEPT ![w.ch] = w.event] ELSE seen
                      /\ skipped' = IF new THEN skipped + (w.event - seen[w.ch] - 1)
                                    ELSE skipped
                /\ UNCHANGED resets

Clock(read) ==
  PulseProcessors /\ ManagerFifo /\ ConsumerManager /\ Registers /\ EventFifo(read)

Next == \E read \in BOOLEAN : Clock(read)

Spec == Init /\ [][Next]_vars

(* The clock ticks, and the host keeps reading: the EventFIFO does not     *)
(* stay full for ever.                                                     *)
FairSpec == Spec /\ WF_vars(Next) /\ []<>(count < EventFifoWords)

-----------------------------------------------------------------------------
(* Every variable has its type.                                            *)
Words == [ch : Channel, event : 1..Events,
          place : {End} \cup 1..FifoWords] \cup {NoWord}
TypeOK ==
  /\ \A ch \in Channel :
       /\ processor[ch].state \in {"Idle", "WaitMgrGrant", "Send", "WriteSeparator_0",
                                   "Finalize"}
       /\ processor[ch].event \in 0..Events /\ processor[ch].place \in 1..FifoWords
       /\ processor[ch].EventReady \in BOOLEAN /\ processor[ch].word \in Words
  /\ fifo \in Seq(Words) /\ Len(fifo) <= FifoWords
  /\ FifoReadEnable \in BOOLEAN /\ FifoDataOut \in Words
  /\ UserModule_state \in {"Initialize", "Idle", "WaitReset", "Grant", "Finalize",
       "TransferToEventFIFO0", "TransferToEventFIFO1", "TransferToEventFIFO2"}
  /\ LoopI \in 0..NumberOfConsumerNodes /\ Grant \subseteq Channel
  /\ ResetDone \in BOOLEAN /\ EventFIFOWriteEnable \in BOOLEAN
  /\ EventFIFOWriteData \in Words
  /\ iBus_beWritten_state \in {"Initialize", "Idle", "DataReceive", "WaitDone",
                               "WaitResetDone"}
  /\ beWritten \in Writes \cup {NoWrite}
  /\ EventOutputDisable \in BOOLEAN /\ EventPacket_NumberOfWaveform \in Waveforms
  /\ ResetRegister \in BOOLEAN /\ EventFIFOReset \in BOOLEAN
  /\ count \in 0..EventFifoWords /\ last \in Words

(* The EventFIFO holds whole packets in order, and after a reset it starts *)
(* with the first word of a packet, whenever the reset came.               *)
StreamHolds == Stream!Spec

(* A reset that the host asked for comes to its end, even when it finds    *)
(* the manager in the middle of a packet and the EventFIFO full.           *)
ResetCompletes == ResetRegister ~> ~ResetRegister

(* An event that is ready is sent, or the host disables the output; the    *)
(* other channels have finitely many events (Events).                      *)
ReadyIsSent ==
  \A ch \in Channel :
    processor[ch].EventReady ~> (~processor[ch].EventReady \/ EventOutputDisable)
=============================================================================

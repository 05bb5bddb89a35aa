---------------------------- MODULE ChannelBuffer ----------------------------
(***************************************************************************)
(* From the ADC of a channel to its pulse processor: the trigger module    *)
(* decides when a waveform is taken, the buffer module writes it and a     *)
(* header into the waveform FIFO, and the pulse processor copies it out on *)
(* another clock.  A tick of the ADC clock is one step, in which the       *)
(* trigger and the buffer module move at once; the reader takes a word     *)
(* every two or three of these ticks while it copies an event, and as long *)
(* as it likes between two events.                                         *)
(***************************************************************************)
EXTENDS Integers, Sequences

CONSTANTS
  NumberOfSamples,            (* the register of that name                 *)
  SizeOfHeader,               (* words of a header: the flag, the time and *)
                              (* the trigger count                         *)
  DepthOfWaveformBufferFIFO,  (* words that fit in the waveform FIFO       *)
  TriggerModes,               (* modes, see Closes                         *)
  MaxTriggers                 (* bound: triggers                           *)

(* An event is one word longer than the room that is asked for, which no   *)
(* configuration of the repository can run into: its length does not       *)
(* divide the depth plus one (see the README).                             *)
ASSUME ConstantsAssumption ==
  /\ NumberOfSamples \in Nat /\ SizeOfHeader \in Nat /\ SizeOfHeader >= 3
  /\ DepthOfWaveformBufferFIFO \in Nat
  /\ (DepthOfWaveformBufferFIFO + 1) % (NumberOfSamples + 1 + SizeOfHeader) # 0
  /\ TriggerModes \subseteq {1, 2, 3, 4}
  /\ MaxTriggers \in Nat

VARIABLES
  TriggerMode,
  Trigger_state, SampledNumber, TriggerEnd, Veto_latched_in_Idle_state,
  TriggerPrevious, TriggerCount,            (* the trigger module          *)
  Buffer_state, WriteEnable, DataIn, Busy, RealTime_latched,
  managerVeto,     (* the veto of the channel manager                      *)
  fifo, unseen,    (* the FIFO, and words read that the writer still counts *)
  reader, copied, since,  (* the pulse processor: "Idle", "Copy" or        *)
                   (* "Analysis", the words it has of the event, and ticks *)
                   (* since it took the last one (at most 3)               *)
  trigger,         (* history: number of the trigger, counting the vetoed  *)
  pending          (* history: triggers that were taken and not analysed   *)

triggerModule == <<Trigger_state, SampledNumber, TriggerEnd, Veto_latched_in_Idle_state,
                   TriggerPrevious, TriggerCount, trigger>>
bufferModule == <<Buffer_state, WriteEnable, DataIn, Busy, RealTime_latched, pending>>
vars == <<TriggerMode, triggerModule, bufferModule, managerVeto, fifo, unseen,
          reader, copied, since>>

(* A word of the FIFO: a sample with the number of its trigger and its     *)
(* place in the waveform, the flag between waveform and header, a word of  *)
(* the time of a trigger, or the words of the count.                       *)
W(kind, trig, n) == [kind |-> kind, trig |-> trig, n |-> n]
NoWord == W("none", 0, 0)
TimeWords == SizeOfHeader - 2

Init ==
  /\ TriggerMode \in TriggerModes
  /\ Trigger_state = "Initialize" /\ SampledNumber = 0 /\ TriggerEnd = FALSE
  /\ Veto_latched_in_Idle_state = FALSE /\ TriggerPrevious = FALSE /\ TriggerCount = 0
  /\ Buffer_state = "Initialize" /\ WriteEnable = FALSE /\ DataIn = NoWord
  /\ Busy = FALSE /\ RealTime_latched = 0
  /\ managerVeto = TRUE
  /\ fifo = << >> /\ unseen = 0
  /\ reader = "Idle" /\ copied = << >> /\ since = 3
  /\ trigger = 0 /\ pending = << >>

-----------------------------------------------------------------------------
(* What the modules tell each other.                                       *)

Trigger == Trigger_state = "Triggered" /\ ~TriggerEnd
TriggerOut == Trigger /\ ~Veto_latched_in_Idle_state

WriteDataCount == Len(fifo) + unseen
Full == WriteDataCount = DepthOfWaveformBufferFIFO
RoomOfFlagOnly ==                         (* mutant: header not reserved   *)
  DepthOfWaveformBufferFIFO - WriteDataCount < NumberOfSamples
NoRoomForMoreEvent ==
  DepthOfWaveformBufferFIFO - WriteDataCount < SizeOfHeader + NumberOfSamples
OneWordTooMany == Len(fifo) >= SizeOfHeader + NumberOfSamples + 2        (* mutant *)
hasEvent == Len(fifo) >= SizeOfHeader + NumberOfSamples
Veto == TriggerOut \/ Full \/ NoRoomForMoreEvent \/ Busy \/ managerVeto

-----------------------------------------------------------------------------
(* The trigger module.  above: the condition of the mode for a trigger;    *)
(* closed: the closing threshold of mode 3, or a CPU trigger, and the end  *)
(* of the gate of mode 2.  Mode 4 stands for the modes 4, 5, 8 and 9.      *)

OneSampleLate == SampledNumber = NumberOfSamples + 1                     (* mutant *)
Enough == SampledNumber = NumberOfSamples
Closes(closed) == TriggerMode \in {2, 3} => closed

(* The trigger count, with the triggers that are vetoed.                   *)
TakenOnly ==                              (* mutant: without the vetoed    *)
  IF ~TriggerPrevious /\ TriggerOut THEN TriggerCount + 1 ELSE TriggerCount
Counted == IF ~TriggerPrevious /\ Trigger THEN TriggerCount + 1 ELSE TriggerCount

TriggerModule(above, closed) ==
  /\ TriggerPrevious' = Trigger
  /\ TriggerCount' = Counted
  /\ \/ /\ Trigger_state = "Initialize"
        /\ Trigger_state' = "Idle" /\ SampledNumber' = 0 /\ TriggerEnd' = FALSE
        /\ UNCHANGED <<Veto_latched_in_Idle_state, trigger>>
     \/ /\ Trigger_state = "Idle"
        /\ SampledNumber' = 0 /\ TriggerEnd' = FALSE
        /\ Veto_latched_in_Idle_state' = Veto
        /\ Trigger_state' = IF above THEN "Triggered" ELSE "Idle"
        /\ trigger' = IF above THEN trigger + 1 ELSE trigger
     \/ /\ Trigger_state = "Triggered" /\ ~Enough
        /\ SampledNumber' = SampledNumber + 1
        /\ UNCHANGED <<Trigger_state, TriggerEnd, Veto_latched_in_Idle_state, trigger>>
     \/ /\ Trigger_state = "Triggered" /\ Enough
        /\ TriggerEnd' = (TriggerEnd \/ TriggerMode # 1)
        /\ Trigger_state' = IF Closes(closed) THEN "Finalize" ELSE "Triggered"
        /\ UNCHANGED <<SampledNumber, Veto_latched_in_Idle_state, trigger>>
     \/ /\ Trigger_state = "Finalize"
        /\ Trigger_state' = "Idle"
        /\ UNCHANGED <<SampledNumber, TriggerEnd, Veto_latched_in_Idle_state, trigger>>

-----------------------------------------------------------------------------
(* The buffer module.                                                      *)

Sample == W("sample", trigger, SampledNumber)

VetoOff == ~Veto                          (* mutant: its own Busy is in it *)
TriggerOff == ~TriggerOut

BufferModule ==
  \/ /\ Buffer_state = "Initialize"
     /\ Busy' = FALSE /\ WriteEnable' = FALSE /\ Buffer_state' = "Idle"
     /\ UNCHANGED <<DataIn, RealTime_latched, pending>>
  \/ /\ Buffer_state = "Idle"
     /\ DataIn' = Sample
     /\ \/ /\ TriggerOut /\ ~Full /\ ~NoRoomForMoreEvent
           /\ RealTime_latched' = trigger
           /\ WriteEnable' = TRUE /\ Busy' = TRUE /\ Buffer_state' = "WaitTriggerOff"
           /\ pending' = Append(pending, trigger)
        \/ /\ ~(TriggerOut /\ ~Full /\ ~NoRoomForMoreEvent) /\ Veto
           /\ Buffer_state' = "WaitVetoOff"
           /\ UNCHANGED <<RealTime_latched, WriteEnable, Busy, pending>>
        \/ /\ ~TriggerOut /\ ~Veto
           /\ WriteEnable' = FALSE /\ Buffer_state' = "Idle"
           /\ UNCHANGED <<RealTime_latched, Busy, pending>>
  \/ /\ Buffer_state = "WaitVetoOff"
     /\ Buffer_state' = IF ~Veto /\ ~TriggerOut THEN "Idle" ELSE "WaitVetoOff"
     /\ UNCHANGED <<WriteEnable, DataIn, Busy, RealTime_latched, pending>>
  \/ /\ Buffer_state = "WaitTriggerOff"
     /\ \/ TriggerOut /\ DataIn' = Sample /\ UNCHANGED Buffer_state
        \/ ~TriggerOut /\ DataIn' = W("flag", 0, 0) /\ Buffer_state' = "WriteHeader"
     /\ UNCHANGED <<WriteEnable, Busy, RealTime_latched, pending>>
  \/ /\ Buffer_state = "WriteHeader"        (* WriteHeader_1 to _4: time    *)
     /\ \/ /\ DataIn.kind = "flag"
           /\ DataIn' = W("time", RealTime_latched, 1) /\ UNCHANGED Buffer_state
        \/ /\ DataIn.kind = "time" /\ DataIn.n < TimeWords
           /\ DataIn' = W("time", RealTime_latched, DataIn.n + 1) /\ UNCHANGED Buffer_state
        \/ /\ DataIn.kind = "time" /\ DataIn.n = TimeWords
           /\ DataIn' = W("count", 0, TriggerCount) /\ Buffer_state' = "Finalize"
     /\ UNCHANGED <<WriteEnable, Busy, RealTime_latched, pending>>
  \/ /\ Buffer_state = "Finalize"
     /\ WriteEnable' = FALSE
     /\ \/ TriggerOff /\ Busy' = FALSE /\ Buffer_state' = "Idle"
        \/ ~TriggerOff /\ UNCHANGED <<Busy, Buffer_state>>
     /\ UNCHANGED <<DataIn, RealTime_latched, pending>>

(* A tick of the ADC clock.  A word that was read is still counted by the  *)
(* writer for up to three ticks.                                           *)
Tick(above, closed) ==
  /\ above => trigger < MaxTriggers
  /\ reader = "Copy" => since < 3
  /\ TriggerModule(above, closed)
  /\ BufferModule
  /\ fifo' = IF WriteEnable /\ ~Full THEN Append(fifo, DataIn) ELSE fifo
  /\ since' = IF since < 3 THEN since + 1 ELSE 3
  /\ unseen' \in IF since' = 3 THEN {0} ELSE {0, unseen}
  /\ UNCHANGED <<TriggerMode, managerVeto, reader, copied>>

(* The channel manager vetoes a channel that is not started, or done.      *)
Started ==
  /\ managerVeto' = ~managerVeto
  /\ UNCHANGED <<TriggerMode, triggerModule, bufferModule, fifo, unseen,
                 reader, copied, since>>

-----------------------------------------------------------------------------
(* The pulse processor.                                                    *)

BeginCopy ==
  /\ reader = "Idle" /\ hasEvent
  /\ reader' = "Copy" /\ copied' = << >>
  /\ UNCHANGED <<TriggerMode, triggerModule, bufferModule, managerVeto, fifo, unseen, since>>

(* CopyEvent_0 to _3 and CopyHeader_0 to _3: everything up to the flag,    *)
(* and then as many words as a header has.                                 *)
Complete(words) ==
  \E k \in 1..Len(words) : /\ words[k].kind = "flag"
                           /\ \A j \in 1..k - 1 : words[j].kind # "flag"
                           /\ Len(words) = k + SizeOfHeader - 1

CopyWord ==
  /\ reader = "Copy" /\ since >= 2 /\ fifo # << >>
  /\ copied' = Append(copied, Head(fifo))
  /\ fifo' = Tail(fifo) /\ unseen' = 1 /\ since' = 0
  /\ reader' = IF Complete(copied') THEN "Analysis" ELSE "Copy"
  /\ UNCHANGED <<TriggerMode, triggerModule, bufferModule, managerVeto>>

(* Analysis and output of the event.                                       *)
Analysed ==
  /\ reader = "Analysis"
  /\ reader' = "Idle" /\ copied' = << >>
  /\ pending' = Tail(pending)
  /\ UNCHANGED <<TriggerMode, triggerModule, Buffer_state, WriteEnable, DataIn, Busy,
                 RealTime_latched, managerVeto, fifo, unseen, since>>

Reader == BeginCopy \/ CopyWord \/ Analysed
Clock == \E above, closed \in BOOLEAN : Tick(above, closed)
Next == Clock \/ Started \/ Reader

Spec == Init /\ [][Next]_vars

(* The ADC clock ticks and the pulse processor runs.                       *)
FairSpec == Spec /\ WF_vars(Clock) /\ WF_vars(Reader)

-----------------------------------------------------------------------------
(* Every variable has its type.                                            *)
Kinds == {"none", "sample", "flag", "time", "count"}
Words == [kind : Kinds, trig : 0..MaxTriggers,
          n : 0..NumberOfSamples + SizeOfHeader + MaxTriggers]
TypeOK ==
  /\ TriggerMode \in TriggerModes
  /\ Trigger_state \in {"Initialize", "Idle", "Triggered", "Finalize"}
  /\ SampledNumber \in 0..NumberOfSamples
  /\ TriggerEnd \in BOOLEAN /\ Veto_latched_in_Idle_state \in BOOLEAN
  /\ TriggerPrevious \in BOOLEAN /\ TriggerCount \in 0..MaxTriggers
  /\ Buffer_state \in {"Initialize", "Idle", "WaitVetoOff", "WaitTriggerOff",
                       "WriteHeader", "Finalize"}
  /\ WriteEnable \in BOOLEAN /\ DataIn \in Words /\ Busy \in BOOLEAN
  /\ RealTime_latched \in 0..MaxTriggers /\ managerVeto \in BOOLEAN
  /\ fifo \in Seq(Words) /\ Len(fifo) <= DepthOfWaveformBufferFIFO /\ unseen \in 0..1
  /\ reader \in {"Idle", "Copy", "Analysis"} /\ copied \in Seq(Words) /\ since \in 0..3
  /\ trigger \in 0..MaxTriggers /\ pending \in Seq(1..MaxTriggers)

(* An event that the pulse processor has copied is the waveform of one     *)
(* trigger from its first sample to its last, and the header of the same   *)
(* trigger; no trigger that was taken is missing, and they come in order.  *)
EventsWhole ==
  reader = "Analysis" =>
    /\ pending # << >>
    /\ LET t == Head(pending)
           place == NumberOfSamples + 2
       IN /\ Len(copied) = place + SizeOfHeader - 1
          /\ \A k \in 1..NumberOfSamples + 1 : copied[k] = W("sample", t, k - 1)
          /\ copied[place].kind = "flag"
          /\ \A k \in 1..TimeWords : copied[place + k] = W("time", t, k)
          /\ copied[Len(copied)].kind = "count"

(* The trigger count of an event, from which the dead time is calculated,  *)
(* includes its own trigger and never that of the next event: the counts   *)
(* of the events rise, and their differences add up to the triggers.       *)
CountsOwnTrigger ==
  reader = "Analysis" =>
    LET c == copied[Len(copied)].n
    IN  /\ c >= Head(pending)
        /\ Len(pending) > 1 => c < pending[2]

(* Every event that was taken comes to be analysed, the last one too, when *)
(* nothing follows that could push it.                                     *)
EveryEventAnalysed == \A t \in 1..MaxTriggers :
  (\E k \in 1..Len(pending) : pending[k] = t) ~> ~(\E k \in 1..Len(pending) : pending[k] = t)

(* Once the FIFO has been emptied the channel takes triggers again.        *)
VetoIsLifted == (reader = "Idle" /\ pending = << >> /\ ~managerVeto) ~>
  (~Veto \/ managerVeto \/ pending # << >>)
=============================================================================

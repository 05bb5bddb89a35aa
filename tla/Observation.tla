----------------------------- MODULE Observation -----------------------------
(***************************************************************************)
(* Observation runs one after the other: MainThread::run() programs the    *)
(* registers of the board, one RMAP write each, starts the acquisition,    *)
(* reads events into the rows of a file, stops, reads three more times,    *)
(* closes the file and lets go of the board.  The board goes on with the   *)
(* registers it has, whatever becomes of the program; what it recorded is  *)
(* read by whoever reads next, and the next run may have another           *)
(* configuration.                                                          *)
(*                                                                         *)
(* Registers hold the configuration their value was taken from.  Packets   *)
(* are read whole, and a reply that is lost takes whole packets with it    *)
(* (EventStream is about the words); a write is done once and exactly      *)
(* (SsdtpLink and StartStop are about retries); and a register access that *)
(* fails in the end is a crash after it or before it.                      *)
(***************************************************************************)
EXTENDS OutputFile, FiniteSets

CONSTANTS
  NumberOfChannels,
  Configurations,      (* contents the configuration file may have         *)
  Readable,            (* those loadConfigurationFile() accepts            *)
  RecordSamples,       (* PreTriggerSamples + PostTriggerSamples           *)
  PacketSamples,       (* SamplesInEventPacket                             *)
  SavedSamples,        (* getNSamplesInEventListFile()                     *)
  ChannelEnable,       (* the channels to be started                       *)
  BufferEvents,        (* events that fit in the buffer of a channel       *)
  FifoEvents,          (* events that fit in the EventFIFO                 *)
  ReadEvents,          (* events of one read                               *)
  MaxWaveformLength,
  InitialEventInstanceNumber,
  MaxEvents,           (* bound: events of a channel                       *)
  MaxRuns,             (* bound: runs                                      *)
  MaxFaults,           (* bound: crashes, lost replies of a read, failing  *)
                       (* writes to the file                               *)
  MaxChanges           (* bound: edits of the configuration file and       *)
                       (* startNewOutputFile commands                      *)

Channels == 1..NumberOfChannels

ASSUME SizeAssumption ==
  /\ {NumberOfChannels, BufferEvents, FifoEvents, ReadEvents} \subseteq Nat \ {0}
  /\ {MaxWaveformLength, InitialEventInstanceNumber} \subseteq Nat
  /\ {MaxEvents, MaxRuns, MaxFaults, MaxChanges} \subseteq Nat
ASSUME ConfigurationAssumption ==
  /\ Readable \subseteq Configurations
  /\ {RecordSamples, PacketSamples, SavedSamples}
       \subseteq [Configurations -> 0..MaxWaveformLength]
  /\ \A c \in Configurations : SavedSamples[c] <= PacketSamples[c]
  /\ ChannelEnable \in [Configurations -> SUBSET Channels]

VARIABLES
  register,            (* of each ChannelModule                            *)
  adcClock,
  packetSamples,       (* EventPacket_NumberOfWaveform                     *)
  output,              (* EventOutputDisable is 0                          *)
  startStop,           (* the channels that are started                    *)
  triggerCount, waiting,   (* of each channel: events so far, in its buffer *)
  fifo,                (* the EventFIFO                                    *)
  configFile,          (* contents of the configuration file               *)
  pc, step,
  loaded,              (* the configuration this run has loaded            *)
  drain,               (* reads since stopAcquisition()                    *)
  reservoir,           (* waveforms of the Event instances that are free   *)
  events,              (* read, and not yet filled                         *)
  header,              (* HISTORY of the file: the configuration file      *)
  run,                 (* history: number of this run                      *)
  edited,              (* history: configFile changed since it was loaded  *)
  abandoned,           (* history: no run ended in order since a crash     *)
                       (* that left the board at work                      *)
  fate,                (* HISTORY: what became of each event               *)
  faults, changes

board == <<register, adcClock, packetSamples, output, startStop, triggerCount, waiting, fifo>>
host == <<pc, step, loaded, drain, reservoir, events, header, run, abandoned>>
vars == <<board, host, file, configFile, edited, fate, faults, changes>>

-----------------------------------------------------------------------------
ChannelRegisters == {"NumberOfSamples", "DepthOfDelay", "TriggerMode",
                     "ThresholdStarting", "ThresholdClosing", "AdcPower"}
Has(c, ch) ==
  /\ adcClock = "50MHz"
  /\ \A r \in ChannelRegisters : register[ch][r] = IF r = "AdcPower" THEN "on" ELSE c
InForce(ch) == IF \E c \in Configurations : Has(c, ch)
               THEN CHOOSE c \in Configurations : Has(c, ch) ELSE "mixed"

Acquiring == {"open", "cpu", "gps", "read", "retry", "reopen", "fill", "tail", "stop"}

(* An event is known by its channel and its number.                        *)
Sample(e) == <<e.ch, e.triggerCount>>
Samples(s) == {Sample(s[k]) : k \in 1..Len(s)}

(* Events are written, or given to a file that can no longer be written    *)
(* to, or destroyed on their way to one.  What a crash leaves of the file  *)
(* that was open is DaqProcess's matter.                                   *)
Fates == {"none", "written", "unwritten", "destroyed"}
Meet(ids, end) == fate' = [i \in DOMAIN fate |-> IF i \in ids THEN end ELSE fate[i]]

Init ==
  /\ register = [ch \in Channels |-> [r \in ChannelRegisters |-> "default"]]
  /\ adcClock = "default" /\ packetSamples = 0 /\ output = TRUE /\ startStop = {}
  /\ triggerCount = [ch \in Channels |-> 0] /\ waiting = [ch \in Channels |-> << >>]
  /\ fifo = << >>
  /\ configFile \in Readable
  /\ pc = "down" /\ step = 0 /\ loaded = "default" /\ drain = 0
  /\ reservoir = << >> /\ events = << >>
  /\ header = "default" /\ run = 0 /\ abandoned = FALSE /\ edited = FALSE
  /\ fate = [i \in Channels \X (1..MaxEvents) |-> "none"]
  /\ faults = 0 /\ changes = 0
  /\ NoFile

-----------------------------------------------------------------------------
(* The board.                                                              *)

(* A trigger of a started channel; what it records depends on the          *)
(* registers of this moment.                                               *)
Recorded(ch) ==
  /\ ch \in startStop
  /\ triggerCount[ch] < MaxEvents /\ Len(waiting[ch]) < BufferEvents
  /\ triggerCount' = [triggerCount EXCEPT ![ch] = @ + 1]
  /\ waiting' = [waiting EXCEPT ![ch] = Append(@,
       [ch |-> ch, triggerCount |-> triggerCount'[ch], as |-> InForce(ch), samples |-> 0,
        run |-> IF pc \in Acquiring THEN run ELSE 0])]

Trigger(ch) ==
  /\ Recorded(ch)
  /\ UNCHANGED <<register, adcClock, packetSamples, output, startStop, fifo,
                 host, file, configFile, edited, fate, faults, changes>>

(* An event packet goes to the EventFIFO, with as many samples as the      *)
(* register says now.                                                      *)
SendPacket(ch) ==
  /\ output /\ waiting[ch] # << >> /\ Len(fifo) < FifoEvents
  /\ fifo' = Append(fifo, [Head(waiting[ch]) EXCEPT !.samples = packetSamples])
  /\ waiting' = [waiting EXCEPT ![ch] = Tail(@)]
  /\ UNCHANGED <<register, adcClock, packetSamples, output, startStop, triggerCount,
                 host, file, configFile, edited, fate, faults, changes>>

(* Somebody edits the configuration file.                                  *)
EditConfiguration ==
  /\ changes < MaxChanges /\ changes' = changes + 1
  /\ configFile' \in Configurations \ {configFile}
  /\ edited' = TRUE
  /\ UNCHANGED <<board, host, file, fate, faults>>

-----------------------------------------------------------------------------
(* The beginning of a run.                                                 *)

(* The program is gone, with the events in its hand; the board is not      *)
(* told.                                                                   *)
Exit ==
  /\ pc' = "down" /\ step' = 0 /\ loaded' = "default" /\ drain' = 0
  /\ reservoir' = << >> /\ events' = << >> /\ Meet(Samples(events), "destroyed")
  /\ header' = "default"
  /\ abandoned' = (abandoned \/ pc \notin {"load", "program", "enable"})
  /\ outputFileIsOpen' = FALSE
  /\ table' = << >> /\ rowIndex' = 0 /\ fitsNRows' = 0 /\ rowExpansionStep' = InitialRowNumber
  /\ fitsStatus' = 0 /\ filled' = << >>
  /\ UNCHANGED <<board, run, configFile, edited, changes>>

Crash ==
  /\ pc # "down" /\ faults < MaxFaults /\ faults' = faults + 1
  /\ Exit

(* The samples of a new Event instance are not initialised.                *)
NewWaveform == [j \in 1..MaxWaveformLength |-> Blank]

(* The constructor of GROWTH_FY2015_ADC connects and makes a decoder with  *)
(* Event instances; the FPGA type and version are read.                    *)
Connect ==
  /\ pc = "down" /\ run < MaxRuns
  /\ pc' = "load" /\ run' = run + 1
  /\ reservoir' = [k \in 1..InitialEventInstanceNumber |-> NewWaveform]
  /\ UNCHANGED <<board, step, loaded, drain, events, header, abandoned,
                 file, configFile, edited, fate, faults, changes>>

(* A keyword is missing, or the file does not parse.                       *)
LoadRefused ==
  /\ pc = "load" /\ configFile \notin Readable
  /\ Exit /\ UNCHANGED faults

LoadConfiguration ==
  /\ pc = "load" /\ configFile \in Readable
  /\ loaded' = configFile /\ edited' = FALSE
  /\ pc' = "program" /\ step' = 1
  /\ UNCHANGED <<board, drain, reservoir, events, header, run, abandoned,
                 file, configFile, fate, faults, changes>>

(* The writes of loadConfigurationFile(): setNumberOfSamples(),            *)
(* setNumberOfSamplesInEventPacket(), and a loop over the channels.        *)
WritesOfChannel == <<"DepthOfDelay", "TriggerMode", "ThresholdStarting", "ThresholdClosing",
                     "AdcClock", "AdcPower">>
FirstOfLoop == NumberOfChannels + 3
LastWrite == NumberOfChannels + 2 + NumberOfChannels * Len(WritesOfChannel)
ChannelOfStep == IF step < FirstOfLoop THEN step
                 ELSE ((step - FirstOfLoop) \div Len(WritesOfChannel)) + 1
RegisterOfStep == IF step < FirstOfLoop THEN "NumberOfSamples"
                  ELSE WritesOfChannel[((step - FirstOfLoop) % Len(WritesOfChannel)) + 1]

(* The setters of a ChannelModule.                                         *)
setRegister(ch, r, value) == register' = [register EXCEPT ![ch][r] = value]

turnOnADCPower == RegisterOfStep = "AdcPower" /\ setRegister(ChannelOfStep, "AdcPower", "on")
setDepthOfDelay ==
  RegisterOfStep = "DepthOfDelay" /\ setRegister(ChannelOfStep, "DepthOfDelay", loaded)
setModeOrThresholdOrSamples ==
  /\ RegisterOfStep \in ChannelRegisters \ {"AdcPower", "DepthOfDelay"}
  /\ setRegister(ChannelOfStep, RegisterOfStep, loaded)

setChannelRegister ==
  /\ step \notin {NumberOfChannels + 1, NumberOfChannels + 2}
  /\ turnOnADCPower \/ setDepthOfDelay \/ setModeOrThresholdOrSamples
  /\ UNCHANGED <<adcClock, packetSamples>>

AdcClockIs(frequency) == adcClock' = frequency
setAdcClock ==
  /\ step >= FirstOfLoop /\ RegisterOfStep = "AdcClock"
  /\ AdcClockIs("50MHz")
  /\ UNCHANGED <<register, packetSamples>>

setEventPacket_NumberOfWaveform(n) == packetSamples' = n

(* setNumberOfSamples() sets the length of the packets, too.               *)
PacketThenRecord ==                       (* mutant: the order of the two  *)
  /\ step \in {NumberOfChannels + 1, NumberOfChannels + 2}
  /\ setEventPacket_NumberOfWaveform(IF step = NumberOfChannels + 1
                                     THEN PacketSamples[loaded] ELSE RecordSamples[loaded])
  /\ UNCHANGED <<register, adcClock>>

setNumberOfSamplesInEventPacket ==
  /\ step \in {NumberOfChannels + 1, NumberOfChannels + 2}
  /\ setEventPacket_NumberOfWaveform(IF step = NumberOfChannels + 1
                                     THEN RecordSamples[loaded] ELSE PacketSamples[loaded])
  /\ UNCHANGED <<register, adcClock>>

Program ==
  /\ pc = "program"
  /\ setChannelRegister \/ setAdcClock \/ setNumberOfSamplesInEventPacket
  /\ IF step = LastWrite THEN pc' = "enable" /\ step' = 0 ELSE step' = step + 1 /\ UNCHANGED pc
  /\ UNCHANGED <<output, startStop, triggerCount, waiting, fifo,
                 loaded, drain, reservoir, events, header, run, abandoned,
                 file, configFile, edited, fate, faults, changes>>

enableEventDataOutput == output' = TRUE
disableEventDataOutput == output' = FALSE

(* GROWTH_FY2015_ADC::startAcquisition() writes two registers.  It does    *)
(* not reset the EventFIFO.                                                *)
EnableEventDataOutput ==
  /\ pc = "enable"
  /\ enableEventDataOutput
  /\ pc' = "start"
  /\ UNCHANGED <<register, adcClock, packetSamples, startStop, triggerCount, waiting, fifo,
                 step, loaded, drain, reservoir, events, header, run, abandoned,
                 file, configFile, edited, fate, faults, changes>>

StartWithReset ==                         (* mutant: consumerManager->reset() *)
  /\ pc = "start"
  /\ startStop' = ChannelEnable[loaded] /\ fifo' = << >>
  /\ pc' = "open"
  /\ UNCHANGED <<register, adcClock, packetSamples, output, triggerCount, waiting,
                 step, loaded, drain, reservoir, events, header, run, abandoned,
                 file, configFile, edited, fate, faults, changes>>

StartAcquisition ==
  /\ pc = "start"
  /\ startStop' = ChannelEnable[loaded]
  /\ pc' = "open"
  /\ UNCHANGED <<register, adcClock, packetSamples, output, triggerCount, waiting, fifo,
                 step, loaded, drain, reservoir, events, header, run, abandoned,
                 file, configFile, edited, fate, faults, changes>>

(* The header quotes the configuration file as it is now.                  *)
writeHeader == header' = configFile

(* openOutputEventListFile().                                              *)
OpenOutput ==
  /\ pc \in {"open", "reopen"}
  /\ createOutputFITSFile /\ writeHeader
  /\ IF pc = "open" THEN pc' = "cpu" /\ step' = 1 ELSE pc' = "read" /\ UNCHANGED step
  /\ UNCHANGED <<board, loaded, drain, reservoir, events, run, abandoned,
                 configFile, edited, fate, faults, changes>>

(* The trigger may come while the channel is busy.                         *)
sendCPUTrigger(ch) == Recorded(ch) \/ UNCHANGED <<triggerCount, waiting>>

(* To one channel after the other, if it is enabled.                       *)
SendCPUTrigger ==
  /\ pc = "cpu"
  /\ IF step \in ChannelEnable[loaded] THEN sendCPUTrigger(step)
     ELSE UNCHANGED <<triggerCount, waiting>>
  /\ IF step = NumberOfChannels THEN pc' = "gps" /\ step' = 0 ELSE step' = step + 1 /\ UNCHANGED pc
  /\ UNCHANGED <<register, adcClock, packetSamples, output, startStop, fifo,
                 loaded, drain, reservoir, events, header, run, abandoned,
                 file, configFile, edited, fate, faults, changes>>

-----------------------------------------------------------------------------
(* The loop of run(), and readAndThenSaveEvents().                         *)

(* readAnsSaveGPSRegister() before the loop and, after 30 s, in it.        *)
SaveGPSRegister ==
  /\ pc = "gps"
  /\ \/ fillGPSTime /\ pc' = "tail"
        /\ UNCHANGED <<board, step, loaded, drain, reservoir, events, header, run, abandoned,
                       file, configFile, edited, fate, changes>>
     \/ ~fillGPSTime /\ Exit
  /\ UNCHANGED faults

(* The rest of a round: the next one, with the GPS register or without; or *)
(* the end of the loop.                                                    *)
LoopTail ==
  /\ pc = "tail"
  /\ pc' \in {"read", "gps", "stop"}
  /\ UNCHANGED <<board, step, loaded, drain, reservoir, events, header, run, abandoned,
                 file, configFile, edited, fate, faults, changes>>

(* A new file was asked for.                                               *)
SwitchOutputFile ==
  /\ pc = "read" /\ changes < MaxChanges /\ changes' = changes + 1
  /\ close
  /\ pc' = "reopen"
  /\ UNCHANGED <<board, step, loaded, drain, reservoir, events, header, run, abandoned,
                 configFile, edited, fate, faults>>

(* getEventData(): what is in the EventFIFO, up to the size of its buffer. *)
EventsInRead == IF Len(fifo) < ReadEvents THEN Len(fifo) ELSE ReadEvents
getEventData == fifo' = SubSeq(fifo, EventsInRead + 1, Len(fifo))

(* RMAPHandlerUART::read() waits in vain for the reply, which the board    *)
(* has sent and thereby taken out of its EventFIFO, and tries again.       *)
LoseReply ==
  /\ pc \in {"read", "retry"} /\ fifo # << >>
  /\ faults < MaxFaults /\ faults' = faults + 1
  /\ getEventData
  /\ Meet(Samples(SubSeq(fifo, 1, EventsInRead)), "destroyed")
  /\ pc' = "retry"
  /\ UNCHANGED <<register, adcClock, packetSamples, output, startStop, triggerCount, waiting,
                 step, loaded, drain, reservoir, events, header, run, abandoned,
                 file, configFile, edited, changes>>

(* pushEventToQueue() takes the instance freed last, or a new one, and     *)
(* copies the samples of the packet: the rest of its waveform stays.       *)
WaveformOf(k) ==
  IF k <= Len(reservoir) THEN reservoir[Len(reservoir) + 1 - k] ELSE NewWaveform
pushEventToQueue(e, k) ==
  [ch |-> e.ch, triggerCount |-> e.triggerCount, as |-> e.as, samples |-> e.samples,
   run |-> e.run,
   waveform |-> [j \in 1..MaxWaveformLength |->
                   IF j <= e.samples THEN Sample(e) ELSE WaveformOf(k)[j]]]

(* The queue of the decoder is emptied with each read.                     *)
getDecodedEvents == [k \in 1..EventsInRead |-> pushEventToQueue(fifo[k], k)]

GetEvent ==
  /\ pc \in {"read", "retry"}
  /\ getEventData
  /\ events' = getDecodedEvents
  /\ reservoir' = SubSeq(reservoir, 1, Len(reservoir) - EventsInRead)
  /\ pc' = "fill"
  /\ UNCHANGED <<register, adcClock, packetSamples, output, startStop, triggerCount, waiting,
                 step, loaded, drain, header, run, abandoned,
                 file, configFile, edited, fate, faults, changes>>

(* A row holds the first samples of the waveform.                          *)
getNSamplesInEventListFile == SavedSamples[loaded]
Row(e) == [e EXCEPT !.waveform = SubSeq(@, 1, getNSamplesInEventListFile)]

(* The instances are freed in this order, after the last one is filled.    *)
freeEvent(e) == reservoir' = Append(reservoir, e.waveform)

SaveEvent ==
  /\ pc = "fill" /\ events # << >>
  /\ events' = Tail(events)
  /\ \/ FillEvent(Row(Head(events))) /\ UNCHANGED faults
     \/ faults < MaxFaults /\ faults' = faults + 1 /\ FillEventFails(Row(Head(events)))
  /\ Meet({Sample(Head(events))}, IF fitsStatus' = 0 THEN "written" ELSE "unwritten")
  /\ freeEvent(Head(events))
  /\ UNCHANGED <<board, pc, step, loaded, drain, header, run, abandoned,
                 configFile, edited, changes>>

SaveFails ==
  /\ pc = "fill" /\ events # << >>
  /\ CannotExpand
  /\ Exit /\ UNCHANGED faults

OneReadMore ==                        (* mutant: one read too many    *)
  /\ pc = "fill" /\ events = << >>
  /\ IF drain = 0 THEN pc' = "tail" /\ UNCHANGED drain
     ELSE IF drain <= 3 THEN pc' = "read" /\ drain' = drain + 1
     ELSE pc' = "close" /\ UNCHANGED drain
  /\ UNCHANGED <<board, step, loaded, reservoir, events, header, run, abandoned,
                 file, configFile, edited, fate, faults, changes>>

EventsSaved ==
  /\ pc = "fill" /\ events = << >>
  /\ IF drain = 0 THEN pc' = "tail" /\ UNCHANGED drain
     ELSE IF drain < 3 THEN pc' = "read" /\ drain' = drain + 1
     ELSE pc' = "close" /\ UNCHANGED drain
  /\ UNCHANGED <<board, step, loaded, reservoir, events, header, run, abandoned,
                 file, configFile, edited, fate, faults, changes>>

-----------------------------------------------------------------------------
(* The end of a run.                                                       *)

NotStopped ==                         (* mutant: not stopped           *)
  /\ pc = "stop"
  /\ drain' = 1
  /\ pc' = "read"
  /\ UNCHANGED <<board, step, loaded, reservoir, events, header, run, abandoned,
                 file, configFile, edited, fate, faults, changes>>

StopAcquisition ==
  /\ pc = "stop"
  /\ startStop' = {} /\ drain' = 1
  /\ pc' = "read"
  /\ UNCHANGED <<register, adcClock, packetSamples, output, triggerCount, waiting, fifo,
                 step, loaded, reservoir, events, header, run, abandoned,
                 file, configFile, edited, fate, faults, changes>>

CloseOutput ==
  /\ pc = "close"
  /\ close
  /\ pc' = "device"
  /\ UNCHANGED <<board, step, loaded, drain, reservoir, events, header, run, abandoned,
                 configFile, edited, fate, faults, changes>>

(* The instance of the board is deleted, with its decoder.                 *)
DeleteDecoder == reservoir' = << >>
DeleteBoard == DeleteDecoder /\ loaded' = "default"

(* closeDevice() and the rest of run().                                    *)
CloseDevice ==
  /\ pc = "device"
  /\ disableEventDataOutput
  /\ DeleteBoard
  /\ pc' = "down" /\ drain' = 0 /\ header' = "default"
  /\ abandoned' = FALSE
  /\ UNCHANGED <<register, adcClock, packetSamples, startStop, triggerCount, waiting, fifo,
                 step, events, run, file, configFile, edited, fate, faults, changes>>

Run ==
  \/ Connect \/ LoadRefused \/ LoadConfiguration \/ Program
  \/ EnableEventDataOutput \/ StartAcquisition \/ OpenOutput \/ SendCPUTrigger
  \/ SaveGPSRegister \/ LoopTail \/ SwitchOutputFile
  \/ LoseReply \/ GetEvent \/ SaveEvent \/ SaveFails \/ EventsSaved
  \/ StopAcquisition \/ CloseOutput \/ CloseDevice

Next ==
  \/ \E ch \in Channels : Trigger(ch) \/ SendPacket(ch)
  \/ EditConfiguration \/ Crash
  \/ Run

Spec == Init /\ [][Next]_vars

-----------------------------------------------------------------------------
Event == [ch : Channels, triggerCount : 1..MaxEvents, as : Configurations \cup {"mixed"},
          samples : Nat, run : 0..MaxRuns]
Waveforms == Seq(Channels \X (1..MaxEvents) \cup {Blank})
Decoded == [ch : Channels, triggerCount : 1..MaxEvents, as : Configurations \cup {"mixed"},
            samples : Nat, run : 0..MaxRuns, waveform : Waveforms]

(* Every variable has its type.                                            *)
TypeOK ==
  /\ register \in [Channels -> [ChannelRegisters -> Configurations \cup {"default", "on"}]]
  /\ adcClock \in {"default", "50MHz"} /\ packetSamples \in Nat
  /\ output \in BOOLEAN /\ startStop \subseteq Channels
  /\ triggerCount \in [Channels -> 0..MaxEvents]
  /\ waiting \in [Channels -> Seq(Event)] /\ fifo \in Seq(Event)
  /\ reservoir \in Seq(Waveforms) /\ {events, filled} \subseteq Seq(Decoded)
  /\ {configFile, loaded, header} \subseteq Configurations \cup {"default"}
  /\ pc \in Acquiring \cup {"down", "load", "program", "enable", "start", "close", "device"}
  /\ step \in 0..LastWrite /\ drain \in 0..3 /\ run \in 0..MaxRuns
  /\ edited \in BOOLEAN /\ abandoned \in BOOLEAN
  /\ fate \in [Channels \X (1..MaxEvents) -> Fates]
  /\ faults \in 0..MaxFaults /\ changes \in 0..MaxChanges
  /\ table \in Seq(Decoded \cup {Blank}) /\ outputFileIsOpen \in BOOLEAN
  /\ {rowIndex, fitsNRows, rowExpansionStep, fitsStatus} \subseteq Nat

(* What is in a file of a run and was recorded since its start was         *)
(* recorded by an enabled channel with the registers of one configuration, *)
(* the one the run loaded, and sent in a packet of its length; its row has *)
(* the samples of its own event, whatever the instance held before; and    *)
(* the header quotes the configuration, unless the file changed since it   *)
(* was loaded.                                                             *)
RowsAsConfigured ==
  \A k \in 1..Len(filled) : pc # "down" /\ filled[k].run = run =>
    /\ filled[k].as = loaded /\ filled[k].ch \in ChannelEnable[loaded]
    /\ filled[k].samples = PacketSamples[loaded]
    /\ filled[k].waveform = [j \in 1..SavedSamples[loaded] |-> Sample(filled[k])]
    /\ edited \/ header = loaded

(* After a run that ended in order the board records and sends nothing     *)
(* until the next one starts it; only a crash leaves it at work while its  *)
(* registers are programmed.                                               *)
QuietUnlessAbandoned ==
  [][waiting' # waiting \/ fifo' # fifo =>
       abandoned \/ pc \in Acquiring \cup {"start", "close", "device"}]_vars

(* Events of a channel come in order: into the file, into the hand of the  *)
(* program, into the EventFIFO and into the buffer of the channel.         *)
Path == filled \o events \o fifo
InOrder ==
  /\ \A k, l \in 1..Len(Path) :
       k < l /\ Path[k].ch = Path[l].ch => Path[k].triggerCount < Path[l].triggerCount
  /\ \A ch \in Channels : \A k \in 1..Len(waiting[ch]) :
       /\ waiting[ch][k].ch = ch
       /\ waiting[ch][k].triggerCount + Len(waiting[ch]) = triggerCount[ch] + k

(* An event that was recorded is in one place: in the buffer of its        *)
(* channel, in the EventFIFO or in the hand of the program, or it has met  *)
(* its fate.                                                               *)
HasLeft(ch, n) == n + Len(waiting[ch]) <= triggerCount[ch]
InOnePlace ==
  \A ch \in Channels, n \in 1..MaxEvents :
    /\ <<ch, n>> \in Samples(events \o fifo) <=> HasLeft(ch, n) /\ fate[<<ch, n>>] = "none"
    /\ fate[<<ch, n>>] # "none" => HasLeft(ch, n)

(* The events the open file was given are in its rows, up to the one at    *)
(* which a write failed.                                                   *)
WrittenInFile ==
  outputFileIsOpen =>
    \A k \in 1..Len(filled) :
      \/ fate[Sample(filled[k])] = "written" /\ table[k] = filled[k]
      \/ fate[Sample(filled[k])] = "unwritten" /\ fitsStatus # 0 /\ k >= fitsStatus

(* A fault destroys no more than the events of one read.                   *)
Destroyed == {i \in Channels \X (1..MaxEvents) : fate[i] = "destroyed"}
DamageBounded == Cardinality(Destroyed) <= faults * ReadEvents

(* Over runs, changes of the file, crashes, lost replies and failing       *)
(* writes, no event disappears unseen: each is on its way, is written once *)
(* and in order, was given to a file whose writing had failed, or is one   *)
(* of the few a fault has destroyed.                                       *)
EventFates == InOrder /\ InOnePlace /\ WrittenInFile /\ DamageBounded

(* A file that is closed holds one row for each event it was given, in     *)
(* order and nothing else; a row may be blank only from the one on at      *)
(* which a write failed.                                                   *)
ClosedFileIsExact ==
  [][outputFileIsOpen /\ ~outputFileIsOpen' /\ pc' # "down" =>
       /\ Len(table') = Len(filled)
       /\ \A k \in 1..Len(filled) :
            table'[k] = filled[k] \/ (fitsStatus # 0 /\ k >= fitsStatus)]_vars
=============================================================================

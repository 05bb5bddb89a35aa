# Verification of GROWTH-DAQ

GROWTH-DAQ is the data acquisition system of the GROWTH gamma-ray detectors: an
FPGA board that digitises pulses, a C++ program (`growth_daq`) that reads the
board over a UART and writes FITS files, and Ruby daemons that observe
automatically, switch the high voltage and move the files away.  This directory
holds TLA+ models of its core, TLC configurations that check them on small
instances and TLAPS proofs that hold for every value of the constants.

`PROJECT.json` is the index: the components, the runs, for every property a
mutant of the code it must reject, the source lines of every definition, the
hazards and which property covers each, the findings and the theorems.

To repeat a check, in this directory:

    tlc -workers 2 -config DaqServe.cfg DaqProcess     # any run of PROJECT.json
    tlapm DaqProcess_proofs.tla                        # any module *_proofs

## 1. The system

    detector -> channel modules -> consumer manager -> EventFIFO      (FPGA)
                    |   ^                                 |
                 ChannelManager             iBus, RMAP, SSDTP bridge, UART
    ----------------------------------------------------------------- serial line
         RMAPHandlerUART <- SpaceWireSSDTPModuleUART                  (host, C++)
                    |
         EventDecoder, ChannelManager   (GROWTH_FY2015_ADC)
                    |
         MainThread::run  --- shared flags --- MessageServer::run     growth_daq
                    |                               | ZeroMQ request/reply
               FITS files                     growth_controller       (Ruby)
                    |                               | ZeroMQ request/reply
               file relocator              growth_daq_run_manager, console
    All daemons are started, and started again when they die, by God.

| Part | State | Operations | How it interacts | Hard behaviour |
|---|---|---|---|---|
| `growth_daq`: `main`, `MessageServer`, `MainThread`, `EventListFileFITS` | `stopped`, `switchOutputFile`, `daqStatus`, the open file, counters, start times | stop, pause, resume, startNewOutputFile, getStatus; the acquisition run | two threads and `main` share members without a lock; requests over ZeroMQ; the board; the file system | interleaving of requests with the start and the end of a run; aborts in the middle; file names by the second |
| Readout: `ConsumerManagerEventFIFO`, `RMAPHandlerUART`, `EventDecoder`, EventFIFO FSMs | FIFO contents, the state of the decoder | data count, read, retry, decode | RMAP over the UART | a read has an effect and is retried; reads cut packets anywhere |
| Start/stop: `ChannelManager`, `SemaphoreRegister`, `UserModule_ChannelManager` | StartStopRegister, semaphore, preset counters | request, write, release, mode, reset; clearing by the board | both sides write one register | mutual exclusion between a program and an FSM, lost write replies |
| Run manager, `hv`, `hk`, `daq` modules of `growth_controller` | mode of the manager, output and DAC of two HV channels | the loop: hk, status, resume/pause, set/on/off | requests with a timeout of 1 s, never cancelled | one step of several failing, late execution, restarts of any program |
| SSDTP over UART (host): `SpaceWireSSDTPModuleUART`, `SpaceWireIFOverUART`, `SerialPort` | `receiveCanceled`, `receivemutex`, the header under construction | send, receive, cancelReceive, connect, disconnect | the thread that makes an RMAP access and the thread of `RMAPEngine` share the port and the flag | timeouts inside a header, late replies, a cancellation for a receive that is no longer there, returns that keep the mutex |
| Programming of the board and output files: `GROWTH_FY2015_ADC`, `ChannelModule`, `EventDecoder`, `EventListFileFITS` | registers of the board, pool of Event instances, rows and status of the file | loadConfigurationFile, start and stop, CPU trigger, fillEvents, close | the board keeps its registers and its FIFO over runs and crashes | another configuration meets old registers and old events; Event instances are used again; a write fails half way |
| Channel modules (FPGA) | trigger, buffer and pulse processor FSMs, FIFO | trigger, buffering, packet output | grant from the consumer manager | full buffers, trigger while busy |
| Consumer manager (FPGA) | grant, LoopI, EventFIFO | arbitration, transfer, reset | all channels, readout | reset while transferring, back-pressure |
| Internal bus, SSDTP bridge (FPGA) | bus grant, packet FSMs | bus reads and writes | RMAP target core | two masters, packet framing |
| File relocator | list of files of a round | gzip and move what is not being written | status of `growth_daq`, files of `growth_daq` and `growth_hk_logger` | status older than the directory listing; errors half way leave a file in a form the next round does not look for |
| Remote command executor | time stamp of the last command | fetch, execute, remember | web server, file | crash between execution and time stamp |
| Loggers, display, telemetry, configuration | none that is shared | loops over text | - | none |

What makes the main parts correct:

* growth_daq: no event that was read is lost or stored twice, except by a crash
  or the creation of a file of the same name; the counters of the file are those
  of the file; run() never uses a file that is closed; Paused means released; a
  request is not forgotten (which the code does not keep for a stop and for a new
  file, section 4); a run goes on and comes to its end.
* readout: the packets of the board come out in order, unchanged and at most
  once, however reads cut them; after a fault the decoder finds the next packet.
* start/stop: what the host orders is what the board does, and the board does
  not interfere while the host holds the semaphore.
* channel modules and consumer manager: a trigger that is taken becomes one whole
  event with its own header and count, the EventFIFO carries whole packets of one
  channel each, a reset leaves no partial packet, and nothing that is ready waits
  for ever.
* link: a lost or late byte costs the access it hits and no later one, and a
  connection can always be given up.
* programming and files: what a row holds was recorded with the configuration of
  the run and is about its own event; an event that was recorded comes to one end,
  in its order, and only a fault destroys any, few at a time; a closed file has a
  row for each event.
* file relocator: no file is taken away from the program that writes it, and a
  complete file is moved (of those that are compressed already the code moves none,
  section 4).
* run manager: no observation without high voltage, and no high voltage for long
  under unfit conditions, whatever fails and is executed late.

The full list of the hazards, each at the line where it bites, with the
properties that cover it or the reason why none does yet, is under `hazards` in
`PROJECT.json`.

## 2. The modules

### DaqProcess: the process growth_daq

One action per request handler, since the server handles one request at a time
and each handler writes one flag: `HandleStop`, `HandlePause`, `HandleResume`,
`HandleStartNewOutputFile`.  `MainThread::run()` is a program counter `pc` cut
wherever the code reads or writes a member the server also uses, touches the
board or touches the file system:

    created -Begin-> begin -ForgetSwitch-> boot -Boot-> start -StartAcquisition->
    stamp0 -StampOutput-> create0 -CreateOutput-> prime -Prime-> loop
    loop -LoopTest-> check -CheckSwitch-> get -GetEvent-> fill -FillEvents->
         tail -LoopTail-> loop, or halt
    check -> close -> stamp -> create -> clear -> get        (switch of the file)
    halt -StopAcquisition-> check, get, fill three times (drain) -> finalClose
         -> finish -Finish-> none

The three reads after `stopAcquisition()` are the same actions with `drain`
counting from 3.  Events are numbered as they are read, and a file is the set of
the events filled into it, so that duplicates and losses are visible; `taken` and
`lost` are history variables.  The name of a file is the second it is created in
and creating truncates (`"!"` of cfitsio).  `Trigger` and `Tick` are the
detector and the clock.  `Abort` is the death of the process (`exit(-1)`, an
uncaught exception) in any step that uses the board or the file; of the open
file any prefix of its unwritten part may survive.  `Restart` is God, with
exposure 0 as in `growth.god.conf`; a process called with an exposure is not
under God.

`processResumeCommand()` starts a second thread if it is handled twice before the
first thread sets the status.  Two threads then share every member, which is
undefined behaviour in C++; the model stops there (`main = "undefined"`) and
does not describe it, and properties about progress carry `~Alive` for it.

### DaqControl: what a client of growth_daq sees

The abstract specification: the requests, the phases of a run (none, created,
booting, observing, stopping, ending) and the process.  `DaqProcess` implements
it under the mapping `server <- main, run <- RunPhase`, safety (`ControlHolds`,
proved) and fairness (`ControlMovesOn`, checked).  `RunManager` is written
against it and not against `DaqProcess`, so the two results compose: what the
manager achieves with `DaqControl` it achieves with every implementation of it.

### EventStream and EventDelivery: the readout

A word is named by its packet and its place in it; what it looks like to the
decoder is `Value`.  `WriteWord` is the board writing to the EventFIFO, held
back when it is full; `ReadDataCount`, `SendWord`, `ReplyArrives`, `Retry` are one
`getEventData()` with the retries of `RMAPHandlerUART::read()`: a timeout either
means that the command never arrived or that its words are popped and lost.
`DecodeWord` is one round of the loop in `decodeEvent()`, whose state survives
from read to read, and `NewDecoder` is the next run.  A header word at one of the
`TimePlaces` of one of the `TimePackets` may look like the start or the end flag
(a time or a count can have any value).  `EventDelivery` is what the readout
promises: packets in order, at most once, and at most `DamagedPerFault` events
per fault that are no packet.  A read that repeats words (its command never
arrived while the read before had popped them) can build events of any kind from
them, but each takes a start flag, a header and an end flag; two more come from
the event that was begun before and from one begun at a header word that looks
like a flag.  That is 3 with the constants of the run, and 110 with the 12 header
words and the reads of 1500 words of the code, where a packet is mostly longer
than a read.

### SsdtpLink: the serial line under every register access

Three parties: the thread that calls `read()` or `write()` of the RMAP handler
(`handler`), the thread of `RMAPEngine`, which calls
`SpaceWireSSDTPModuleUART::receive()` over and over (`engine`, the receive state
machine, a byte at a time), and the board, which answers commands in order.
Time passes in steps of half a second (`Tick`), the unit in which the timeouts of
the port (0.5 s), of a transaction (1 s) and the wait after a cancellation
(1.5 s) are whole numbers.  A byte of a reply may get lost, a command may be
written in part, and the line may stall for a second; the framing is found again, or not, with
whatever bytes come next.  `Call` is a single access or the first half of
`read32BitRegister()`, which repeats without cancelling.  A reply that matches
no transaction is dropped by the engine.

What the source does not decide is left open: whether the mutex of CxxUtilities
is recursive (`recursive`, chosen once), and whether `RMAPEngine` ends at an
exception of its interface (`ReturnOrEnd`).  The receive path locks
`receivemutex` and returns without unlocking it when it was cancelled
(`SpaceWireSSDTPModuleUART.hh:301`): with a mutex that is not recursive one
cancellation makes the engine deaf for ever.  Both properties are claimed for a
recursive one only.  Not modelled: a port whose write fails, and
`SpaceWireSSDTPModuleUART::close()`, which nobody calls.

### Observation and OutputFile: run after run on the same board

`Observation` is what `run()` does to the board: connect, load the configuration
file, program the registers one RMAP write at a time (`Program`, with `step` the
place in the sequence of `loadConfigurationFile()`), enable, start, CPU trigger,
loop, stop, drain, close.  The board goes on by itself: a channel records with the
registers it has at that moment (`InForce`), packets have the length the
register has when they are sent, and a crash leaves it at work.  `OutputFile` is
`EventListFileFITS` on top of cfitsio: the table with its blank rows, its
expansion, the status, and the deletion of the rows that were not used.
`MCObservation` gives the configurations their lengths and channels.

Registers hold the name of the configuration their value came from.  What becomes
of an event is kept in a history variable, `fate`: written, unwritten (given to a
file to which a write has failed) or destroyed, by a crash (`Exit`) or with a reply
(`LoseReply`: the board takes the events out of its FIFO when it sends them, and
`RMAPHandlerUART::read()` tries again).  `filled`, the events of the open file, is
forgotten with the file; their fates are not.  What a crash leaves of the open file
on the disk is the subject of DaqProcess.

Simplifications: packets are read whole, and a lost reply takes whole packets with it
(EventStream is about the words and about packets that are cut), a write is
done once (SsdtpLink and StartStop are about retries), an access that fails in the
end is a crash before or after it, a row of the GPS table is only its check of the
status, packets are not longer than `MaxWaveformLength`.  The pool of Event
instances is a stack of waveforms, which are used again without being cleared.

### FileRelocator: what is moved, and when

The directory is three sets: files as written, files with `.gz`, files in a
subfolder.  `growth_daq` names, creates, closes and forgets its file in four
steps, as `openOutputEventListFile()` and `closeOutputEventListFile()` do;
`growth_hk_logger` compresses its own file when it switches; the relocator asks,
lists, and then skips, compresses and moves one file after the other.  Everybody
may die, calls and commands may fail.  A name is used once here (two files of one
second are the subject of DaqProcess), and a gzip killed in the middle leaves the
file as it was.  `cut` is a history variable: the files that gzip has compressed and
whose own mv failed, or was prevented by the death of the relocator.  `Sorted(S)` is the set that has one element, the listing of `S`, so
that a listing needs no recursion and can be reasoned about.

### StartStop: ChannelManager on both sides

The host's calls are sequences of register accesses (request the semaphore, read
it back, write, release, read back); every write reply may be lost, after which
the same value is written again.  The board is `iBus_beWritten_Process`, one
action per state; a write is served only in Idle.  `Reach(ch)` is a livetime or
event counter that arrives at its preset.  A reset takes a few clocks and a UART
packet milliseconds, so the guard of `Write` assumes that a reset is over before
the next packet arrives.

### RunManager: automatic observation

`todo` is the list of calls the loop of the manager still makes, head first; the
branches of its code are in what a reply appends to it.  A call is `Answered`, or
it has `Failed`: nobody answers, or it times out, and then it may be lost or stay
in a socket and be executed later (`ExecutedLate`), after the manager has gone on.
Each of the three programs can die and is started again.  `ConditionsChange` is
the slide switch and the temperatures.  `prompt` chooses, once, whether a run
boots and ends and a late call is executed before the manager's sleep of
`WAIT_DURATION_SEC` is over; the two properties that need it say so
(`AllAnswered`).

### ChannelBuffer: from the ADC to the pulse processor

One channel.  A step of the writing side, `Tick`, is one tick of the ADC clock, in
which the trigger module (`TriggerModule`) and the buffer module (`BufferModule`)
move at once and see what the other had before the tick.  The pulse processor is
on another clock: while it copies an event it reads a word every two or three of
these ticks (100 MHz against 50 MHz, 5 to 6 states per word), between events it
takes any time.  The writer sees a word that was read for up to three ticks
longer (`unseen`): its count crosses the clock domains.  A word carries the
number of its trigger, which the code does not know, so that words of two events
cannot be mixed up unseen.  Whether the ADC crosses a threshold is free at every
tick; the veto of the channel manager goes up and down at any time (`Started`).

An event is `NumberOfSamples` + 1 samples, since the trigger compares before it
counts, and 6 words of header, N + 7 in all, but the room asked for and the words
that `hasEvent` waits for are N + 6.  The last word follows one tick later, before
the reader can want it, and is lost only if N + 7 divides 8192
(N = 249, 505, 1017, ...).  The configurations of the repository have 520 and
1020; `ConstantsAssumption` excludes the others.

### EventOutput and PacketStream: from the pulse processors to the EventFIFO

Clocked: a step is one tick of the clock of the board, on which all pulse
processors (`PulseProcessors`), the FIFO and the state machine of the consumer
manager (`ManagerFifo`, `ConsumerManager`: one action per state), the state
machine of its registers (`Registers`) and the EventFIFO (`EventFifo`) move at
once, so that the delays of the handshakes are those of the code.  How long a
pulse processor analyses, when the host writes which register and when the readout
takes a word are free.  `PacketStream` is what comes out of it: whole packets, of
one channel each, every channel in the order of its events, nothing missing but
at most one event for each reset.  `EventStream` starts from it: its board writes
whole packets.

Three assumptions come from outside of the modelled code: a register write finds
the write FSM in Idle (a UART packet takes thousands of ticks), the EventFIFO is
not full while it is held in reset (an option of the IP core, whose
configuration is not in the repository; the mutant `FullInReset` shows that the
reset would otherwise never complete), and a packet fits in the FIFO of the manager
(`GROWTH_FY2015_ADC.hh:586`: at most 1000 words of waveform).

## 3. The runs

States are distinct states found by TLC; each run ends within three minutes.

| Run | States | What it checks |
|---|---|---|
| DaqServe | 178 000 | `TypeOK`, `EventsAccounted`, `CurrentFileCount`, `FileOpenWhenUsed`, `RunEndsReleased`, `SavedEventsPersist`, `ControlHolds`; live: `ControlMovesOn`, `SwitchServed` |
| DaqStopLost (violated) | 3 000 | `StopEndsProgram` |
| DaqSwitchLost (violated) | 6 500 | `NewFileCreated` |
| EventStream | 1 159 000 | `DeliveryHolds`: EventStream implements EventDelivery with two faults and header words that look like flags; `InStepAfterOnePacket`; live: `AllPacketsArrive` |
| ChannelBuffer | 123 000 | `EventsWhole`, `CountsOwnTrigger`; live: `EveryEventAnalysed`, `VetoIsLifted` |
| EventOutput | 415 000 | `StreamHolds`: EventOutput implements PacketStream with two register writes, resets included; live: `ResetCompletes`, `ReadyIsSent` |
| StartStop | 145 000 | `WriteTookEffect`, `StopTakesEffectInNonStop` |
| SsdtpLink | 2 536 000 | `FaultsSpoilTheirTrial`; live: `DisconnectEnds` |
| Observation | 3 498 000 | `RowsAsConfigured`, `EventFates`, `QuietUnlessAbandoned`, `ClosedFileIsExact` |
| FileRelocator | 184 000 | `OpenFilesStay`; live: `PlainFilesMoved` |
| FileRelocatorLeft (violated) | 500 | `AllFilesMoved` |
| AutoRun | 199 000 | `ObservesWithHv`, `UnfitMeansOffIfAnswered`, `FitMeansObserving` with up to two faults of every kind |

`TypeOK` (`ManagerTypeOK` in AutoRun) is an invariant of every passing run.

Bounds, and why they are enough:

* DaqServe: three seconds give files of the same and of different names and an
  exposure of one second that ends in time; a FIFO of 2 read 2 at a time and two
  events give reads of none, some and all, and a FIFO that outlives a run and a
  restart; one restart gives a second life.  The flags and the program
  counter are not bounded.  Time stops at `MaxTime`: after that every creation
  truncates, which `SavedEventsPersist` and `EventsAccounted` have to survive.
* EventStream: with packets of 7 words, a FIFO of 3 and reads of at most 2, every
  cut of a packet occurs.  `MaxWaveform` is one more than `Samples`, so a run of
  words that is too long does overflow the waveform.  Three packets are one before, one
  in and one after a fault.  One place of the header of the second packet looks
  like nothing, like the start flag or like the end flag; `Samples` is not less
  than `HeaderWords`, as the code has it, or `InStepAfterOnePacket` would be void.
* SsdtpLink: replies of two frames, each with a header of two bytes and a byte of
  data, are the smallest with a timeout between two bytes of a header, between
  header and data and between two frames of a packet.  Two calls, two trials and
  two connections: the call after the one a fault hit, the retry after the trial,
  the connection after one that was given up.  A stall of a second is one that
  makes a reply late; a longer one differs from a loss only in when the bytes
  come.  A garbled header announces no byte or more than there are.
* Observation: two runs, one crash, one lost reply or one failing write, one edit or
  one startNewOutputFile, two channels with two events each; a FIFO, a buffer and a
  read of the smallest sizes at which something is left for the next run.  Of the
  two readable configurations one enables a channel more and has longer records,
  packets and rows.  The table begins with one row, so that it is expanded once
  or twice.
* DaqSwitchLost and FileRelocatorLeft are as small as the disagreement allows: one
  process without a restart, and files without any fault.
* FileRelocator: three files of `growth_daq` are one moved, one open and one begun
  between the answer and the listing; two of the logger are one complete and one
  open; two faults, so that one can hit the recovery from the other.
* ChannelBuffer: a FIFO of 11 words and events of 5 hold two events and a word
  less than is asked for a third: full, almost full and empty all occur, at every
  position of the reader.  Four triggers are two buffered, one vetoed or waiting,
  one after.  Modes 1, 3 and 4 are the three kinds of end: without `TriggerEnd`,
  with a closing condition, with `TriggerEnd`; mode 2 has a closing condition too,
  and 5, 8 and 9 end like 4.
* EventOutput: two channels contend for one grant; packets of 3 or 4 words, so
  that an EventFIFO of two words fills in the middle of a packet; two writes
  are disable and enable, reset and a new length, or two resets.  A reset may come
  at each tick.
* StartStop: three channels, so that there is one to scan past; two lost replies, so that
  a retry is lost too.
* AutoRun: two faults, so that a fault can hit the recovery from another; a
  period of two rounds, so that rounds with and without a reading of the
  conditions occur; the manager, the conditions and the requests are not bounded.

Deadlock is checked except where the model stops at a bound: EventStream (the
board has a finite number of packets to send), SsdtpLink (calls and connections),
Observation (runs), and StartStop (the FSM can get stuck in a preset mode, see
section 4).

Fairness, and what justifies it:

* DaqProcess: `RunThread` (the scheduler runs the thread, and reads of the board
  end, since each has a timeout), `MainReturns` and `Tick`.  No request, abort,
  lost reply, event or restart is promised.  Lost replies may follow one another
  only as long as the FIFO has something to lose.
* EventStream: the board is clocked, and `run()` reads over and over again.
* ChannelBuffer: the ADC clock ticks and the pulse processor runs.
* EventOutput: the clock ticks, and the EventFIFO is not full for ever, because
  the host keeps reading (`FairSpec`).
* StartStop: the board is clocked and the host does not stop in the middle of a
  call.
* SsdtpLink: time passes, the threads run, the board executes what it gets.
  Nothing is promised about losses and stalls but that they are bounded.
* FileRelocator: the relocator loops (its calls and commands return), the run
  thread does not stop between closing a file and forgetting its name, and God
  starts `growth_daq` again.
* RunManager: the manager loops, runs move on, God starts what died, and a call
  that stays in a socket is executed sooner or later.  Nothing is promised about
  the conditions; the faults are finite because `MaxFaults` bounds them, which is
  the meaning of "whatever failed before" in `FitMeansObserving`.

## 4. Where the code disagrees with what is said of it

Three disagreements have a run whose counterexample TLC prints:

1. `DaqStopLost`: `run()` sets `stopped = false` after it has started up
   (`MainThread.hh:132`).  A stop handled before is forgotten, while the server
   has ended: the process observes for ever and accepts no request.  The README
   of the repository says of `daq.stop()` that it ends the program.  A *pause* in
   the same window is forgotten too, but can be sent again.
2. `DaqSwitchLost`: `readAndThenSaveEvents()` takes the flag of startNewOutputFile
   down after it has created the new file (`MainThread.hh:315-318`).  A request
   handled in between is answered "ok" and forgotten: no file follows it.
   `MainThread.hh:226-229` says that a new file is created when the next events are
   read.  What does hold is `SwitchServed`: a flag that `run()` finds raised in its
   loop leads to a new file, also if the open one is empty or a stop comes first.
3. `FileRelocatorLeft`: the relocator lists the files of the logger with and without
   `.gz`, but its mv is inside of `if !.gz` (`growth_file_relocator.rb:49,89,106`).
   A file the logger has compressed, as it does at each switch, is never moved,
   without any fault; nor is one that was compressed and whose mv failed.  The
   header of the script (`:8-12`) and the README of the repository say that the
   output files are moved.  What does hold is `PlainFilesMoved`: a complete file
   that is not compressed is moved in the end, but for one whose own mv failed
   or was cut short.

Two more can be shown with the modules as they are, by checking a stronger formula
than the one of the run:

* In a preset mode the board may enter ClearStartRegister_2 while the host holds the
  semaphore (`UserModule_ChannelManager.vhdl:338`).  There it waits for the release
  and serves no write; the release is a write.  The stop never takes effect.
  `ChannelManager.hh:120` says that it does in every preset mode.  growth_daq uses
  NonStop, where it does.  (`StopTakesEffect` in place of `StopTakesEffectInNonStop`
  in `StartStop.cfg`.)
* When conditions become unfit the manager sends pause and off_all once and does not
  look at the replies (`growth_daq_run_manager.rb:76-77`).  If off_all fails, the next
  round finds the run paused and does nothing: the high voltage stays on.
  (`UnfitMeansOff` in place of `UnfitMeansOffIfAnswered` in `AutoRun.cfg`.)

Further ones, seen while modelling, that no run is spent on:

* Two files in one second have the same name and the second truncates the first
  (`MainThread.hh:286`, `EventListFileFITS.hh:150`); `SavedEventsPersist` says
  that this and a crash are the only ways to lose a saved event.
* The drain at the end of a run is three reads whatever the FIFO holds
  (`MainThread.hh:167`); the rest is read by the next run into its own file.
* In `growth_daq_run_manager.rb:144` `hv.set` may fail and `hv.on` follow: the
  output is then on with a DAC of 0 mV, and no later round looks at it.
* The scan for channels whose preset ran out does not move past a channel that is
  not done (`UserModule_ChannelManager.vhdl:314`), so a later one keeps its bit.
* The events of a channel module are one word longer than the room and the count
  that are compared (`UserModule_ChannelModule_Buffer.vhdl:172,180`), harmless but
  for the lengths given above.  `GROWTH_FY2015_ADC.hh:582` speaks of nSamples
  recorded samples; nSamples + 1 are.
* With 1023 waveform words the 10-bit comparison of Send_14 is never true, and the
  packet never ends (`UserModule_ChannelModule_PulseProcessor.vhdl:399`); the host
  code limits the length to 1000.
* After a packet the consumer manager looks at the same channel first
  (`UserModule_ConsumerManager_EventFIFO.vhdl:210-224`): a channel that always has an
  event ready keeps the others waiting.
* The lists of the configuration file are indexed without a look at their length,
  `DownSamplingFactorForSavedWaveform` may be 0 (a division by zero at
  `GROWTH_FY2015_ADC.hh:890`) and only cuts the waveform short, and `TriggerModes`
  is read although it is not among the keywords that must exist
  (`GROWTH_FY2015_ADC.hh:926`).
* `setWaitDurationBetweenEventRead()` reads GROWTH_DAQ_WAIT_DURATION and then
  sets the default in any case (`MainThread.hh:280`); its comment says that the
  value of the variable is used.
* `startAcquisition()` does not reset the EventFIFO, so the first rows of a file
  may be events of an earlier run, taken with another configuration;
  `RowsAsConfigured` is about the events of the run itself.
* The header of an output file quotes the configuration file as it is when the
  output file is opened, not the configuration the run has loaded.
* `fillEvents()` does not look at `fitsStatus`: after a failing write further rows
  stay blank until the table has to grow or a GPS row is due.
* While a run starts, the status is Running and no file is open:
  `getElapsedTimeOfCurrentOutputFile()` (`MainThread.hh:207`) is then the
  Unix time itself, and the run manager may ask for a new file at once.
* The relocator finds only `2*.fits` (`growth_file_relocator.rb:48`), so a file of
  growth_daq that a fault left as `.fits.gz` is not even listed again.
* A file that is opened between the answer of `growth_daq` and the listing is
  compressed while it is written (`growth_file_relocator.rb:41-48`); what is
  written to it later is lost.  `OpenFilesStay` says that no other open file is.
* The remote command executor remembers a command after it has executed it, so
  that a crash executes it twice; commands not in the order of their creation are
  skipped.

## 5. The proofs

Eight modules prove for every value of the constants what the runs check on small
instances, and some safety cores of what is live: one module for each component, but
`RunControl_proofs` for both parts of starting and stopping a run (StartStop and
RunManager).  They use the named assumptions of the component's module and nothing
else; a theorem that needs more says so.

| Module | Theorem | States | Obligations |
|---|---|---|---|
| `DaqProcess_proofs` | `TypeCorrect` | `Spec => []TypeOK` | 700 |
| | `NoEventTwiceOrMissing` | `Spec => []EventsAccounted` | |
| | `CountIsOfOpenFile` | `Spec => []CurrentFileCount` | |
| | `FileIsOpenWhenUsed` | `Spec => []FileOpenWhenUsed` | |
| | `PausedMeansReleased` | `Spec => RunEndsReleased` | |
| | `SavedEventsStay` | `Spec => SavedEventsPersist` | |
| | `ImplementsControl` | `Spec => ControlHolds`, the refinement of DaqControl | |
| `EventStream_proofs` | `TypeCorrect` | `Spec => []TypeOK` | 2260 |
| | `BackInStep` | `Spec => []InStepAfterOnePacket` | |
| | `Refinement` | `Spec => DeliveryHolds`, the refinement of EventDelivery, if `Samples >= HeaderWords` | |
| `ChannelBuffer_proofs` | `TypeCorrect` | `Spec => []TypeOK` | 2418 |
| | `EventsAreWhole` | `Spec => []EventsWhole` | |
| | `CountsAreOwn` | `Spec => []CountsOwnTrigger` | |
| `EventOutput_proofs` | `TypeCorrect` | `Spec => []TypeOK` | 2707 |
| | `Refinement` | `Spec => StreamHolds`, the refinement of PacketStream | |
| `RunControl_proofs` | `TypeCorrect` | `Spec => []TypeOK` of StartStop | 1318 |
| | `OrderTakesEffect` | `Spec => WriteTookEffect` | |
| | `NonStopIsServed` | `Spec => ([]~PresetMode => [](pc # "dead"))`: without a preset mode no call of the host is given up | |
| | `ManagerTypeCorrect` | `ManagerSpec => []ManagerTypeOK` of RunManager | |
| | `NoRunWithoutHv` | `ManagerSpec => []ObservesWithHv` | |
| | `HvOffWithoutRun` | `ManagerSpec => [](AllAnswered /\ run = "none" /\ todo = << >> => AllOff)` | |
| `SsdtpLink_proofs` | `TypeCorrect` | `Spec => []TypeOK` | 2502 |
| | `FaultCostsItsTrial` | `Spec => []FaultsSpoilTheirTrial` | |
| | `ReleasedBetweenFrames` | `Spec => [](...)`: receive() has ended, or is at the header of a packet on a quiet line, when a connection is to be released and nothing stalled or was left to chance | |
| `Observation_proofs` | `TypeCorrect` | `Spec => []TypeOK` | 3637 |
| | `RowsOfTheRun` | `Spec => []RowsAsConfigured` | |
| | `QuietBetweenRuns` | `Spec => QuietUnlessAbandoned` | |
| | `ExactWhenClosed` | `Spec => ClosedFileIsExact` | |
| | `EventsHaveTheirFates` | `Spec => []EventFates` | |
| `FileRelocator_proofs` | `TypeCorrect` | `Spec => []TypeOK` | 433 |
| | `OpenFilesAreLeft` | `Spec => OpenFilesStay` | |

The three refinements are what other models start from: `RunManager` is written
against DaqControl, `Observation` reads whole packets in order, as EventDelivery has
them without faults, and the board of `EventStream` writes what PacketStream allows.

Hardly any of these is inductive alone.  Each module defines at its top an
inductive invariant `IInv`, with a comment on every conjunct; TLC checked each of
them before it was proved.  A lemma shows each action (or each module of the
board) to keep it.  What the conjuncts are for:

**DaqProcess.**  `BatchInHand` (events are in hand only at `fill`): without it
`GetEvent` could overwrite a batch, and `Finish` could announce Paused with events
in hand.  `CounterBounded`: `CurrentFileCount` speaks of the interval of the last
`nEventsOfCurrentOutputFile` events; the bound keeps it within `1..taken`.
`StampedBeforeCreated`: an empty file must meet a zero counter.  `FileClock`
(stamp <= name <= now): the elapsed time of the open file is never negative, and
its name is bounded by the clock.  `DrainWhileReading`, `DrainAfterStop`:
`RunEndsReleased` needs both, and the refinement needs that `drain` tells the loop
from the end of a run.  `ExitedIdle`, `StatusTold` (Paused exactly when no run is
under way): for `HandleResume` and `MainReturns` in the refinement.

**EventStream.**  `FifoInOrder` and `ReadsAWord` make a read a piece of the
stream, in which only the last output can repeat.  `RawAsState` ties the words of
the event under construction to the state of the decoder.  `BeganAtFlag` and
`StaysInStep` are the argument for `BackInStep`: a decoder that is inside a header
began it at a word that looks like the start flag, no sample does, so that the end
of a packet after a run longer than a header finds it outside; from then on it is
in step.  This is where `Samples >= HeaderWords` comes in: the property itself
states it, and packets of growth_daq are far longer.  The refinement needs two
more.  `OrderInv`: delivered packets are behind the words in hand, and these behind
`head`.  `DamageBounded`: the events that are damaged, and those that may still be
(`MayDamage`: none, one or two in a smooth stream, more while words that repeat
are in hand), are covered by the faults so far.  The proof was worth its while:
the bound first stated, two damaged events per fault, holds for the constants of the
run and is false when a read may repeat more words than a packet has.

**ChannelBuffer.**  `TriggerMeetsBuffer`, `WordInHand` and `CountFollows` relate the
two state machines of the ADC clock from tick to tick.  `WholeEvents` and
`ReaderInEvent` say that what was written and not yet analysed is whole events but
for the words to come, and `WordsRight` names each of these words.  `RoomForTheLast`
is the heart: the room asked for is one word short, and the last word fits all the
same, since a FIFO that is full to the last word has the pulse processor inside an
event, which takes a word within the ticks that are left (`CountCatchesUp`: the
writer sees it in time).  The assumption that the depth is not a multiple of an
event less one word is needed exactly there.

**EventOutput.**  `ProcessorsWork` and `ManagerWorks` are the handshakes:
who is granted and what the others may be doing.  `Chain`, `PacketComes`,
`PacketGoes` and `Fits` say that the words from the FIFO of the manager through its
two registers to the EventFIFO are one packet, or the rest of one.  `EventsCount`
and `OneForEachReset` count the events a reset swallowed before the next event of
the channel shows them missing.  A packet whose length the host changes while it is
sent may have any number of samples between the two settings (`Between`).

**StartStop.**  `OneWriteAtATime`, `ResetAlone`, `HeldWhileWriting`: the semaphore,
once seen taken, is not given back before the host asks, and until then the
register is what was ordered.  `ClearsAChannel` keeps the scan in the channels.
`NonStopIsServed` is the safety half of `StopTakesEffectInNonStop`: the board enters
the two states that clear a channel only for a preset that ran out, and it is only
there that it leaves writes unserved.  Its premise is needed: see the preset
modes in section 4.

**RunManager.**  All conjuncts but `ManagerTypeOK` carry `AllAnswered`:
`ResumeComesLast` (each channel is on, or its `on` comes before the resume that is to
come), `OffAfterPause` and `SuppliedFromTheStart` (from the resume to the first event
the manager sleeps).  `HvOffWithoutRun` is the converse of `NoRunWithoutHv` and the
safety half of `UnfitMeansOffIfAnswered`.  It needs `HvOnlyForARun` (without a run an
output is on only if a resume or an offAll is still to be called) and, since calls of
several rounds must not mix, `PlanFitsRun`: what the calls of a round say of the run
(a pause comes first and with its offAll, an `on` only for a run under way or to be
resumed, a status last).  TLC checked both on AutoRun first.

**SsdtpLink.**  The invariant charges each failure to a fault: `Account` says that
the failures so far, one more if a fault met the present trial (`Owed`) and one
more if the link is not clean (`Risk`) are covered by the trials spoiled, the
stalls and the times the framing was left to chance.  `Clean` follows the bytes: a
trial without a fault waits, with no time passing, for a command not executed yet or
for the rest of a reply of which `f` frames and `j` bytes were received (`Received`);
one with a fault times out on a line at rest (`UnhitSettles`, `Settled`); and the
wait of cancelReceive() leaves receive() at the header of a packet.  The last is
where `CancelOutlastsRead` is used: a read under way when the reception is cancelled
(500 ms) ends before the wait after it does (1500 ms, both in
`SpaceWireIFOverUART.hh`), so that the flag is seen in between.  Nothing else is
assumed of the three timeouts, the length of a stall, the sizes of frames and
replies or what a garbled header shows.  `LastIsLast` (the
bytes of the last command come last) makes sure that the end of a reply is the end
of what is on the line.  `ReleasedBetweenFrames` is the safety half of
`DisconnectEnds`, by the same `Clean`: of what stays to be shown only that the
next read ends.

**Observation.**  `ProgrammedUpTo`: the registers that the writes so far have
reached hold the loaded configuration, whatever they held before.  `EventsProper`:
each event on its way, by the place it has reached, is of an earlier run or was
recorded, sent and read as this run wants it; it is what `RowsAsConfigured` follows from.
`FileSound`: the table has `fitsNRows` rows, the first `rowIndex` those of the
events.  `QuietBoard`, `StoppedWhileDraining`: for `QuietBetweenRuns`.
`EventFates` has an invariant of its own, `FatesInv`, beside `IInv`.  Three of its
conjuncts are not in the property.  `FilledFates`: the events of the open file have
the fate their rows have, so that with `FileSound` what is written is in the table.
`HandBounded`: there is never more in hand than one read.  `Charged`: a write that has
failed keeps the events of one read in reserve, since the table that cannot be
expanded may make the program exit, with the events in hand, long after the fault.
The proof splits the invariant (`Arranged`) into what is said of the sequences, file,
hand and EventFIFO, and shows for each move of events (recorded, sent, read, saved,
lost with a reply, gone with the program) that it keeps the order of each channel and
that the set of the events without a fate is that of the events on their way.

**FileRelocator.**  `DirectoryNamed` and `OutputIsLast`: names come in order, so the
open file has the highest.  `AnswerStands`: an open file that was there at the
answer is the one of the answer, which is skipped.  `Round`: the files of a
round are older than the last of the logger, and than the last of growth_daq if it
did not answer.

Only model-checked:

* Everything under fairness, which is out of the reach of TLAPS: `ControlMovesOn`,
  `SwitchServed`, `AllPacketsArrive`, `EveryEventAnalysed`, `VetoIsLifted`,
  `ResetCompletes`, `ReadyIsSent`, `StopTakesEffectInNonStop`, `DisconnectEnds`,
  `UnfitMeansOffIfAnswered`, `FitMeansObserving`, `PlainFilesMoved`.
* What the three runs show that expect a violation: `StopEndsProgram`,
  `NewFileCreated`, `AllFilesMoved`.

Every invariant and every action property of a passing run is proved.

## 6. What is not modelled, and why

* The internal bus and the SSDTP bridge of the FPGA: bus masters with fixed time
  slots around a third-party RMAP core, whose behaviour decides what they see and
  is not in the repository.  SsdtpLink takes the board as one that answers commands
  in order.
* The remote command executor: a sequential loop that shares no state with the
  rest; its one command uploads files.
* Of the channel modules: the values (pulse heights, baseline, derivative), the
  delay line, the RAM, the registers of a channel and its power-down; of the
  consumer manager: reads of its registers and the gate sizes, which nothing uses.
* The race of `getStatus` on a `std::string` (undefined behaviour; what the
  reply says is used in RunManager and FileRelocator), the contents of the GPS
  table and of the headers but for the configuration, the parsing of the
  configuration file.
* What the classes of the readout offer and growth_daq does not call: status and
  housekeeping registers, power-down, the string forms of RMAP reads and writes,
  time codes.
* Display, GPS logger and telemetry, console, configuration: sequential loops over
  text that share no state with the rest.  Of the housekeeping logger the life of
  its files is in FileRelocator.
* The third-party SpaceWire and RMAP cores, the older `ConsumerManager`,
  `DataRecorder`, ROOT files: not used by growth_daq or not of this repository.

## 7. The plan

In order of what matters for the data and the detector; a component is done when
its safety properties are proved.

1. done: `DaqProcess`, `DaqControl`, `DaqProcess_proofs`.
2. done: `EventStream`, `EventDelivery`, `EventStream_proofs`.
3. done: `StartStop`, and its theorems in `RunControl_proofs`.
4. done: `RunManager`, and its theorems in `RunControl_proofs`.
5. done: `EventOutput`, `PacketStream`, `ChannelBuffer`, and their proofs.
6. done: `Observation`, `OutputFile`, `FileRelocator`, `SsdtpLink`, and their proofs.
7. Left out for the reasons of section 6: the internal bus and the remote command
   executor.

No module that is proved about uses a RECURSIVE operator; parameters are
CONSTANTS with a named, minimal assumption.

----------------------------- MODULE DaqProcess -----------------------------
(***************************************************************************)
(* The growth_daq process: main() (growth_daq.cc), the request handlers of *)
(* the MessageServer thread and the run() method of MainThread, on one     *)
(* board and one output directory.  Every handler of the server is one     *)
(* action, since the server handles one request at a time and writes one   *)
(* shared flag; run() is cut wherever it reads or writes a member that the *)
(* server also uses, reaches the board, or touches the file system.        *)
(* Events are numbered 1, 2, ... in the order they are read from the       *)
(* board; a file is the set of the events filled into it, and its name is  *)
(* the second it was created in.                                           *)
(***************************************************************************)
EXTENDS Integers

CONSTANTS
  Exposures,     (* exposures growth_daq may be called with                *)
  ReadCapacity,  (* events that one getEvent() can return (3000 bytes)     *)
  FifoDepth,     (* events that fit in the EventFIFO of the board          *)
  MaxTime,       (* bound: the last second of the clock                    *)
  MaxEvents,     (* bound: events the board produces                       *)
  MaxRestarts    (* bound: times the process is started again              *)

ASSUME ConstantsAssumption ==
  /\ Exposures \subseteq Nat
  /\ ReadCapacity \in Nat \ {0}
  /\ FifoDepth \in Nat \ {0}
  /\ MaxTime \in Nat \ {0}
  /\ MaxEvents \in Nat
  /\ MaxRestarts \in Nat

VARIABLES
  main,       (* main(): in join() of the server or of the run thread, ...  *)
  pc,         (* where run() is; "none" when no run thread exists           *)
  drain,      (* reads left of the three that follow stopAcquisition()      *)
  daqStatus, stopped, switchOutputFile,
  out,        (* eventListFile: the open file, NoFile when nullptr          *)
  startUnixTime, startUnixTimeOfCurrentOutputFile,
  nEvents, nEventsOfCurrentOutputFile,
  batch,      (* events returned by getEvent() that are not filled yet      *)
  acquiring, fifo,                       (* the board                       *)
  files,                                 (* the output directory            *)
  now,                                   (* the clock, in seconds           *)
  restarts,
  exposureInSec, (* 0 starts paused and serves requests                    *)
  taken, lost,                           (* history: events read, events of *)
                                         (* them destroyed                  *)
  asked                                  (* history: a new output file was  *)
                                         (* asked for, and none created yet *)

process == <<main, pc, drain, daqStatus, stopped, switchOutputFile>>
counters == <<startUnixTime, startUnixTimeOfCurrentOutputFile,
              nEvents, nEventsOfCurrentOutputFile>>
board == <<acquiring, fifo>>
disk == <<out, files, lost>>
world == <<now, restarts, exposureInSec>>
vars == <<process, counters, board, disk, batch, world, taken, asked>>

NoFile == 0
Unset == -1            (* a member that no constructor initialises        *)
Second == 1..MaxTime
Least(a, b) == IF a < b THEN a ELSE b

(* Places of run() that work on the open file, and all the others.         *)
PcWithFile == {"prime", "loop", "check", "close", "clear", "get", "fill",
               "tail", "halt", "finalClose"}
PcWithoutFile == {"none", "created", "begin", "boot", "start", "stamp0",
                  "create0", "stamp", "create", "finish"}
(* The acquisition loop of run(), after `stopped = false`.                 *)
InLoop == pc \in {"loop", "check", "close", "stamp", "create", "clear",
                  "get", "fill", "tail"} /\ drain = 0

Alive == main \in {"serving", "joining"}
BatchEvents == (taken - batch + 1)..taken

FreshProcess ==
  /\ main' = "serving" /\ pc' = "none" /\ drain' = 0
  /\ daqStatus' = "Paused" /\ stopped' = FALSE /\ switchOutputFile' = FALSE
  /\ startUnixTime' = Unset /\ startUnixTimeOfCurrentOutputFile' = Unset
  /\ nEvents' = 0 /\ nEventsOfCurrentOutputFile' = 0

(* main(): with an exposure it starts a run and joins it; without one it   *)
(* joins the server thread first.                                          *)
Init ==
  /\ exposureInSec \in Exposures
  /\ main = IF exposureInSec > 0 THEN "joining" ELSE "serving"
  /\ pc = IF exposureInSec > 0 THEN "created" ELSE "none"
  /\ drain = 0
  /\ daqStatus = "Paused" /\ stopped = FALSE /\ switchOutputFile = FALSE
  /\ startUnixTime = Unset /\ startUnixTimeOfCurrentOutputFile = Unset
  /\ nEvents = 0 /\ nEventsOfCurrentOutputFile = 0
  /\ out = NoFile /\ batch = 0
  /\ acquiring = FALSE /\ fifo = 0
  /\ files = [f \in Second |-> {}]
  /\ now = 1 /\ restarts = 0
  /\ taken = 0 /\ lost = {} /\ asked = FALSE

-----------------------------------------------------------------------------
(* The environment: the clock and the detector.                            *)

Tick ==
  /\ now < MaxTime
  /\ now' = now + 1
  /\ UNCHANGED <<process, counters, board, disk, batch, restarts, exposureInSec, taken, asked>>

Trigger ==
  /\ acquiring
  /\ fifo < FifoDepth /\ taken + fifo < MaxEvents
  /\ fifo' = fifo + 1
  /\ UNCHANGED <<process, counters, acquiring, disk, batch, world, taken, asked>>

-----------------------------------------------------------------------------
(* MessageServer: one action per request that changes state.               *)

Untouched == UNCHANGED <<counters, board, disk, batch, world, taken, asked>>

(* processStopCommand(): stops the run thread and the server; main() then  *)
(* goes on to join the run thread.                                         *)
HandleStop ==
  /\ main = "serving"
  /\ stopped' = TRUE
  /\ main' = "joining"
  /\ UNCHANGED <<pc, drain, daqStatus, switchOutputFile>> /\ Untouched

HandlePause ==
  /\ main = "serving"
  /\ stopped' = TRUE
  /\ UNCHANGED <<main, pc, drain, daqStatus, switchOutputFile>> /\ Untouched

(* processResumeCommand(): start() is called whenever the status reads     *)
(* Paused.  A run thread that exists but has not yet set the status is     *)
(* started a second time; two threads then run on the same members without *)
(* a lock, which the model does not describe further ("undefined").        *)
ResumeAnyway ==                           (* mutant: status not looked at  *)
  /\ main = "serving"
  /\ IF pc = "none" THEN pc' = "created" /\ UNCHANGED main
                    ELSE main' = "undefined" /\ UNCHANGED pc
  /\ UNCHANGED <<drain, daqStatus, stopped, switchOutputFile>> /\ Untouched

HandleResume ==
  /\ main = "serving"
  /\ daqStatus = "Paused"
  /\ \/ /\ pc = "none"
        /\ pc' = "created"
        /\ UNCHANGED main
     \/ /\ pc # "none"
        /\ main' = "undefined"
        /\ UNCHANGED pc
  /\ UNCHANGED <<drain, daqStatus, stopped, switchOutputFile>> /\ Untouched

ServerClosesFile ==                       (* mutant: the server closes it  *)
  /\ main = "serving"
  /\ out' = NoFile
  /\ UNCHANGED <<process, counters, board, files, lost>>
  /\ UNCHANGED <<batch, world, taken, asked>>

HandleStartNewOutputFile ==
  /\ main = "serving"
  /\ switchOutputFile' = TRUE /\ asked' = TRUE
  /\ UNCHANGED <<main, pc, drain, daqStatus, stopped>>
  /\ UNCHANGED <<counters, board, disk, batch, world, taken>>

-----------------------------------------------------------------------------
(* MainThread::run().  A definition marked "mutant" is a faulty variant of *)
(* the one after it, kept to see which property notices the fault.         *)

At(from) == Alive /\ pc = from
Goto(to) == pc' = to

Begin ==
  /\ At("created") /\ Goto("begin")
  /\ daqStatus' = "Running"
  /\ UNCHANGED <<main, drain, stopped, switchOutputFile>> /\ Untouched

ForgetSwitch ==
  /\ At("begin") /\ Goto("boot")
  /\ switchOutputFile' = FALSE
  /\ UNCHANGED <<main, drain, daqStatus, stopped>> /\ Untouched

(* new GROWTH_FY2015_ADC and loadConfigurationFile().                      *)
Boot ==
  /\ At("boot") /\ Goto("start")
  /\ UNCHANGED <<main, drain, daqStatus, stopped, switchOutputFile>> /\ Untouched

(* startAcquisition() without an argument: the EventFIFO is not reset.     *)
StartAcquisition ==
  /\ At("start") /\ Goto("stamp0")
  /\ acquiring' = TRUE
  /\ UNCHANGED <<main, drain, daqStatus, stopped, switchOutputFile>>
  /\ UNCHANGED <<counters, fifo, disk, batch, world, taken, asked>>

UnstampedOutput(from, to) ==              (* mutant: forgets the counters   *)
  /\ At(from) /\ Goto(to)
  /\ UNCHANGED <<main, drain, daqStatus, stopped, switchOutputFile>> /\ Untouched

(* openOutputEventListFile(): first the counters ...                       *)
StampOutput(from, to) ==
  /\ At(from) /\ Goto(to)
  /\ startUnixTimeOfCurrentOutputFile' = now
  /\ nEventsOfCurrentOutputFile' = 0
  /\ UNCHANGED <<main, drain, daqStatus, stopped, switchOutputFile>>
  /\ UNCHANGED <<startUnixTime, nEvents, board, disk, batch, world, taken, asked>>

(* ... then the file, named by a second reading of the clock and created   *)
(* with "!", which truncates a file of the same name.                      *)
CreateOutput(from, to) ==
  /\ At(from) /\ Goto(to)
  /\ out' = now
  /\ files' = [files EXCEPT ![now] = {}]
  /\ lost' = lost \cup files[now]
  /\ asked' = FALSE
  /\ UNCHANGED <<main, drain, daqStatus, stopped, switchOutputFile>>
  /\ UNCHANGED <<counters, board, batch, world, taken>>

(* CPU trigger, GPS record, start time, and `stopped = false`.             *)
Prime ==
  /\ At("prime") /\ Goto("loop")
  /\ startUnixTime' = now
  /\ stopped' = FALSE
  /\ UNCHANGED <<main, drain, daqStatus, switchOutputFile>>
  /\ UNCHANGED <<startUnixTimeOfCurrentOutputFile, nEvents, nEventsOfCurrentOutputFile>>
  /\ UNCHANGED <<board, disk, batch, world, taken, asked>>

LoopForever ==                            (* mutant: does not look          *)
  /\ At("loop") /\ Goto("check")
  /\ UNCHANGED <<main, drain, daqStatus, stopped, switchOutputFile>> /\ Untouched

LoopTest ==
  /\ At("loop") /\ Goto(IF stopped THEN "halt" ELSE "check")
  /\ UNCHANGED <<main, drain, daqStatus, stopped, switchOutputFile>> /\ Untouched

SwitchNonEmptyOnly ==                     (* mutant: keeps an empty file    *)
  /\ At("check")
  /\ Goto(IF switchOutputFile /\ nEventsOfCurrentOutputFile > 0 THEN "close" ELSE "get")
  /\ UNCHANGED <<main, drain, daqStatus, stopped, switchOutputFile>> /\ Untouched

(* readAndThenSaveEvents(): the switch of the output file, ...             *)
CheckSwitch ==
  /\ At("check") /\ Goto(IF switchOutputFile THEN "close" ELSE "get")
  /\ UNCHANGED <<main, drain, daqStatus, stopped, switchOutputFile>> /\ Untouched

CloseOutput(from, to) ==
  /\ At(from) /\ Goto(to)
  /\ out' = NoFile
  /\ startUnixTimeOfCurrentOutputFile' = 0
  /\ UNCHANGED <<main, drain, daqStatus, stopped, switchOutputFile>>
  /\ UNCHANGED <<startUnixTime, nEvents, nEventsOfCurrentOutputFile, board>>
  /\ UNCHANGED <<files, lost, batch, world, taken, asked>>

ClearSwitch ==
  /\ At("clear") /\ Goto("get")
  /\ switchOutputFile' = FALSE
  /\ UNCHANGED <<main, drain, daqStatus, stopped>> /\ Untouched

(* ... getEvent(), which takes at most one buffer from the EventFIFO, ...  *)
EventsOfFullRead == ReadCapacity          (* mutant: reads beyond the count *)
EventsOfOneRead == Least(fifo, ReadCapacity)

GetEvent ==
  /\ At("get") /\ Goto("fill")
  /\ batch' = EventsOfOneRead
  /\ fifo' = fifo - batch'
  /\ taken' = taken + batch'
  /\ UNCHANGED <<main, drain, daqStatus, stopped, switchOutputFile>>
  /\ UNCHANGED <<counters, acquiring, disk, world, asked>>

(* ... (a reply that is lost has already emptied the FIFO when             *)
(* RMAPHandlerUART::read tries again) ...                                  *)
LoseReply ==
  /\ At("get") /\ fifo > 0
  /\ fifo' = fifo - EventsOfOneRead
  /\ UNCHANGED <<process, counters, acquiring, disk, batch, world, taken, asked>>

(* ... and fillEvents() with the two counters.                             *)
RewoundFile == BatchEvents                (* mutant: rowIndex starts again  *)
FilledFile == files[out] \cup BatchEvents

AfterReadNoClose ==                       (* mutant: the file stays open    *)
  IF drain = 0 THEN "tail" ELSE IF drain = 1 THEN "finish" ELSE "check"
AfterRead == IF drain = 0 THEN "tail" ELSE IF drain = 1 THEN "finalClose" ELSE "check"

FillEvents ==
  /\ At("fill") /\ Goto(AfterRead)
  /\ files' = [files EXCEPT ![out] = FilledFile]
  /\ nEvents' = nEvents + batch
  /\ nEventsOfCurrentOutputFile' = nEventsOfCurrentOutputFile + batch
  /\ batch' = 0
  /\ drain' = IF drain = 0 THEN 0 ELSE drain - 1
  /\ UNCHANGED <<main, daqStatus, stopped, switchOutputFile, startUnixTime>>
  /\ UNCHANGED <<startUnixTimeOfCurrentOutputFile, board, out, lost, world, taken, asked>>

(* The end of an iteration: GPS record into the file, exposure check.      *)
ExposureDone == exposureInSec > 0 /\ now - startUnixTime >= exposureInSec

LoopTail ==
  /\ At("tail")
  /\ Goto(IF ExposureDone THEN "halt" ELSE "loop")
  /\ UNCHANGED <<main, drain, daqStatus, stopped, switchOutputFile>> /\ Untouched

StopAcquisition ==
  /\ At("halt") /\ Goto("check")
  /\ acquiring' = FALSE
  /\ drain' = 3
  /\ UNCHANGED <<main, daqStatus, stopped, switchOutputFile>>
  /\ UNCHANGED <<counters, fifo, disk, batch, world, taken, asked>>

(* closeDevice(), the deletion of the board, and the end of the thread.    *)
Finish ==
  /\ At("finish") /\ Goto("none")
  /\ daqStatus' = "Paused"
  /\ UNCHANGED <<main, drain, stopped, switchOutputFile>> /\ Untouched

RunThread ==
  \/ Begin \/ ForgetSwitch \/ Boot \/ StartAcquisition
  \/ StampOutput("stamp0", "create0") \/ CreateOutput("create0", "prime")
  \/ Prime \/ LoopTest \/ CheckSwitch
  \/ CloseOutput("close", "stamp") \/ StampOutput("stamp", "create")
  \/ CreateOutput("create", "clear") \/ ClearSwitch
  \/ GetEvent \/ FillEvents \/ LoopTail \/ StopAcquisition
  \/ CloseOutput("finalClose", "finish") \/ Finish

-----------------------------------------------------------------------------
(* The process.                                                            *)

(* join() of the run thread returns and main() returns.                    *)
MainReturns ==
  /\ main = "joining" /\ pc = "none"
  /\ main' = "exited"
  /\ UNCHANGED <<pc, drain, daqStatus, stopped, switchOutputFile>> /\ Untouched

(* exit(-1), or an exception nothing catches, in a step of run() that uses *)
(* the board or the file.  The board keeps acquiring, the events in hand   *)
(* are lost, and of the file at most a prefix has reached the disk.        *)
Abort ==
  /\ Alive /\ pc \notin {"none", "created", "begin"}
  /\ main' = "exited" /\ pc' = "none" /\ out' = NoFile /\ batch' = 0
  /\ IF out = NoFile
     THEN /\ lost' = lost \cup BatchEvents
          /\ UNCHANGED files
     ELSE \E n \in 0..nEventsOfCurrentOutputFile :
            LET gone == {e \in files[out] : e > taken - batch - n}
            IN /\ files' = [files EXCEPT ![out] = @ \ gone]
               /\ lost' = lost \cup gone \cup BatchEvents
  /\ UNCHANGED <<drain, daqStatus, stopped, switchOutputFile>>
  /\ UNCHANGED <<counters, board, world, taken, asked>>

(* God starts the process again, always with exposure 0.                   *)
Restart ==
  /\ main = "exited" /\ exposureInSec = 0 /\ restarts < MaxRestarts
  /\ FreshProcess
  /\ restarts' = restarts + 1
  /\ asked' = FALSE
  /\ UNCHANGED <<board, disk, batch, now, exposureInSec, taken>>

Rest ==
  /\ main \in {"exited", "undefined"}
  /\ UNCHANGED vars

Server == HandleStop \/ HandlePause \/ HandleResume \/ HandleStartNewOutputFile

Next ==
  \/ Tick \/ Trigger \/ Server \/ RunThread \/ LoseReply
  \/ MainReturns \/ Abort \/ Restart \/ Rest

Spec == Init /\ [][Next]_vars

(* The scheduler runs the thread and lets main() return, and time passes;  *)
(* no request, crash, lost reply or restart is promised.                   *)
Fairness == WF_vars(RunThread) /\ WF_vars(MainReturns) /\ WF_vars(Tick)
FairSpec == Spec /\ Fairness

-----------------------------------------------------------------------------
(* Every variable has its type.                                            *)
TypeOK ==
  /\ main \in {"serving", "joining", "exited", "undefined"}
  /\ pc \in PcWithFile \cup PcWithoutFile
  /\ drain \in 0..3
  /\ daqStatus \in {"Paused", "Running"}
  /\ stopped \in BOOLEAN /\ switchOutputFile \in BOOLEAN
  /\ out \in Second \cup {NoFile}
  /\ startUnixTime \in Second \cup {Unset}
  /\ startUnixTimeOfCurrentOutputFile \in Second \cup {0, Unset}
  /\ nEvents \in Nat /\ nEventsOfCurrentOutputFile \in Nat
  /\ batch \in 0..ReadCapacity
  /\ acquiring \in BOOLEAN /\ fifo \in 0..FifoDepth
  /\ files \in [Second -> SUBSET (1..taken)]
  /\ now \in Second /\ restarts \in Nat /\ exposureInSec \in Exposures
  /\ taken \in Nat /\ lost \subseteq 1..taken /\ asked \in BOOLEAN

(* Every event that was read from the board is in exactly one place: still *)
(* in the hands of run(), in one file, or destroyed by a crash or by the   *)
(* creation of a file under the same name.                                 *)
EventsAccounted ==
  /\ \A e \in 1..taken : \/ e \in lost \cup BatchEvents
                         \/ \E f \in Second : e \in files[f]
  /\ lost \cap BatchEvents = {}
  /\ \A f \in Second : files[f] \cap (lost \cup BatchEvents) = {}
  /\ \A f, g \in Second : f # g => files[f] \cap files[g] = {}

(* After every fill, nEventsOfCurrentOutputFile counts what the open file  *)
(* holds: the latest events saved, in reading order and without a gap.     *)
CurrentFileCount ==
  out # NoFile =>
    files[out] = (taken - batch - nEventsOfCurrentOutputFile + 1)..(taken - batch)

(* run() finds an open file wherever it dereferences eventListFile, and no *)
(* other thread or step ever takes it away; nowhere else is one left open. *)
FileOpenWhenUsed == (pc \in PcWithFile) <=> (out # NoFile)

(* Paused is announced, and a new run thread thereby allowed, only when    *)
(* the run has stopped the board, saved what it read and closed its file.  *)
RunEndsReleased ==
  [][daqStatus = "Running" /\ daqStatus' = "Paused" /\ main = main'
       => ~acquiring /\ out = NoFile /\ batch = 0]_vars

(* A saved event stays in its file.  Only a crash takes it away, and then  *)
(* from the file that was open, or the creation of a file under the name   *)
(* of the very same second.                                                *)
SavedEventsPersist ==
  [][\A f \in Second : ~(files[f] \subseteq files'[f]) =>
        \/ f = out /\ main' = "exited"
        \/ f = now /\ out = NoFile /\ out' = now]_vars

(* A flag that run() finds raised in its loop leads to a new file, also    *)
(* when the open file is empty, a stop comes first or the switch is asked  *)
(* for again meanwhile.  It says nothing of a request that is answered     *)
(* between the creation of a file and the end of the switch: run() takes   *)
(* the flag down without having seen it.                                   *)
SwitchServed ==
  (asked /\ switchOutputFile /\ InLoop /\ pc # "clear") ~> (~asked \/ ~Alive)

(* Disputed: a new output file that is asked for while run() observes is   *)
(* created, unless the run is stopped or the process ends first.           *)
NewFileCreated == (asked /\ InLoop /\ ~stopped) ~> (~asked \/ stopped \/ ~Alive)

(* What a client sees of the run thread.                                   *)
RunPhase == IF pc \in {"none", "created"} THEN pc
            ELSE IF pc \in {"begin", "boot", "start", "stamp0", "create0", "prime"}
            THEN "booting"
            ELSE IF ~InLoop THEN "ending"
            ELSE IF stopped THEN "stopping" ELSE "observing"

(* To its clients the process is the simple machine of DaqControl: a run   *)
(* begins, observes and ends as the requests say, and in no other order.   *)
Control == INSTANCE DaqControl WITH server <- main, run <- RunPhase
ControlHolds == Control!Spec

(* It keeps the promises of DaqControl as well: a run that boots comes to  *)
(* observe, and one that is stopped comes to its end.                      *)
ControlMovesOn == Control!FairSpec

(* Disputed: the stop request ends the program.                            *)
StopEndsProgram == (main = "joining") ~> (main = "exited")
=============================================================================

------------------------- MODULE DaqProcess_proofs -------------------------
(***************************************************************************)
(* Theorems about DaqProcess, for every exposure, FIFO depth, read         *)
(* capacity and bound.                                                     *)
(***************************************************************************)
EXTENDS DaqProcess, TLAPS

(* What run() keeps true between its steps, beside the invariants proper:  *)
(* events are in hand only between getEvent() and fillEvents(), the file   *)
(* counter never exceeds the events filled, the start of a file is stamped *)
(* before the file is created, the three closing reads happen on a stopped *)
(* board, a process that exited has no run thread, and the status of one   *)
(* that did not is Paused exactly when run() is not under way.             *)
BatchInHand == batch # 0 => pc = "fill"
CounterBounded == nEventsOfCurrentOutputFile <= taken - batch
StampedBeforeCreated ==
  pc \in {"create0", "create"} => /\ startUnixTimeOfCurrentOutputFile \in 1..now
                                 /\ nEventsOfCurrentOutputFile = 0
DrainWhileReading ==
  /\ pc \in {"created", "begin", "boot", "start", "stamp0", "create0", "prime",
             "loop", "tail", "halt", "finalClose", "finish"} => drain = 0
  /\ Alive /\ pc = "none" => drain = 0
DrainAfterStop == (drain > 0 \/ pc \in {"finalClose", "finish"}) => ~acquiring
ExitedIdle == main = "exited" => pc = "none"
StatusTold == Alive => (daqStatus = "Paused" <=> pc \in {"none", "created"})

(* The clock the server reports for the open file is the time since it was *)
(* opened: the stamp is not later than the name, nor the name than now.    *)
FileClock ==
  out # NoFile => /\ startUnixTimeOfCurrentOutputFile \in 1..out
                  /\ out <= now

IInv ==
  /\ TypeOK
  /\ EventsAccounted
  /\ CurrentFileCount
  /\ FileOpenWhenUsed
  /\ FileClock
  /\ BatchInHand
  /\ CounterBounded
  /\ StampedBeforeCreated
  /\ DrainWhileReading
  /\ DrainAfterStop
  /\ ExitedIdle
  /\ StatusTold

USE ConstantsAssumption DEF Second, NoFile, Unset, At, Goto, Alive, process, counters, board, disk, world

(* The process starts in the invariant.                                    *)
LEMMA InitIInv == Init => IInv
<1> SUFFICES ASSUME Init PROVE IInv
  OBVIOUS
<1> USE DEF Init
<1>1. TypeOK
  <2>1. main \in {"serving", "joining"} /\ pc \in {"none", "created"} OBVIOUS
  <2>2. files \in [Second -> SUBSET (1..taken)] OBVIOUS
  <2>3. stopped \in BOOLEAN /\ switchOutputFile \in BOOLEAN
        /\ acquiring \in BOOLEAN /\ asked \in BOOLEAN
    OBVIOUS
  <2> QED BY <2>1, <2>2, <2>3 DEF TypeOK, PcWithFile, PcWithoutFile
<1>2. EventsAccounted BY DEF EventsAccounted, BatchEvents
<1>3. CurrentFileCount /\ FileClock BY DEF CurrentFileCount, FileClock
<1>4. FileOpenWhenUsed BY DEF FileOpenWhenUsed, PcWithFile
<1>5. BatchInHand /\ CounterBounded /\ StampedBeforeCreated
  BY DEF BatchInHand, CounterBounded, StampedBeforeCreated
<1>6. DrainWhileReading /\ DrainAfterStop /\ ExitedIdle /\ StatusTold
  BY DEF DrainWhileReading, DrainAfterStop, ExitedIdle, StatusTold
<1> QED BY <1>1, <1>2, <1>3, <1>4, <1>5, <1>6 DEF IInv

(* The types, with the bound on the file counter: it keeps the numbers of  *)
(* the events in hand positive.                                            *)
LEMMA TypeOKStep == TypeOK /\ CounterBounded /\ [Next]_vars => TypeOK' /\ CounterBounded'
<1> SUFFICES ASSUME TypeOK, CounterBounded, [Next]_vars PROVE TypeOK' /\ CounterBounded'
  OBVIOUS
<1> USE DEF TypeOK, CounterBounded, PcWithFile, PcWithoutFile, Untouched
<1> DEFINE P == TypeOK' /\ CounterBounded'
<1>0. BatchEvents \subseteq 1..taken BY DEF BatchEvents
<1>1. CASE Tick BY <1>1 DEF Tick
<1>2. CASE Trigger BY <1>2 DEF Trigger
<1>3. CASE HandleStop \/ HandlePause
  <2>1. stopped' \in BOOLEAN BY <1>3 DEF HandleStop, HandlePause
  <2>2. main' \in {"serving", "joining"} BY <1>3 DEF HandleStop, HandlePause
  <2>3. UNCHANGED <<pc, drain, daqStatus, switchOutputFile, counters,
                    board, disk, batch, world, taken, asked>>
    BY <1>3 DEF HandleStop, HandlePause
  <2> QED BY <2>1, <2>2, <2>3
<1>4. CASE HandleResume
  <2>1. pc' \in {pc, "created"} /\ main' \in {main, "undefined"} BY <1>4 DEF HandleResume
  <2> QED BY <1>4, <2>1 DEF HandleResume
<1>5. CASE HandleStartNewOutputFile
  <2>1. switchOutputFile' \in BOOLEAN /\ asked' \in BOOLEAN
    BY <1>5 DEF HandleStartNewOutputFile
  <2> QED BY <1>5, <2>1 DEF HandleStartNewOutputFile
<1>6. CASE LoseReply
  <2>1. fifo' \in 0..FifoDepth BY <1>6 DEF LoseReply, EventsOfOneRead, Least
  <2> QED BY <1>6, <2>1 DEF LoseReply
<1>7. CASE MainReturns BY <1>7 DEF MainReturns
<1>8. CASE Abort
  <2>1. files' \in [Second -> SUBSET (1..taken)] /\ lost' \subseteq 1..taken
    <3>1. CASE out = NoFile BY <1>0, <1>8, <3>1 DEF Abort
    <3>2. CASE out # NoFile
      <4>1. out \in Second BY <1>0, <3>2
      <4>2. PICK gone \in SUBSET files[out] :
              /\ files' = [files EXCEPT ![out] = @ \ gone]
              /\ lost' = lost \cup gone \cup BatchEvents
        BY <1>8, <3>2 DEF Abort
      <4>3. files[out] \subseteq 1..taken BY <1>0, <4>1
      <4> QED BY <1>0, <4>1, <4>2, <4>3
    <3> QED BY <3>1, <3>2
  <2>2. pc' = "none" /\ main' = "exited" /\ out' = NoFile /\ batch' = 0 BY <1>8 DEF Abort
  <2> QED BY <1>8, <2>1, <2>2 DEF Abort
<1>9. CASE Restart
  <2>1. stopped' \in BOOLEAN /\ switchOutputFile' \in BOOLEAN /\ asked' \in BOOLEAN
    BY <1>9 DEF Restart, FreshProcess
  <2> QED BY <1>9, <2>1 DEF Restart, FreshProcess
<1>10. CASE RunThread
  <2>1. CASE Begin BY <2>1 DEF Begin
  <2>2. CASE ForgetSwitch BY <2>2 DEF ForgetSwitch
  <2>3. CASE Boot BY <2>3 DEF Boot
  <2>4. CASE StartAcquisition BY <2>4 DEF StartAcquisition
  <2>5. ASSUME NEW from, NEW to \in {"create0", "create"}, StampOutput(from, to) PROVE P
    BY <2>5 DEF StampOutput
  <2>6. ASSUME NEW from, NEW to \in {"prime", "clear"}, CreateOutput(from, to) PROVE P
    <3>1. /\ files' \in [Second -> SUBSET (1..taken)] /\ out' \in Second
          /\ lost' \subseteq 1..taken
      BY <2>6 DEF CreateOutput
    <3>2. pc' \in {"prime", "clear"} BY <2>6 DEF CreateOutput
    <3>3. UNCHANGED <<main, drain, daqStatus, stopped, switchOutputFile,
                      counters, board, batch, world, taken>>
      BY <2>6 DEF CreateOutput
    <3>4. asked' \in BOOLEAN BY <2>6 DEF CreateOutput
    <3> QED BY <3>1, <3>2, <3>3, <3>4
  <2>7. CASE Prime BY <2>7 DEF Prime
  <2>8. CASE LoopTest BY <2>8 DEF LoopTest
  <2>9. CASE CheckSwitch BY <2>9 DEF CheckSwitch
  <2>10. ASSUME NEW from, NEW to \in {"stamp", "finish"}, CloseOutput(from, to) PROVE P
    BY <2>10 DEF CloseOutput
  <2>11. CASE ClearSwitch BY <2>11 DEF ClearSwitch
  <2>12. CASE GetEvent
    <3>1. batch = 0 \/ batch # 0 OBVIOUS
    <3> QED BY <2>12 DEF GetEvent, EventsOfOneRead, Least
  <2>13. CASE FillEvents
    <3>1. pc' \in {"tail", "finalClose", "check"} BY <2>13 DEF FillEvents, AfterRead
    <3>2. files' \in [Second -> SUBSET (1..taken)]
      BY <1>0, <2>13 DEF FillEvents, FilledFile
    <3>3. drain' \in 0..3 BY <2>13 DEF FillEvents
    <3> QED BY <2>13, <3>1, <3>2, <3>3 DEF FillEvents
  <2>14. CASE LoopTail BY <2>14 DEF LoopTail
  <2>15. CASE StopAcquisition
    <3>1. acquiring' \in BOOLEAN BY <2>15 DEF StopAcquisition
    <3> QED BY <2>15, <3>1 DEF StopAcquisition
  <2>16. CASE Finish BY <2>16 DEF Finish
  <2> QED BY <1>10, <2>1, <2>2, <2>3, <2>4, <2>5, <2>6, <2>7, <2>8, <2>9, <2>10, <2>11,
             <2>12, <2>13, <2>14, <2>15, <2>16 DEF RunThread
<1>11. CASE UNCHANGED vars BY <1>11 DEF vars
<1> QED
  BY <1>1, <1>2, <1>3, <1>4, <1>5, <1>6, <1>7, <1>8, <1>9, <1>10, <1>11 DEF Next, Server, Rest

(* The conjuncts about the place run() has reached: each step of run()     *)
(* leaves its place with the file, the batch and the drain counter that    *)
(* the next place needs.                                                   *)
InControl ==
  /\ FileOpenWhenUsed /\ FileClock /\ BatchInHand /\ StampedBeforeCreated
  /\ DrainWhileReading /\ DrainAfterStop /\ ExitedIdle /\ StatusTold

(* Every step keeps the parts of the invariant that are about control.     *)
LEMMA ControlStep == TypeOK /\ InControl /\ [Next]_vars => InControl'
<1> SUFFICES ASSUME TypeOK, InControl, [Next]_vars PROVE InControl'
  OBVIOUS
<1> USE DEF TypeOK, InControl, FileOpenWhenUsed, FileClock, BatchInHand, StampedBeforeCreated,
            DrainWhileReading, DrainAfterStop, ExitedIdle, StatusTold, PcWithFile, PcWithoutFile, Untouched
<1>1. CASE Tick BY <1>1 DEF Tick
<1>2. CASE Trigger BY <1>2 DEF Trigger
<1>3. CASE Server
  <2>1. CASE HandleStop BY <2>1 DEF HandleStop
  <2>2. CASE HandlePause BY <2>2 DEF HandlePause
  <2>3. CASE HandleResume BY <2>3 DEF HandleResume
  <2>4. CASE HandleStartNewOutputFile BY <2>4 DEF HandleStartNewOutputFile
  <2> QED BY <1>3, <2>1, <2>2, <2>3, <2>4 DEF Server
<1>4. CASE LoseReply BY <1>4 DEF LoseReply
<1>5. CASE MainReturns BY <1>5 DEF MainReturns
<1>6. CASE Abort BY <1>6 DEF Abort
<1>7. CASE Restart BY <1>7 DEF Restart, FreshProcess
<1>8. CASE RunThread
  <2>1. CASE Begin BY <2>1 DEF Begin
  <2>2. CASE ForgetSwitch BY <2>2 DEF ForgetSwitch
  <2>3. CASE Boot BY <2>3 DEF Boot
  <2>4. CASE StartAcquisition BY <2>4 DEF StartAcquisition
  <2>5. CASE StampOutput("stamp0", "create0") BY <2>5 DEF StampOutput
  <2>6. CASE CreateOutput("create0", "prime") BY <2>6 DEF CreateOutput
  <2>7. CASE Prime BY <2>7 DEF Prime
  <2>8. CASE LoopTest BY <2>8 DEF LoopTest
  <2>9. CASE CheckSwitch BY <2>9 DEF CheckSwitch
  <2>10. CASE CloseOutput("close", "stamp") BY <2>10 DEF CloseOutput
  <2>11. CASE StampOutput("stamp", "create") BY <2>11 DEF StampOutput
  <2>12. CASE CreateOutput("create", "clear") BY <2>12 DEF CreateOutput
  <2>13. CASE ClearSwitch BY <2>13 DEF ClearSwitch
  <2>14. CASE GetEvent BY <2>14 DEF GetEvent
  <2>15. CASE FillEvents
    <3>1. /\ drain = 0 => pc' = "tail" /\ drain' = 0
          /\ drain = 1 => pc' = "finalClose" /\ drain' = 0
          /\ drain > 1 => pc' = "check" /\ drain' > 0
      BY <2>15 DEF FillEvents, AfterRead
    <3>2. /\ batch' = 0 /\ pc = "fill" /\ pc' \in {"tail", "finalClose", "check"}
          /\ UNCHANGED <<out, now, main, daqStatus, acquiring>>
          /\ UNCHANGED startUnixTimeOfCurrentOutputFile
      BY <2>15, <3>1 DEF FillEvents
    <3>3. /\ FileOpenWhenUsed' /\ FileClock' /\ BatchInHand' /\ StampedBeforeCreated'
          /\ ExitedIdle' /\ StatusTold'
      BY <2>15, <3>2 DEF FillEvents
    <3>4. DrainWhileReading' /\ DrainAfterStop'
      <4>1. CASE drain = 0 BY <3>1, <3>2, <4>1
      <4>2. CASE drain = 1 BY <3>1, <3>2, <4>2
      <4>3. CASE drain > 1 BY <3>1, <3>2, <4>3
      <4> QED BY <4>1, <4>2, <4>3
    <3> QED BY <3>3, <3>4
  <2>16. CASE LoopTail BY <2>16 DEF LoopTail
  <2>17. CASE StopAcquisition BY <2>17 DEF StopAcquisition
  <2>18. CASE CloseOutput("finalClose", "finish") BY <2>18 DEF CloseOutput
  <2>19. CASE Finish BY <2>19 DEF Finish
  <2> QED BY <1>8, <2>1, <2>2, <2>3, <2>4, <2>5, <2>6, <2>7, <2>8, <2>9, <2>10, <2>11, <2>12,
             <2>13, <2>14, <2>15, <2>16, <2>17, <2>18, <2>19 DEF RunThread
<1>9. CASE UNCHANGED vars BY <1>9 DEF vars
<1> QED BY <1>1, <1>2, <1>3, <1>4, <1>5, <1>6, <1>7, <1>8, <1>9 DEF Next, Rest

(* The conjuncts about events.  Most steps leave events where they are.    *)
whereabouts == <<out, files, lost, batch, taken, nEventsOfCurrentOutputFile>>

(* The accounts stand as long as no event moves.                           *)
LEMMA EventsUnmoved ==
  ASSUME EventsAccounted, CurrentFileCount, UNCHANGED whereabouts
  PROVE  EventsAccounted' /\ CurrentFileCount'
BY DEF whereabouts, EventsAccounted, CurrentFileCount, BatchEvents

(* A new file takes the place of a file of the same second: its events are *)
(* lost, none is counted twice.                                            *)
LEMMA FileMade ==
  ASSUME TypeOK, InControl, EventsAccounted, CurrentFileCount, NEW to,
         \E from \in {"create0", "create"} : CreateOutput(from, to)
  PROVE  EventsAccounted' /\ CurrentFileCount'
<1>1. batch = 0 /\ nEventsOfCurrentOutputFile = 0 /\ BatchEvents = {}
  BY DEF CreateOutput, InControl, BatchInHand, StampedBeforeCreated, TypeOK, BatchEvents
<1>2. BatchEvents' = {} BY <1>1 DEF CreateOutput, BatchEvents, TypeOK
<1>3. /\ files' = [files EXCEPT ![now] = {}] /\ lost' = lost \cup files[now]
      /\ out' = now /\ UNCHANGED <<batch, taken, nEventsOfCurrentOutputFile>>
  BY DEF CreateOutput
<1>4. \A f \in Second : files'[f] = IF f = now THEN {} ELSE files[f]
  BY <1>3 DEF TypeOK
<1>5. EventsAccounted' BY <1>1, <1>2, <1>3, <1>4 DEF EventsAccounted, TypeOK
<1>6. CurrentFileCount' BY <1>1, <1>3, <1>4 DEF CurrentFileCount, TypeOK
<1> QED BY <1>5, <1>6

(* A sum of naturals is a natural.                                         *)
LEMMA NatSum == \A m, n \in Nat : m + n \in Nat
OBVIOUS

(* getEvent() moves events from the FIFO into the hand of run().           *)
LEMMA EventsTaken ==
  ASSUME TypeOK, InControl, EventsAccounted, CurrentFileCount, GetEvent
  PROVE  EventsAccounted' /\ CurrentFileCount'
<1>1. batch = 0 /\ BatchEvents = {}
  BY DEF GetEvent, InControl, BatchInHand, TypeOK, BatchEvents
<1>2. UNCHANGED <<out, files, lost, nEventsOfCurrentOutputFile>> BY DEF GetEvent
<1>3. taken \in Nat /\ batch' \in Nat
  BY DEF GetEvent, EventsOfOneRead, Least, TypeOK
<1>4. taken' = taken + batch' BY DEF GetEvent
<1>5. taken' \in Nat BY <1>3, <1>4, NatSum
<1>6. BatchEvents' = (taken + 1)..taken' BY <1>3, <1>4 DEF BatchEvents
<1>7. \A e \in 1..taken' : e \in 1..taken \/ e \in BatchEvents' BY <1>3, <1>5, <1>6
<1>8. \A e \in BatchEvents' : e \notin 1..taken BY <1>3, <1>5, <1>6
<1>9. EventsAccounted' BY <1>1, <1>2, <1>7, <1>8 DEF EventsAccounted, TypeOK
<1>10. CurrentFileCount' BY <1>1, <1>2, <1>3, <1>4 DEF CurrentFileCount, TypeOK
<1> QED BY <1>9, <1>10

(* fillEvents() moves the events in hand into the open file.               *)
LEMMA EventsFilled ==
  ASSUME TypeOK, InControl, CounterBounded, EventsAccounted, CurrentFileCount, FillEvents
  PROVE  EventsAccounted' /\ CurrentFileCount'
<1>1. out \in Second BY DEF FillEvents, InControl, FileOpenWhenUsed, PcWithFile, TypeOK
<1>2. /\ files' = [files EXCEPT ![out] = files[out] \cup BatchEvents]
      /\ batch' = 0 /\ UNCHANGED <<out, lost, taken>>
      /\ nEventsOfCurrentOutputFile' = nEventsOfCurrentOutputFile + batch
  BY DEF FillEvents, FilledFile
<1>3. BatchEvents' = {} BY <1>2 DEF BatchEvents, TypeOK
<1>4. \A f \in Second : files'[f] = IF f = out THEN files[out] \cup BatchEvents ELSE files[f]
  BY <1>1, <1>2 DEF TypeOK
<1>5. EventsAccounted' BY <1>1, <1>2, <1>3, <1>4 DEF EventsAccounted
<1>6. files'[out] = (taken - batch - nEventsOfCurrentOutputFile + 1)..taken
  <2>1. files'[out] = files[out] \cup BatchEvents BY <1>1, <1>4
  <2>2. files[out] = (taken - batch - nEventsOfCurrentOutputFile + 1)..(taken - batch)
    BY <1>1 DEF CurrentFileCount, Second, NoFile, TypeOK
  <2> QED BY <2>1, <2>2 DEF BatchEvents, TypeOK
<1>7. CurrentFileCount' BY <1>1, <1>2, <1>6 DEF CurrentFileCount, TypeOK
<1> QED BY <1>5, <1>7

(* What an aborting process had in hand or unsaved is lost, once.          *)
LEMMA EventsAborted ==
  ASSUME TypeOK, EventsAccounted, Abort
  PROVE  EventsAccounted' /\ CurrentFileCount'
<1>1. out' = NoFile /\ batch' = 0 /\ taken' = taken BY DEF Abort
<1>2. BatchEvents' = {} BY <1>1 DEF BatchEvents, TypeOK
<1>3. CASE out = NoFile
  <2>1. lost' = lost \cup BatchEvents /\ UNCHANGED files BY <1>3 DEF Abort
  <2> QED BY <1>1, <1>2, <2>1 DEF EventsAccounted, CurrentFileCount
<1>4. CASE out # NoFile
  <2>1. PICK gone \in SUBSET files[out] :
          /\ files' = [files EXCEPT ![out] = @ \ gone]
          /\ lost' = lost \cup gone \cup BatchEvents
    BY <1>4 DEF Abort
  <2>2. \A f \in Second : files'[f] = IF f = out THEN files[out] \ gone ELSE files[f]
    BY <1>4, <2>1 DEF TypeOK
  <2> QED BY <1>1, <1>2, <1>4, <2>1, <2>2 DEF EventsAccounted, CurrentFileCount, TypeOK
<1> QED BY <1>3, <1>4

(* Every step keeps the account of the events.                             *)
LEMMA EventsStep ==
  ASSUME TypeOK, CounterBounded, InControl, EventsAccounted, CurrentFileCount, [Next]_vars
  PROVE  EventsAccounted' /\ CurrentFileCount'
<1>1. CASE UNCHANGED whereabouts BY <1>1, EventsUnmoved
<1>2. CASE Tick \/ Trigger \/ Server \/ LoseReply \/ MainReturns \/ Rest \/ UNCHANGED vars
  <2>1. UNCHANGED whereabouts
    BY <1>2 DEF Tick, Trigger, Server, LoseReply, MainReturns, Rest, HandleStop, HandlePause,
                HandleResume, HandleStartNewOutputFile, Untouched, whereabouts, vars
  <2> QED BY <1>1, <2>1
<1>3. CASE Abort BY <1>3, EventsAborted
<1>4. CASE Restart
  <2>1. /\ out = NoFile /\ UNCHANGED <<out, files, lost, batch, taken>>
    BY <1>4 DEF Restart, FreshProcess, InControl, ExitedIdle, FileOpenWhenUsed, PcWithFile
  <2>2. BatchEvents' = BatchEvents BY <2>1 DEF BatchEvents
  <2> QED BY <2>1, <2>2 DEF EventsAccounted, CurrentFileCount
<1>5. CASE StampOutput("stamp0", "create0") \/ StampOutput("stamp", "create")
  <2>1. /\ out = NoFile /\ UNCHANGED <<out, files, lost, batch, taken>>
    BY <1>5 DEF StampOutput, InControl, FileOpenWhenUsed, PcWithFile
  <2>2. BatchEvents' = BatchEvents BY <2>1 DEF BatchEvents
  <2> QED BY <2>1, <2>2 DEF EventsAccounted, CurrentFileCount
<1>6. CASE CreateOutput("create0", "prime") \/ CreateOutput("create", "clear")
  BY <1>6, FileMade
<1>7. CASE CloseOutput("close", "stamp") \/ CloseOutput("finalClose", "finish")
  <2>1. /\ out' = NoFile /\ UNCHANGED <<files, lost, batch, taken>> BY <1>7 DEF CloseOutput
  <2>2. BatchEvents' = BatchEvents BY <2>1 DEF BatchEvents
  <2> QED BY <2>1, <2>2 DEF EventsAccounted, CurrentFileCount
<1>8. CASE GetEvent BY <1>8, EventsTaken
<1>9. CASE FillEvents BY <1>9, EventsFilled
<1>10. CASE \/ Begin \/ ForgetSwitch \/ Boot \/ StartAcquisition \/ Prime \/ LoopTest
            \/ CheckSwitch \/ ClearSwitch \/ LoopTail \/ StopAcquisition \/ Finish
  <2>1. UNCHANGED whereabouts
    BY <1>10 DEF Begin, ForgetSwitch, Boot, StartAcquisition, Prime, LoopTest, CheckSwitch,
                 ClearSwitch, LoopTail, StopAcquisition, Finish, Untouched, whereabouts
  <2> QED BY <1>1, <2>1
<1> QED BY <1>2, <1>3, <1>4, <1>5, <1>6, <1>7, <1>8, <1>9, <1>10 DEF Next, RunThread

(* Every step keeps the invariant.                                         *)
LEMMA IInvStep == IInv /\ [Next]_vars => IInv'
<1> SUFFICES ASSUME IInv, [Next]_vars PROVE IInv'
  OBVIOUS
<1>1. TypeOK /\ CounterBounded /\ InControl /\ EventsAccounted /\ CurrentFileCount
  BY DEF IInv, InControl
<1>2. TypeOK' /\ CounterBounded' BY <1>1, TypeOKStep
<1>3. InControl' BY <1>1, ControlStep
<1>4. EventsAccounted' /\ CurrentFileCount' BY <1>1, EventsStep
<1> QED BY <1>2, <1>3, <1>4 DEF IInv, InControl

(* The invariant holds at all times.                                       *)
LEMMA Invariance == Spec => []IInv
BY InitIInv, IInvStep, PTL DEF Spec

(* Every reachable state is well typed: in particular the numbers of the   *)
(* events in files, in hand and lost are those of events that were read.   *)
THEOREM TypeCorrect == Spec => []TypeOK
<1>1. IInv => TypeOK BY DEF IInv
<1> QED BY Invariance, <1>1, PTL

(* Whatever the requests, crashes, restarts and lost replies, each event   *)
(* that getEvent() returned is in exactly one place.                       *)
THEOREM NoEventTwiceOrMissing == Spec => []EventsAccounted
<1>1. IInv => EventsAccounted BY DEF IInv
<1> QED BY Invariance, <1>1, PTL

(* The counter the server reports for the open file is what it holds.      *)
THEOREM CountIsOfOpenFile == Spec => []CurrentFileCount
<1>1. IInv => CurrentFileCount BY DEF IInv
<1> QED BY Invariance, <1>1, PTL

(* run() never dereferences a missing eventListFile and leaks no open one. *)
THEOREM FileIsOpenWhenUsed == Spec => []FileOpenWhenUsed
<1>1. IInv => FileOpenWhenUsed BY DEF IInv
<1> QED BY Invariance, <1>1, PTL

(* Paused is announced only by a run that stopped the board, filled all it *)
(* read and closed its file.                                               *)
THEOREM PausedMeansReleased == Spec => RunEndsReleased
<1> DEFINE Announced == daqStatus = "Running" /\ daqStatus' = "Paused" /\ main = main'
<1>1. ASSUME IInv, [Next]_vars, Announced
      PROVE  ~acquiring /\ out = NoFile /\ batch = 0
  <2>1. Finish
    BY <1>1 DEF Next, RunThread, Server, Tick, Trigger, HandleStop, HandlePause, HandleResume,
         HandleStartNewOutputFile, LoseReply, MainReturns, Abort, Restart, FreshProcess, Rest,
         Begin, ForgetSwitch, Boot, StartAcquisition, StampOutput, CreateOutput, Prime, LoopTest,
         CheckSwitch, CloseOutput, ClearSwitch, GetEvent, FillEvents, LoopTail, StopAcquisition,
         Untouched, vars
  <2> QED BY <1>1, <2>1 DEF Finish, IInv, DrainAfterStop, FileOpenWhenUsed, BatchInHand, PcWithFile
<1>2. IInv /\ [Next]_vars =>
        [Announced => ~acquiring /\ out = NoFile /\ batch = 0]_vars
  BY <1>1
<1> QED BY Invariance, <1>2, PTL DEF Spec, RunEndsReleased

(* A saved event leaves its file only by a crash, from the file that was   *)
(* open, or by the creation of a file in the second it is named after.     *)
THEOREM SavedEventsStay == Spec => SavedEventsPersist
<1> DEFINE Kept(f) == ~(files[f] \subseteq files'[f]) =>
                        \/ f = out /\ main' = "exited"
                        \/ f = now /\ out = NoFile /\ out' = now
<1>1. ASSUME IInv, [Next]_vars PROVE \A f \in Second : Kept(f)
  <2>1. CASE UNCHANGED files BY <2>1
  <2>2. CASE Abort
    <3>1. CASE out = NoFile
      <4>1. UNCHANGED files BY <2>2, <3>1 DEF Abort
      <4> QED BY <2>1, <4>1
    <3>2. CASE out # NoFile
      <4>1. PICK gone : files' = [files EXCEPT ![out] = @ \ gone] BY <2>2, <3>2 DEF Abort
      <4>2. \A f \in Second : f # out => files'[f] = files[f]
        BY <1>1, <4>1 DEF IInv, TypeOK
      <4>3. main' = "exited" BY <2>2 DEF Abort
      <4> QED BY <4>2, <4>3
    <3> QED BY <3>1, <3>2
  <2>3. CASE CreateOutput("create0", "prime") \/ CreateOutput("create", "clear")
    <3>1. out = NoFile BY <1>1, <2>3 DEF CreateOutput, IInv, FileOpenWhenUsed, PcWithFile
    <3>2. out' = now /\ files' = [files EXCEPT ![now] = {}] BY <2>3 DEF CreateOutput
    <3>3. \A f \in Second : f # now => files'[f] = files[f]
      BY <1>1, <3>2 DEF IInv, TypeOK
    <3> QED BY <3>1, <3>2, <3>3
  <2>4. CASE FillEvents
    <3>1. files' = [files EXCEPT ![out] = files[out] \cup BatchEvents]
      BY <2>4 DEF FillEvents, FilledFile
    <3> QED BY <1>1, <3>1 DEF IInv, TypeOK
  <2> QED
    BY <1>1, <2>1, <2>2, <2>3, <2>4 DEF Next, RunThread, Server, Tick, Trigger, HandleStop,
       HandlePause, HandleResume, HandleStartNewOutputFile, LoseReply, MainReturns, Restart,
       FreshProcess, Rest, Begin, ForgetSwitch, Boot, StartAcquisition, StampOutput, Prime,
       LoopTest, CheckSwitch, CloseOutput, ClearSwitch, GetEvent, LoopTail, StopAcquisition,
       Finish, Untouched, vars
<1>2. IInv /\ [Next]_vars => [\A f \in Second : Kept(f)]_vars
  BY <1>1
<1> QED BY Invariance, <1>2, PTL DEF Spec, SavedEventsPersist

(* Each step of the process is a step of DaqControl or leaves what it      *)
(* shows as it is.                                                         *)
LEMMA ControlSimulation ==
  IInv /\ [Next]_vars => [Control!Next]_<<main, RunPhase>>
<1> SUFFICES ASSUME IInv, [Next]_vars PROVE [Control!Next]_<<main, RunPhase>>
  OBVIOUS
<1> USE DEF RunPhase, InLoop
<1>0. TypeOK /\ DrainWhileReading /\ StatusTold BY DEF IInv
<1>1. CASE UNCHANGED <<main, pc, drain, stopped>> BY <1>1
<1>2. CASE HandleStop
  <2>1. Control!Stop BY <1>2 DEF HandleStop, Control!Stop, Control!Stopped
  <2> QED BY <2>1 DEF Control!Next
<1>3. CASE HandlePause
  <2>1. Control!Pause BY <1>3 DEF HandlePause, Control!Pause, Control!Stopped
  <2> QED BY <2>1 DEF Control!Next
<1>4. CASE HandleResume
  <2>1. Control!Resume BY <1>0, <1>4 DEF HandleResume, StatusTold, Control!Resume
  <2> QED BY <2>1 DEF Control!Next
<1>5. CASE MainReturns
  <2>1. Control!Return BY <1>5 DEF MainReturns, Control!Return
  <2> QED BY <2>1 DEF Control!Next
<1>6. CASE Abort
  <2>1. Control!Crash BY <1>0, <1>6 DEF Abort, Control!Crash, TypeOK, PcWithFile, PcWithoutFile
  <2> QED BY <2>1 DEF Control!Next
<1>7. CASE Restart
  <2>1. Control!Restart BY <1>7 DEF Restart, FreshProcess, Control!Restart
  <2> QED BY <2>1 DEF Control!Next
<1>8. CASE Begin \/ Prime \/ Finish
  <2>1. Control!Advance
    BY <1>0, <1>8 DEF Begin, Prime, Finish, DrainWhileReading, Untouched, Control!Advance
  <2> QED BY <2>1 DEF Control!Next
<1>9. CASE LoopTest \/ LoopTail
  <2>1. drain = 0 /\ UNCHANGED <<main, drain, stopped>>
    BY <1>0, <1>9 DEF LoopTest, LoopTail, DrainWhileReading
  <2>2. pc \in {"loop", "tail"} /\ pc' \in {"loop", "check", "halt"} /\ Alive
    BY <1>9 DEF LoopTest, LoopTail
  <2>3. pc = "loop" => (pc' = "halt" <=> stopped) BY <1>9 DEF LoopTest, LoopTail
  <2>4. CASE pc' # "halt" BY <2>1, <2>2, <2>4
  <2>5. CASE pc' = "halt" /\ stopped
    <3>1. Control!Advance BY <2>1, <2>2, <2>5 DEF Control!Advance
    <3> QED BY <3>1 DEF Control!Next
  <2>6. CASE pc' = "halt" /\ ~stopped
    <3>1. Control!Expire BY <2>1, <2>2, <2>6 DEF Control!Expire
    <3> QED BY <3>1 DEF Control!Next
  <2> QED BY <2>4, <2>5, <2>6
<1>10. CASE ForgetSwitch \/ Boot \/ StartAcquisition \/ StampOutput("stamp0", "create0")
            \/ CreateOutput("create0", "prime") \/ StopAcquisition
            \/ CloseOutput("finalClose", "finish")
  <2>1. CASE ForgetSwitch \/ Boot \/ StartAcquisition BY <2>1
    DEF ForgetSwitch, Boot, StartAcquisition, Untouched
  <2>2. CASE StampOutput("stamp0", "create0") BY <2>2 DEF StampOutput
  <2>3. CASE CreateOutput("create0", "prime") BY <2>3 DEF CreateOutput
  <2>4. CASE StopAcquisition BY <2>4 DEF StopAcquisition
  <2>5. CASE CloseOutput("finalClose", "finish") BY <2>5 DEF CloseOutput
  <2> QED BY <1>10, <2>1, <2>2, <2>3, <2>4, <2>5
<1>11. CASE CheckSwitch \/ CloseOutput("close", "stamp") \/ StampOutput("stamp", "create")
            \/ CreateOutput("create", "clear") \/ ClearSwitch \/ GetEvent
  BY <1>11 DEF CheckSwitch, CloseOutput, StampOutput, CreateOutput, ClearSwitch, GetEvent,
       Untouched
<1>12. CASE FillEvents
  <2>1. pc = "fill" /\ pc' = AfterRead /\ UNCHANGED <<main, stopped>> BY <1>12 DEF FillEvents
  <2>2. CASE drain = 0
    <3>1. pc' = "tail" /\ drain' = 0 BY <1>12, <2>1, <2>2 DEF FillEvents, AfterRead
    <3>2. RunPhase = IF stopped THEN "stopping" ELSE "observing" BY <2>1, <2>2
    <3>3. RunPhase' = IF stopped THEN "stopping" ELSE "observing" BY <2>1, <3>1
    <3> QED BY <2>1, <3>2, <3>3
  <2>3. CASE drain # 0
    <3>1. pc' = "finalClose" \/ (pc' = "check" /\ drain' # 0)
      <4>1. drain \in 1..3 /\ drain' = drain - 1
        BY <1>0, <1>12, <2>3 DEF FillEvents, TypeOK
      <4>2. drain = 1 => pc' = "finalClose" BY <2>1 DEF AfterRead
      <4>3. drain # 1 => pc' = "check" /\ drain' # 0 BY <2>1, <4>1 DEF AfterRead
      <4> QED BY <4>2, <4>3
    <3>2. RunPhase = "ending" BY <2>1, <2>3
    <3>3. RunPhase' = "ending" BY <3>1
    <3> QED BY <2>1, <3>2, <3>3
  <2> QED BY <2>2, <2>3
<1> QED
  BY <1>1, <1>2, <1>3, <1>4, <1>5, <1>6, <1>7, <1>8, <1>9, <1>10, <1>11, <1>12
  DEF Next, RunThread, Server, Tick, Trigger, LoseReply, HandleStartNewOutputFile, Rest,
      Untouched, vars

(* growth_daq implements the machine its clients rely on: every behaviour  *)
(* of its thread, server and process is one of DaqControl.                 *)
THEOREM ImplementsControl == Spec => ControlHolds
<1>1. Init => Control!Init BY DEF Init, Control!Init, RunPhase
<1>2. [Control!Next]_<<main, RunPhase>> <=> [Control!Next]_(Control!control)
  BY DEF Control!control
<1>3. IInv /\ [Next]_vars => [Control!Next]_(Control!control)
  BY ControlSimulation, <1>2
<1> QED BY <1>1, <1>3, Invariance, PTL DEF Spec, ControlHolds, Control!Spec
=============================================================================

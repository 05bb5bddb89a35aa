---------------------------- MODULE FileRelocator ----------------------------
(***************************************************************************)
(* The files growth_daq and growth_hk_logger write, and the relocator that *)
(* compresses and moves those that are complete.  What is complete it has  *)
(* to guess: it asks growth_daq for the name of its output file, lists the *)
(* directory afterwards, and works through that list while the others go   *)
(* on.  The logger is not asked; its newest file is left alone.            *)
(*                                                                         *)
(* A file is named by its kind and its number, which stands for the second *)
(* in its name; a name is used once (DaqProcess is about two files of one  *)
(* second).                                                                *)
(***************************************************************************)
EXTENDS Naturals, Sequences, FiniteSets

CONSTANTS
  MaxDaqFiles, MaxHkFiles,   (* bounds: files of each kind                 *)
  MaxFaults                  (* bound: deaths, and calls and commands that *)
                             (* fail                                       *)

ASSUME BoundsAssumption == {MaxDaqFiles, MaxHkFiles, MaxFaults} \subseteq Nat

VARIABLES
  plain, zipped, moved,      (* the directory: files as they were written, *)
                             (* those with .gz, and those in a subfolder   *)
  daq,                       (* growth_daq and its output file             *)
  outputFileName,            (* MainThread::outputFileName, or None        *)
  daqFiles,                  (* number of the last DAQ file                *)
  hk, hkFiles,               (* the same of growth_hk_logger               *)
  pc,                        (* of FileRelocator#run                       *)
  reply,                     (* daq_status                                 *)
  files,                     (* still to be processed in this round        *)
  daqFilesAtReply,           (* history                                    *)
  cut,                       (* history: files a failing mv, or the death  *)
                             (* of the relocator, left compressed          *)
  faults

directory == <<plain, zipped, moved>>
thread == <<daq, outputFileName, daqFiles>>
logger == <<hk, hkFiles>>
relocator == <<pc, reply, files, daqFilesAtReply, cut>>
vars == <<directory, thread, logger, relocator, faults>>

-----------------------------------------------------------------------------
DaqFile(n) == <<"daq", n>>
HkFile(n) == <<"hk", n>>
Files == {DaqFile(n) : n \in 1..MaxDaqFiles} \cup {HkFile(n) : n \in 1..MaxHkFiles}
None == <<"daq", 0>>
Fails == [status |-> "error", outputFileName |-> None]

Fault == faults < MaxFaults /\ faults' = faults + 1

(* Files of a kind, and sequences of them in the order of their names: for *)
(* each set there is one.                                                  *)
OfKind(kind, S) == {f \in S : f[1] = kind}
Sorted(S) ==
  {s \in [1..Cardinality(S) -> S] : \A i, j \in DOMAIN s : i < j => s[i][2] < s[j][2]}

Init ==
  /\ plain = {} /\ zipped = {} /\ moved = {}
  /\ daq = "closed" /\ outputFileName = None /\ daqFiles = 0
  /\ hk = "none" /\ hkFiles = 0
  /\ pc = "status" /\ reply = Fails /\ files = << >> /\ daqFilesAtReply = 0
  /\ cut = {}
  /\ faults = 0

-----------------------------------------------------------------------------
(* The run thread of growth_daq: the name first, then the file; the file   *)
(* is closed before its name is given up.                                  *)

NameOutput ==
  /\ daq = "closed" /\ outputFileName = None /\ daqFiles < MaxDaqFiles
  /\ daqFiles' = daqFiles + 1 /\ outputFileName' = DaqFile(daqFiles')
  /\ daq' = "named"
  /\ UNCHANGED <<directory, logger, relocator, faults>>

CreateOutput ==
  /\ daq = "named"
  /\ daq' = "open" /\ plain' = plain \cup {outputFileName}
  /\ UNCHANGED <<zipped, moved, outputFileName, daqFiles, logger, relocator, faults>>

CloseOutput ==
  /\ daq = "open"
  /\ daq' = "closed"
  /\ UNCHANGED <<directory, outputFileName, daqFiles, logger, relocator, faults>>

ForgetOutput ==
  /\ daq = "closed" /\ outputFileName # None
  /\ outputFileName' = None
  /\ UNCHANGED <<directory, daq, daqFiles, logger, relocator, faults>>

DaqDies ==
  /\ daq # "dead" /\ Fault
  /\ daq' = "dead" /\ outputFileName' = None
  /\ UNCHANGED <<directory, daqFiles, logger, relocator>>

(* God starts it again, paused.                                            *)
DaqStarts ==
  /\ daq = "dead" /\ daq' = "closed"
  /\ UNCHANGED <<directory, outputFileName, daqFiles, logger, relocator, faults>>

Daq == NameOutput \/ CreateOutput \/ CloseOutput \/ ForgetOutput \/ DaqDies \/ DaqStarts

-----------------------------------------------------------------------------
(* growth_hk_logger switches its file once a day.                          *)

HkCreates ==
  /\ hk \in {"none", "compressed"} /\ hkFiles < MaxHkFiles
  /\ hkFiles' = hkFiles + 1
  /\ hk' = "open" /\ plain' = plain \cup {HkFile(hkFiles')}
  /\ UNCHANGED <<zipped, moved, thread, relocator, faults>>

HkCloses ==
  /\ hk = "open" /\ hk' = "closed"
  /\ UNCHANGED <<directory, thread, hkFiles, relocator, faults>>

(* try_compress().                                                         *)
HkCompresses ==
  /\ hk = "closed" /\ hk' = "compressed"
  /\ \/ /\ plain' = plain \ {HkFile(hkFiles)} /\ zipped' = zipped \cup {HkFile(hkFiles)}
        /\ UNCHANGED faults
     \/ Fault /\ UNCHANGED <<plain, zipped>>
  /\ UNCHANGED <<moved, thread, hkFiles, relocator>>

HkDies ==
  /\ hk # "none" /\ Fault
  /\ hk' = "none"
  /\ UNCHANGED <<directory, thread, hkFiles, relocator>>

Hk == HkCreates \/ HkCloses \/ HkCompresses \/ HkDies

-----------------------------------------------------------------------------
(* The relocator.                                                          *)

(* What growth_daq answers to getStatus.                                   *)
getOutputFileName == outputFileName
getStatus == [status |-> "ok", outputFileName |-> getOutputFileName]

(* daq.status(), by way of growth_controller.                              *)
AskStatus ==
  /\ pc = "status"
  /\ pc' = "list"
  /\ \/ daq # "dead" /\ reply' = getStatus /\ UNCHANGED faults
     \/ daq = "dead" /\ reply' = Fails /\ UNCHANGED faults
     \/ Fault /\ reply' = Fails
  /\ daqFilesAtReply' = daqFiles
  /\ UNCHANGED <<directory, thread, logger, files, cut>>

(* The two globs, of which the pattern of the logger takes in .gz as well. *)
DaqOutputFiles == OfKind("daq", plain)
HkLoggerOutputFiles == OfKind("hk", plain \cup zipped)
ButLast(S) == {f \in S : \E g \in S : f[2] < g[2]}

NoneWithheld == DaqOutputFiles            (* mutant: an error is not seen  *)
LastWithheld == ButLast(DaqOutputFiles)   (* mutant: nor is an answer      *)
DaqFilesToMove == IF reply.status = "ok" THEN DaqOutputFiles ELSE ButLast(DaqOutputFiles)

ListFiles ==
  /\ pc = "list"
  /\ \E daqs \in Sorted(DaqFilesToMove), hks \in Sorted(ButLast(HkLoggerOutputFiles)) :
       files' = daqs \o hks
  /\ pc' = "next"
  /\ UNCHANGED <<directory, thread, logger, reply, daqFilesAtReply, cut, faults>>

(* The round is over, and the relocator sleeps.                            *)
Sleep ==
  /\ pc = "next" /\ files = << >>
  /\ pc' = "status"
  /\ UNCHANGED <<directory, thread, logger, reply, files, daqFilesAtReply, cut, faults>>

(* The output file of growth_daq, and what is compressed already.          *)
Skip ==
  /\ pc = "next" /\ files # << >>
  /\ Head(files) = reply.outputFileName \/ Head(files) \in zipped
  /\ files' = Tail(files)
  /\ UNCHANGED <<directory, thread, logger, pc, reply, daqFilesAtReply, cut, faults>>

CompressKeeping ==                        (* mutant: gzip -k               *)
  /\ pc = "next" /\ files # << >>
  /\ Head(files) # reply.outputFileName /\ Head(files) \in plain
  /\ pc' = "move" /\ zipped' = zipped \cup {Head(files)}
  /\ UNCHANGED <<plain, moved, thread, logger, reply, files, daqFilesAtReply, cut, faults>>

(* gzip, which may fail.                                                   *)
Compress ==
  /\ pc = "next" /\ files # << >>
  /\ Head(files) # reply.outputFileName /\ Head(files) \in plain
  /\ pc' = "move"
  /\ \/ /\ plain' = plain \ {Head(files)} /\ zipped' = zipped \cup {Head(files)}
        /\ UNCHANGED faults
     \/ Fault /\ UNCHANGED <<plain, zipped>>
  /\ UNCHANGED <<moved, thread, logger, reply, files, daqFilesAtReply, cut>>

(* What the relocator was about to move, compressed: no later round moves  *)
(* it.                                                                     *)
LeftZipped == IF pc = "move" THEN {Head(files)} \cap zipped ELSE {}

(* mv of what there is, compressed or not; an error is logged.             *)
Move ==
  /\ pc = "move"
  /\ pc' = "next" /\ files' = Tail(files)
  /\ \/ /\ plain' = plain \ {Head(files)} /\ zipped' = zipped \ {Head(files)}
        /\ moved' = moved \cup {Head(files)}
        /\ UNCHANGED <<cut, faults>>
     \/ Fault /\ cut' = cut \cup LeftZipped /\ UNCHANGED directory
  /\ UNCHANGED <<thread, logger, reply, daqFilesAtReply>>

RelocatorDies ==
  /\ Fault
  /\ pc' = "status" /\ files' = << >>
  /\ cut' = cut \cup LeftZipped
  /\ UNCHANGED <<directory, thread, logger, reply, daqFilesAtReply>>

Relocate == AskStatus \/ ListFiles \/ Sleep \/ Skip \/ Compress \/ Move

Next == Daq \/ Hk \/ Relocate \/ RelocatorDies

Spec == Init /\ [][Next]_vars

(* The relocator loops, the run thread does not stop inside of             *)
(* closeOutputEventListFile(), and God starts growth_daq again.            *)
FairSpec == Spec /\ WF_vars(Relocate) /\ WF_vars(ForgetOutput) /\ WF_vars(DaqStarts)

-----------------------------------------------------------------------------
(* Every variable has its type.                                            *)
TypeOK ==
  /\ {plain, zipped, moved} \subseteq SUBSET Files
  /\ plain \cap zipped = {} /\ (plain \cup zipped) \cap moved = {}
  /\ daq \in {"closed", "named", "open", "dead"}
  /\ outputFileName \in Files \cup {None}
  /\ daqFiles \in 0..MaxDaqFiles /\ daqFilesAtReply \in 0..daqFiles
  /\ hk \in {"none", "open", "closed", "compressed"} /\ hkFiles \in 0..MaxHkFiles
  /\ pc \in {"status", "list", "next", "move"}
  /\ reply \in [status : {"ok", "error"}, outputFileName : Files \cup {None}]
  /\ files \in Seq(Files) /\ cut \subseteq Files /\ faults \in 0..MaxFaults

(* The files somebody writes to.                                           *)
Open == (IF daq = "open" THEN {outputFileName} ELSE {})
          \cup (IF hk = "open" THEN {HkFile(hkFiles)} ELSE {})

(* The relocator takes no file away that is being written, unless it is an *)
(* output file growth_daq began after it had answered: such a file is not  *)
(* the one of the answer.                                                  *)
OpenFilesStay ==
  [][\A f \in Open \cap plain : f \notin plain' =>
        f[1] = "daq" /\ reply.status = "ok" /\ f[2] > daqFilesAtReply]_vars

(* A file nobody writes to any more: of the logger, whose newest file the  *)
(* relocator leaves alone, one of those before.                            *)
Done(f) == f \in (plain \cup zipped) \ Open /\ (f[1] = "hk" => f[2] < hkFiles)

(* A file that is done with and as it was written is compressed and moved  *)
(* in the end, however many rounds, deaths and failures come between; only *)
(* one on which mv failed, or the relocator died, right after gzip had     *)
(* succeeded need not be.                                                  *)
PlainFilesMoved == \A f \in Files : Done(f) /\ f \in plain ~> f \in moved \cup cut

(* Disputed: every output file of growth_daq and of the logger is moved in *)
(* the end, the compressed ones as they are.                               *)
AllFilesMoved == \A f \in Files : Done(f) ~> f \in moved
=============================================================================

-------------------------- MODULE FileRelocator_proofs --------------------------
(***************************************************************************)
(* Theorems about FileRelocator, for any number of files of each kind and  *)
(* any number of faults.                                                   *)
(***************************************************************************)
EXTENDS FileRelocator, TLAPS, FiniteSetTheorems, SequenceTheorems

(* Names come in the order of their numbers, and what the directory has,   *)
(* was named: no file is created under a name that is in use.              *)
NamedBefore(f) ==
  IF f[1] = "daq" THEN f[2] <= daqFiles /\ (daq = "named" => f[2] < daqFiles)
                  ELSE f[2] <= hkFiles
DirectoryNamed == \A f \in plain \cup zipped \cup moved : NamedBefore(f)

(* The output file of growth_daq is the one it named last.                 *)
OutputIsLast ==
  /\ outputFileName \in {None, DaqFile(daqFiles)}
  /\ daq \in {"named", "open"} => daqFiles > 0 /\ outputFileName = DaqFile(daqFiles)
  /\ daq = "dead" => outputFileName = None

(* The file the logger is at is its last one, and it is where it was made. *)
LoggerFileThere ==
  hk \in {"open", "closed"} => hkFiles > 0 /\ HkFile(hkFiles) \in plain

(* An output file that growth_daq has, and had when it answered, is the    *)
(* one of the answer.                                                      *)
AnswerStands ==
  reply.status = "ok" /\ daq \in {"named", "open"} /\ daqFiles = daqFilesAtReply =>
    reply.outputFileName = outputFileName

(* The files of a round are old ones: not the last of the logger, nor of   *)
(* growth_daq if it did not answer.                                        *)
LeftAlone(f) ==
  /\ NamedBefore(f)
  /\ IF f[1] = "daq" THEN reply.status = "error" => f[2] < daqFiles ELSE f[2] < hkFiles
Round ==
  /\ pc \in {"status", "list"} => files = << >>
  /\ pc = "move" => files # << >> /\ files[1] # reply.outputFileName
  /\ \A k \in 1..Len(files) : LeftAlone(files[k])

IInv ==
  TypeOK /\ DirectoryNamed /\ OutputIsLast /\ LoggerFileThere /\ AnswerStands /\ Round

USE BoundsAssumption

-----------------------------------------------------------------------------
(* Files and listings.                                                     *)

(* A file is of one of two kinds, and is known by its number.              *)
LEMMA FileOfKind ==
  /\ \A f \in Files : \/ f[1] = "daq" /\ f[2] \in 1..MaxDaqFiles /\ f = DaqFile(f[2])
                      \/ f[1] = "hk" /\ f[2] \in 1..MaxHkFiles /\ f = HkFile(f[2])
  /\ \A n \in 1..MaxDaqFiles : DaqFile(n) \in Files
  /\ \A n \in 1..MaxHkFiles : HkFile(n) \in Files
  /\ None \notin Files
BY DEF Files, DaqFile, HkFile, None

(* The kind and the number of a name.                                      *)
LEMMA PartsOfName ==
  \A n : /\ DaqFile(n)[1] = "daq" /\ DaqFile(n)[2] = n
         /\ HkFile(n)[1] = "hk" /\ HkFile(n)[2] = n
BY DEF DaqFile, HkFile

(* There are finitely many files.                                          *)
LEMMA FilesFinite == IsFiniteSet(Files)
<1> DEFINE D == {DaqFile(n) : n \in 1..MaxDaqFiles}
           H == {HkFile(n) : n \in 1..MaxHkFiles}
           d == [n \in 1..MaxDaqFiles |-> DaqFile(n)]
           h == [n \in 1..MaxHkFiles |-> HkFile(n)]
<1>1. IsFiniteSet(1..MaxDaqFiles) /\ IsFiniteSet(1..MaxHkFiles)
  BY 1 \in Int, MaxDaqFiles \in Int, MaxHkFiles \in Int, FS_Interval
<1>2. d \in Surjection(1..MaxDaqFiles, D) /\ h \in Surjection(1..MaxHkFiles, H)
  BY DEF Surjection
<1>3. IsFiniteSet(D)
  BY <1>1, <1>2, FS_Surjection
<1>4. IsFiniteSet(H)
  BY <1>1, <1>2, FS_Surjection
<1> QED BY <1>3, <1>4, FS_Union DEF Files

(* A listing is a sequence of what it lists.                               *)
LEMMA ListingOf ==
  ASSUME NEW S \in SUBSET Files, NEW s \in Sorted(S)
  PROVE  s \in Seq(S)
<1>1. Cardinality(S) \in Nat
  BY FilesFinite, FS_Subset, FS_CardinalityType
<1>2. s \in [1..Cardinality(S) -> S]
  BY DEF Sorted
<1> QED BY <1>1, <1>2

-----------------------------------------------------------------------------
(* The invariant holds in the beginning.                                   *)
LEMMA InitIInv == Init => IInv
<1> SUFFICES ASSUME Init PROVE IInv
  OBVIOUS
<1> USE DEF Init
<1>1. TypeOK BY DEF TypeOK, Fails
<1>2. DirectoryNamed /\ OutputIsLast /\ LoggerFileThere
  BY DEF DirectoryNamed, OutputIsLast, LoggerFileThere
<1>3. AnswerStands /\ Round BY DEF AnswerStands, Round, Fails
<1> QED BY <1>1, <1>2, <1>3 DEF IInv

(* growth_daq names its file above all there are, creates it under that    *)
(* name, and keeps it until it closes it or dies.                          *)
LEMMA DaqKeepsIInv == IInv /\ Daq => IInv'
<1> SUFFICES ASSUME IInv, Daq PROVE IInv'
  OBVIOUS
<1> USE FileOfKind, PartsOfName
<1>1. TypeOK /\ DirectoryNamed /\ OutputIsLast /\ LoggerFileThere /\ AnswerStands /\ Round
  BY DEF IInv
<1>2. UNCHANGED <<zipped, moved, hk, hkFiles, pc, reply, files, daqFilesAtReply, cut>>
  BY DEF Daq, NameOutput, CreateOutput, CloseOutput, ForgetOutput, DaqDies, DaqStarts,
         directory, logger, relocator
<1>3. daqFiles' >= daqFiles /\ (daqFiles' = daqFiles \/ NameOutput)
  BY <1>1 DEF TypeOK, Daq, NameOutput, CreateOutput, CloseOutput, ForgetOutput, DaqDies,
              DaqStarts, thread
<1>4. Round'
  <2>1. \A f \in Files : LeftAlone(f) => LeftAlone(f)'
    BY <1>1, <1>2, <1>3 DEF TypeOK, LeftAlone, NamedBefore, NameOutput, Daq, CreateOutput,
                            CloseOutput, ForgetOutput, DaqDies, DaqStarts
  <2>2. \A k \in 1..Len(files) : files[k] \in Files
    BY <1>1 DEF TypeOK
  <2>3. \A k \in 1..Len(files) : LeftAlone(files[k])'
    BY <1>1, <1>2, <2>1, <2>2 DEF Round
  <2> QED BY <1>1, <1>2, <2>3 DEF Round
<1>5. CASE NameOutput
  <2> USE <1>5 DEF NameOutput, directory
  <2>1. TypeOK'
    BY <1>1, <1>2, <1>3 DEF TypeOK
  <2>2. DirectoryNamed' /\ OutputIsLast' /\ LoggerFileThere' /\ AnswerStands'
    BY <1>1, <1>2 DEF TypeOK, DirectoryNamed, NamedBefore, OutputIsLast, LoggerFileThere,
                      AnswerStands
  <2> QED BY <2>1, <2>2, <1>4 DEF IInv
<1>6. CASE CreateOutput
  <2> USE <1>6 DEF CreateOutput
  <2>1. outputFileName = DaqFile(daqFiles) /\ outputFileName \in Files
        /\ outputFileName \notin plain \cup zipped \cup moved
    BY <1>1 DEF TypeOK, DirectoryNamed, NamedBefore, OutputIsLast
  <2>2. TypeOK'
    BY <1>1, <1>2, <2>1 DEF TypeOK
  <2>3. DirectoryNamed' /\ OutputIsLast' /\ LoggerFileThere' /\ AnswerStands'
    BY <1>1, <1>2, <2>1 DEF TypeOK, DirectoryNamed, NamedBefore, OutputIsLast,
                            LoggerFileThere, AnswerStands
  <2> QED BY <2>2, <2>3, <1>4 DEF IInv
<1>7. CASE CloseOutput \/ ForgetOutput \/ DaqDies \/ DaqStarts
  <2>1. /\ UNCHANGED <<plain, daqFiles>>
        /\ daq' \in {"closed", "dead"} /\ outputFileName' \in {outputFileName, None}
        /\ daq' = "dead" => outputFileName' = None
        /\ faults' \in 0..MaxFaults
    BY <1>1, <1>7 DEF TypeOK, CloseOutput, ForgetOutput, DaqDies, DaqStarts, directory, Fault
  <2>2. TypeOK'
    BY <1>1, <1>2, <2>1 DEF TypeOK
  <2>3. DirectoryNamed' /\ OutputIsLast' /\ LoggerFileThere' /\ AnswerStands'
    BY <1>1, <1>2, <2>1 DEF DirectoryNamed, NamedBefore, OutputIsLast, LoggerFileThere,
                            AnswerStands
  <2> QED BY <2>2, <2>3, <1>4 DEF IInv
<1> QED BY <1>5, <1>6, <1>7 DEF Daq

(* The logger does the same with its own file.                             *)
LEMMA HkKeepsIInv == IInv /\ Hk => IInv'
<1> SUFFICES ASSUME IInv, Hk PROVE IInv'
  OBVIOUS
<1> USE FileOfKind, PartsOfName
<1>1. TypeOK /\ DirectoryNamed /\ OutputIsLast /\ LoggerFileThere /\ AnswerStands /\ Round
  BY DEF IInv
<1>2. UNCHANGED <<moved, daq, outputFileName, daqFiles, pc, reply, files, daqFilesAtReply, cut>>
  BY DEF Hk, HkCreates, HkCloses, HkCompresses, HkDies, directory, thread, relocator
<1>3. hkFiles' >= hkFiles
  BY <1>1 DEF TypeOK, Hk, HkCreates, HkCloses, HkCompresses, HkDies
<1>4. Round' /\ OutputIsLast' /\ AnswerStands'
  <2>1. \A f \in Files : LeftAlone(f) => LeftAlone(f)'
    <3>1. \A f \in Files : f[2] \in Int
      OBVIOUS
    <3>2. hkFiles \in Int /\ hkFiles' \in Int
      BY <1>1 DEF TypeOK, Hk, HkCreates, HkCloses, HkCompresses, HkDies
    <3> QED BY <1>2, <1>3, <3>1, <3>2 DEF LeftAlone, NamedBefore
  <2>2. \A k \in 1..Len(files) : files[k] \in Files
    BY <1>1 DEF TypeOK
  <2>3. \A k \in 1..Len(files) : LeftAlone(files[k])'
    BY <1>1, <1>2, <2>1, <2>2 DEF Round
  <2> QED BY <1>1, <1>2, <2>3 DEF Round, OutputIsLast, AnswerStands
<1>5. CASE HkCreates
  <2> USE <1>5 DEF HkCreates
  <2>1. hkFiles' \in 1..MaxHkFiles /\ HkFile(hkFiles') \in Files
        /\ HkFile(hkFiles') \notin plain \cup zipped \cup moved
    BY <1>1 DEF TypeOK, DirectoryNamed, NamedBefore
  <2>2. TypeOK'
    BY <1>1, <1>2, <2>1 DEF TypeOK
  <2>3. DirectoryNamed' /\ LoggerFileThere'
    BY <1>1, <1>2, <2>1 DEF TypeOK, DirectoryNamed, NamedBefore, LoggerFileThere
  <2> QED BY <2>2, <2>3, <1>4 DEF IInv
<1>6. CASE HkCompresses
  <2> USE <1>6 DEF HkCompresses
  <2>1. HkFile(hkFiles) \in plain /\ hkFiles' = hkFiles /\ faults' \in 0..MaxFaults
    BY <1>1 DEF TypeOK, LoggerFileThere, Fault
  <2>2. TypeOK'
    BY <1>1, <1>2, <2>1 DEF TypeOK
  <2>3. plain' \cup zipped' = plain \cup zipped
    BY <2>1
  <2>4. DirectoryNamed' /\ LoggerFileThere'
    BY <1>1, <1>2, <2>1, <2>3 DEF DirectoryNamed, NamedBefore, LoggerFileThere
  <2> QED BY <2>2, <2>4, <1>4 DEF IInv
<1>7. CASE HkCloses \/ HkDies
  <2>1. /\ UNCHANGED <<plain, zipped, hkFiles>> /\ faults' \in 0..MaxFaults
        /\ hk' = "none" \/ (hk = "open" /\ hk' = "closed")
    BY <1>1, <1>7 DEF TypeOK, HkCloses, HkDies, directory, Fault
  <2>2. TypeOK'
    BY <1>1, <1>2, <2>1 DEF TypeOK
  <2>3. DirectoryNamed' /\ LoggerFileThere'
    BY <1>1, <1>2, <2>1 DEF DirectoryNamed, NamedBefore, LoggerFileThere
  <2> QED BY <2>2, <2>3, <1>4 DEF IInv
<1> QED BY <1>5, <1>6, <1>7 DEF Hk

(* The answer of growth_daq is about the file it has then.                 *)
LEMMA AskStatusKeepsIInv == IInv /\ AskStatus => IInv'
<1> SUFFICES ASSUME IInv, AskStatus PROVE IInv'
  OBVIOUS
<1> USE DEF AskStatus, directory, thread, logger
<1>1. TypeOK /\ DirectoryNamed /\ OutputIsLast /\ LoggerFileThere /\ Round
  BY DEF IInv
<1>2. reply' \in {getStatus, Fails} /\ faults' \in 0..MaxFaults
  BY <1>1 DEF TypeOK, Fault
<1>3. TypeOK'
  BY <1>1, <1>2 DEF TypeOK, getStatus, getOutputFileName, Fails
<1>4. DirectoryNamed' /\ OutputIsLast' /\ LoggerFileThere'
  BY <1>1 DEF DirectoryNamed, NamedBefore, OutputIsLast, LoggerFileThere
<1>5. AnswerStands'
  BY <1>2 DEF AnswerStands, getStatus, getOutputFileName, Fails
<1>6. Round'
  BY <1>1 DEF TypeOK, Round
<1> QED BY <1>3, <1>4, <1>5, <1>6 DEF IInv

(* A round is over files that exist, without the last of the logger, and   *)
(* without the last of growth_daq if it did not answer.                    *)
LEMMA ListFilesKeepsIInv == IInv /\ ListFiles => IInv'
<1> SUFFICES ASSUME IInv, ListFiles PROVE IInv'
  OBVIOUS
<1> USE FileOfKind
<1>1. TypeOK /\ DirectoryNamed /\ OutputIsLast /\ LoggerFileThere /\ AnswerStands
  BY DEF IInv
<1>2. UNCHANGED <<plain, zipped, moved, daq, outputFileName, daqFiles, hk, hkFiles, reply,
                  daqFilesAtReply, cut, faults>> /\ pc' = "next"
  BY DEF ListFiles, directory, thread, logger
<1> DEFINE DS == DaqFilesToMove
           HS == ButLast(HkLoggerOutputFiles)
<1>3. PICK daqs \in Sorted(DS), hks \in Sorted(HS) : files' = daqs \o hks
  BY DEF ListFiles
<1>4. DS \subseteq plain /\ HS \subseteq plain \cup zipped
  BY DEF DaqFilesToMove, DaqOutputFiles, HkLoggerOutputFiles, ButLast, OfKind
<1>5. plain \cup zipped \subseteq Files
  BY <1>1 DEF TypeOK
<1>6. \A f \in DS : f[1] = "daq" /\ NamedBefore(f) /\ (reply.status = "error" => f[2] < daqFiles)
  BY <1>1, <1>5 DEF DaqFilesToMove, DaqOutputFiles, ButLast, OfKind, TypeOK, DirectoryNamed,
                    NamedBefore
<1>7. \A f \in HS : f[1] = "hk" /\ NamedBefore(f) /\ f[2] < hkFiles
  BY <1>1, <1>5 DEF HkLoggerOutputFiles, ButLast, OfKind, TypeOK, DirectoryNamed, NamedBefore
<1> HIDE DEF DS, HS
<1>8. daqs \in Seq(DS) /\ hks \in Seq(HS)
  BY <1>4, <1>5, ListingOf
<1>9. /\ files' \in Seq(Files)
      /\ \A k \in 1..Len(files') : files'[k] \in DS \/ files'[k] \in HS
  BY <1>3, <1>4, <1>5, <1>8
<1>10. TypeOK'
  BY <1>1, <1>2, <1>9 DEF TypeOK
<1>11. DirectoryNamed' /\ OutputIsLast' /\ LoggerFileThere' /\ AnswerStands'
  BY <1>1, <1>2 DEF DirectoryNamed, NamedBefore, OutputIsLast, LoggerFileThere, AnswerStands
<1>12. \A k \in 1..Len(files') : LeftAlone(files[k])'
  <2>1. \A f : NamedBefore(f)' <=> NamedBefore(f)
    BY <1>2 DEF NamedBefore
  <2>2. \A f \in DS \cup HS : LeftAlone(f)'
    BY <1>2, <1>6, <1>7, <2>1 DEF LeftAlone
  <2> QED BY <1>9, <2>2
<1>13. Round'
  BY <1>2, <1>12 DEF Round
<1> QED BY <1>10, <1>11, <1>13 DEF IInv

(* The rest of a round.                                                    *)
LEMMA RestOfRound ==
  ASSUME TypeOK, Round, files # << >>
  PROVE  /\ files[1] \in Files /\ LeftAlone(files[1]) /\ Head(files) = files[1]
         /\ Tail(files) \in Seq(Files)
         /\ \A k \in 1..Len(Tail(files)) : LeftAlone(Tail(files)[k])
<1>1. files \in Seq(Files) /\ Len(files) \in Nat /\ Len(files) > 0
  BY EmptySeq DEF TypeOK
<1>2. Tail(files) \in Seq(Files) /\ Len(Tail(files)) = Len(files) - 1
      /\ \A k \in 1..Len(Tail(files)) : Tail(files)[k] = files[k + 1]
  BY <1>1
<1> QED BY <1>1, <1>2 DEF Round

(* What the relocator does with a file moves it along in the directory; it *)
(* is none the logger is at.                                               *)
LEMMA WorkKeepsIInv == IInv /\ (Sleep \/ Skip \/ Compress \/ Move \/ RelocatorDies) => IInv'
<1> SUFFICES ASSUME IInv, Sleep \/ Skip \/ Compress \/ Move \/ RelocatorDies PROVE IInv'
  OBVIOUS
<1>1. TypeOK /\ DirectoryNamed /\ OutputIsLast /\ LoggerFileThere /\ AnswerStands /\ Round
  BY DEF IInv
<1>2. UNCHANGED <<daq, outputFileName, daqFiles, hk, hkFiles, reply, daqFilesAtReply>>
  BY DEF Sleep, Skip, Compress, Move, RelocatorDies, thread, logger
<1>3. faults' \in 0..MaxFaults /\ cut' \subseteq Files
  <2>1. faults' \in 0..MaxFaults
    BY <1>1 DEF TypeOK, Sleep, Skip, Compress, Move, RelocatorDies, Fault
  <2>2. cut' = cut \/ cut' = cut \cup LeftZipped
    BY DEF Sleep, Skip, Compress, Move, RelocatorDies
  <2>3. LeftZipped \subseteq zipped
    BY DEF LeftZipped
  <2> QED BY <1>1, <2>1, <2>2, <2>3 DEF TypeOK
<1>4. OutputIsLast' /\ AnswerStands'
  BY <1>1, <1>2 DEF OutputIsLast, AnswerStands
<1>5. ASSUME files # << >>, Head(files) \in Files, LeftAlone(Head(files)),
             UNCHANGED directory \/ /\ plain' = plain \ {Head(files)}
                                    /\ \/ /\ Head(files) \in plain
                                          /\ zipped' = zipped \cup {Head(files)}
                                          /\ moved' = moved
                                       \/ /\ zipped' = zipped \ {Head(files)}
                                          /\ moved' = moved \cup {Head(files)}
      PROVE  /\ {plain', zipped', moved'} \subseteq SUBSET Files
             /\ plain' \cap zipped' = {} /\ (plain' \cup zipped') \cap moved' = {}
             /\ DirectoryNamed' /\ LoggerFileThere'
  <2> DEFINE f == Head(files)
  <2>1. f # HkFile(hkFiles)
    BY <1>1, <1>5, PartsOfName DEF TypeOK, LeftAlone
  <2>2. {plain', zipped', moved'} \subseteq SUBSET Files
        /\ plain' \cap zipped' = {} /\ (plain' \cup zipped') \cap moved' = {}
    BY <1>1, <1>5 DEF TypeOK, directory
  <2>3. LoggerFileThere'
    BY <1>1, <1>2, <1>5, <2>1 DEF LoggerFileThere, directory
  <2>4. \A g : NamedBefore(g)' <=> NamedBefore(g)
    BY <1>2 DEF NamedBefore
  <2>5. plain' \cup zipped' \cup moved' \subseteq plain \cup zipped \cup moved \cup {f}
    BY <1>5 DEF directory
  <2>6. DirectoryNamed'
    BY <1>1, <1>5, <2>4, <2>5 DEF DirectoryNamed, LeftAlone
  <2> QED BY <2>2, <2>3, <2>6
<1>6. CASE UNCHANGED directory /\ files' = << >> /\ pc' \in {"status", "next"}
  <2>1. TypeOK' BY <1>1, <1>2, <1>3, <1>6 DEF TypeOK, directory
  <2>2. DirectoryNamed' /\ LoggerFileThere'
    BY <1>1, <1>2, <1>6 DEF DirectoryNamed, NamedBefore, LoggerFileThere, directory
  <2>3. Round' BY <1>6 DEF Round
  <2> QED BY <1>4, <2>1, <2>2, <2>3 DEF IInv
<1>7. CASE files # << >> /\ (Skip \/ Compress \/ Move)
  <2>1. /\ Head(files) = files[1] /\ files[1] \in Files /\ LeftAlone(files[1])
        /\ Tail(files) \in Seq(Files)
        /\ \A k \in 1..Len(Tail(files)) : LeftAlone(Tail(files)[k])
    BY <1>1, <1>7, RestOfRound
  <2>2. /\ {plain', zipped', moved'} \subseteq SUBSET Files
        /\ plain' \cap zipped' = {} /\ (plain' \cup zipped') \cap moved' = {}
        /\ DirectoryNamed' /\ LoggerFileThere'
    <3>1. \/ UNCHANGED directory
          \/ /\ plain' = plain \ {Head(files)}
             /\ \/ /\ Head(files) \in plain
                   /\ zipped' = zipped \cup {Head(files)}
                   /\ moved' = moved
                \/ /\ zipped' = zipped \ {Head(files)}
                   /\ moved' = moved \cup {Head(files)}
      BY <1>7 DEF Skip, Compress, Move, directory
    <3> QED BY <1>5, <1>7, <2>1, <3>1
  <2>3. \/ files' = Tail(files) /\ pc' = "next"
        \/ files' = files /\ pc' = "move" /\ Head(files) # reply.outputFileName
    <3>1. CASE Skip BY <1>1, <3>1 DEF Skip
    <3>2. CASE Compress BY <3>2 DEF Compress
    <3>3. CASE Move BY <3>3 DEF Move
    <3> QED BY <1>7, <3>1, <3>2, <3>3
  <2>4. TypeOK'
    BY <1>1, <1>2, <1>3, <2>1, <2>2, <2>3 DEF TypeOK
  <2>5. \A f : LeftAlone(f)' <=> LeftAlone(f)
    BY <1>2 DEF LeftAlone, NamedBefore
  <2>6. Round'
    BY <1>1, <1>2, <1>7, <2>1, <2>3, <2>5 DEF Round
  <2> QED BY <1>4, <2>2, <2>4, <2>6 DEF IInv
<1>8. Sleep \/ RelocatorDies => UNCHANGED directory /\ files' = << >> /\ pc' \in {"status", "next"}
  BY DEF Sleep, RelocatorDies, directory
<1>9. Skip \/ Compress \/ Move => files # << >>
  BY <1>1 DEF Skip, Compress, Move, Round
<1> QED BY <1>6, <1>7, <1>8, <1>9

-----------------------------------------------------------------------------
(* The invariant is inductive.                                             *)
LEMMA NextKeepsIInv == IInv /\ [Next]_vars => IInv'
<1> SUFFICES ASSUME IInv, [Next]_vars PROVE IInv'
  OBVIOUS
<1>1. CASE Daq BY <1>1, DaqKeepsIInv
<1>2. CASE Hk BY <1>2, HkKeepsIInv
<1>3. CASE AskStatus BY <1>3, AskStatusKeepsIInv
<1>4. CASE ListFiles BY <1>4, ListFilesKeepsIInv
<1>5. CASE Sleep \/ Skip \/ Compress \/ Move \/ RelocatorDies BY <1>5, WorkKeepsIInv
<1>6. CASE UNCHANGED vars
  BY <1>6 DEF vars, directory, thread, logger, relocator, IInv, TypeOK, DirectoryNamed,
              NamedBefore, OutputIsLast, LoggerFileThere, AnswerStands, Round, LeftAlone
<1> QED BY <1>1, <1>2, <1>3, <1>4, <1>5, <1>6 DEF Next, Relocate

(* Every reachable state is in the invariant.                              *)
THEOREM Invariance == Spec => []IInv
BY InitIInv, NextKeepsIInv, PTL DEF Spec

(* Every reachable state of the directory, its writers and the relocator   *)
(* is type-correct; in particular, no file exists twice.                   *)
THEOREM TypeCorrect == Spec => []TypeOK
<1>1. IInv => TypeOK BY DEF IInv
<1> QED BY <1>1, Invariance, PTL

(* The relocator takes a file from its writer only if growth_daq answered  *)
(* and began the file afterwards.                                          *)
LEMMA TakesNoOpenFile ==
  IInv /\ [Next]_vars =>
    \A f \in Open \cap plain : f \notin plain' =>
      f[1] = "daq" /\ reply.status = "ok" /\ f[2] > daqFilesAtReply
<1> SUFFICES ASSUME IInv, [Next]_vars, NEW f \in Open, f \in plain, f \notin plain'
             PROVE  f[1] = "daq" /\ reply.status = "ok" /\ f[2] > daqFilesAtReply
  OBVIOUS
<1> USE PartsOfName, FileOfKind
<1>1. TypeOK /\ OutputIsLast /\ LoggerFileThere /\ AnswerStands /\ Round
  BY DEF IInv
<1>2. \/ daq = "open" /\ f = DaqFile(daqFiles) /\ f = outputFileName
      \/ hk = "open" /\ f = HkFile(hkFiles)
  BY <1>1 DEF Open, OutputIsLast
<1>3. ~(HkCompresses)
  BY <1>2 DEF HkCompresses, DaqFile, HkFile
<1>4. Compress \/ Move
  BY <1>3 DEF Next, Daq, Hk, Relocate, NameOutput, CreateOutput, CloseOutput, ForgetOutput,
              DaqDies, DaqStarts, HkCreates, HkCloses, HkDies, AskStatus, ListFiles, Sleep,
              Skip, RelocatorDies, vars, directory
<1>5. files # << >> /\ f = Head(files) /\ f # reply.outputFileName
  BY <1>1, <1>4, RestOfRound DEF Compress, Move, Round, directory
<1>6. LeftAlone(f)
  BY <1>1, <1>5, RestOfRound
<1>7. daq = "open" /\ f = DaqFile(daqFiles) /\ f = outputFileName /\ reply.status = "ok"
  BY <1>1, <1>2, <1>6 DEF LeftAlone, TypeOK
<1>8. daqFiles # daqFilesAtReply
  BY <1>1, <1>5, <1>7 DEF AnswerStands
<1>9. f[1] = "daq" /\ f[2] = daqFiles
  BY <1>7
<1> QED BY <1>1, <1>7, <1>8, <1>9 DEF TypeOK

(* No file is taken away that is being written, unless it is an output     *)
(* file growth_daq began after it had answered.                            *)
THEOREM OpenFilesAreLeft == Spec => OpenFilesStay
BY Invariance, TakesNoOpenFile, PTL DEF Spec, OpenFilesStay
=============================================================================

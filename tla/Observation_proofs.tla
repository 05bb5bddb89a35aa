------------------------- MODULE Observation_proofs -------------------------
(***************************************************************************)
(* Theorems about Observation and its OutputFile, for any number of        *)
(* channels, any configurations, sizes, runs, faults and edits.            *)
(***************************************************************************)
EXTENDS Observation, TLAPS, SequenceTheorems, FiniteSetTheorems

Preparing == {"load", "program", "enable", "start"}
UnderWay == Acquiring \cup {"close", "device"}

-----------------------------------------------------------------------------
(* The file.                                                               *)

(* The table of the file and what describes it.                            *)
TableTypes ==
  /\ table \in Seq(Decoded \cup {Blank})
  /\ {rowIndex, fitsNRows, rowExpansionStep, fitsStatus} \subseteq Nat

(* While the file is open its table has as many rows as fitsNRows says, of *)
(* which the first rowIndex are those of the events it was given.          *)
FileSound ==
  /\ rowExpansionStep \in Nat \ {0}
  /\ outputFileIsOpen =>
      /\ Len(table) = fitsNRows /\ rowIndex = Len(filled) /\ rowIndex <= fitsNRows
      /\ fitsStatus <= rowIndex
      /\ \A k \in 1..Len(filled) : table[k] = filled[k] \/ (fitsStatus # 0 /\ k >= fitsStatus)

(* The file is open from the beginning of the acquisition to its end, but  *)
(* for the change to the next file.                                        *)
FileOpen == outputFileIsOpen <=> (pc \in UnderWay \ {"open", "reopen", "device"})

-----------------------------------------------------------------------------
(* The run.                                                                *)

(* A run works with a configuration it has loaded, which it can read; the  *)
(* file of the configuration is that one until it is edited, and so is the *)
(* header of the file from its creation on.                                *)
ConfigurationLoaded ==
  /\ pc \notin {"down", "load"} => loaded \in Readable /\ (edited \/ configFile = loaded)
  /\ pc \in UnderWay \ {"open"} => edited \/ header = loaded
  /\ pc # "down" => run > 0

(* Events are in hand only between a read and the last fillEvents().       *)
HandEmpty == pc # "fill" => events = << >>

(* After stopAcquisition() the run reads three times and ends, and the     *)
(* board records nothing.                                                  *)
StoppedWhileDraining ==
  /\ drain > 0 =>
       pc \in {"read", "retry", "fill", "reopen", "close", "device"} /\ startStop = {}
  /\ pc \in {"close", "device"} => drain > 0

(* Before a run has started the board, and after it, the board is quiet.   *)
QuietBoard ==
  ~abandoned /\ pc \in {"down", "load", "program", "enable"} =>
    startStop = {} /\ (~output \/ \A ch \in Channels : waiting[ch] = << >>)

(* The registers that the writes of loadConfigurationFile() have reached.  *)
StepOf(ch, r) ==
  IF r = "NumberOfSamples" THEN ch
  ELSE FirstOfLoop + (ch - 1) * 6 +
         (IF r = "DepthOfDelay" THEN 0 ELSE IF r = "TriggerMode" THEN 1
          ELSE IF r = "ThresholdStarting" THEN 2 ELSE IF r = "ThresholdClosing" THEN 3 ELSE 5)
Setting(r) == IF r = "AdcPower" THEN "on" ELSE loaded

ProgrammedUpTo(s) ==
  /\ \A ch \in Channels, r \in ChannelRegisters : StepOf(ch, r) < s => register[ch][r] = Setting(r)
  /\ s > FirstOfLoop + 4 => adcClock = "50MHz"
  /\ s > NumberOfChannels + 2 => packetSamples = PacketSamples[loaded]

(* The loops over the writes and over the channels.                        *)
Loops ==
  /\ pc = "program" => step \in 1..LastWrite
  /\ pc = "cpu" => step \in Channels
  /\ pc \notin {"program", "cpu"} => step = 0

Programmed ==
  /\ pc = "program" => ProgrammedUpTo(step)
  /\ pc \in {"enable", "start"} \cup UnderWay => ProgrammedUpTo(LastWrite + 1)

(* The acquisition has no other channels than the configuration enables.   *)
StartedAsEnabled == pc \in UnderWay => startStop \subseteq ChannelEnable[loaded]

-----------------------------------------------------------------------------
(* The events on their way.                                                *)

(* An event that was recorded in this run, since its start, was recorded   *)
(* as this run wants it; all others are of runs before.                    *)
Proper(e) ==
  /\ e.run <= run
  /\ pc \in Preparing => e.run < run
  /\ pc \in UnderWay /\ e.run = run => e.as = loaded /\ e.ch \in ChannelEnable[loaded]
Sent(e) == Proper(e) /\ (pc \in UnderWay /\ e.run = run => e.samples = PacketSamples[loaded])

FullWaveform == [1..MaxWaveformLength -> Channels \X (1..MaxEvents) \cup {Blank}]
InHand == [ch : Channels, triggerCount : 1..MaxEvents, as : Configurations \cup {"mixed"},
           samples : Nat, run : 0..MaxRuns, waveform : FullWaveform]

Waiting == {e \in Event : Proper(e)}
OnTheWay == {e \in Event : Sent(e)}
Read == {e \in InHand :
          /\ Sent(e)
          /\ \A j \in 1..MaxWaveformLength : j <= e.samples => e.waveform[j] = Sample(e)}
Saved == {e \in Decoded :
           /\ Sent(e)
           /\ pc = "open" => e.run < run
           /\ pc \in UnderWay /\ e.run = run =>
                e.waveform = [j \in 1..SavedSamples[loaded] |-> Sample(e)]}

EventsProper ==
  /\ waiting \in [Channels -> Seq(Waiting)]
  /\ fifo \in Seq(OnTheWay)
  /\ events \in Seq(Read)
  /\ filled \in Seq(Saved)
  /\ reservoir \in Seq(FullWaveform)

(* The types of what is not a sequence.                                    *)
Flags ==
  output \in BOOLEAN /\ edited \in BOOLEAN /\ abandoned \in BOOLEAN /\ outputFileIsOpen \in BOOLEAN
BoardTypes ==
  /\ register \in [Channels -> [ChannelRegisters -> Configurations \cup {"default", "on"}]]
  /\ adcClock \in {"default", "50MHz"} /\ packetSamples \in Nat
  /\ startStop \subseteq Channels
  /\ triggerCount \in [Channels -> 0..MaxEvents]
RunTypes ==
  /\ configFile \in Configurations \cup {"default"} /\ loaded \in Configurations \cup {"default"}
  /\ header \in Configurations \cup {"default"}
  /\ pc \in Acquiring \cup {"down", "load", "program", "enable", "start", "close", "device"}
  /\ step \in 0..LastWrite /\ drain \in 0..3 /\ run \in 0..MaxRuns
  /\ faults \in 0..MaxFaults /\ changes \in 0..MaxChanges
FateTypes == fate \in [Channels \X (1..MaxEvents) -> Fates]

Control ==
  /\ Flags /\ BoardTypes /\ RunTypes /\ FileOpen /\ ConfigurationLoaded /\ HandEmpty /\ StoppedWhileDraining
  /\ QuietBoard /\ StartedAsEnabled /\ Loops

IInv ==
  Control /\ Programmed /\ TableTypes /\ FileSound /\ EventsProper /\ FateTypes

-----------------------------------------------------------------------------
(* The fate of every event.                                                *)

(* The events the file was given have the fate its rows have.              *)
FilledFates ==
  \A k \in 1..Len(filled) :
    fate[Sample(filled[k])] = IF fitsStatus = 0 \/ k < fitsStatus THEN "written" ELSE "unwritten"

(* A read is no longer than its buffer, and what a fault may destroy is    *)
(* charged to it; a write that has failed may take the events in hand with *)
(* it, later, when the table cannot be expanded.                           *)
HandBounded == Len(events) <= ReadEvents
Charged ==
  Cardinality(Destroyed) + (IF fitsStatus = 0 THEN 0 ELSE ReadEvents) <= faults * ReadEvents

FatesInv == InOrder /\ InOnePlace /\ FilledFates /\ HandBounded /\ Charged
USE SizeAssumption, RowAssumption

-----------------------------------------------------------------------------
(* A part of a sequence, and the rows of the table.                        *)

(* SubSeq() between two places of a sequence, or of nothing.               *)
LEMMA PartOfSeq ==
  ASSUME NEW S, NEW s \in Seq(S), NEW m \in Nat \ {0}, NEW n \in Nat, n <= Len(s)
  PROVE  /\ SubSeq(s, m, n) \in Seq(S)
         /\ Len(SubSeq(s, m, n)) = IF m <= n THEN n - m + 1 ELSE 0
         /\ \A i \in 1..n - m + 1 : SubSeq(s, m, n)[i] = s[m + i - 1]
<1>1. \A i \in m..n : s[i] \in S
  <2> TAKE i \in m..n
  <2>1. i \in 1..Len(s) BY LenProperties
  <2> QED BY <2>1, ElementOfSeq
<1>2. m \in Int /\ n \in Int OBVIOUS
<1> DEFINE part == SubSeq(s, m, n)
<1>3. /\ part \in Seq(S)
      /\ Len(part) = IF m <= n THEN n - m + 1 ELSE 0
      /\ \A i \in 1..n - m + 1 : part[i] = s[m + i - 1]
  BY <1>1, <1>2, SubSeqProperties, SMTT(30)
<1> QED BY <1>3

OnlyRow(t, n, row) == t[n] = row /\ \A k \in 1..Len(table) : k # n => t[k] = table[k]

(* fits_write_col() of a row of the table or of the one after the last.    *)
LEMMA WrittenRow ==
  ASSUME NEW S, table \in Seq(S), NEW n \in 1..Len(table) + 1, NEW row \in S
  PROVE  /\ Written(n, row) \in Seq(S)
         /\ Len(Written(n, row)) = IF n <= Len(table) THEN Len(table) ELSE Len(table) + 1
         /\ OnlyRow(Written(n, row), n, row)
<1>0. Len(table) \in Nat BY LenProperties
<1>1. CASE n <= Len(table)
  <2>1. n \in 1..Len(table) BY <1>0, <1>1
  <2>2. Written(n, row) = [table EXCEPT ![n] = row] BY <1>1 DEF Written
  <2> QED BY <1>1, <2>1, <2>2, ExceptSeq DEF OnlyRow
<1>2. CASE ~(n <= Len(table))
  <2>1. n = Len(table) + 1 BY <1>0, <1>2
  <2>2. Written(n, row) = Append(table, row) BY <1>2 DEF Written
  <2> DEFINE t == Append(table, row)
  <2>3. t \in Seq(S) /\ Len(t) = Len(table) + 1 /\ t[Len(table) + 1] = row
        /\ \A k \in 1..Len(table) : t[k] = table[k]
    BY AppendProperties
  <2>4. Written(n, row) = t BY <2>2
  <2> HIDE DEF t
  <2> QED BY <1>0, <1>2, <2>1, <2>3, <2>4 DEF OnlyRow
<1> QED BY <1>1, <1>2

(* The rows inserted after the last one are blank, and the others stay.    *)
LEMMA ExpandedRows ==
  ASSUME NEW S, Blank \in S, NEW t \in Seq(S), fitsNRows \in Nat, Len(t) = fitsNRows + 1,
         rowExpansionStep \in Nat \ {0}
  PROVE  /\ ExpandedTable(t) \in Seq(S)
         /\ Len(ExpandedTable(t)) = fitsNRows + rowExpansionStep
         /\ \A k \in 1..Len(t) : ExpandedTable(t)[k] = t[k]
<1> DEFINE n == fitsNRows + 1
           m == rowExpansionStep - 1
           a == SubSeq(t, 1, n)
           b == BlankRows(m)
           c == SubSeq(t, n + 1, Len(t))
<1>1. m \in Nat /\ n \in Nat OBVIOUS
<1>2. a \in Seq(S) /\ Len(a) = n /\ \A k \in 1..n : a[k] = t[k]
  <2>1. a \in Seq(S) /\ Len(a) = (IF 1 <= n THEN n - 1 + 1 ELSE 0)
        /\ \A k \in 1..n - 1 + 1 : a[k] = t[1 + k - 1]
    BY <1>1, PartOfSeq
  <2>2. 1 <= n /\ n - 1 + 1 = n /\ \A k \in 1..n : 1 + k - 1 = k BY <1>1
  <2> HIDE DEF a, n
  <2> QED BY <2>1, <2>2
<1>3. b \in Seq(S) /\ Len(b) = m BY <1>1 DEF BlankRows
<1>4. c = << >> BY <1>1, SubSeqEmpty, SMTT(30)
<1>5. ExpandedTable(t) = (a \o b) \o c BY DEF ExpandedTable, Inserted
<1> HIDE DEF a, b, c, m
<1>6. a \o b \in Seq(S) /\ Len(a \o b) = n + m /\ \A k \in 1..n : (a \o b)[k] = a[k]
  <2>1. a \o b \in Seq(S) /\ Len(a \o b) = Len(a) + Len(b)
        /\ \A i \in 1..Len(a) + Len(b) : (a \o b)[i] = IF i <= Len(a) THEN a[i] ELSE b[i - Len(a)]
    BY <1>2, <1>3, ConcatProperties
  <2> DEFINE ab == a \o b
  <2> HIDE DEF ab, n
  <2>2. ab \in Seq(S) /\ Len(ab) = n + m BY <1>2, <1>3, <2>1 DEF ab
  <2>3. ASSUME NEW k \in 1..n PROVE ab[k] = a[k]
    <3>1. k \in 1..n + m /\ k <= n BY <1>1
    <3> QED BY <1>2, <1>3, <2>1, <3>1 DEF ab
  <2> QED BY <2>2, <2>3 DEF ab
<1>7. ExpandedTable(t) = a \o b BY <1>4, <1>5, <1>6, ConcatEmptySeq
<1>8. n + m = fitsNRows + rowExpansionStep BY DEF m
<1> QED BY <1>2, <1>6, <1>7, <1>8

(* close() keeps the rows that were used.                                  *)
LEMMA ClosedRows ==
  ASSUME NEW S, table \in Seq(S), Len(table) = fitsNRows, rowIndex \in Nat, rowIndex <= fitsNRows
  PROVE  /\ DeletedUnusedRows(table) \in Seq(S)
         /\ Len(DeletedUnusedRows(table)) = rowIndex
         /\ \A k \in 1..rowIndex : DeletedUnusedRows(table)[k] = table[k]
<1>0. fitsNRows \in Nat BY LenProperties
<1>1. CASE fitsNRows = rowIndex BY <1>1, Zenon DEF DeletedUnusedRows
<1>2. CASE fitsNRows # rowIndex
  <2> DEFINE a == SubSeq(table, 1, rowIndex)
             c == SubSeq(table, fitsNRows + 1, Len(table))
  <2>1. (rowIndex + 1) - 1 = rowIndex /\ (rowIndex + 1) + (fitsNRows - rowIndex) = fitsNRows + 1
    BY <1>0
  <2>2. DeletedUnusedRows(table) = a \o c BY <1>2, <2>1 DEF DeletedUnusedRows, Deleted
  <2>3. a \in Seq(S) /\ Len(a) = rowIndex /\ \A k \in 1..rowIndex : a[k] = table[k]
    <3>1. a \in Seq(S) /\ Len(a) = (IF 1 <= rowIndex THEN rowIndex - 1 + 1 ELSE 0)
          /\ \A k \in 1..rowIndex - 1 + 1 : a[k] = table[1 + k - 1]
      BY <1>0, PartOfSeq
    <3>2. rowIndex - 1 + 1 = rowIndex /\ \A k \in 1..rowIndex : 1 + k - 1 = k OBVIOUS
    <3>3. (IF 1 <= rowIndex THEN rowIndex ELSE 0) = rowIndex OBVIOUS
    <3> HIDE DEF a
    <3> QED BY <3>1, <3>2, <3>3
  <2>4. c = << >>
    <3>1. Len(table) \in Int /\ fitsNRows + 1 \in Int /\ Len(table) < fitsNRows + 1 BY <1>0
    <3> QED BY <3>1, SubSeqEmpty
  <2> HIDE DEF a, c
  <2> QED BY <2>2, <2>3, <2>4, ConcatEmptySeq
<1> QED BY <1>1, <1>2
(* expandIfNecessary() leaves a table that has room for the row, and keeps *)
(* the rows up to it.                                                      *)
LEMMA ExpandedAsNecessary ==
  ASSUME NEW S, Blank \in S, NEW t \in Seq(S), fitsNRows \in Nat, rowExpansionStep \in Nat \ {0},
         rowIndex' \in 1..fitsNRows + 1,
         Len(t) = fitsNRows \/ (Len(t) = fitsNRows + 1 /\ rowIndex' = fitsNRows + 1),
         expandIfNecessary(t)
  PROVE  /\ table' \in Seq(S) /\ fitsNRows' \in Nat /\ rowExpansionStep' \in Nat \ {0}
         /\ Len(table') = fitsNRows' /\ rowIndex' <= fitsNRows'
         /\ \A k \in 1..rowIndex' : table'[k] = t[k]
<1>1. CASE rowIndex' <= fitsNRows
  <2>1. table' = t /\ fitsNRows' = fitsNRows /\ rowExpansionStep' = rowExpansionStep
    BY <1>1 DEF expandIfNecessary
  <2>2. Len(t) = fitsNRows BY <1>1
  <2> QED BY <1>1, <2>1, <2>2
<1>2. CASE ~(rowIndex' <= fitsNRows)
  <2>1. /\ Len(t) > fitsNRows /\ table' = ExpandedTable(t)
        /\ fitsNRows' = Len(table') /\ rowExpansionStep' = 2 * rowExpansionStep
    BY <1>2 DEF expandIfNecessary
  <2>2. Len(t) = fitsNRows + 1 /\ rowIndex' = fitsNRows + 1 BY <1>2, <2>1
  <2>3. /\ ExpandedTable(t) \in Seq(S)
        /\ Len(ExpandedTable(t)) = fitsNRows + rowExpansionStep
        /\ \A k \in 1..Len(t) : ExpandedTable(t)[k] = t[k]
    BY <2>2, ExpandedRows
  <2> QED BY <2>1, <2>2, <2>3
<1> QED BY <1>1, <1>2

(* A call of fillEvents() for one event, whatever becomes of the row.      *)
LEMMA FilledRow ==
  ASSUME NEW S, Blank \in S, table \in Seq(S), filled \in Seq(S), NEW row \in S,
         {rowIndex, fitsNRows, rowExpansionStep, fitsStatus} \subseteq Nat,
         FileSound, outputFileIsOpen,
         FillEvent(row) \/ FillEventFails(row)
  PROVE  /\ table' \in Seq(S)
         /\ {rowIndex', fitsNRows', rowExpansionStep', fitsStatus'} \subseteq Nat
         /\ FileSound'
<1> DEFINE i == rowIndex + 1
<1>1. /\ rowExpansionStep \in Nat \ {0} /\ Len(table) = fitsNRows /\ rowIndex = Len(filled)
      /\ rowIndex <= fitsNRows /\ fitsStatus <= rowIndex
      /\ \A k \in 1..Len(filled) : table[k] = filled[k] \/ (fitsStatus # 0 /\ k >= fitsStatus)
  BY DEF FileSound
<1>2. rowIndex' = i /\ filled' = Append(filled, row) /\ outputFileIsOpen' = outputFileIsOpen
  BY DEF FillEvent, FillEventFails
<1>3. /\ Len(filled') = i /\ filled'[i] = row
      /\ \A k \in 1..rowIndex : filled'[k] = filled[k]
  BY <1>1, <1>2, AppendProperties
<1>4. i \in 1..Len(table) + 1 BY <1>1, SMTT(30)
<1>5. PICK t : /\ expandIfNecessary(t)
               /\ t \in Seq(S) /\ Len(t) \in {fitsNRows, fitsNRows + 1}
               /\ Len(t) = fitsNRows + 1 => i = fitsNRows + 1
               /\ \A k \in 1..Len(table) : k # i => t[k] = table[k]
               /\ t[i] = row \/ (fitsStatus' # 0 /\ i >= fitsStatus')
               /\ fitsStatus' = fitsStatus \/ (fitsStatus = 0 /\ fitsStatus' = i)
  <2>1. ASSUME NEW r \in {row, Blank}
        PROVE  /\ Written(i, r) \in Seq(S) /\ Len(Written(i, r)) \in {fitsNRows, fitsNRows + 1}
               /\ Len(Written(i, r)) = fitsNRows + 1 => i = fitsNRows + 1
               /\ \A k \in 1..Len(table) : k # i => Written(i, r)[k] = table[k]
               /\ Written(i, r)[i] = r
    <3>1. r \in S OBVIOUS
    <3>2. /\ Written(i, r) \in Seq(S)
          /\ Len(Written(i, r)) = IF i <= Len(table) THEN Len(table) ELSE Len(table) + 1
          /\ OnlyRow(Written(i, r), i, r)
      BY <1>4, <3>1, WrittenRow
    <3> DEFINE w == Written(i, r)
    <3>3. /\ w[i] = r
          /\ \A k \in 1..Len(table) : k # i => w[k] = table[k]
      BY <3>2 DEF OnlyRow
    <3> HIDE DEF w, i
    <3>4. /\ w \in Seq(S) /\ Len(w) \in {fitsNRows, fitsNRows + 1}
          /\ Len(w) = fitsNRows + 1 => i = fitsNRows + 1
      BY <1>1, <1>4, <3>2, SMTT(30) DEF w
    <3> QED BY <3>3, <3>4 DEF w
  <2>2. CASE FillEvent(row) /\ fitsStatus = 0
    <3>1. expandIfNecessary(Written(i, row)) /\ fitsStatus' = fitsStatus BY <1>2, <2>2 DEF FillEvent
    <3> QED BY <2>1, <3>1
  <2>3. CASE FillEvent(row) /\ fitsStatus # 0
    <3>1. expandIfNecessary(table) /\ fitsStatus' = fitsStatus BY <2>3 DEF FillEvent
    <3>2. i >= fitsStatus' BY <1>1, <3>1, SMTT(30)
    <3>3. \A k \in 1..Len(table) : k # i => table[k] = table[k] OBVIOUS
    <3>4. Len(table) \in {fitsNRows, fitsNRows + 1} /\ Len(table) # fitsNRows + 1 BY <1>1, SMTT(30)
    <3> QED BY <2>3, <3>1, <3>2, <3>3, <3>4
  <2>4. CASE FillEventFails(row)
    <3>1. fitsStatus = 0 /\ fitsStatus' = i /\ fitsStatus' # 0 /\ i >= fitsStatus'
      BY <1>2, <2>4, SMTT(30) DEF FillEventFails
    <3>2. expandIfNecessary(table) \/ expandIfNecessary(Written(i, Blank))
      BY <1>2, <2>4 DEF FillEventFails
    <3>3. CASE expandIfNecessary(table)
      <4>1. \A k \in 1..Len(table) : k # i => table[k] = table[k] OBVIOUS
      <4>2. Len(table) \in {fitsNRows, fitsNRows + 1} /\ Len(table) # fitsNRows + 1 BY <1>1, SMTT(30)
      <4> QED BY <3>1, <3>3, <4>1, <4>2
    <3>4. CASE expandIfNecessary(Written(i, Blank)) BY <2>1, <3>1, <3>4
    <3> QED BY <3>2, <3>3, <3>4
  <2> QED BY <2>2, <2>3, <2>4
<1>6. /\ table' \in Seq(S) /\ fitsNRows' \in Nat /\ rowExpansionStep' \in Nat \ {0}
      /\ Len(table') = fitsNRows' /\ rowIndex' <= fitsNRows'
      /\ \A k \in 1..rowIndex' : table'[k] = t[k]
  <2>1. rowIndex' \in 1..fitsNRows + 1 BY <1>1, <1>2, <1>4
  <2>2. Len(t) = fitsNRows \/ (Len(t) = fitsNRows + 1 /\ rowIndex' = fitsNRows + 1) BY <1>2, <1>5
  <2> QED BY <1>1, <1>5, <2>1, <2>2, ExpandedAsNecessary
<1>7. rowIndex' \in Nat /\ fitsStatus' \in Nat /\ fitsStatus' <= rowIndex' BY <1>1, <1>2, <1>5, SMTT(30)
<1>8. \A k \in 1..Len(filled') : table'[k] = filled'[k] \/ (fitsStatus' # 0 /\ k >= fitsStatus')
  <2> TAKE k \in 1..Len(filled')
  <2>1. k \in 1..i /\ table'[k] = t[k] BY <1>2, <1>3, <1>6
  <2>2. CASE k = i BY <1>3, <1>5, <2>1, <2>2
  <2>3. CASE k # i
    <3>1. k \in 1..rowIndex /\ k \in 1..Len(table) /\ k \in 1..Len(filled) BY <1>1, <2>1, <2>3, SMTT(30)
    <3>2. t[k] = table[k] /\ filled'[k] = filled[k] BY <1>3, <1>5, <2>3, <3>1
    <3>3. table[k] = filled[k] \/ (fitsStatus # 0 /\ k >= fitsStatus) BY <1>1, <3>1
    <3>4. fitsStatus # 0 => fitsStatus' = fitsStatus BY <1>5
    <3> QED BY <2>1, <3>2, <3>3, <3>4
  <2> QED BY <2>2, <2>3
<1>9. FileSound' BY <1>2, <1>3, <1>6, <1>7, <1>8 DEF FileSound
<1> QED BY <1>6, <1>7, <1>9
-----------------------------------------------------------------------------
(* The program and the board.                                              *)

(* The sizes of the constants.                                             *)
LEMMA Sizes ==
  /\ Len(WritesOfChannel) = 6 /\ LastWrite = NumberOfChannels * 7 + 2
  /\ NumberOfChannels \in Nat \ {0} /\ LastWrite \in Nat /\ Channels \subseteq 1..LastWrite
  /\ 1 \in Channels
  /\ MaxEvents \in Nat /\ MaxRuns \in Nat /\ MaxFaults \in Nat /\ MaxChanges \in Nat
<1>1. Len(WritesOfChannel) = 6 BY DEF WritesOfChannel
<1>2. NumberOfChannels \in Nat \ {0} OBVIOUS
<1>3. MaxEvents \in Nat /\ MaxRuns \in Nat /\ MaxFaults \in Nat /\ MaxChanges \in Nat OBVIOUS
<1> QED BY <1>1, <1>2, <1>3 DEF LastWrite, Channels

(* The program is gone.                                                    *)
LEMMA ControlAfterExit ==
  ASSUME Control, Exit, UNCHANGED faults \/ faults' \in 0..MaxFaults
  PROVE  Control'
<1> USE DEF Exit, board
<1>1. BoardTypes' BY DEF Control, BoardTypes
<1>2. Flags' BY DEF Control, Flags
<1>6. RunTypes' BY Sizes DEF Control, RunTypes
<1>7. QuietBoard' BY DEF Control, Flags, QuietBoard
<1>3. FileOpen' BY DEF FileOpen, UnderWay, Acquiring
<1>4. ConfigurationLoaded' /\ StartedAsEnabled' BY DEF ConfigurationLoaded, StartedAsEnabled, UnderWay, Acquiring
<1>5. HandEmpty' /\ StoppedWhileDraining' /\ Loops' BY DEF HandEmpty, StoppedWhileDraining, Loops
<1> QED BY <1>1, <1>2, <1>3, <1>4, <1>5, <1>6, <1>7 DEF Control
(* The steps of the writes of loadConfigurationFile() and what they write. *)
ChannelWrite ==
  /\ step \notin {NumberOfChannels + 1, NumberOfChannels + 2}
  /\ ChannelOfStep \in Channels /\ RegisterOfStep \in ChannelRegisters
  /\ register' = [register EXCEPT ![ChannelOfStep][RegisterOfStep] = Setting(RegisterOfStep)]
  /\ UNCHANGED <<adcClock, packetSamples>>
ClockWrite ==
  /\ step >= FirstOfLoop /\ RegisterOfStep = "AdcClock"
  /\ adcClock' = "50MHz" /\ UNCHANGED <<register, packetSamples>>
PacketWrite ==
  /\ step \in {NumberOfChannels + 1, NumberOfChannels + 2}
  /\ packetSamples' = IF step = NumberOfChannels + 1 THEN RecordSamples[loaded] ELSE PacketSamples[loaded]
  /\ UNCHANGED <<register, adcClock>>

(* A write is one of the writes of a channel, the clock or the size of a   *)
(* packet.                                                                 *)
LEMMA WhichWrite ==
  ASSUME Loops, Program
  PROVE  ChannelWrite \/ ClockWrite \/ PacketWrite
<1>1. step \in 1..LastWrite /\ pc = "program" BY DEF Program, Loops
<1>2. CASE setChannelRegister
  <2>1. step \notin {NumberOfChannels + 1, NumberOfChannels + 2} BY <1>2 DEF setChannelRegister
  <2>2. ChannelOfStep \in Channels
    <3>1. CASE step < FirstOfLoop
      <4>1. step \in 1..NumberOfChannels BY <1>1, <2>1, <3>1, Sizes DEF FirstOfLoop
      <4> QED BY <3>1, <4>1 DEF ChannelOfStep, Channels
    <3>2. CASE ~(step < FirstOfLoop)
      <4> DEFINE d == step - (NumberOfChannels + 3)
      <4>1. d \in 0..6 * NumberOfChannels - 1 BY <1>1, <3>2, Sizes DEF FirstOfLoop
      <4>2. d \div 6 \in 0..NumberOfChannels - 1
        <5> HIDE DEF d
        <5> QED BY <4>1, Sizes
      <4>3. ChannelOfStep = d \div 6 + 1 BY <3>2, Sizes DEF ChannelOfStep, FirstOfLoop
      <4> HIDE DEF d
      <4> QED BY <4>2, <4>3, Sizes DEF Channels
    <3> QED BY <3>1, <3>2
  <2>3. /\ RegisterOfStep \in ChannelRegisters
        /\ register' = [register EXCEPT ![ChannelOfStep][RegisterOfStep] = Setting(RegisterOfStep)]
    BY <1>2 DEF setChannelRegister, turnOnADCPower, setDepthOfDelay, setModeOrThresholdOrSamples,
                setRegister, Setting, ChannelRegisters
  <2>4. UNCHANGED <<adcClock, packetSamples>> BY <1>2 DEF setChannelRegister
  <2> QED BY <2>1, <2>2, <2>3, <2>4 DEF ChannelWrite
<1>3. CASE setAdcClock BY <1>3 DEF setAdcClock, AdcClockIs, ClockWrite
<1>4. CASE setNumberOfSamplesInEventPacket
  BY <1>4 DEF setNumberOfSamplesInEventPacket, setEventPacket_NumberOfWaveform, PacketWrite
<1> QED BY <1>2, <1>3, <1>4 DEF Program

(* The writes of loadConfigurationFile() write what a register may hold.   *)
LEMMA RegisterTypes ==
  ASSUME BoardTypes, RunTypes, ConfigurationLoaded, Loops, Program
  PROVE  /\ register' \in [Channels -> [ChannelRegisters -> Configurations \cup {"default", "on"}]]
         /\ adcClock' \in {"default", "50MHz"} /\ packetSamples' \in Nat
<1>1. ChannelWrite \/ ClockWrite \/ PacketWrite BY WhichWrite
<1>2. loaded \in Configurations
  <2>1. pc = "program" BY DEF Program
  <2> QED BY <2>1, ConfigurationAssumption DEF ConfigurationLoaded
<1>3. CASE ChannelWrite
  <2>1. Setting(RegisterOfStep) \in Configurations \cup {"default", "on"} BY <1>2 DEF Setting
  <2>2. register' \in [Channels -> [ChannelRegisters -> Configurations \cup {"default", "on"}]]
    BY <1>3, <2>1, Zenon DEF ChannelWrite, BoardTypes
  <2> QED BY <1>3, <2>2 DEF ChannelWrite, BoardTypes
<1>4. CASE ClockWrite BY <1>4 DEF ClockWrite, BoardTypes
<1>5. CASE PacketWrite
  <2>1. RecordSamples[loaded] \in Nat /\ PacketSamples[loaded] \in Nat
    BY <1>2, ConfigurationAssumption
  <2> QED BY <1>5, <2>1 DEF PacketWrite, BoardTypes
<1> QED BY <1>1, <1>3, <1>4, <1>5

(* An event more of a channel.                                             *)
LEMMA OneMoreRecorded ==
  ASSUME BoardTypes, NEW ch \in Channels, Recorded(ch)
  PROVE  triggerCount' \in [Channels -> 0..MaxEvents]
<1>1. triggerCount' = [triggerCount EXCEPT ![ch] = triggerCount[ch] + 1] BY DEF Recorded
<1>2. triggerCount[ch] \in 0..MaxEvents /\ triggerCount[ch] < MaxEvents BY DEF Recorded, BoardTypes
<1>3. triggerCount[ch] + 1 \in 0..MaxEvents BY <1>2, Sizes
<1> QED BY <1>1, <1>3 DEF BoardTypes

(* Which of its parts a step of the program or the board may disturb is    *)
(* left to the provers; the steps below say which action they look at.     *)
LEMMA ControlStep ==
  ASSUME Control, [Next]_vars
  PROVE  Control'
<1> USE ConfigurationAssumption, Sizes
    DEF Control, Flags, BoardTypes, RunTypes, FileOpen, ConfigurationLoaded, HandEmpty, StoppedWhileDraining,
        QuietBoard, StartedAsEnabled, UnderWay, Acquiring, Loops, board, host, file
<1>20. CASE LoadConfiguration
  <2> USE <1>20 DEF LoadConfiguration
  <2>1. Flags' OBVIOUS
  <2>2. BoardTypes' OBVIOUS
  <2>3. RunTypes' OBVIOUS
  <2>4. FileOpen' OBVIOUS
  <2>5. ConfigurationLoaded' OBVIOUS
  <2>6. HandEmpty' OBVIOUS
  <2>7. StoppedWhileDraining' OBVIOUS
  <2>8. QuietBoard' OBVIOUS
  <2>9. StartedAsEnabled' OBVIOUS
  <2>10. Loops' OBVIOUS
  <2> QED BY <2>1, <2>2, <2>3, <2>4, <2>5, <2>6, <2>7, <2>8, <2>9, <2>10
<1>21. CASE EnableEventDataOutput BY <1>21 DEF EnableEventDataOutput, enableEventDataOutput
<1>22. CASE StartAcquisition BY <1>22, SMTT(30) DEF StartAcquisition
<1>23. CASE OpenOutput
  <2> USE <1>23 DEF OpenOutput, createOutputFITSFile, writeHeader
  <2>1. Flags' OBVIOUS
  <2>2. BoardTypes' OBVIOUS
  <2>3. RunTypes'
    <3>1. step' \in 0..LastWrite BY SMTT(30)
    <3>2. pc' \in {"cpu", "read"} OBVIOUS
    <3> QED BY <3>1, <3>2
  <2>4. FileOpen' OBVIOUS
  <2>5. ConfigurationLoaded' OBVIOUS
  <2>6. HandEmpty' OBVIOUS
  <2>7. StoppedWhileDraining' OBVIOUS
  <2>8. QuietBoard' OBVIOUS
  <2>9. StartedAsEnabled' OBVIOUS
  <2>10. Loops' OBVIOUS
  <2> QED BY <2>1, <2>2, <2>3, <2>4, <2>5, <2>6, <2>7, <2>8, <2>9, <2>10
<1>24. CASE LoopTail
  <2> USE <1>24 DEF LoopTail
  <2>1. Flags' OBVIOUS
  <2>2. BoardTypes' OBVIOUS
  <2>3. RunTypes' OBVIOUS
  <2>4. FileOpen' OBVIOUS
  <2>5. ConfigurationLoaded' OBVIOUS
  <2>6. HandEmpty' OBVIOUS
  <2>7. StoppedWhileDraining' OBVIOUS
  <2>8. QuietBoard' OBVIOUS
  <2>9. StartedAsEnabled' OBVIOUS
  <2>10. Loops' OBVIOUS
  <2> QED BY <2>1, <2>2, <2>3, <2>4, <2>5, <2>6, <2>7, <2>8, <2>9, <2>10
<1>25. CASE SwitchOutputFile
  <2> USE <1>25 DEF SwitchOutputFile, close
  <2>1. Flags' OBVIOUS
  <2>2. BoardTypes' OBVIOUS
  <2>3. RunTypes' OBVIOUS
  <2>4. FileOpen' OBVIOUS
  <2>5. ConfigurationLoaded' OBVIOUS
  <2>6. HandEmpty' OBVIOUS
  <2>7. StoppedWhileDraining' OBVIOUS
  <2>8. QuietBoard' OBVIOUS
  <2>9. StartedAsEnabled' OBVIOUS
  <2>10. Loops' OBVIOUS
  <2> QED BY <2>1, <2>2, <2>3, <2>4, <2>5, <2>6, <2>7, <2>8, <2>9, <2>10
<1>26. CASE GetEvent
  <2> USE <1>26 DEF GetEvent, getEventData
  <2>1. Flags' OBVIOUS
  <2>2. BoardTypes' OBVIOUS
  <2>3. RunTypes' OBVIOUS
  <2>4. FileOpen' OBVIOUS
  <2>5. ConfigurationLoaded' OBVIOUS
  <2>6. HandEmpty' OBVIOUS
  <2>7. StoppedWhileDraining' OBVIOUS
  <2>8. QuietBoard' OBVIOUS
  <2>9. StartedAsEnabled' OBVIOUS
  <2>10. Loops' OBVIOUS
  <2> QED BY <2>1, <2>2, <2>3, <2>4, <2>5, <2>6, <2>7, <2>8, <2>9, <2>10
<1>27. CASE EventsSaved
  <2> USE <1>27 DEF EventsSaved
  <2>1. Flags' OBVIOUS
  <2>2. BoardTypes' OBVIOUS
  <2>3. RunTypes' BY SMTT(30)
  <2>4. FileOpen' OBVIOUS
  <2>5. ConfigurationLoaded' OBVIOUS
  <2>6. HandEmpty' OBVIOUS
  <2>7. StoppedWhileDraining'
    <3>1. CASE drain = 0 BY <3>1
    <3>2. CASE drain # 0
      <4>1. startStop = {} /\ startStop' = startStop BY <3>2
      <4>2. drain \in {1, 2, 3} BY <3>2
      <4>3. CASE drain < 3 BY <3>2, <4>1, <4>3
      <4>4. CASE ~(drain < 3)
        <5>1. pc' = "close" /\ drain' = 3 BY <3>2, <4>2, <4>4
        <5> QED BY <4>1, <5>1
      <4> QED BY <4>3, <4>4
    <3> QED BY <3>1, <3>2
  <2>8. QuietBoard' OBVIOUS
  <2>9. StartedAsEnabled' OBVIOUS
  <2>10. Loops' OBVIOUS
  <2> QED BY <2>1, <2>2, <2>3, <2>4, <2>5, <2>6, <2>7, <2>8, <2>9, <2>10
<1>28. CASE StopAcquisition
  <2> USE <1>28 DEF StopAcquisition
  <2>1. Flags' OBVIOUS
  <2>2. BoardTypes' OBVIOUS
  <2>3. RunTypes' OBVIOUS
  <2>4. FileOpen' OBVIOUS
  <2>5. ConfigurationLoaded' OBVIOUS
  <2>6. HandEmpty' OBVIOUS
  <2>7. StoppedWhileDraining' OBVIOUS
  <2>8. QuietBoard' OBVIOUS
  <2>9. StartedAsEnabled' OBVIOUS
  <2>10. Loops' OBVIOUS
  <2> QED BY <2>1, <2>2, <2>3, <2>4, <2>5, <2>6, <2>7, <2>8, <2>9, <2>10
<1>29. CASE CloseOutput
  <2> USE <1>29 DEF CloseOutput, close
  <2>1. Flags' OBVIOUS
  <2>2. BoardTypes' OBVIOUS
  <2>3. RunTypes' OBVIOUS
  <2>4. FileOpen' OBVIOUS
  <2>5. ConfigurationLoaded' OBVIOUS
  <2>6. HandEmpty' OBVIOUS
  <2>7. StoppedWhileDraining' OBVIOUS
  <2>8. QuietBoard' OBVIOUS
  <2>9. StartedAsEnabled' OBVIOUS
  <2>10. Loops' OBVIOUS
  <2> QED BY <2>1, <2>2, <2>3, <2>4, <2>5, <2>6, <2>7, <2>8, <2>9, <2>10
<1>30. CASE CloseDevice
  <2> USE <1>30 DEF CloseDevice, disableEventDataOutput, DeleteBoard, DeleteDecoder
  <2>1. Flags' OBVIOUS
  <2>2. BoardTypes' OBVIOUS
  <2>3. RunTypes' OBVIOUS
  <2>4. FileOpen' OBVIOUS
  <2>5. ConfigurationLoaded' OBVIOUS
  <2>6. HandEmpty' OBVIOUS
  <2>7. StoppedWhileDraining' OBVIOUS
  <2>8. QuietBoard' OBVIOUS
  <2>9. StartedAsEnabled' OBVIOUS
  <2>10. Loops' OBVIOUS
  <2> QED BY <2>1, <2>2, <2>3, <2>4, <2>5, <2>6, <2>7, <2>8, <2>9, <2>10
<1>31. CASE \E ch \in Channels : Trigger(ch)
  <2> PICK ch \in Channels : Trigger(ch) BY <1>31
  <2> USE DEF Trigger
  <2>0. startStop # {} BY DEF Recorded
  <2>11. BoardTypes'
    <3> HIDE DEF BoardTypes
    <3>1. Recorded(ch) OBVIOUS
    <3>2. triggerCount' \in [Channels -> 0..MaxEvents] BY <3>1, OneMoreRecorded
    <3> QED BY <3>2 DEF BoardTypes
  <2>1. Flags' OBVIOUS
  <2>2. BoardTypes' BY <2>11
  <2>3. RunTypes' OBVIOUS
  <2>4. FileOpen' OBVIOUS
  <2>5. ConfigurationLoaded' OBVIOUS
  <2>6. HandEmpty' OBVIOUS
  <2>7. StoppedWhileDraining' OBVIOUS
  <2>8. QuietBoard' BY <2>0
  <2>9. StartedAsEnabled' OBVIOUS
  <2>10. Loops' OBVIOUS
  <2> QED BY <2>1, <2>2, <2>3, <2>4, <2>5, <2>6, <2>7, <2>8, <2>9, <2>10
<1>32. CASE \E ch \in Channels : SendPacket(ch)
  <2> PICK ch \in Channels : SendPacket(ch) BY <1>32
  <2> USE DEF SendPacket
  <2>1. Flags' OBVIOUS
  <2>2. BoardTypes' OBVIOUS
  <2>3. RunTypes' OBVIOUS
  <2>4. FileOpen' OBVIOUS
  <2>5. ConfigurationLoaded' OBVIOUS
  <2>6. HandEmpty' OBVIOUS
  <2>7. StoppedWhileDraining' OBVIOUS
  <2>8. QuietBoard' OBVIOUS
  <2>9. StartedAsEnabled' OBVIOUS
  <2>10. Loops' OBVIOUS
  <2> QED BY <2>1, <2>2, <2>3, <2>4, <2>5, <2>6, <2>7, <2>8, <2>9, <2>10
<1>33. CASE EditConfiguration
  <2> USE <1>33 DEF EditConfiguration
  <2>1. Flags' OBVIOUS
  <2>2. BoardTypes' OBVIOUS
  <2>3. RunTypes' OBVIOUS
  <2>4. FileOpen' OBVIOUS
  <2>5. ConfigurationLoaded' OBVIOUS
  <2>6. HandEmpty' OBVIOUS
  <2>7. StoppedWhileDraining' OBVIOUS
  <2>8. QuietBoard' OBVIOUS
  <2>9. StartedAsEnabled' OBVIOUS
  <2>10. Loops' OBVIOUS
  <2> QED BY <2>1, <2>2, <2>3, <2>4, <2>5, <2>6, <2>7, <2>8, <2>9, <2>10
<1>34. CASE Crash
  <2>1. Exit /\ faults' \in 0..MaxFaults BY <1>34 DEF Crash
  <2> HIDE DEF Control
  <2> QED BY <2>1, ControlAfterExit
<1>35. CASE Connect
  <2> USE <1>35 DEF Connect
  <2>1. Flags' OBVIOUS
  <2>2. BoardTypes' OBVIOUS
  <2>3. RunTypes' OBVIOUS
  <2>4. FileOpen' OBVIOUS
  <2>5. ConfigurationLoaded' OBVIOUS
  <2>6. HandEmpty' OBVIOUS
  <2>7. StoppedWhileDraining' OBVIOUS
  <2>8. QuietBoard' OBVIOUS
  <2>9. StartedAsEnabled' OBVIOUS
  <2>10. Loops' OBVIOUS
  <2> QED BY <2>1, <2>2, <2>3, <2>4, <2>5, <2>6, <2>7, <2>8, <2>9, <2>10
<1>36. CASE LoadRefused
  <2>1. Exit /\ UNCHANGED faults BY <1>36 DEF LoadRefused
  <2> HIDE DEF Control
  <2> QED BY <2>1, ControlAfterExit
<1>37. CASE Program
  <2> USE <1>37 DEF Program
  <2>0. UNCHANGED <<output, startStop, triggerCount>> OBVIOUS
  <2>11. \/ step = LastWrite /\ pc' = "enable" /\ step' = 0
         \/ pc' = "program" /\ step' \in 1..LastWrite
    <3>1. CASE step = LastWrite BY <3>1
    <3>2. CASE step # LastWrite
      <4>1. pc' = "program" /\ step' = step + 1 BY <3>2
      <4>2. step \in 1..LastWrite /\ LastWrite \in Nat OBVIOUS
      <4>3. step + 1 \in 1..LastWrite BY <3>2, <4>2
      <4> QED BY <4>1, <4>3
    <3> QED BY <3>1, <3>2
  <2>12. /\ register' \in [Channels -> [ChannelRegisters -> Configurations \cup {"default", "on"}]]
         /\ adcClock' \in {"default", "50MHz"} /\ packetSamples' \in Nat
    BY RegisterTypes
  <2>1. Flags' OBVIOUS
  <2>2. BoardTypes' BY <2>0, <2>12
  <2>3. RunTypes' BY <2>11, SMTT(30)
  <2>4. FileOpen' OBVIOUS
  <2>5. ConfigurationLoaded' OBVIOUS
  <2>6. HandEmpty' OBVIOUS
  <2>7. StoppedWhileDraining' OBVIOUS
  <2>8. QuietBoard' OBVIOUS
  <2>9. StartedAsEnabled' OBVIOUS
  <2>10. Loops' BY <2>11
  <2> QED BY <2>1, <2>2, <2>3, <2>4, <2>5, <2>6, <2>7, <2>8, <2>9, <2>10
<1>38. CASE SendCPUTrigger
  <2> USE <1>38 DEF SendCPUTrigger
  <2>12. \/ pc' = "gps" /\ step' = 0
         \/ pc' = "cpu" /\ step' \in Channels
    <3>1. CASE step = NumberOfChannels BY <3>1
    <3>2. CASE step # NumberOfChannels
      <4>1. pc' = "cpu" /\ step' = step + 1 BY <3>2
      <4>2. step \in 1..NumberOfChannels BY DEF Channels
      <4>3. step + 1 \in Channels BY <3>2, <4>2 DEF Channels
      <4> QED BY <4>1, <4>3
    <3> QED BY <3>1, <3>2
  <2>13. step' \in 0..LastWrite /\ pc' \in {"gps", "cpu"}
    <3>1. Channels \subseteq 0..LastWrite /\ 0 \in 0..LastWrite BY Sizes
    <3> QED BY <2>12, <3>1
  <2>11. triggerCount' \in [Channels -> 0..MaxEvents]
    <3>1. CASE Recorded(step)
      <4> HIDE DEF BoardTypes
      <4>1. step \in Channels OBVIOUS
      <4> QED BY <3>1, <4>1, OneMoreRecorded
    <3>2. CASE ~Recorded(step) BY <3>2 DEF sendCPUTrigger
    <3> QED BY <3>1, <3>2
  <2>1. Flags' OBVIOUS
  <2>2. BoardTypes' BY <2>11
  <2>3. RunTypes' BY <2>13
  <2>4. FileOpen' OBVIOUS
  <2>5. ConfigurationLoaded' OBVIOUS
  <2>6. HandEmpty' OBVIOUS
  <2>7. StoppedWhileDraining' OBVIOUS
  <2>8. QuietBoard' OBVIOUS
  <2>9. StartedAsEnabled' OBVIOUS
  <2>10. Loops' BY <2>12
  <2> QED BY <2>1, <2>2, <2>3, <2>4, <2>5, <2>6, <2>7, <2>8, <2>9, <2>10
<1>39. CASE SaveGPSRegister
  <2>11. CASE Exit
    <3>1. Exit /\ UNCHANGED faults BY <1>39, <2>11 DEF SaveGPSRegister
    <3> HIDE DEF Control
    <3> QED BY <3>1, ControlAfterExit
  <2>12. CASE ~Exit BY <1>39, <2>12 DEF SaveGPSRegister
  <2> QED BY <2>11, <2>12
<1>40. CASE SaveEvent
  <2> USE <1>40 DEF SaveEvent
  <2>11. faults' \in 0..MaxFaults
    <3>1. UNCHANGED faults \/ (faults < MaxFaults /\ faults' = faults + 1) OBVIOUS
    <3>2. faults \in 0..MaxFaults /\ MaxFaults \in Nat OBVIOUS
    <3> HIDE <1>40 DEF Control, RunTypes
    <3> QED BY <3>1, <3>2
  <2>12. outputFileIsOpen' = outputFileIsOpen BY DEF FillEvent, FillEventFails
  <2>1. Flags' BY <2>12
  <2>2. BoardTypes' OBVIOUS
  <2>3. RunTypes' BY <2>11
  <2>4. FileOpen' BY <2>12
  <2>5. ConfigurationLoaded' OBVIOUS
  <2>6. HandEmpty' OBVIOUS
  <2>7. StoppedWhileDraining' OBVIOUS
  <2>8. QuietBoard' OBVIOUS
  <2>9. StartedAsEnabled' OBVIOUS
  <2>10. Loops' OBVIOUS
  <2> QED BY <2>1, <2>2, <2>3, <2>4, <2>5, <2>6, <2>7, <2>8, <2>9, <2>10
<1>41. CASE SaveFails
  <2>1. Exit /\ UNCHANGED faults BY <1>41 DEF SaveFails
  <2> HIDE DEF Control
  <2> QED BY <2>1, ControlAfterExit
<1>43. CASE LoseReply
  <2> USE <1>43 DEF LoseReply, getEventData
  <2>11. faults' \in 0..MaxFaults
    <3>1. faults < MaxFaults /\ faults' = faults + 1 OBVIOUS
    <3>2. faults \in 0..MaxFaults /\ MaxFaults \in Nat OBVIOUS
    <3> HIDE <1>43 DEF Control, RunTypes
    <3> QED BY <3>1, <3>2
  <2>1. Flags' OBVIOUS
  <2>2. BoardTypes' OBVIOUS
  <2>3. RunTypes' BY <2>11
  <2>4. FileOpen' OBVIOUS
  <2>5. ConfigurationLoaded' OBVIOUS
  <2>6. HandEmpty' OBVIOUS
  <2>7. StoppedWhileDraining' OBVIOUS
  <2>8. QuietBoard' OBVIOUS
  <2>9. StartedAsEnabled' OBVIOUS
  <2>10. Loops' OBVIOUS
  <2> QED BY <2>1, <2>2, <2>3, <2>4, <2>5, <2>6, <2>7, <2>8, <2>9, <2>10
<1>42. CASE UNCHANGED vars
  <2> USE <1>42 DEF vars
  <2>1. Flags' OBVIOUS
  <2>2. BoardTypes' OBVIOUS
  <2>3. RunTypes' OBVIOUS
  <2>4. FileOpen' OBVIOUS
  <2>5. ConfigurationLoaded' OBVIOUS
  <2>6. HandEmpty' OBVIOUS
  <2>7. StoppedWhileDraining' OBVIOUS
  <2>8. QuietBoard' OBVIOUS
  <2>9. StartedAsEnabled' OBVIOUS
  <2>10. Loops' OBVIOUS
  <2> QED BY <2>1, <2>2, <2>3, <2>4, <2>5, <2>6, <2>7, <2>8, <2>9, <2>10
<1> HIDE DEF Control
<1> QED BY <1>20, <1>21, <1>22, <1>23, <1>24, <1>25, <1>26, <1>27, <1>28, <1>29, <1>30, <1>31,
           <1>32, <1>33, <1>34, <1>35, <1>36, <1>37, <1>38, <1>39, <1>40, <1>41, <1>42, <1>43
   DEF Next, Run
-----------------------------------------------------------------------------
(* The registers.                                                          *)

(* Each register is written at a step of its own.                          *)
LEMMA StepOfRegister ==
  ASSUME NEW ch \in Channels, NEW r \in ChannelRegisters
  PROVE  /\ StepOf(ch, r) \in 1..LastWrite
         /\ StepOf(ch, r) \notin {NumberOfChannels + 1, NumberOfChannels + 2}
         /\ StepOf(ch, r) = step => ChannelOfStep = ch /\ RegisterOfStep = r
<1>1. ch \in 1..NumberOfChannels /\ NumberOfChannels \in Nat /\ FirstOfLoop = NumberOfChannels + 3
  BY Sizes DEF Channels, FirstOfLoop
<1>2. CASE r = "NumberOfSamples"
  <2>1. StepOf(ch, r) = ch BY <1>2 DEF StepOf
  <2> QED BY <1>1, <1>2, <2>1, Sizes DEF ChannelOfStep, RegisterOfStep
<1>3. CASE r # "NumberOfSamples"
  <2>1. PICK o \in {0, 1, 2, 3, 5} :
          StepOf(ch, r) = FirstOfLoop + (ch - 1) * 6 + o /\ WritesOfChannel[o + 1] = r
    BY <1>3 DEF StepOf, ChannelRegisters, WritesOfChannel
  <2>2. ASSUME StepOf(ch, r) = step
        PROVE  ChannelOfStep = ch /\ RegisterOfStep = r
    <3>1. ~(step < FirstOfLoop) BY <1>1, <2>1, <2>2
    <3>2. step - FirstOfLoop = (ch - 1) * 6 + o BY <1>1, <2>1, <2>2
    <3>3. (step - FirstOfLoop) \div 6 = ch - 1 /\ (step - FirstOfLoop) % 6 = o BY <1>1, <3>2
    <3> QED BY <1>1, <2>1, <3>1, <3>3, Sizes DEF ChannelOfStep, RegisterOfStep
  <2> QED BY <1>1, <2>1, <2>2, Sizes
<1> QED BY <1>2, <1>3

(* A write of loadConfigurationFile() adds its register to those that are  *)
(* set, and disturbs none of them.                                         *)
LEMMA OneMoreProgrammed ==
  ASSUME Control, ProgrammedUpTo(step), Program, NEW s, s = step + 1
  PROVE  ProgrammedUpTo(s)'
<1>1. /\ step \in 1..LastWrite /\ UNCHANGED loaded /\ LastWrite \in Nat
      /\ NumberOfChannels \in Nat /\ FirstOfLoop = NumberOfChannels + 3
  BY Sizes DEF Control, Loops, Program, FirstOfLoop
<1>2. ChannelWrite \/ ClockWrite \/ PacketWrite BY WhichWrite DEF Control
<1>3. ASSUME NEW ch \in Channels, NEW r \in ChannelRegisters, StepOf(ch, r) < s
      PROVE  register'[ch][r] = Setting(r)
  <2>1. CASE StepOf(ch, r) = step
    <3>1. ChannelOfStep = ch /\ RegisterOfStep = r /\ r # "AdcClock"
          /\ step \notin {NumberOfChannels + 1, NumberOfChannels + 2}
      BY <2>1, StepOfRegister DEF ChannelRegisters
    <3>2. ChannelWrite BY <1>2, <3>1 DEF ClockWrite, PacketWrite
    <3>3. register' = [register EXCEPT ![ch][r] = Setting(r)] BY <3>1, <3>2 DEF ChannelWrite
    <3>4. register \in [Channels -> [ChannelRegisters -> Configurations \cup {"default", "on"}]]
      BY DEF Control, BoardTypes
    <3> QED BY <3>3, <3>4
  <2>2. CASE StepOf(ch, r) # step
    <3>1. StepOf(ch, r) < step BY <1>1, <1>3, <2>2, StepOfRegister
    <3>2. register[ch][r] = Setting(r) BY <3>1 DEF ProgrammedUpTo
    <3>3. register \in [Channels -> [ChannelRegisters -> Configurations \cup {"default", "on"}]]
      BY DEF Control, BoardTypes
    <3>4. CASE ChannelWrite
      <4>1. /\ register' = [register EXCEPT ![ChannelOfStep][RegisterOfStep] = Setting(RegisterOfStep)]
            /\ ChannelOfStep \in Channels /\ RegisterOfStep \in ChannelRegisters
        BY <3>4 DEF ChannelWrite
      <4>2. CASE ChannelOfStep = ch /\ RegisterOfStep = r BY <3>3, <4>1, <4>2
      <4>3. CASE ~(ChannelOfStep = ch /\ RegisterOfStep = r)
        <5>1. register'[ch][r] = register[ch][r] BY <3>3, <4>1, <4>3
        <5> QED BY <3>2, <5>1
      <4> QED BY <4>2, <4>3
    <3>5. CASE ~ChannelWrite BY <1>2, <3>2, <3>5 DEF ClockWrite, PacketWrite
    <3> QED BY <3>4, <3>5
  <2> QED BY <2>1, <2>2
<1>4. s > FirstOfLoop + 4 => adcClock' = "50MHz"
  <2> SUFFICES ASSUME s > FirstOfLoop + 4 PROVE adcClock' = "50MHz" OBVIOUS
  <2>1. CASE step = FirstOfLoop + 4
    <3>1. step - FirstOfLoop = 4 /\ ~(step < FirstOfLoop) BY <1>1, <2>1
    <3>2. (step - FirstOfLoop) % Len(WritesOfChannel) = 4 BY <3>1, Sizes
    <3>3. RegisterOfStep = WritesOfChannel[5] BY <3>1, <3>2 DEF RegisterOfStep
    <3>4. RegisterOfStep = "AdcClock" BY <3>3 DEF WritesOfChannel
    <3>5. ~ChannelWrite /\ ~PacketWrite
      BY <1>1, <2>1, <3>4 DEF ChannelWrite, ChannelRegisters, PacketWrite
    <3> QED BY <1>2, <3>5 DEF ClockWrite
  <2>2. CASE step # FirstOfLoop + 4
    <3>1. step > FirstOfLoop + 4 BY <1>1, <2>2
    <3>2. adcClock = "50MHz" BY <3>1 DEF ProgrammedUpTo
    <3> QED BY <1>2, <3>2 DEF ChannelWrite, ClockWrite, PacketWrite
  <2> QED BY <2>1, <2>2
<1>5. s > NumberOfChannels + 2 => packetSamples' = PacketSamples[loaded]
  <2> SUFFICES ASSUME s > NumberOfChannels + 2 PROVE packetSamples' = PacketSamples[loaded] OBVIOUS
  <2>1. CASE step = NumberOfChannels + 2
    <3>1. step # NumberOfChannels + 1 /\ step < FirstOfLoop BY <1>1, <2>1
    <3>2. PacketWrite BY <1>1, <1>2, <2>1, <3>1 DEF ChannelWrite, ClockWrite
    <3> QED BY <3>1, <3>2 DEF PacketWrite
  <2>2. CASE step # NumberOfChannels + 2
    <3>1. step > NumberOfChannels + 2 /\ step # NumberOfChannels + 1 BY <1>1, <2>2
    <3>2. packetSamples = PacketSamples[loaded] BY <3>1 DEF ProgrammedUpTo
    <3>3. ~PacketWrite BY <2>2, <3>1 DEF PacketWrite
    <3> QED BY <1>2, <3>2, <3>3 DEF ChannelWrite, ClockWrite
  <2> QED BY <2>1, <2>2
<1> QED BY <1>1, <1>3, <1>4, <1>5 DEF ProgrammedUpTo, Setting

(* A step that leaves the registers and the configuration of the run alone *)
(* and does not begin the writes anew.                                     *)
KeepsSettings ==
  /\ UNCHANGED <<register, adcClock, packetSamples, loaded>>
  /\ pc' = "program" => pc = "program" /\ UNCHANGED step
  /\ pc' \in {"enable", "start"} \cup UnderWay => pc \in {"enable", "start"} \cup UnderWay

(* Where a step may take the run: events of earlier runs stay such, and    *)
(* the configuration stays that of the run as long as it is under way.     *)
Onward ==
  \/ UNCHANGED <<pc, run, loaded>>
  \/ pc' = "down" /\ UNCHANGED run
  \/ pc = "down" /\ pc' = "load" /\ run' = run + 1
  \/ pc \in Preparing /\ pc' \in Preparing \cup {"open"} /\ UNCHANGED run
  \/ pc \in UnderWay /\ pc' \in UnderWay \ {"open"} /\ UNCHANGED <<run, loaded>>

(* What a step may do to the settings, and the order of the phases.        *)
LEMMA HowItMoves ==
  ASSUME [Next]_vars
  PROVE  /\ KeepsSettings \/ Program \/ LoadConfiguration \/ pc' \in {"down", "load"}
         /\ Onward
<1> USE DEF KeepsSettings, Onward, board, host, Preparing, UnderWay, Acquiring
<1>1. CASE \E ch \in Channels : Trigger(ch) BY <1>1 DEF Trigger
<1>2. CASE \E ch \in Channels : SendPacket(ch) BY <1>2 DEF SendPacket
<1>3. CASE EditConfiguration BY <1>3 DEF EditConfiguration
<1>4. CASE Crash \/ LoadRefused \/ SaveFails BY <1>4 DEF Crash, LoadRefused, SaveFails, Exit
<1>5. CASE Connect \/ CloseDevice BY <1>5 DEF Connect, CloseDevice
<1>6. CASE EnableEventDataOutput BY <1>6 DEF EnableEventDataOutput
<1>7. CASE StartAcquisition BY <1>7 DEF StartAcquisition
<1>8. CASE OpenOutput BY <1>8 DEF OpenOutput
<1>9. CASE SendCPUTrigger BY <1>9 DEF SendCPUTrigger
<1>10. CASE SaveGPSRegister BY <1>10 DEF SaveGPSRegister, Exit
<1>11. CASE LoopTail BY <1>11 DEF LoopTail
<1>12. CASE SwitchOutputFile BY <1>12 DEF SwitchOutputFile
<1>13. CASE GetEvent BY <1>13 DEF GetEvent
<1>14. CASE SaveEvent BY <1>14 DEF SaveEvent
<1>15. CASE EventsSaved BY <1>15 DEF EventsSaved
<1>16. CASE StopAcquisition BY <1>16 DEF StopAcquisition
<1>17. CASE CloseOutput BY <1>17 DEF CloseOutput
<1>18. CASE UNCHANGED vars BY <1>18 DEF vars
<1>19. CASE Program BY <1>19 DEF Program
<1>20. CASE LoadConfiguration BY <1>20 DEF LoadConfiguration
<1>21. CASE LoseReply BY <1>21 DEF LoseReply
<1> QED BY <1>1, <1>2, <1>3, <1>4, <1>5, <1>6, <1>7, <1>8, <1>9, <1>10, <1>11, <1>12, <1>13,
           <1>14, <1>15, <1>16, <1>17, <1>18, <1>19, <1>20, <1>21 DEF Next, Run

(* Only the writes of a run change registers, and only CloseDevice and an  *)
(* exit let go of the configuration.                                       *)
LEMMA ProgrammedStep ==
  ASSUME Control, Programmed, [Next]_vars
  PROVE  Programmed'
<1>1. CASE Program
  <2>1. ProgrammedUpTo(step) BY <1>1 DEF Program, Programmed
  <2>2. CASE step = LastWrite
    <3>1. ProgrammedUpTo(LastWrite + 1)' BY <1>1, <2>1, <2>2, OneMoreProgrammed
    <3>2. pc' = "enable" BY <1>1, <2>2 DEF Program
    <3> QED BY <3>1, <3>2 DEF Programmed
  <2>3. CASE step # LastWrite
    <3>1. step' = step + 1 /\ pc' = "program" BY <1>1, <2>3 DEF Program
    <3>2. ProgrammedUpTo(step)' BY <1>1, <2>1, <3>1, OneMoreProgrammed DEF ProgrammedUpTo
    <3> QED BY <3>1, <3>2 DEF Programmed, UnderWay, Acquiring
  <2> QED BY <2>2, <2>3
<1>2. CASE LoadConfiguration
  <2>1. pc' = "program" /\ step' = 1 BY <1>2 DEF LoadConfiguration
  <2>2. \A ch \in Channels, r \in ChannelRegisters : ~(StepOf(ch, r) < 1) BY StepOfRegister, Sizes
  <2>3. ~(1 > FirstOfLoop + 4) /\ ~(1 > NumberOfChannels + 2) BY Sizes DEF FirstOfLoop
  <2>4. ProgrammedUpTo(step)' BY <2>1, <2>2, <2>3 DEF ProgrammedUpTo
  <2> QED BY <2>1, <2>4 DEF Programmed, UnderWay, Acquiring
<1>3. CASE pc' \in {"down", "load"} BY <1>3 DEF Programmed, UnderWay, Acquiring
<1>4. ASSUME KeepsSettings PROVE Programmed'
  BY <1>4 DEF KeepsSettings, Programmed, ProgrammedUpTo, Setting
<1>5. KeepsSettings \/ Program \/ LoadConfiguration \/ pc' \in {"down", "load"} BY HowItMoves
<1> QED BY <1>1, <1>2, <1>3, <1>4, <1>5
-----------------------------------------------------------------------------
(* The events.                                                             *)

(* An event stays what it is while the run moves on.                       *)
LEMMA EventsKeep ==
  ASSUME run \in Nat, Onward
  PROVE  Waiting \subseteq Waiting' /\ OnTheWay \subseteq OnTheWay' /\ Read \subseteq Read' /\ Saved \subseteq Saved'
<1> USE DEF Onward, Preparing, UnderWay, Acquiring
<1>1. ASSUME NEW e, e.run \in Nat, Proper(e) PROVE Proper(e)' BY <1>1 DEF Proper
<1>2. ASSUME NEW e, e.run \in Nat, Sent(e) PROVE Sent(e)' BY <1>1, <1>2 DEF Sent, Proper
<1>3. \A e \in Event : e.run \in Nat BY Sizes DEF Event
<1>4. \A e \in InHand : e.run \in Nat BY Sizes DEF InHand
<1>5. \A e \in Decoded : e.run \in Nat BY Sizes DEF Decoded
<1>6. Waiting \subseteq Waiting' BY <1>1, <1>3 DEF Waiting
<1>7. OnTheWay \subseteq OnTheWay' BY <1>2, <1>3 DEF OnTheWay
<1>8. Read \subseteq Read' BY <1>2, <1>4 DEF Read
<1>9. Saved \subseteq Saved'
  <2> SUFFICES ASSUME NEW e \in Saved PROVE e \in Saved' OBVIOUS
  <2>1. e \in Decoded /\ e.run \in Nat /\ Sent(e) /\ Sent(e)' BY <1>2, <1>5 DEF Saved
  <2>2. pc' = "open" => e.run < run' BY <2>1 DEF Saved, Sent, Proper
  <2>3. pc' \in UnderWay /\ e.run = run' =>
          e.waveform = [j \in 1..SavedSamples[loaded'] |-> Sample(e)]
    <3>1. pc \in UnderWay /\ e.run = run => e.waveform = [j \in 1..SavedSamples[loaded] |-> Sample(e)]
      BY DEF Saved
    <3>2. pc' \in UnderWay /\ e.run = run' => pc \in UnderWay /\ UNCHANGED <<run, loaded>>
      BY <2>1, <2>2 DEF Sent, Proper
    <3> QED BY <3>1, <3>2
  <2> QED BY <2>1, <2>2, <2>3 DEF Saved
<1> QED BY <1>6, <1>7, <1>8, <1>9

(* pushEventToQueue() puts the samples of the packet over whatever the     *)
(* instance held.                                                          *)
LEMMA PushedEvent ==
  ASSUME NEW e \in OnTheWay, NEW k, WaveformOf(k) \in FullWaveform
  PROVE  /\ pushEventToQueue(e, k) \in Read
         /\ pushEventToQueue(e, k).ch = e.ch
         /\ pushEventToQueue(e, k).triggerCount = e.triggerCount
<1> DEFINE w == [j \in 1..MaxWaveformLength |-> IF j <= e.samples THEN Sample(e) ELSE WaveformOf(k)[j]]
           d == pushEventToQueue(e, k)
<1>1. e \in Event /\ Sent(e) BY DEF OnTheWay
<1>2. Sample(e) \in Channels \X (1..MaxEvents) BY <1>1 DEF Event, Sample
<1>3. w \in FullWaveform BY <1>2 DEF FullWaveform
<1>4. d = [ch |-> e.ch, triggerCount |-> e.triggerCount, as |-> e.as, samples |-> e.samples,
           run |-> e.run, waveform |-> w]
  BY DEF pushEventToQueue
<1>5. \A j \in 1..MaxWaveformLength : j <= e.samples => w[j] = Sample(e) OBVIOUS
<1> HIDE DEF w, d
<1>6. /\ d.ch = e.ch /\ d.triggerCount = e.triggerCount /\ d.as = e.as /\ d.samples = e.samples
      /\ d.run = e.run /\ d.waveform = w /\ Sample(d) = Sample(e)
  BY <1>4 DEF Sample
<1>7. d \in InHand BY <1>1, <1>3, <1>4 DEF InHand, Event
<1>8. Sent(d) BY <1>1, <1>6 DEF Sent, Proper
<1>9. d \in Read BY <1>5, <1>6, <1>7, <1>8 DEF Read
<1> QED BY <1>6, <1>9 DEF d
(* A row of an event that was read has the first samples of its own.       *)
LEMMA SavedRow ==
  ASSUME Control, pc = "fill", NEW e \in Read
  PROVE  /\ Row(e) \in Saved /\ Row(e).ch = e.ch /\ Row(e).triggerCount = e.triggerCount
         /\ e.waveform \in FullWaveform
<1> DEFINE n == SavedSamples[loaded]
           v == SubSeq(e.waveform, 1, n)
           r == Row(e)
<1>1. e \in InHand /\ Sent(e)
      /\ \A j \in 1..MaxWaveformLength : j <= e.samples => e.waveform[j] = Sample(e)
  BY DEF Read
<1>2. e.waveform \in FullWaveform /\ e.samples \in Nat /\ MaxWaveformLength \in Nat BY <1>1 DEF InHand
<1>3. loaded \in Configurations
  BY ConfigurationAssumption DEF Control, ConfigurationLoaded
<1>4. n \in 0..MaxWaveformLength /\ n <= PacketSamples[loaded] /\ PacketSamples[loaded] \in Nat
  BY <1>2, <1>3, ConfigurationAssumption
<1>5. r = [e EXCEPT !.waveform = v] BY DEF Row, getNSamplesInEventListFile
<1>6. v \in Waveforms /\ Len(v) = n /\ \A j \in 1..n : v[j] = e.waveform[j]
  <2> DEFINE T == Channels \X (1..MaxEvents) \cup {Blank}
             x == e.waveform
  <2>1. \A j \in 1..MaxWaveformLength : x[j] \in T BY <1>2 DEF FullWaveform
  <2> HIDE DEF T, n, x
  <2>2. n \in Int /\ 1 \in Int /\ \A j \in 1..n : x[j] \in T BY <1>2, <1>4, <2>1
  <2>3. /\ SubSeq(x, 1, n) \in Seq(T)
        /\ Len(SubSeq(x, 1, n)) = IF 1 <= n THEN n - 1 + 1 ELSE 0
        /\ \A j \in 1..n - 1 + 1 : SubSeq(x, 1, n)[j] = x[1 + j - 1]
    BY <2>2, SubSeqProperties
  <2>4. (IF 1 <= n THEN n - 1 + 1 ELSE 0) = n /\ n - 1 + 1 = n /\ \A j \in 1..n : 1 + j - 1 = j
    BY <1>2, <1>4
  <2> HIDE DEF v
  <2>5. v = SubSeq(x, 1, n) BY DEF v, x
  <2> QED BY <2>3, <2>4, <2>5 DEF T, Waveforms, x
<1> HIDE DEF v, r, n
<1>7. /\ r.ch = e.ch /\ r.triggerCount = e.triggerCount /\ r.as = e.as /\ r.samples = e.samples
      /\ r.run = e.run /\ r.waveform = v /\ Sample(r) = Sample(e)
  BY <1>1, <1>5 DEF InHand, Sample
<1>8. r \in Decoded BY <1>1, <1>5, <1>6 DEF InHand, Decoded
<1>9. Sent(r) BY <1>1, <1>7 DEF Sent, Proper
<1>10. ASSUME e.run = run PROVE v = [j \in 1..n |-> Sample(r)]
  <2>1. e.samples = PacketSamples[loaded] BY <1>1, <1>10 DEF Sent, UnderWay, Acquiring
  <2>2. \A j \in 1..n : j \in 1..MaxWaveformLength /\ j <= e.samples BY <1>2, <1>4, <2>1
  <2>3. \A j \in 1..n : v[j] = Sample(r) BY <1>1, <1>6, <1>7, <2>2
  <2>4. v = [j \in 1..n |-> v[j]] BY <1>6, LenProperties DEF Waveforms
  <2> QED BY <2>3, <2>4
<1>11. r \in Saved BY <1>7, <1>8, <1>9, <1>10 DEF Saved, n
<1> QED BY <1>2, <1>7, <1>11 DEF r

(* A trigger adds an event that is as the run wants it, if a run is under  *)
(* way, and else of no run.                                                *)
LEMMA RecordedEvent ==
  ASSUME Control, Programmed, EventsProper, NEW ch \in Channels, Recorded(ch)
  PROVE  waiting' \in [Channels -> Seq(Waiting)]
<1> DEFINE e == [ch |-> ch, triggerCount |-> triggerCount'[ch], as |-> InForce(ch), samples |-> 0,
                 run |-> IF pc \in Acquiring THEN run ELSE 0]
<1>1. waiting' = [waiting EXCEPT ![ch] = Append(waiting[ch], e)] /\ ch \in startStop BY DEF Recorded
<1>2. InForce(ch) \in Configurations \cup {"mixed"} BY DEF InForce
<1>3. triggerCount'[ch] \in 1..MaxEvents
  <2>1. triggerCount' = [triggerCount EXCEPT ![ch] = triggerCount[ch] + 1] BY DEF Recorded
  <2>2. triggerCount[ch] \in 0..MaxEvents /\ triggerCount[ch] < MaxEvents
        /\ triggerCount \in [Channels -> 0..MaxEvents]
    BY DEF Recorded, Control, BoardTypes
  <2>3. triggerCount'[ch] = triggerCount[ch] + 1 BY <2>1, <2>2
  <2> QED BY <2>2, <2>3, Sizes
<1>4. run \in 0..MaxRuns BY DEF Control, RunTypes
<1>5. e \in Event BY <1>2, <1>3, <1>4, Sizes DEF Event
<1>6. ASSUME pc \in Acquiring PROVE InForce(ch) = loaded
  <2>1. loaded \in Configurations /\ pc \in UnderWay
    BY <1>6, ConfigurationAssumption DEF Control, ConfigurationLoaded, UnderWay, Acquiring
  <2>2. ProgrammedUpTo(LastWrite + 1) BY <2>1 DEF Programmed
  <2>3. \A r \in ChannelRegisters : register[ch][r] = Setting(r)
    <3> TAKE r \in ChannelRegisters
    <3>1. StepOf(ch, r) < LastWrite + 1 BY StepOfRegister, Sizes
    <3> QED BY <2>2, <3>1 DEF ProgrammedUpTo
  <2>4. adcClock = "50MHz"
    <3>1. LastWrite + 1 > FirstOfLoop + 4 BY Sizes DEF FirstOfLoop
    <3> QED BY <2>2, <3>1 DEF ProgrammedUpTo
  <2>5. Has(loaded, ch) BY <2>3, <2>4 DEF Has, Setting
  <2>6. \A c : Has(c, ch) => c = loaded BY <2>3 DEF Has, Setting, ChannelRegisters
  <2> QED BY <2>1, <2>5, <2>6 DEF InForce
<1>7. /\ e.ch = ch /\ e.as = InForce(ch)
      /\ e.run = IF pc \in Acquiring THEN run ELSE 0
  OBVIOUS
<1> HIDE DEF e
<1>8. Proper(e)
  <2>1. CASE pc \in Acquiring
    <3>1. pc \in UnderWay /\ pc \notin Preparing BY <2>1 DEF UnderWay, Acquiring, Preparing
    <3>2. ch \in ChannelEnable[loaded] BY <1>1, <3>1 DEF Control, StartedAsEnabled
    <3> QED BY <1>4, <1>6, <1>7, <2>1, <3>1, <3>2 DEF Proper
  <2>2. CASE pc \notin Acquiring
    <3>1. pc \notin UnderWay
      <4>1. pc \in {"close", "device"} => startStop = {} BY DEF Control, StoppedWhileDraining
      <4> QED BY <1>1, <2>2, <4>1 DEF UnderWay
    <3>2. pc \in Preparing => run > 0 BY DEF Control, ConfigurationLoaded, Preparing
    <3> QED BY <1>4, <1>7, <2>2, <3>1, <3>2 DEF Proper
  <2> QED BY <2>1, <2>2
<1>9. e \in Waiting BY <1>5, <1>8 DEF Waiting
<1>10. Append(waiting[ch], e) \in Seq(Waiting) BY <1>9, AppendProperties DEF EventsProper
<1> QED BY <1>1, <1>10 DEF EventsProper
(* One read: the events that are taken from the EventFIFO, the instances   *)
(* that are taken for them, and what remains of both.                      *)
LEMMA OneRead ==
  ASSUME EventsProper
  PROVE  /\ EventsInRead \in 0..Len(fifo)
         /\ getDecodedEvents \in Seq(Read) /\ Len(getDecodedEvents) = EventsInRead
         /\ \A k \in 1..EventsInRead : /\ getDecodedEvents[k].ch = fifo[k].ch
                                      /\ getDecodedEvents[k].triggerCount = fifo[k].triggerCount
         /\ SubSeq(fifo, EventsInRead + 1, Len(fifo)) \in Seq(OnTheWay)
         /\ SubSeq(reservoir, 1, Len(reservoir) - EventsInRead) \in Seq(FullWaveform)
<1> DEFINE n == EventsInRead
<1>1. fifo \in Seq(OnTheWay) /\ reservoir \in Seq(FullWaveform) /\ ReadEvents \in Nat
      /\ Len(fifo) \in Nat /\ Len(reservoir) \in Nat
  BY LenProperties DEF EventsProper
<1>2. n \in 0..Len(fifo) BY <1>1 DEF EventsInRead
<1>3. \A k \in 1..n : fifo[k] \in OnTheWay BY <1>1, <1>2, ElementOfSeq
<1>4. \A k \in 1..n : WaveformOf(k) \in FullWaveform
  <2> TAKE k \in 1..n
  <2>1. NewWaveform \in FullWaveform BY DEF NewWaveform, FullWaveform
  <2>2. k <= Len(reservoir) => Len(reservoir) + 1 - k \in 1..Len(reservoir) BY <1>1, <1>2
  <2>3. k <= Len(reservoir) => reservoir[Len(reservoir) + 1 - k] \in FullWaveform
    BY <1>1, <2>2, ElementOfSeq
  <2> QED BY <2>1, <2>3 DEF WaveformOf
<1>5. \A k \in 1..n : /\ pushEventToQueue(fifo[k], k) \in Read
                      /\ pushEventToQueue(fifo[k], k).ch = fifo[k].ch
                      /\ pushEventToQueue(fifo[k], k).triggerCount = fifo[k].triggerCount
  BY <1>3, <1>4, PushedEvent
<1>6. getDecodedEvents = [k \in 1..n |-> pushEventToQueue(fifo[k], k)] BY DEF getDecodedEvents
<1>7. SubSeq(fifo, n + 1, Len(fifo)) \in Seq(OnTheWay) BY <1>1, <1>2, PartOfSeq, SMTT(30)
<1>8. SubSeq(reservoir, 1, Len(reservoir) - n) \in Seq(FullWaveform)
  <2>1. CASE n <= Len(reservoir) BY <1>1, <1>2, <2>1, PartOfSeq
  <2>2. CASE n > Len(reservoir)
    <3>1. Len(reservoir) - n \in Int /\ Len(reservoir) - n < 1 BY <1>1, <1>2, <2>2
    <3>2. SubSeq(reservoir, 1, Len(reservoir) - n) = << >> BY <3>1, SubSeqEmpty
    <3> HIDE DEF n
    <3> QED BY <3>2, EmptySeq
  <2> QED BY <1>1, <1>2, <2>1, <2>2
<1> HIDE DEF n
<1>9. getDecodedEvents \in Seq(Read) /\ Len(getDecodedEvents) = n BY <1>1, <1>2, <1>5, <1>6
<1> QED BY <1>2, <1>5, <1>6, <1>7, <1>8, <1>9 DEF n

(* The events on their way keep the form their place asks for.             *)
LEMMA EventsStep ==
  ASSUME Control, Programmed, EventsProper, [Next]_vars
  PROVE  EventsProper'
<1>1. Waiting \subseteq Waiting' /\ OnTheWay \subseteq OnTheWay' /\ Read \subseteq Read' /\ Saved \subseteq Saved'
  <2>1. run \in Nat BY Sizes DEF Control, RunTypes
  <2> QED BY <2>1, HowItMoves, EventsKeep
<1>2. \A t \in Seq(Waiting) : t \in Seq(Waiting)' BY <1>1, SeqMonotonic
<1>3. \A t \in Seq(OnTheWay) : t \in Seq(OnTheWay)' BY <1>1, SeqMonotonic
<1>4. \A t \in Seq(Read) : t \in Seq(Read)' BY <1>1, SeqMonotonic
<1>5. \A t \in Seq(Saved) : t \in Seq(Saved)' BY <1>1, SeqMonotonic
<1>6. SUFFICES /\ waiting' \in [Channels -> Seq(Waiting)] /\ fifo' \in Seq(OnTheWay)
               /\ events' \in Seq(Read) /\ filled' \in Seq(Saved) /\ reservoir' \in Seq(FullWaveform)
  BY <1>2, <1>3, <1>4, <1>5 DEF EventsProper
<1>7. /\ waiting \in [Channels -> Seq(Waiting)] /\ fifo \in Seq(OnTheWay)
      /\ events \in Seq(Read) /\ filled \in Seq(Saved) /\ reservoir \in Seq(FullWaveform)
  BY DEF EventsProper
<1>8. << >> \in Seq(Read) /\ << >> \in Seq(Saved) /\ << >> \in Seq(FullWaveform) OBVIOUS
<1> USE <1>7 DEF board, file
<1>11. CASE \E ch \in Channels : Trigger(ch)
  <2> PICK ch \in Channels : Trigger(ch) BY <1>11
  <2>1. waiting' \in [Channels -> Seq(Waiting)] BY RecordedEvent DEF Trigger
  <2> QED BY <2>1 DEF Trigger, host
<1>12. CASE \E ch \in Channels : SendPacket(ch)
  <2> PICK ch \in Channels : SendPacket(ch) BY <1>12
  <2> DEFINE e == [Head(waiting[ch]) EXCEPT !.samples = packetSamples]
  <2>1. waiting[ch] \in Seq(Waiting) /\ waiting[ch] # << >> BY DEF SendPacket
  <2>2. Head(waiting[ch]) \in Waiting /\ Tail(waiting[ch]) \in Seq(Waiting)
    BY <2>1, HeadTailProperties
  <2>3. packetSamples \in Nat BY DEF Control, BoardTypes
  <2>4. pc \in UnderWay => packetSamples = PacketSamples[loaded]
    <3>1. LastWrite + 1 > NumberOfChannels + 2 BY Sizes
    <3> QED BY <3>1 DEF Programmed, ProgrammedUpTo
  <2>5. e \in OnTheWay
    <3> DEFINE h == Head(waiting[ch])
    <3>1. h \in Event /\ Proper(h) BY <2>2 DEF Waiting
    <3> HIDE DEF h
    <3>2. /\ [h EXCEPT !.samples = packetSamples] \in Event
          /\ [h EXCEPT !.samples = packetSamples].samples = packetSamples
          /\ [h EXCEPT !.samples = packetSamples].run = h.run
          /\ [h EXCEPT !.samples = packetSamples].as = h.as
          /\ [h EXCEPT !.samples = packetSamples].ch = h.ch
      BY <2>3, <3>1 DEF Event
    <3>3. Sent([h EXCEPT !.samples = packetSamples]) BY <2>4, <3>1, <3>2 DEF Sent, Proper
    <3> QED BY <3>2, <3>3 DEF OnTheWay, h
  <2>6. fifo' = Append(fifo, e) /\ waiting' = [waiting EXCEPT ![ch] = Tail(waiting[ch])] BY DEF SendPacket
  <2>7. fifo' \in Seq(OnTheWay) BY <2>5, <2>6, AppendProperties
  <2>8. waiting' \in [Channels -> Seq(Waiting)] BY <2>2, <2>6
  <2> QED BY <2>7, <2>8 DEF SendPacket, host
<1>13. CASE GetEvent
  <2>1. fifo' \in Seq(OnTheWay) /\ events' \in Seq(Read) /\ reservoir' \in Seq(FullWaveform)
    BY <1>13, OneRead DEF GetEvent, getEventData
  <2> QED BY <1>13, <2>1 DEF GetEvent
<1>24. CASE LoseReply
  <2>1. fifo' \in Seq(OnTheWay) BY <1>24, OneRead DEF LoseReply, getEventData
  <2> QED BY <1>24, <2>1 DEF LoseReply
<1>14. CASE SaveEvent
  <2>1. pc = "fill" /\ events # << >> /\ events' = Tail(events)
        /\ reservoir' = Append(reservoir, Head(events).waveform)
        /\ filled' = Append(filled, Row(Head(events)))
    BY <1>14 DEF SaveEvent, FillEvent, FillEventFails, freeEvent
  <2>2. Head(events) \in Read /\ Tail(events) \in Seq(Read) BY <2>1, HeadTailProperties
  <2>3. Row(Head(events)) \in Saved /\ Head(events).waveform \in FullWaveform BY <2>1, <2>2, SavedRow
  <2>4. filled' \in Seq(Saved) /\ reservoir' \in Seq(FullWaveform) BY <2>1, <2>3, AppendProperties
  <2>5. waiting' = waiting /\ fifo' = fifo BY <1>14 DEF SaveEvent
  <2> QED BY <2>1, <2>2, <2>4, <2>5
<1>15. CASE SendCPUTrigger
  <2>1. waiting' \in [Channels -> Seq(Waiting)]
    <3>1. CASE waiting' = waiting BY <3>1
    <3>2. CASE waiting' # waiting
      <4>1. step \in Channels BY <1>15 DEF SendCPUTrigger, Control, Loops
      <4>2. Recorded(step) BY <1>15, <3>2 DEF SendCPUTrigger, sendCPUTrigger
      <4> QED BY <4>1, <4>2, RecordedEvent
    <3> QED BY <3>1, <3>2
  <2> QED BY <1>15, <2>1 DEF SendCPUTrigger
<1>16. CASE Exit BY <1>8, <1>16 DEF Exit
<1>17. CASE Connect
  <2> DEFINE r == [k \in 1..InitialEventInstanceNumber |-> NewWaveform]
  <2>1. NewWaveform \in FullWaveform BY DEF NewWaveform, FullWaveform
  <2>2. InitialEventInstanceNumber \in Nat OBVIOUS
  <2>3. r \in Seq(FullWaveform) BY <2>1, <2>2
  <2>4. reservoir' = r BY <1>17 DEF Connect
  <2> HIDE DEF r
  <2> QED BY <1>17, <2>3, <2>4 DEF Connect
<1>18. CASE OpenOutput BY <1>8, <1>18 DEF OpenOutput, createOutputFITSFile
<1>19. CASE CloseDevice BY <1>8, <1>19 DEF CloseDevice, DeleteBoard, DeleteDecoder
<1>20. CASE UNCHANGED <<waiting, fifo, events, filled, reservoir>> BY <1>20
<1>21. CASE \/ EditConfiguration \/ LoadConfiguration \/ Program \/ EnableEventDataOutput
            \/ StartAcquisition \/ LoopTail \/ SwitchOutputFile \/ EventsSaved
            \/ StopAcquisition \/ CloseOutput \/ UNCHANGED vars
  <2>1. CASE EditConfiguration BY <1>20, <2>1 DEF EditConfiguration, host
  <2>2. CASE LoadConfiguration BY <1>20, <2>2 DEF LoadConfiguration
  <2>3. CASE Program BY <1>20, <2>3 DEF Program
  <2>4. CASE EnableEventDataOutput BY <1>20, <2>4 DEF EnableEventDataOutput
  <2>5. CASE StartAcquisition BY <1>20, <2>5 DEF StartAcquisition
  <2>6. CASE LoopTail BY <1>20, <2>6 DEF LoopTail
  <2>7. CASE SwitchOutputFile BY <1>20, <2>7 DEF SwitchOutputFile, close
  <2>8. CASE EventsSaved BY <1>20, <2>8 DEF EventsSaved
  <2>9. CASE StopAcquisition BY <1>20, <2>9 DEF StopAcquisition
  <2>10. CASE CloseOutput BY <1>20, <2>10 DEF CloseOutput, close
  <2>11. CASE UNCHANGED vars BY <1>20, <2>11 DEF vars, host
  <2> QED BY <1>21, <2>1, <2>2, <2>3, <2>4, <2>5, <2>6, <2>7, <2>8, <2>9, <2>10, <2>11
<1>22. CASE SaveGPSRegister
  <2>1. CASE Exit BY <1>16, <2>1
  <2>2. CASE ~Exit BY <1>20, <1>22, <2>2 DEF SaveGPSRegister
  <2> QED BY <2>1, <2>2
<1>23. CASE Crash \/ LoadRefused \/ SaveFails BY <1>16, <1>23 DEF Crash, LoadRefused, SaveFails
<1> QED BY <1>11, <1>12, <1>13, <1>14, <1>15, <1>17, <1>18, <1>19, <1>21, <1>22, <1>23,
           <1>24 DEF Next, Run
(* Who does anything to the file.                                          *)
LEMMA WhoTouchesTheFile ==
  ASSUME Control, [Next]_vars
  PROVE  UNCHANGED file \/ Exit \/ OpenOutput \/ SaveEvent \/ (close /\ outputFileIsOpen)
  <1>1. CASE LoadConfiguration BY <1>1 DEF LoadConfiguration
  <1>2. CASE Program BY <1>2 DEF Program
  <1>3. CASE EnableEventDataOutput BY <1>3 DEF EnableEventDataOutput
  <1>4. CASE StartAcquisition BY <1>4 DEF StartAcquisition
  <1>5. CASE LoopTail BY <1>5 DEF LoopTail
  <1>6. CASE GetEvent BY <1>6 DEF GetEvent
  <1>7. CASE EventsSaved BY <1>7 DEF EventsSaved
  <1>8. CASE StopAcquisition BY <1>8 DEF StopAcquisition
  <1>9. CASE SendCPUTrigger BY <1>9 DEF SendCPUTrigger
  <1>10. CASE CloseDevice BY <1>10 DEF CloseDevice
  <1>11. CASE Connect BY <1>11 DEF Connect
  <1>12. CASE EditConfiguration BY <1>12 DEF EditConfiguration
  <1>13. CASE \E ch \in Channels : Trigger(ch) \/ SendPacket(ch) BY <1>13 DEF Trigger, SendPacket
  <1>14. CASE SwitchOutputFile \/ CloseOutput
    BY <1>14 DEF SwitchOutputFile, CloseOutput, Control, FileOpen, UnderWay, Acquiring
  <1>15. CASE SaveGPSRegister BY <1>15 DEF SaveGPSRegister
  <1>16. CASE Crash \/ LoadRefused \/ SaveFails BY <1>16 DEF Crash, LoadRefused, SaveFails
  <1>17. CASE UNCHANGED vars BY <1>17 DEF vars
  <1>18. CASE LoseReply BY <1>18 DEF LoseReply
  <1> QED BY <1>1, <1>2, <1>3, <1>4, <1>5, <1>6, <1>7, <1>8, <1>9, <1>10, <1>11, <1>12, <1>13,
             <1>14, <1>15, <1>16, <1>17, <1>18 DEF Next, Run

(* What the steps of a run do to the file; all others leave it alone.      *)
LEMMA FileStep ==
  ASSUME Control, EventsProper, TableTypes, FileSound, [Next]_vars
  PROVE  TableTypes' /\ FileSound'
<1> DEFINE S == Decoded \cup {Blank}
<1>1. CASE UNCHANGED file BY <1>1 DEF TableTypes, FileSound, file
<1>2. CASE Exit
  <2>1. table' = << >> /\ rowIndex' = 0 /\ fitsNRows' = 0 /\ fitsStatus' = 0 /\ filled' = << >>
        /\ rowExpansionStep' = InitialRowNumber /\ outputFileIsOpen' = FALSE
    BY <1>2 DEF Exit
  <2> QED BY <2>1 DEF TableTypes, FileSound
<1>3. CASE OpenOutput
  <2>1. table' = BlankRows(InitialRowNumber) /\ rowIndex' = 0 /\ fitsNRows' = InitialRowNumber
        /\ rowExpansionStep' = InitialRowNumber /\ fitsStatus' = 0 /\ filled' = << >>
    BY <1>3 DEF OpenOutput, createOutputFITSFile
  <2>2. BlankRows(InitialRowNumber) \in Seq(S) /\ Len(BlankRows(InitialRowNumber)) = InitialRowNumber
    BY DEF BlankRows
  <2>3. TableTypes' BY <2>1, <2>2 DEF TableTypes
  <2>4. FileSound' BY <2>1, <2>2 DEF FileSound
  <2> QED BY <2>3, <2>4
<1>4. CASE SaveEvent
  <2>1. pc = "fill" /\ events # << >> /\ outputFileIsOpen
    BY <1>4 DEF SaveEvent, Control, FileOpen, UnderWay, Acquiring
  <2>2. FillEvent(Row(Head(events))) \/ FillEventFails(Row(Head(events))) BY <1>4 DEF SaveEvent
  <2>3. Head(events) \in Read BY <2>1, HeadTailProperties DEF EventsProper
  <2>4. Row(Head(events)) \in Decoded BY <2>1, <2>3, SavedRow DEF Saved
  <2>5. filled \in Seq(S)
    <3>1. Saved \subseteq S BY DEF Saved
    <3> HIDE DEF S
    <3> QED BY <3>1, SeqMonotonic DEF EventsProper
  <2>6. table \in Seq(S) /\ Blank \in S /\ Row(Head(events)) \in S BY <2>4 DEF TableTypes
  <2>7. {rowIndex, fitsNRows, rowExpansionStep, fitsStatus} \subseteq Nat BY DEF TableTypes
  <2>8. /\ table' \in Seq(S) /\ FileSound'
        /\ {rowIndex', fitsNRows', rowExpansionStep', fitsStatus'} \subseteq Nat
    <3> HIDE DEF S
    <3> QED BY <2>1, <2>2, <2>5, <2>6, <2>7, FilledRow
  <2> QED BY <2>8 DEF TableTypes
<1>5. CASE close /\ outputFileIsOpen
  <2>1. outputFileIsOpen' = FALSE /\ table' = DeletedUnusedRows(table)
        /\ UNCHANGED <<rowIndex, fitsNRows, rowExpansionStep, fitsStatus, filled>>
    BY <1>5 DEF close
  <2>2. FileSound' BY <2>1 DEF FileSound
  <2>3. Len(table) = fitsNRows /\ rowIndex \in Nat /\ rowIndex <= fitsNRows
    BY <1>5 DEF FileSound, TableTypes
  <2>4. table \in Seq(S) BY DEF TableTypes
  <2>5. table' \in Seq(S)
    <3> HIDE DEF S
    <3> QED BY <2>1, <2>3, <2>4, ClosedRows
  <2> QED BY <2>1, <2>2, <2>5 DEF TableTypes
<1>6. UNCHANGED file \/ Exit \/ OpenOutput \/ SaveEvent \/ (close /\ outputFileIsOpen) BY WhoTouchesTheFile
<1> QED BY <1>1, <1>2, <1>3, <1>4, <1>5, <1>6
-----------------------------------------------------------------------------
(* The fates.                                                              *)

(* Who moves events, and who decides their fate; all others leave them     *)
(* where they are.                                                         *)
Resting == UNCHANGED <<filled, events, fifo, waiting, triggerCount, fate, faults, fitsStatus>>
Recording ==
  /\ UNCHANGED <<filled, events, fifo, fate, faults, fitsStatus>>
  /\ (\E ch \in Channels : Recorded(ch)) \/ UNCHANGED <<triggerCount, waiting>>

LEMMA WhoMovesEvents ==
  ASSUME Control, [Next]_vars
  PROVE  \/ Resting \/ Recording \/ (\E ch \in Channels : SendPacket(ch)) \/ OpenOutput
         \/ LoseReply \/ GetEvent \/ SaveEvent \/ Crash
         \/ Exit /\ UNCHANGED faults /\ (events # << >> => CannotExpand)
<1> USE DEF Resting, board, host, file
<1>1. CASE LoadConfiguration BY <1>1 DEF LoadConfiguration
<1>2. CASE Program BY <1>2 DEF Program
<1>3. CASE EnableEventDataOutput BY <1>3 DEF EnableEventDataOutput
<1>4. CASE StartAcquisition BY <1>4 DEF StartAcquisition
<1>5. CASE LoopTail BY <1>5 DEF LoopTail
<1>6. CASE EventsSaved BY <1>6 DEF EventsSaved
<1>7. CASE StopAcquisition BY <1>7 DEF StopAcquisition
<1>8. CASE CloseDevice BY <1>8 DEF CloseDevice
<1>9. CASE Connect BY <1>9 DEF Connect
<1>10. CASE EditConfiguration BY <1>10 DEF EditConfiguration
<1>11. CASE SwitchOutputFile BY <1>11 DEF SwitchOutputFile, close
<1>12. CASE CloseOutput BY <1>12 DEF CloseOutput, close
<1>13. CASE UNCHANGED vars BY <1>13 DEF vars
<1>14. CASE SendCPUTrigger
  <2>1. step \in Channels BY <1>14 DEF SendCPUTrigger, Control, Loops
  <2>2. UNCHANGED <<filled, events, fifo, fate, faults, fitsStatus>> BY <1>14 DEF SendCPUTrigger
  <2>3. Recorded(step) \/ UNCHANGED <<triggerCount, waiting>>
    BY <1>14 DEF SendCPUTrigger, sendCPUTrigger
  <2> QED BY <2>1, <2>2, <2>3 DEF Recording
<1>15. CASE \E ch \in Channels : Trigger(ch) BY <1>15 DEF Trigger, Recording
<1>16. CASE LoadRefused BY <1>16 DEF LoadRefused, Control, HandEmpty
<1>17. CASE SaveGPSRegister BY <1>17 DEF SaveGPSRegister, Control, HandEmpty
<1>18. CASE SaveFails BY <1>18 DEF SaveFails
<1> QED BY <1>1, <1>2, <1>3, <1>4, <1>5, <1>6, <1>7, <1>8, <1>9, <1>10, <1>11, <1>12, <1>13,
           <1>14, <1>15, <1>16, <1>17, <1>18 DEF Next, Run

(* Meet() decides the fate of some events and leaves that of the others.   *)
LEMMA Met ==
  ASSUME FateTypes, NEW ids, NEW end \in Fates, Meet(ids, end)
  PROVE  /\ FateTypes'
         /\ \A i \in Channels \X (1..MaxEvents) : fate'[i] = IF i \in ids THEN end ELSE fate[i]
<1> DEFINE I == Channels \X (1..MaxEvents)
<1>1. fate' = [i \in I |-> IF i \in ids THEN end ELSE fate[i]] BY DEF Meet, FateTypes
<1>2. fate \in [I -> Fates] BY DEF FateTypes
<1> HIDE DEF I
<1>3. fate' \in [I -> Fates] BY <1>1, <1>2
<1>4. \A i \in I : fate'[i] = IF i \in ids THEN end ELSE fate[i] BY <1>1
<1> QED BY <1>3, <1>4 DEF FateTypes, I

(* A fate is one of the fates.                                             *)
LEMMA FateTypesStep ==
  ASSUME Control, FateTypes, [Next]_vars
  PROVE  FateTypes'
<1>0. {"written", "unwritten", "destroyed"} \subseteq Fates BY DEF Fates
<1>1. CASE UNCHANGED fate BY <1>1 DEF FateTypes
<1>2. CASE Exit BY <1>0, <1>2, Met DEF Exit
<1>3. CASE LoseReply BY <1>0, <1>3, Met DEF LoseReply
<1>4. CASE SaveEvent BY <1>0, <1>4, Met DEF SaveEvent
<1>5. CASE OpenOutput BY <1>1, <1>5 DEF OpenOutput
<1>6. CASE \E ch \in Channels : SendPacket(ch) BY <1>1, <1>6 DEF SendPacket
<1>7. CASE GetEvent BY <1>1, <1>7 DEF GetEvent
<1> QED BY <1>1, <1>2, <1>3, <1>4, <1>5, <1>6, <1>7, WhoMovesEvents DEF Resting, Recording, Crash
-----------------------------------------------------------------------------
(* The invariant, and what follows from it.                                *)

(* The invariant gives every variable its type.                            *)
LEMMA Typed ==
  ASSUME IInv
  PROVE  TypeOK
<1>1. Waiting \subseteq Event /\ OnTheWay \subseteq Event /\ Saved \subseteq Decoded
  BY DEF Waiting, OnTheWay, Saved
<1>2. FullWaveform \subseteq Waveforms BY Sizes DEF FullWaveform, Waveforms
<1>3. Read \subseteq Decoded BY <1>2 DEF Read, InHand, Decoded
<1>4. waiting \in [Channels -> Seq(Event)]
  <2>1. waiting \in [Channels -> Seq(Waiting)] BY DEF IInv, EventsProper
  <2>2. \A t \in Seq(Waiting) : t \in Seq(Event) BY <1>1, SeqMonotonic
  <2> QED BY <2>1, <2>2
<1>5. fifo \in Seq(Event) BY <1>1, SeqMonotonic DEF IInv, EventsProper
<1>6. events \in Seq(Decoded) BY <1>3, SeqMonotonic DEF IInv, EventsProper
<1>7. filled \in Seq(Decoded) BY <1>1, SeqMonotonic DEF IInv, EventsProper
<1>8. reservoir \in Seq(Waveforms) BY <1>2, SeqMonotonic DEF IInv, EventsProper
<1>9. Flags /\ BoardTypes /\ RunTypes /\ TableTypes BY DEF IInv, Control
<1>10. fate \in [Channels \X (1..MaxEvents) -> Fates] BY DEF IInv, FateTypes
<1> QED BY <1>4, <1>5, <1>6, <1>7, <1>8, <1>9, <1>10
        DEF TypeOK, Flags, BoardTypes, RunTypes, TableTypes

(* The invariant holds initially.                                          *)
LEMMA InitiallyInv ==
  ASSUME Init
  PROVE  IInv
<1> USE Sizes, ConfigurationAssumption DEF Init, NoFile
<1>1. Flags BY DEF Flags
<1>2. BoardTypes BY DEF BoardTypes
<1>3. RunTypes BY DEF RunTypes
<1>4. FileOpen BY DEF FileOpen, UnderWay, Acquiring
<1>5. ConfigurationLoaded /\ HandEmpty /\ StoppedWhileDraining
  BY DEF ConfigurationLoaded, HandEmpty, StoppedWhileDraining, UnderWay, Acquiring
<1>6. QuietBoard BY DEF QuietBoard
<1>7. StartedAsEnabled /\ Loops BY DEF StartedAsEnabled, Loops, UnderWay, Acquiring
<1>8. Programmed BY DEF Programmed, UnderWay, Acquiring
<1>9. TableTypes /\ FileSound BY DEF TableTypes, FileSound
<1>10. EventsProper
  <2>1. \A T : << >> \in Seq(T) OBVIOUS
  <2> QED BY <2>1 DEF EventsProper
<1>11. FateTypes BY DEF FateTypes, Fates
<1> QED BY <1>1, <1>2, <1>3, <1>4, <1>5, <1>6, <1>7, <1>8, <1>9, <1>10, <1>11 DEF IInv, Control

(* The invariant holds in every state.                                     *)
THEOREM Invariance == Spec => []IInv
<1>1. Init => IInv BY InitiallyInv
<1>2. IInv /\ [Next]_vars => IInv'
  BY ControlStep, ProgrammedStep, FileStep, EventsStep, FateTypesStep DEF IInv
<1> QED BY <1>1, <1>2, PTL DEF Spec

(* Every variable has its type, for any number of channels, whatever the   *)
(* configurations and the sizes of the buffers are.                        *)
THEOREM TypeCorrect == Spec => []TypeOK
<1>1. IInv => TypeOK BY Typed
<1> QED BY <1>1, Invariance, PTL

(* The rows of a file that are of this run were recorded and sent as the   *)
(* configuration this run has loaded says, and hold the samples of their   *)
(* own events, whatever an Event instance or the registers held before.    *)
THEOREM RowsOfTheRun == Spec => []RowsAsConfigured
<1>1. ASSUME IInv PROVE RowsAsConfigured
  <2> SUFFICES ASSUME NEW k \in 1..Len(filled), pc # "down", filled[k].run = run
               PROVE  /\ filled[k].as = loaded /\ filled[k].ch \in ChannelEnable[loaded]
                      /\ filled[k].samples = PacketSamples[loaded]
                      /\ filled[k].waveform = [j \in 1..SavedSamples[loaded] |-> Sample(filled[k])]
                      /\ edited \/ header = loaded
    BY DEF RowsAsConfigured
  <2> DEFINE e == filled[k]
  <2>1. e \in Saved BY <1>1, ElementOfSeq DEF IInv, EventsProper
  <2>2. Sent(e) /\ Proper(e) BY <2>1 DEF Saved, Sent
  <2>3. run \in Nat /\ e.run = run BY <1>1, Sizes DEF IInv, Control, RunTypes
  <2> HIDE DEF e
  <2>4. pc \notin Preparing /\ pc # "open" BY <2>1, <2>2, <2>3 DEF Proper, Saved
  <2>5. pc \in UnderWay \ {"open"}
    BY <1>1, <2>4 DEF IInv, Control, RunTypes, Preparing, UnderWay, Acquiring
  <2>6. edited \/ header = loaded BY <1>1, <2>5 DEF IInv, Control, ConfigurationLoaded
  <2>7. e.waveform = [j \in 1..SavedSamples[loaded] |-> Sample(e)] BY <2>1, <2>3, <2>5 DEF Saved
  <2> QED BY <2>2, <2>3, <2>5, <2>6, <2>7 DEF Sent, Proper, e
<1> QED BY <1>1, Invariance, PTL

(* After a run that ended in order nothing is recorded and nothing sent    *)
(* until the next run has started the board.                               *)
THEOREM QuietBetweenRuns == Spec => QuietUnlessAbandoned
<1> DEFINE A == waiting' # waiting \/ fifo' # fifo =>
                  abandoned \/ pc \in Acquiring \cup {"start", "close", "device"}
<1>1. ASSUME IInv, [Next]_vars PROVE [A]_vars
  <2> SUFFICES ASSUME ~abandoned, pc \notin Acquiring \cup {"start", "close", "device"}
               PROVE  waiting' = waiting /\ fifo' = fifo
    OBVIOUS
  <2>1. pc \in {"down", "load", "program", "enable"}
    BY <1>1 DEF IInv, Control, RunTypes
  <2>2. startStop = {} /\ (~output \/ \A ch \in Channels : waiting[ch] = << >>)
    BY <1>1, <2>1 DEF IInv, Control, QuietBoard
  <2>3. CASE \E ch \in Channels : Trigger(ch) \/ SendPacket(ch)
    BY <2>2, <2>3 DEF Trigger, Recorded, SendPacket
  <2>4. CASE EditConfiguration \/ UNCHANGED vars BY <2>4 DEF EditConfiguration, vars, board
  <2>5. CASE Crash \/ LoadRefused BY <2>5 DEF Crash, LoadRefused, Exit, board
  <2>6. CASE Connect \/ LoadConfiguration \/ Program \/ EnableEventDataOutput
    <3>1. CASE Connect BY <3>1 DEF Connect, board
    <3>2. CASE LoadConfiguration BY <3>2 DEF LoadConfiguration, board
    <3>3. CASE Program BY <3>3 DEF Program
    <3>4. CASE EnableEventDataOutput BY <3>4 DEF EnableEventDataOutput
    <3> QED BY <2>6, <3>1, <3>2, <3>3, <3>4
  <2>7. /\ ~StartAcquisition /\ ~OpenOutput /\ ~SendCPUTrigger /\ ~SaveGPSRegister /\ ~LoopTail
        /\ ~SwitchOutputFile /\ ~LoseReply /\ ~GetEvent /\ ~SaveEvent /\ ~SaveFails /\ ~EventsSaved
        /\ ~StopAcquisition /\ ~CloseOutput /\ ~CloseDevice
    BY <2>1 DEF StartAcquisition, OpenOutput, SendCPUTrigger, SaveGPSRegister, LoopTail, SwitchOutputFile,
                LoseReply, GetEvent, SaveEvent, SaveFails, EventsSaved, StopAcquisition, CloseOutput, CloseDevice
  <2> QED BY <1>1, <2>3, <2>4, <2>5, <2>6, <2>7 DEF Next, Run
<1>2. [][A]_vars <=> QuietUnlessAbandoned BY DEF QuietUnlessAbandoned
<1> QED BY <1>1, <1>2, Invariance, PTL DEF Spec

(* A file that is closed holds one row for each event it was given, in     *)
(* order, however often its table was expanded.                            *)
THEOREM ExactWhenClosed == Spec => ClosedFileIsExact
<1> DEFINE A == outputFileIsOpen /\ ~outputFileIsOpen' /\ pc' # "down" =>
                  /\ Len(table') = Len(filled)
                  /\ \A k \in 1..Len(filled) :
                       table'[k] = filled[k] \/ (fitsStatus # 0 /\ k >= fitsStatus)
<1>1. ASSUME IInv, [Next]_vars PROVE [A]_vars
  <2> SUFFICES ASSUME outputFileIsOpen, ~outputFileIsOpen', pc' # "down"
               PROVE  /\ Len(table') = Len(filled)
                      /\ \A k \in 1..Len(filled) :
                           table'[k] = filled[k] \/ (fitsStatus # 0 /\ k >= fitsStatus)
    OBVIOUS
  <2>1. close
    <3>1. UNCHANGED file \/ Exit \/ OpenOutput \/ SaveEvent \/ (close /\ outputFileIsOpen)
      BY <1>1, WhoTouchesTheFile DEF IInv
    <3>2. ~UNCHANGED file /\ ~Exit /\ ~OpenOutput BY DEF file, Exit, OpenOutput, createOutputFITSFile
    <3>3. ~SaveEvent BY DEF SaveEvent, FillEvent, FillEventFails
    <3> QED BY <3>1, <3>2, <3>3
  <2>2. /\ rowIndex \in Nat /\ Len(table) = fitsNRows /\ rowIndex = Len(filled) /\ rowIndex <= fitsNRows
        /\ \A k \in 1..Len(filled) : table[k] = filled[k] \/ (fitsStatus # 0 /\ k >= fitsStatus)
    BY <1>1 DEF IInv, FileSound, TableTypes
  <2>3. table \in Seq(Decoded \cup {Blank}) BY <1>1 DEF IInv, TableTypes
  <2>4. /\ Len(DeletedUnusedRows(table)) = rowIndex
        /\ \A k \in 1..rowIndex : DeletedUnusedRows(table)[k] = table[k]
    BY <2>2, <2>3, ClosedRows
  <2>5. table' = DeletedUnusedRows(table) BY <2>1 DEF close
  <2> QED BY <2>2, <2>4, <2>5
<1>2. [][A]_vars <=> ClosedFileIsExact BY DEF ClosedFileIsExact
<1> QED BY <1>1, <1>2, Invariance, PTL DEF Spec

-----------------------------------------------------------------------------
(* Sequences of events.                                                    *)

(* Events of a channel come in order in p, and come in p before they come  *)
(* in q; p and q have the same events, whatever else they say of them.     *)
Rising(p) ==
  \A k, l \in 1..Len(p) : k < l /\ p[k].ch = p[l].ch => p[k].triggerCount < p[l].triggerCount
Before(p, q) ==
  \A k \in 1..Len(p), l \in 1..Len(q) : p[k].ch = q[l].ch => p[k].triggerCount < q[l].triggerCount
Same(p, q) ==
  /\ Len(p) = Len(q)
  /\ \A k \in 1..Len(p) : p[k].ch = q[k].ch /\ p[k].triggerCount = q[k].triggerCount

(* The places of a sequence made of two.                                   *)
LEMMA ConcatPlaces ==
  ASSUME NEW S, NEW p \in Seq(S), NEW q \in Seq(S)
  PROVE  /\ p \o q \in Seq(S)
         /\ \A k \in 1..Len(p) : k \in 1..Len(p \o q) /\ (p \o q)[k] = p[k]
         /\ \A k \in 1..Len(q) : Len(p) + k \in 1..Len(p \o q) /\ (p \o q)[Len(p) + k] = q[k]
         /\ \A i \in 1..Len(p \o q) : i \in 1..Len(p) \/ \E k \in 1..Len(q) : i = Len(p) + k
<1> DEFINE r == p \o q
           a == Len(p)
           b == Len(q)
<1>1. /\ r \in Seq(S) /\ Len(r) = a + b
      /\ \A i \in 1..a + b : r[i] = IF i <= a THEN p[i] ELSE q[i - a]
  BY ConcatProperties
<1>2. a \in Nat /\ b \in Nat BY LenProperties
<1> HIDE DEF r, a, b
<1>3. \A k \in 1..a : k \in 1..Len(r) /\ r[k] = p[k] BY <1>1, <1>2
<1>4. \A k \in 1..b : a + k \in 1..Len(r) /\ r[a + k] = q[k]
  <2> TAKE k \in 1..b
  <2>1. a + k \in 1..a + b /\ ~(a + k <= a) /\ (a + k) - a = k BY <1>2
  <2> QED BY <1>1, <2>1
<1>5. \A i \in 1..Len(r) : i \in 1..a \/ \E k \in 1..b : i = a + k
  <2> TAKE i \in 1..Len(r)
  <2>1. CASE i <= a BY <1>1, <1>2, <2>1
  <2>2. CASE ~(i <= a)
    <3>1. i - a \in 1..b /\ i = a + (i - a) BY <1>1, <1>2, <2>2
    <3> QED BY <3>1
  <2> QED BY <2>1, <2>2
<1> QED BY <1>1, <1>3, <1>4, <1>5 DEF r, a, b

(* Two sequences are in order together if each is, and one before the      *)
(* other.                                                                  *)
LEMMA ConcatRises ==
  ASSUME NEW S, NEW p \in Seq(S), NEW q \in Seq(S)
  PROVE  Rising(p \o q) <=> Rising(p) /\ Rising(q) /\ Before(p, q)
<1> DEFINE r == p \o q
           a == Len(p)
           b == Len(q)
<1>1. /\ \A k \in 1..a : k \in 1..Len(r) /\ r[k] = p[k]
      /\ \A k \in 1..b : a + k \in 1..Len(r) /\ r[a + k] = q[k]
      /\ \A i \in 1..Len(r) : i \in 1..a \/ \E k \in 1..b : i = a + k
  BY ConcatPlaces
<1>2. a \in Nat /\ b \in Nat BY LenProperties
<1> HIDE DEF r, a, b
<1>3. ASSUME Rising(r) PROVE Rising(p) /\ Rising(q) /\ Before(p, q)
  <2>1. Rising(p) BY <1>1, <1>3 DEF Rising, a
  <2>2. Rising(q)
    <3> SUFFICES ASSUME NEW k \in 1..b, NEW l \in 1..b, k < l, q[k].ch = q[l].ch
                 PROVE  q[k].triggerCount < q[l].triggerCount
      BY DEF Rising, b
    <3>1. a + k < a + l BY <1>2
    <3>2. a + k \in 1..Len(r) /\ a + l \in 1..Len(r) /\ r[a + k] = q[k] /\ r[a + l] = q[l] BY <1>1
    <3> QED BY <1>3, <3>1, <3>2 DEF Rising
  <2>3. Before(p, q)
    <3> SUFFICES ASSUME NEW k \in 1..a, NEW l \in 1..b, p[k].ch = q[l].ch
                 PROVE  p[k].triggerCount < q[l].triggerCount
      BY DEF Before, a, b
    <3>1. k < a + l BY <1>2
    <3>2. k \in 1..Len(r) /\ a + l \in 1..Len(r) /\ r[k] = p[k] /\ r[a + l] = q[l] BY <1>1
    <3> QED BY <1>3, <3>1, <3>2 DEF Rising
  <2> QED BY <2>1, <2>2, <2>3
<1>4. ASSUME Rising(p), Rising(q), Before(p, q) PROVE Rising(r)
  <2> SUFFICES ASSUME NEW i \in 1..Len(r), NEW j \in 1..Len(r), i < j, r[i].ch = r[j].ch
               PROVE  r[i].triggerCount < r[j].triggerCount
    BY DEF Rising
  <2>1. CASE i \in 1..a /\ j \in 1..a BY <1>1, <1>4, <2>1 DEF Rising, a
  <2>2. ASSUME NEW l \in 1..b, j = a + l PROVE r[i].triggerCount < r[j].triggerCount
    <3>1. CASE i \in 1..a
      <4>1. r[i] = p[i] /\ r[j] = q[l] BY <1>1, <2>2, <3>1
      <4> QED BY <1>4, <3>1, <4>1 DEF Before, a, b
    <3>2. ASSUME NEW k \in 1..b, i = a + k PROVE r[i].triggerCount < r[j].triggerCount
      <4>1. k < l BY <1>2, <2>2, <3>2
      <4>2. r[i] = q[k] /\ r[j] = q[l] BY <1>1, <2>2, <3>2
      <4> QED BY <1>4, <4>1, <4>2 DEF Rising, b
    <3> QED BY <1>1, <3>1, <3>2
  <2>3. ASSUME j \in 1..a PROVE i \in 1..a BY <1>2, <2>3
  <2> QED BY <1>1, <2>1, <2>2, <2>3
<1> QED BY <1>3, <1>4 DEF r

LEMMA ConcatBefore ==
  ASSUME NEW S, NEW p \in Seq(S), NEW q \in Seq(S), NEW t
  PROVE  /\ Before(p \o q, t) <=> Before(p, t) /\ Before(q, t)
         /\ Before(t, p \o q) <=> Before(t, p) /\ Before(t, q)
<1> DEFINE r == p \o q
           a == Len(p)
           b == Len(q)
<1>1. /\ \A k \in 1..a : k \in 1..Len(r) /\ r[k] = p[k]
      /\ \A k \in 1..b : a + k \in 1..Len(r) /\ r[a + k] = q[k]
      /\ \A i \in 1..Len(r) : i \in 1..a \/ \E k \in 1..b : i = a + k
  BY ConcatPlaces
<1> HIDE DEF r
<1>2. ASSUME Before(r, t) PROVE Before(p, t) /\ Before(q, t)
  <2>1. Before(p, t) BY <1>1, <1>2 DEF Before
  <2>2. ASSUME NEW k \in 1..b, NEW l \in 1..Len(t), q[k].ch = t[l].ch
        PROVE  q[k].triggerCount < t[l].triggerCount
    <3>1. a + k \in 1..Len(r) /\ r[a + k] = q[k] BY <1>1
    <3> QED BY <1>2, <2>2, <3>1 DEF Before
  <2> QED BY <2>1, <2>2 DEF Before
<1>3. ASSUME Before(t, r) PROVE Before(t, p) /\ Before(t, q)
  <2>1. Before(t, p) BY <1>1, <1>3 DEF Before
  <2>2. ASSUME NEW k \in 1..b, NEW l \in 1..Len(t), q[k].ch = t[l].ch
        PROVE  t[l].triggerCount < q[k].triggerCount
    <3>1. a + k \in 1..Len(r) /\ r[a + k] = q[k] BY <1>1
    <3> QED BY <1>3, <2>2, <3>1 DEF Before
  <2> QED BY <2>1, <2>2 DEF Before
<1>4. ASSUME Before(p, t), Before(q, t), NEW i \in 1..Len(r), NEW l \in 1..Len(t), r[i].ch = t[l].ch
      PROVE  r[i].triggerCount < t[l].triggerCount
  <2>1. CASE i \in 1..a BY <1>1, <1>4, <2>1 DEF Before
  <2>2. ASSUME NEW k \in 1..b, i = a + k PROVE r[i].triggerCount < t[l].triggerCount
    <3>1. r[i] = q[k] BY <1>1, <2>2
    <3> QED BY <1>4, <3>1 DEF Before
  <2> QED BY <1>1, <2>1, <2>2
<1>5. ASSUME Before(t, p), Before(t, q), NEW i \in 1..Len(r), NEW l \in 1..Len(t), r[i].ch = t[l].ch
      PROVE  t[l].triggerCount < r[i].triggerCount
  <2>1. CASE i \in 1..a BY <1>1, <1>5, <2>1 DEF Before
  <2>2. ASSUME NEW k \in 1..b, i = a + k PROVE t[l].triggerCount < r[i].triggerCount
    <3>1. r[i] = q[k] BY <1>1, <2>2
    <3> QED BY <1>5, <3>1 DEF Before
  <2> QED BY <1>1, <2>1, <2>2
<1>6. Before(p, t) /\ Before(q, t) => Before(r, t) BY <1>4 DEF Before
<1>7. Before(t, p) /\ Before(t, q) => Before(t, r) BY <1>5 DEF Before
<1> QED BY <1>2, <1>3, <1>6, <1>7 DEF r

(* The samples of two sequences together.                                  *)
LEMMA ConcatSamples ==
  ASSUME NEW S, NEW p \in Seq(S), NEW q \in Seq(S)
  PROVE  Samples(p \o q) = Samples(p) \cup Samples(q)
<1> DEFINE r == p \o q
           a == Len(p)
           b == Len(q)
<1>1. /\ \A k \in 1..a : k \in 1..Len(r) /\ r[k] = p[k]
      /\ \A k \in 1..b : a + k \in 1..Len(r) /\ r[a + k] = q[k]
      /\ \A i \in 1..Len(r) : i \in 1..a \/ \E k \in 1..b : i = a + k
  BY ConcatPlaces
<1> HIDE DEF r, a, b
<1>2. ASSUME NEW x \in Samples(r) PROVE x \in Samples(p) \cup Samples(q)
  <2>1. PICK i \in 1..Len(r) : x = Sample(r[i]) BY DEF Samples
  <2>2. CASE i \in 1..a BY <1>1, <2>1, <2>2 DEF Samples, a
  <2>3. ASSUME NEW k \in 1..b, i = a + k PROVE x \in Samples(q)
    <3>1. r[i] = q[k] BY <1>1, <2>3
    <3> QED BY <2>1, <3>1 DEF Samples, b
  <2> QED BY <1>1, <2>2, <2>3
<1>3. Samples(p) \subseteq Samples(r) BY <1>1 DEF Samples, a
<1>4. Samples(q) \subseteq Samples(r)
  <2> SUFFICES ASSUME NEW k \in 1..b PROVE Sample(q[k]) \in Samples(r) BY DEF Samples, b
  <2>1. a + k \in 1..Len(r) /\ r[a + k] = q[k] BY <1>1
  <2>2. Sample(r[a + k]) \in Samples(r) BY <2>1 DEF Samples
  <2> QED BY <2>1, <2>2
<1> QED BY <1>2, <1>3, <1>4 DEF r

(* What is said of order and samples is said of the events alone.          *)
LEMMA SameEvents ==
  ASSUME NEW p, NEW q, Same(p, q)
  PROVE  /\ Rising(p) <=> Rising(q)
         /\ \A t : (Before(p, t) <=> Before(q, t)) /\ (Before(t, p) <=> Before(t, q))
         /\ Samples(p) = Samples(q)
<1>1. Rising(p) <=> Rising(q) BY DEF Same, Rising
<1>2. \A t : (Before(p, t) <=> Before(q, t)) /\ (Before(t, p) <=> Before(t, q)) BY DEF Same, Before
<1>3. \A k \in 1..Len(p) : Sample(p[k]) = Sample(q[k]) BY DEF Same, Sample
<1>4. Samples(p) = Samples(q) BY <1>3 DEF Same, Samples
<1> QED BY <1>1, <1>2, <1>4

(* Nothing is in order, and before everything.                             *)
LEMMA NoEvents ==
  ASSUME NEW t
  PROVE  Rising(<< >>) /\ Before(<< >>, t) /\ Before(t, << >>) /\ Samples(<< >>) = {}
<1>1. Len(<< >>) = 0 /\ 1..0 = {} OBVIOUS
<1> HIDE <1>1
<1> QED BY <1>1 DEF Rising, Before, Samples

(* An event that is in one of two sequences is not in the other.           *)
LEMMA Apart ==
  ASSUME NEW S, NEW p \in Seq(S), NEW q \in Seq(S), Before(p, q),
         \A e \in S : e.triggerCount \in Nat
  PROVE  Samples(p) \cap Samples(q) = {}
<1> SUFFICES ASSUME NEW x \in Samples(p), x \in Samples(q) PROVE FALSE OBVIOUS
<1>1. PICK k \in 1..Len(p) : x = Sample(p[k]) BY DEF Samples
<1>2. PICK l \in 1..Len(q) : x = Sample(q[l]) BY DEF Samples
<1>3. p[k].ch = q[l].ch /\ p[k].triggerCount = q[l].triggerCount BY <1>1, <1>2 DEF Sample
<1>4. p[k].triggerCount \in Nat BY ElementOfSeq
<1>5. p[k].triggerCount < q[l].triggerCount BY <1>3 DEF Before
<1> QED BY <1>3, <1>4, <1>5

(* A sequence is its beginning and the rest.                               *)
LEMMA Divided ==
  ASSUME NEW S, NEW s \in Seq(S), NEW n \in 0..Len(s)
  PROVE  /\ SubSeq(s, 1, n) \in Seq(S) /\ SubSeq(s, n + 1, Len(s)) \in Seq(S)
         /\ Len(SubSeq(s, 1, n)) = n /\ \A k \in 1..n : SubSeq(s, 1, n)[k] = s[k]
         /\ s = SubSeq(s, 1, n) \o SubSeq(s, n + 1, Len(s))
<1> DEFINE a == SubSeq(s, 1, n)
           b == SubSeq(s, n + 1, Len(s))
           L == Len(s)
<1>1. L \in Nat /\ n \in Nat /\ n <= L BY LenProperties
<1>2. /\ a \in Seq(S) /\ Len(a) = (IF 1 <= n THEN n - 1 + 1 ELSE 0)
      /\ \A i \in 1..n - 1 + 1 : a[i] = s[1 + i - 1]
  BY <1>1, PartOfSeq
<1>3. b \in Seq(S) BY <1>1, PartOfSeq
<1>4. a \o b = SubSeq(s, 1, L)
  <2>1. 1 \in 1..L + 1 /\ n \in 1 - 1..L /\ L \in n..L BY <1>1
  <2> QED BY <2>1, ConcatAdjacentSubSeq
<1>5. SubSeq(s, 1, L) = s BY SubSeqFull
<1> HIDE DEF a, b, L
<1>6. Len(a) = n /\ \A k \in 1..n : a[k] = s[k]
  <2>1. n - 1 + 1 = n /\ \A i \in 1..n : 1 + i - 1 = i BY <1>1
  <2>2. (IF 1 <= n THEN n ELSE 0) = n BY <1>1
  <2> QED BY <1>2, <2>1, <2>2
<1> QED BY <1>2, <1>3, <1>4, <1>5, <1>6 DEF a, b, L
-----------------------------------------------------------------------------
(* The fate of every event, step by step.                                  *)

Anything == Decoded \cup Event
Identities == Channels \X (1..MaxEvents)

(* The parts of FatesInv, of the events f of the file, e in hand and g in  *)
(* the EventFIFO, the buffers w of the channels, their trigger counts c,   *)
(* the fates h and the row s at which a write has failed.                  *)
Buffered(w, c) ==
  \A ch \in Channels : \A k \in 1..Len(w[ch]) :
    /\ w[ch][k].ch = ch
    /\ w[ch][k].triggerCount + Len(w[ch]) = c[ch] + k
Placed(ids, w, c, h) ==
  \A ch \in Channels, n \in 1..MaxEvents :
    /\ <<ch, n>> \in ids <=> n + Len(w[ch]) <= c[ch] /\ h[<<ch, n>>] = "none"
    /\ h[<<ch, n>>] # "none" => n + Len(w[ch]) <= c[ch]
Given(f, h, s) ==
  \A k \in 1..Len(f) : h[Sample(f[k])] = IF s = 0 \/ k < s THEN "written" ELSE "unwritten"
Arranged(f, e, g, w, c, h, s) ==
  /\ Rising(f) /\ Rising(e) /\ Rising(g) /\ Before(f, e) /\ Before(f, g) /\ Before(e, g)
  /\ Buffered(w, c)
  /\ Placed(Samples(e) \cup Samples(g), w, c, h)
  /\ Given(f, h, s)

(* The events on their way, and those of the open file, are of a channel   *)
(* and have a number.                                                      *)
OnPath ==
  /\ filled \in Seq(Anything) /\ events \in Seq(Anything) /\ fifo \in Seq(Anything)
  /\ \A ch \in Channels : waiting[ch] \in Seq(Event) /\ triggerCount[ch] \in Nat

LEMMA PathTypes ==
  ASSUME TypeOK
  PROVE  OnPath
<1>1. Decoded \subseteq Anything /\ Event \subseteq Anything BY DEF Anything
<1>2. filled \in Seq(Anything) /\ events \in Seq(Anything) /\ fifo \in Seq(Anything)
  BY <1>1, SeqMonotonic DEF TypeOK
<1>3. \A ch \in Channels : waiting[ch] \in Seq(Event) /\ triggerCount[ch] \in Nat
  BY Sizes DEF TypeOK
<1> QED BY <1>2, <1>3 DEF OnPath

LEMMA PathTypesNext ==
  ASSUME TypeOK'
  PROVE  OnPath'
<1>1. Decoded \subseteq Anything /\ Event \subseteq Anything BY DEF Anything
<1>2. filled' \in Seq(Anything) /\ events' \in Seq(Anything) /\ fifo' \in Seq(Anything)
  <2>1. \A t : (t \in Seq(Decoded) \/ t \in Seq(Event)) => t \in Seq(Anything)
    BY <1>1, SeqMonotonic
  <2>2. filled' \in Seq(Decoded) /\ events' \in Seq(Decoded) /\ fifo' \in Seq(Event)
    BY DEF TypeOK
  <2> QED BY <2>1, <2>2
<1>3. \A ch \in Channels : waiting'[ch] \in Seq(Event) /\ triggerCount'[ch] \in Nat
  <2>1. /\ waiting' \in [Channels -> Seq(Event)]
        /\ triggerCount' \in [Channels -> 0..MaxEvents]
    BY DEF TypeOK
  <2> QED BY <2>1, Sizes
<1> QED BY <1>2, <1>3 DEF OnPath

LEMMA Identified ==
  /\ \A e \in Anything : /\ e.ch \in Channels /\ e.triggerCount \in 1..MaxEvents
                        /\ e.triggerCount \in Nat /\ Sample(e) \in Identities
  /\ \A s \in Seq(Anything) : Samples(s) \subseteq Identities
<1>1. \A e \in Event : e.ch \in Channels /\ e.triggerCount \in 1..MaxEvents BY DEF Event
<1>2. \A e \in Decoded : e.ch \in Channels /\ e.triggerCount \in 1..MaxEvents BY DEF Decoded
<1>3. \A e \in Anything : /\ e.ch \in Channels /\ e.triggerCount \in 1..MaxEvents
                         /\ e.triggerCount \in Nat /\ Sample(e) \in Identities
  BY <1>1, <1>2, Sizes DEF Anything, Identities, Sample
<1>4. ASSUME NEW s \in Seq(Anything) PROVE Samples(s) \subseteq Identities
  <2> SUFFICES ASSUME NEW k \in 1..Len(s) PROVE Sample(s[k]) \in Identities BY DEF Samples
  <2>1. s[k] \in Anything BY ElementOfSeq
  <2> QED BY <1>3, <2>1
<1> QED BY <1>3, <1>4

(* FatesInv is that, of the state and of the next one.                     *)
LEMMA PathOrder ==
  ASSUME NEW S, NEW f \in Seq(S), NEW e \in Seq(S), NEW g \in Seq(S)
  PROVE  Rising(f \o e \o g) <=>
           /\ Rising(f) /\ Rising(e) /\ Rising(g)
           /\ Before(f, e) /\ Before(f, g) /\ Before(e, g)
<1>1. f \o e \in Seq(S) BY ConcatProperties
<1>2. Rising((f \o e) \o g) <=> Rising(f \o e) /\ Rising(g) /\ Before(f \o e, g)
  BY <1>1, ConcatRises
<1>3. Rising(f \o e) <=> Rising(f) /\ Rising(e) /\ Before(f, e) BY ConcatRises
<1>4. Before(f \o e, g) <=> Before(f, g) /\ Before(e, g) BY ConcatBefore
<1> QED BY <1>2, <1>3, <1>4

LEMMA InParts ==
  ASSUME OnPath
  PROVE  FatesInv <=>
           /\ Arranged(filled, events, fifo, waiting, triggerCount, fate, fitsStatus)
           /\ HandBounded /\ Charged
<1> DEFINE p == Path
<1>1. p = filled \o events \o fifo BY DEF Path
<1>2. InOrder <=> Rising(p) /\ Buffered(waiting, triggerCount) BY DEF InOrder, Rising, Buffered
<1> HIDE DEF p
<1>3. Rising(p) <=> /\ Rising(filled) /\ Rising(events) /\ Rising(fifo)
                    /\ Before(filled, events) /\ Before(filled, fifo) /\ Before(events, fifo)
  BY <1>1, PathOrder DEF OnPath
<1>4. InOnePlace <=> Placed(Samples(events \o fifo), waiting, triggerCount, fate)
  BY DEF InOnePlace, HasLeft, Placed
<1>5. Samples(events \o fifo) = Samples(events) \cup Samples(fifo) BY ConcatSamples DEF OnPath
<1>6. FilledFates <=> Given(filled, fate, fitsStatus) BY DEF FilledFates, Given
<1> QED BY <1>2, <1>3, <1>4, <1>5, <1>6 DEF FatesInv, Arranged

LEMMA InPartsNext ==
  ASSUME OnPath',
         Arranged(filled', events', fifo', waiting', triggerCount', fate', fitsStatus'),
         HandBounded', Charged'
  PROVE  FatesInv'
<1> DEFINE f == filled'
           e == events'
           g == fifo'
           p == Path'
<1>1. p = f \o e \o g /\ f \in Seq(Anything) /\ e \in Seq(Anything) /\ g \in Seq(Anything)
  BY DEF Path, OnPath
<1>2. Rising(p) /\ Buffered(waiting', triggerCount') => InOrder' BY DEF InOrder, Rising, Buffered
<1>3. Placed(Samples(e \o g), waiting', triggerCount', fate') => InOnePlace'
  BY DEF InOnePlace, HasLeft, Placed
<1>4. Given(f, fate', fitsStatus') => FilledFates' BY DEF FilledFates, Given
<1> HIDE DEF f, e, g, p
<1>5. Arranged(f, e, g, waiting', triggerCount', fate', fitsStatus') BY DEF f, e, g
<1>6. Rising(p) BY <1>1, <1>5, PathOrder DEF Arranged
<1>7. Samples(e \o g) = Samples(e) \cup Samples(g) BY <1>1, ConcatSamples
<1> QED BY <1>2, <1>3, <1>4, <1>5, <1>6, <1>7 DEF FatesInv, Arranged

(* What the events in a sequence may add to a set of events.               *)
LEMMA FewMore ==
  ASSUME NEW D, IsFiniteSet(D), NEW S, NEW s \in Seq(S), NEW E, E \subseteq D \cup Samples(s)
  PROVE  /\ Cardinality(E) \in Nat /\ Cardinality(D) \in Nat
         /\ Cardinality(E) <= Cardinality(D) + Len(s)
<1> DEFINE I == 1..Len(s)
           X == Samples(s)
           f == [k \in I |-> Sample(s[k])]
<1>1. Len(s) \in Nat BY LenProperties
<1>2. IsFiniteSet(I) /\ Cardinality(I) = Len(s)
  <2>1. 1 \in Int /\ Len(s) \in Int BY <1>1
  <2>2. IsFiniteSet(I) /\ Cardinality(I) = IF 1 > Len(s) THEN 0 ELSE Len(s) - 1 + 1
    BY <2>1, FS_Interval
  <2>3. (IF 1 > Len(s) THEN 0 ELSE Len(s) - 1 + 1) = Len(s) BY <1>1
  <2> QED BY <2>2, <2>3
<1>3. f \in Surjection(I, X) BY DEF Surjection, Samples
<1> HIDE DEF I, X, f
<1>4. IsFiniteSet(X) /\ Cardinality(X) <= Len(s) BY <1>2, <1>3, FS_Surjection
<1> DEFINE U == D \cup X
<1>5. /\ IsFiniteSet(U)
      /\ Cardinality(U) = Cardinality(D) + Cardinality(X) - Cardinality(D \cap X)
  BY <1>4, FS_Union
<1>6. IsFiniteSet(D \cap X) BY <1>4, FS_Subset
<1>7. E \in SUBSET U BY DEF X
<1> HIDE DEF U
<1>8. IsFiniteSet(E) /\ Cardinality(E) <= Cardinality(U) BY <1>5, <1>7, FS_Subset
<1>9. /\ Cardinality(E) \in Nat /\ Cardinality(D) \in Nat /\ Cardinality(U) \in Nat
      /\ Cardinality(X) \in Nat /\ Cardinality(D \cap X) \in Nat
  BY <1>4, <1>5, <1>6, <1>8, FS_CardinalityType
<1> QED BY <1>1, <1>4, <1>5, <1>8, <1>9

LEMMA DestroyedFinite ==
  IsFiniteSet(Destroyed)
<1>1. IsFiniteSet(Channels) /\ IsFiniteSet(1..MaxEvents)
  <2>1. 1 \in Int /\ MaxEvents \in Int /\ NumberOfChannels \in Int BY Sizes
  <2> QED BY <2>1, FS_Interval DEF Channels
<1>2. IsFiniteSet(Channels \X (1..MaxEvents)) BY <1>1, FS_Product
<1>3. Destroyed \in SUBSET (Channels \X (1..MaxEvents)) BY DEF Destroyed
<1> QED BY <1>2, <1>3, FS_Subset

(* The charge as long as nothing is destroyed and no write fails, and when *)
(* the events of a sequence are.                                           *)
LEMMA NothingCharged ==
  ASSUME TypeOK, Charged, Destroyed' \subseteq Destroyed, UNCHANGED faults,
         fitsStatus' = fitsStatus \/ fitsStatus' = 0
  PROVE  Charged'
<1> DEFINE c == Cardinality(Destroyed)
           d == Cardinality(Destroyed)'
           m == faults * ReadEvents
           a == IF fitsStatus = 0 THEN 0 ELSE ReadEvents
           b == IF fitsStatus' = 0 THEN 0 ELSE ReadEvents
<1>1. c \in Nat /\ d \in Nat /\ d <= c
  <2>1. IsFiniteSet(Destroyed) BY DestroyedFinite
  <2>2. Destroyed' \in SUBSET Destroyed OBVIOUS
  <2>3. IsFiniteSet(Destroyed') /\ Cardinality(Destroyed') <= Cardinality(Destroyed)
    BY <2>1, <2>2, FS_Subset
  <2> QED BY <2>1, <2>3, FS_CardinalityType
<1>2. ReadEvents \in Nat /\ b <= a /\ a \in Nat /\ b \in Nat
  <2>1. ReadEvents \in Nat OBVIOUS
  <2>2. CASE fitsStatus' = fitsStatus BY <2>1, <2>2
  <2>3. CASE fitsStatus' = 0 BY <2>1, <2>3
  <2> QED BY <2>1, <2>2, <2>3
<1>3. m \in Nat
  <2>1. faults \in Nat BY Sizes DEF TypeOK
  <2> QED BY <1>2, <2>1
<1>4. c + a <= m BY DEF Charged
<1> HIDE DEF a, b, c, d, m
<1>5. d + b <= m BY <1>1, <1>2, <1>3, <1>4
<1> QED BY <1>5 DEF Charged, a, b, c, d, m

LEMMA EventsCharged ==
  ASSUME TypeOK, Charged, NEW s \in Seq(Anything), Len(s) <= ReadEvents,
         Destroyed' \subseteq Destroyed \cup Samples(s),
         \/ faults' = faults + 1 /\ (Len(s) = 0 \/ fitsStatus' = fitsStatus \/ fitsStatus' = 0)
         \/ faults' = faults /\ fitsStatus # 0 /\ fitsStatus' = 0
  PROVE  Charged'
<1> DEFINE c == Cardinality(Destroyed)
           d == Cardinality(Destroyed)'
           m == faults * ReadEvents
           n == faults' * ReadEvents
           a == IF fitsStatus = 0 THEN 0 ELSE ReadEvents
           b == IF fitsStatus' = 0 THEN 0 ELSE ReadEvents
<1>1. c \in Nat /\ d \in Nat /\ d <= c + Len(s)
  <2>1. IsFiniteSet(Destroyed) BY DestroyedFinite
  <2> QED BY <2>1, FewMore
<1>2. ReadEvents \in Nat /\ faults \in Nat /\ Len(s) \in Nat
  BY Sizes, LenProperties DEF TypeOK
<1>3. \/ n = m + ReadEvents /\ (Len(s) = 0 \/ b <= a) /\ b <= ReadEvents
      \/ n = m /\ a = ReadEvents /\ b = 0
  <2>1. (faults + 1) * ReadEvents = faults * ReadEvents + ReadEvents BY <1>2
  <2> QED BY <1>2, <2>1
<1>4. a \in Nat /\ b \in Nat /\ m \in Nat BY <1>2
<1>5. c + a <= m BY DEF Charged
<1> HIDE DEF a, b, c, d, m, n
<1>6. d + b <= n BY <1>1, <1>2, <1>3, <1>4, <1>5
<1> QED BY <1>6 DEF Charged, a, b, c, d, n

-----------------------------------------------------------------------------
(* The moves.                                                              *)

(* x is a new event of channel ch, which makes the buffers v of w and the  *)
(* counts d of c.                                                          *)
Newest(x, ch, w, c, v, d) ==
  /\ x.ch = ch /\ x.triggerCount = c[ch] + 1 /\ d[ch] = c[ch] + 1
  /\ Len(v[ch]) = Len(w[ch]) + 1 /\ v[ch][Len(w[ch]) + 1] = x
  /\ \A k \in 1..Len(w[ch]) : v[ch][k] = w[ch][k]
  /\ \A y \in Channels \ {ch} : v[y] = w[y] /\ d[y] = c[y]

(* x is the oldest event of channel ch, which has the buffer w[ch] with it *)
(* and v[ch] without.                                                      *)
Oldest(x, ch, w, v) ==
  /\ x.ch = ch /\ x.triggerCount = w[ch][1].triggerCount
  /\ Len(w[ch]) = Len(v[ch]) + 1
  /\ \A k \in 1..Len(v[ch]) : v[ch][k] = w[ch][k + 1]
  /\ \A y \in Channels \ {ch} : v[y] = w[y]

(* An event recorded is numbered after those that wait in its channel, and *)
(* is not on the way yet.                                                  *)
LEMMA RecordedIsArranged ==
  ASSUME NEW f, NEW e, NEW g, NEW w, NEW c, NEW h, NEW s, Arranged(f, e, g, w, c, h, s),
         NEW v, NEW d, NEW x, NEW ch \in Channels, Newest(x, ch, w, c, v, d),
         \A y \in Channels : w[y] \in Seq(Event) /\ c[y] \in Nat
  PROVE  Arranged(f, e, g, v, d, h, s)
<1> DEFINE a == Len(w[ch])
           b == c[ch]
<1>1. /\ a \in Nat /\ b \in Nat /\ d[ch] = b + 1 /\ Len(v[ch]) = a + 1 /\ v[ch][a + 1] = x
      /\ \A k \in 1..a : v[ch][k] = w[ch][k]
      /\ x.ch = ch /\ x.triggerCount = b + 1
      /\ \A y \in Channels \ {ch} : v[y] = w[y] /\ d[y] = c[y]
  BY LenProperties DEF Newest
<1>2. ASSUME NEW y \in Channels, NEW k \in 1..Len(v[y])
      PROVE  v[y][k].ch = y /\ v[y][k].triggerCount + Len(v[y]) = d[y] + k
  <2>1. CASE y # ch BY <1>1, <2>1, ZenonT(30) DEF Arranged, Buffered
  <2>2. CASE y = ch /\ k = a + 1
    <3> HIDE DEF a, b
    <3>1. (b + 1) + (a + 1) = (b + 1) + k BY <1>1, <2>2
    <3> QED BY <1>1, <2>2, <3>1
  <2>3. CASE y = ch /\ k # a + 1
    <3>1. k \in 1..a /\ v[ch][k] = w[ch][k]
      <4>1. k \in 1..Len(v[ch]) BY <2>3
      <4> HIDE DEF a
      <4>2. k \in 1..a BY <1>1, <2>3, <4>1
      <4> QED BY <1>1, <4>2
    <3>2. w[ch][k].ch = ch /\ w[ch][k].triggerCount + a = b + k
      BY <3>1 DEF Arranged, Buffered
    <3> DEFINE n == w[ch][k].triggerCount
    <3>3. n + a = b + k BY <3>2
    <3>4. n \in Nat
      <4>1. w[ch][k] \in Event BY <3>1, ElementOfSeq
      <4> QED BY <4>1, Sizes DEF Event
    <3> HIDE DEF n, a, b
    <3>5. n + (a + 1) = (b + 1) + k BY <1>1, <3>1, <3>3, <3>4
    <3> QED BY <1>1, <2>3, <3>1, <3>2, <3>5 DEF n
  <2> QED BY <2>1, <2>2, <2>3
<1>3. Buffered(v, d) BY <1>2 DEF Buffered
<1>4. ASSUME NEW y \in Channels, NEW n \in 1..MaxEvents
      PROVE  n + Len(v[y]) <= d[y] <=> n + Len(w[y]) <= c[y]
  <2>1. CASE y # ch BY <1>1, <2>1
  <2>2. CASE y = ch
    <3> HIDE DEF a, b
    <3>1. n + (a + 1) <= b + 1 <=> n + a <= b BY <1>1, Sizes
    <3> QED BY <1>1, <2>2, <3>1 DEF a, b
  <2> QED BY <2>1, <2>2
<1>5. Placed(Samples(e) \cup Samples(g), v, d, h) BY <1>4 DEF Arranged, Placed
<1> QED BY <1>3, <1>5 DEF Arranged

(* The manager sends the oldest event of a channel after all those of the  *)
(* channel that it has sent before.                                        *)
LEMMA SentIsArranged ==
  ASSUME NEW f \in Seq(Anything), NEW e \in Seq(Anything), NEW g \in Seq(Anything),
         NEW w, NEW c, NEW h, NEW s, Arranged(f, e, g, w, c, h, s),
         NEW v, NEW x \in Anything, NEW ch \in Channels, Oldest(x, ch, w, v),
         \A y \in Channels : w[y] \in Seq(Event) /\ v[y] \in Seq(Event) /\ c[y] \in Nat
  PROVE  Arranged(f, e, g \o <<x>>, v, c, h, s)
<1> DEFINE a == Len(v[ch])
           b == c[ch]
           n == x.triggerCount
<1>1. /\ a \in Nat /\ b \in Nat /\ Len(w[ch]) = a + 1
      /\ \A k \in 1..a : v[ch][k] = w[ch][k + 1]
      /\ \A y \in Channels \ {ch} : v[y] = w[y]
  BY LenProperties DEF Oldest
<1>2. x.ch = ch /\ n \in 1..MaxEvents /\ n + (a + 1) = b + 1
  <2>1. 1 \in 1..Len(w[ch]) BY <1>1
  <2>2. w[ch][1].triggerCount + Len(w[ch]) = c[ch] + 1 BY <2>1 DEF Arranged, Buffered
  <2> QED BY <1>1, <2>2, Identified DEF Oldest
<1>3. n \in Nat /\ MaxEvents \in Nat BY <1>2, Sizes
<1>4. ASSUME NEW y \in Channels, NEW k \in 1..Len(v[y])
      PROVE  v[y][k].ch = y /\ v[y][k].triggerCount + Len(v[y]) = c[y] + k
  <2>1. CASE y # ch BY <1>1, <2>1, ZenonT(30) DEF Arranged, Buffered
  <2>2. CASE y = ch
    <3> DEFINE m == w[ch][k + 1].triggerCount
    <3>1. k \in 1..a BY <2>2
    <3>2. k + 1 \in 1..Len(w[ch])
      <4> HIDE DEF a
      <4> QED BY <1>1, <3>1
    <3>3. w[ch][k + 1].ch = ch /\ m + Len(w[ch]) = b + (k + 1) BY <3>2 DEF Arranged, Buffered
    <3>4. m \in Nat
      <4>1. w[ch][k + 1] \in Event BY <3>2, ElementOfSeq
      <4>2. w[ch][k + 1] \in Anything BY <4>1 DEF Anything
      <4> QED BY <4>2, Identified
    <3>5. v[ch][k] = w[ch][k + 1] BY <1>1, <3>1
    <3> HIDE DEF m, a, b
    <3>6. m + (a + 1) = b + (k + 1) BY <1>1, <3>3
    <3>7. m + a = b + k BY <1>1, <3>1, <3>4, <3>6
    <3> QED BY <2>2, <3>3, <3>5, <3>7 DEF m, a, b
  <2> QED BY <2>1, <2>2
<1>5. Buffered(v, c) BY <1>4 DEF Buffered
<1>6. ASSUME NEW y \in Channels, NEW m \in 1..MaxEvents
      PROVE  /\ m + Len(v[y]) <= c[y] <=> m + Len(w[y]) <= c[y] \/ (y = ch /\ m = n)
             /\ y = ch /\ m + Len(w[y]) <= c[y] => m < n
  <2>1. CASE y # ch BY <1>1, <2>1
  <2>2. CASE y = ch
    <3> HIDE DEF a, b, n
    <3>1. m \in Nat BY <1>3
    <3>2. n = b - a BY <1>1, <1>2, <1>3
    <3>3. m + a <= b <=> m <= n BY <1>1, <1>3, <3>1, <3>2
    <3>4. m + (a + 1) <= b <=> m < n BY <1>1, <1>3, <3>1, <3>2
    <3>5. m <= n <=> m < n \/ m = n BY <1>3, <3>1
    <3> QED BY <1>1, <2>2, <3>3, <3>4, <3>5 DEF a, b
  <2> QED BY <2>1, <2>2
<1> DEFINE ids == Samples(e) \cup Samples(g)
<1>7. h[<<ch, n>>] = "none" /\ <<ch, n>> \notin ids
  <2>1. ~(n + Len(w[ch]) <= c[ch])
    <3> HIDE DEF a, b, n
    <3>1. ~(n + (a + 1) <= b) BY <1>1, <1>2, <1>3
    <3> QED BY <1>1, <3>1 DEF a, b, n
  <2> HIDE DEF n, ids
  <2> QED BY <1>2, <2>1 DEF Arranged, Placed, ids
<1>8. Samples(<<x>>) = {<<ch, n>>}
  <2>1. Len(<<x>>) = 1 /\ <<x>>[1] = x /\ 1..1 = {1} OBVIOUS
  <2> QED BY <1>2, <2>1 DEF Samples, Sample
<1>9. <<x>> \in Seq(Anything) OBVIOUS
<1>10. Placed(Samples(e) \cup Samples(g \o <<x>>), v, c, h)
  <2>1. Samples(g \o <<x>>) = Samples(g) \cup {<<ch, n>>}
    <3>1. \A q \in Seq(Anything) : Samples(g \o q) = Samples(g) \cup Samples(q) BY ConcatSamples
    <3> HIDE DEF n
    <3> QED BY <1>8, <1>9, <3>1, Zenon
  <2>2. Samples(e) \cup Samples(g \o <<x>>) = ids \cup {<<ch, n>>} BY <2>1
  <2>3. Placed(ids, w, c, h) BY DEF Arranged
  <2> HIDE DEF ids, n
  <2>4. ASSUME NEW y \in Channels, NEW m \in 1..MaxEvents
        PROVE  /\ <<y, m>> \in ids \cup {<<ch, n>>} <=>
                    m + Len(v[y]) <= c[y] /\ h[<<y, m>>] = "none"
               /\ h[<<y, m>>] # "none" => m + Len(v[y]) <= c[y]
    <3>1. /\ <<y, m>> \in ids <=> m + Len(w[y]) <= c[y] /\ h[<<y, m>>] = "none"
          /\ h[<<y, m>>] # "none" => m + Len(w[y]) <= c[y]
      BY <2>3 DEF Placed
    <3>2. m + Len(v[y]) <= c[y] <=> m + Len(w[y]) <= c[y] \/ (y = ch /\ m = n) BY <1>6
    <3>3. <<y, m>> = <<ch, n>> <=> y = ch /\ m = n OBVIOUS
    <3> QED BY <1>7, <3>1, <3>2, <3>3, Zenon
  <2> QED BY <2>2, <2>4 DEF Placed
<1>11. ASSUME NEW t \in Seq(Anything),
              \A i \in Samples(t) : i \in ids \/ h[i] # "none"
       PROVE  Before(t, <<x>>)
  <2> SUFFICES ASSUME NEW k \in 1..Len(t), t[k].ch = ch PROVE t[k].triggerCount < n
    BY <1>2 DEF Before
  <2>1. t[k] \in Anything BY ElementOfSeq
  <2> DEFINE m == t[k].triggerCount
  <2>2. m \in 1..MaxEvents /\ Sample(t[k]) = <<ch, m>> BY <2>1, Identified DEF Sample
  <2>3. <<ch, m>> \in ids \/ h[<<ch, m>>] # "none"
    <3>1. Sample(t[k]) \in Samples(t) BY DEF Samples
    <3> QED BY <1>11, <2>2, <3>1
  <2> HIDE DEF m, ids, n
  <2>4. m + Len(w[ch]) <= c[ch] BY <2>2, <2>3 DEF Arranged, Placed, ids
  <2> QED BY <1>6, <2>2, <2>4 DEF m
<1>12. Before(e, <<x>>) BY <1>11
<1>13. Before(g, <<x>>) BY <1>11
<1>14. Before(f, <<x>>)
  <2>1. \A i \in Samples(f) : h[i] # "none"
    <3> SUFFICES ASSUME NEW k \in 1..Len(f) PROVE h[Sample(f[k])] # "none" BY DEF Samples
    <3> QED BY DEF Arranged, Given
  <2> QED BY <1>11, <2>1
<1>15. Rising(<<x>>) BY DEF Rising
<1>16. Rising(g \o <<x>>) BY <1>9, <1>13, <1>15, ConcatRises DEF Arranged
<1>17. Before(f, g \o <<x>>) /\ Before(e, g \o <<x>>)
  BY <1>9, <1>12, <1>14, ConcatBefore DEF Arranged
<1> QED BY <1>5, <1>10, <1>16, <1>17 DEF Arranged

(* Events on their way that meet a fate are on their way no more, and the  *)
(* events of the file keep theirs.                                         *)
MetBy(A, end, h, k) == \A i \in Identities : k[i] = IF i \in A THEN end ELSE h[i]

LEMMA MetIsPlaced ==
  ASSUME NEW A, NEW B, A \cap B = {}, NEW w, NEW c, NEW h, Placed(A \cup B, w, c, h),
         NEW end, end # "none", NEW k, MetBy(A, end, h, k)
  PROVE  Placed(B, w, c, k)
<1> SUFFICES ASSUME NEW ch \in Channels, NEW n \in 1..MaxEvents
             PROVE  /\ <<ch, n>> \in B <=> n + Len(w[ch]) <= c[ch] /\ k[<<ch, n>>] = "none"
                    /\ k[<<ch, n>>] # "none" => n + Len(w[ch]) <= c[ch]
  BY DEF Placed
<1> DEFINE i == <<ch, n>>
           left == n + Len(w[ch]) <= c[ch]
<1>1. i \in Identities BY DEF Identities
<1>2. (i \in A \cup B <=> left /\ h[i] = "none") /\ (h[i] # "none" => left) BY DEF Placed
<1>3. k[i] = IF i \in A THEN end ELSE h[i] BY <1>1 DEF MetBy
<1> HIDE DEF i, left
<1>4. (i \in B <=> left /\ k[i] = "none") /\ (k[i] # "none" => left)
  <2>1. CASE i \in A
    <3>1. i \notin B BY <2>1
    <3> QED BY <1>2, <1>3, <2>1, <3>1
  <2>2. CASE i \notin A BY <1>2, <1>3, <2>2
  <2> QED BY <2>1, <2>2
<1> QED BY <1>4 DEF i, left

LEMMA MetIsGiven ==
  ASSUME NEW f \in Seq(Anything), NEW h, NEW s, Given(f, h, s),
         NEW A, NEW B, NEW w, NEW c, Placed(A \cup B, w, c, h), NEW end, NEW k, MetBy(A, end, h, k)
  PROVE  Given(f, k, s)
<1> SUFFICES ASSUME NEW l \in 1..Len(f) PROVE k[Sample(f[l])] = h[Sample(f[l])] BY DEF Given
<1>1. f[l] \in Anything BY ElementOfSeq
<1> DEFINE ch == f[l].ch
           n == f[l].triggerCount
<1>2. ch \in Channels /\ n \in 1..MaxEvents /\ Sample(f[l]) = <<ch, n>> /\ <<ch, n>> \in Identities
  BY <1>1, Identified DEF Sample
<1>3. h[<<ch, n>>] # "none" BY <1>2 DEF Given
<1> HIDE DEF ch, n
<1>4. <<ch, n>> \notin A BY <1>2, <1>3 DEF Placed
<1> QED BY <1>2, <1>4 DEF MetBy

(* The program is gone with the events in hand.                            *)
LEMMA GoneIsArranged ==
  ASSUME NEW f \in Seq(Anything), NEW e \in Seq(Anything), NEW g \in Seq(Anything),
         NEW w, NEW c, NEW h, NEW s, Arranged(f, e, g, w, c, h, s),
         NEW k, MetBy(Samples(e), "destroyed", h, k)
  PROVE  Arranged(<< >>, << >>, g, w, c, k, 0)
<1>1. Samples(e) \cap Samples(g) = {} BY Apart, Identified DEF Arranged
<1>2. Placed(Samples(g), w, c, k) BY <1>1, MetIsPlaced DEF Arranged
<1>3. Samples(<< >>) \cup Samples(g) = Samples(g) BY NoEvents
<1>4. Given(<< >>, k, 0) BY DEF Given
<1>5. /\ Rising(<< >>) /\ Before(<< >>, << >>) /\ Before(<< >>, g) BY NoEvents
<1>6. Placed(Samples(<< >>) \cup Samples(g), w, c, k) BY <1>2, <1>3
<1> QED BY <1>4, <1>5, <1>6 DEF Arranged

(* A reply is lost with the beginning of the EventFIFO.                    *)
LEMMA LostIsArranged ==
  ASSUME NEW f \in Seq(Anything), NEW a \in Seq(Anything), NEW b \in Seq(Anything),
         NEW w, NEW c, NEW h, NEW s, Arranged(f, << >>, a \o b, w, c, h, s),
         NEW k, MetBy(Samples(a), "destroyed", h, k)
  PROVE  Arranged(f, << >>, b, w, c, k, s)
<1>1. Rising(f) /\ Rising(a) /\ Rising(b) /\ Before(a, b) /\ Before(f, b)
  BY ConcatRises, ConcatBefore DEF Arranged
<1>2. Samples(a) \cap Samples(b) = {} BY <1>1, Apart, Identified
<1>3. Samples(<< >>) \cup Samples(a \o b) = Samples(a) \cup Samples(b)
  <2>1. Samples(a \o b) = Samples(a) \cup Samples(b) BY ConcatSamples
  <2>2. Samples(<< >>) = {} BY NoEvents
  <2> QED BY <2>1, <2>2
<1>4. Placed(Samples(a) \cup Samples(b), w, c, h) BY <1>3 DEF Arranged
<1>5. Placed(Samples(b), w, c, k) BY <1>2, <1>4, MetIsPlaced
<1>6. Given(f, k, s) BY <1>4, MetIsGiven DEF Arranged
<1>7. Samples(<< >>) \cup Samples(b) = Samples(b) BY NoEvents
<1>8. Placed(Samples(<< >>) \cup Samples(b), w, c, k) BY <1>5, <1>7
<1>9. Rising(<< >>) /\ Before(f, << >>) /\ Before(<< >>, b) BY NoEvents
<1> QED BY <1>1, <1>6, <1>8, <1>9 DEF Arranged

(* A read takes the beginning of the EventFIFO into the hand.              *)
LEMMA ReadIsArranged ==
  ASSUME NEW f \in Seq(Anything), NEW a \in Seq(Anything), NEW b \in Seq(Anything),
         NEW w, NEW c, NEW h, NEW s, Arranged(f, << >>, a \o b, w, c, h, s),
         NEW e, Same(e, a)
  PROVE  Arranged(f, e, b, w, c, h, s)
<1>1. /\ Rising(f) /\ Rising(a) /\ Rising(b) /\ Before(a, b) /\ Before(f, a) /\ Before(f, b)
  BY ConcatRises, ConcatBefore DEF Arranged
<1>2. /\ Rising(e) /\ Before(e, b) /\ Before(f, e) /\ Samples(e) = Samples(a)
  BY <1>1, SameEvents
<1>3. Samples(<< >>) \cup Samples(a \o b) = Samples(e) \cup Samples(b)
  <2>1. Samples(a \o b) = Samples(a) \cup Samples(b) BY ConcatSamples
  <2>2. Samples(<< >>) = {} BY NoEvents
  <2> QED BY <1>2, <2>1, <2>2
<1>4. Placed(Samples(e) \cup Samples(b), w, c, h) BY <1>3 DEF Arranged
<1> QED BY <1>1, <1>2, <1>4 DEF Arranged

(* A file is given one row more; it goes well, or it is the first at which *)
(* a write fails, or a write has failed before.                            *)
LEMMA OneMoreGiven ==
  ASSUME NEW f \in Seq(Anything), NEW r \in Seq(Anything), Len(r) = 1,
         NEW h, NEW s \in Nat, Given(f, h, s), s <= Len(f),
         NEW t \in Nat, t = s \/ (s = 0 /\ t = Len(f) + 1),
         h[Sample(r[1])] = IF t = 0 THEN "written" ELSE "unwritten"
  PROVE  Given(f \o r, h, t)
<1> DEFINE fr == f \o r
           n == Len(f)
<1>1. n \in Nat BY LenProperties
<1>2. /\ \A j \in 1..n : j \in 1..Len(fr) /\ fr[j] = f[j]
      /\ \A j \in 1..Len(r) : n + j \in 1..Len(fr) /\ fr[n + j] = r[j]
      /\ \A i \in 1..Len(fr) : i \in 1..n \/ \E j \in 1..Len(r) : i = n + j
  <2>1. \A p, q \in Seq(Anything) :
          /\ \A j \in 1..Len(p) : j \in 1..Len(p \o q) /\ (p \o q)[j] = p[j]
          /\ \A j \in 1..Len(q) : Len(p) + j \in 1..Len(p \o q) /\ (p \o q)[Len(p) + j] = q[j]
          /\ \A i \in 1..Len(p \o q) : i \in 1..Len(p) \/ \E j \in 1..Len(q) : i = Len(p) + j
    BY ConcatPlaces
  <2> QED BY <2>1, Zenon
<1>3. \A j \in 1..n : h[Sample(f[j])] = IF s = 0 \/ j < s THEN "written" ELSE "unwritten"
  BY DEF Given
<1> HIDE DEF fr
<1>4. ASSUME NEW i \in 1..Len(fr)
      PROVE  h[Sample(fr[i])] = IF t = 0 \/ i < t THEN "written" ELSE "unwritten"
  <2>1. CASE i \in 1..n
    <3>1. fr[i] = f[i] BY <1>2, <2>1
    <3>2. s = 0 \/ i < s <=> t = 0 \/ i < t
      <4> HIDE DEF n
      <4>1. t = s \/ (s = 0 /\ t = n + 1) BY DEF n
      <4> QED BY <1>1, <2>1, <4>1
    <3> QED BY <1>3, <2>1, <3>1, <3>2
  <2>2. CASE i \notin 1..n
    <3>1. i = n + 1 /\ fr[i] = r[1]
      <4>1. PICK j \in 1..Len(r) : i = n + j BY <1>2, <2>2
      <4>2. j = 1 BY <4>1
      <4> QED BY <1>2, <4>1, <4>2
    <3>2. t = 0 \/ i < t <=> t = 0
      <4> HIDE DEF n
      <4>1. (t = s \/ (s = 0 /\ t = n + 1)) /\ s <= n BY DEF n
      <4> QED BY <1>1, <3>1, <4>1
    <3> QED BY <3>1, <3>2
  <2> QED BY <2>1, <2>2
<1> QED BY <1>4 DEF Given, fr

(* The first event in hand becomes the last row of the file, or would.     *)
LEMMA SavedIsArranged ==
  ASSUME NEW f \in Seq(Anything), NEW a \in Seq(Anything), NEW b \in Seq(Anything),
         NEW g \in Seq(Anything),
         NEW w, NEW c, NEW h, NEW s \in Nat, Arranged(f, a \o b, g, w, c, h, s),
         NEW r \in Seq(Anything), Same(r, a), Len(r) = 1,
         s <= Len(f), NEW t \in Nat, t = s \/ (s = 0 /\ t = Len(f) + 1),
         NEW k, MetBy(Samples(a), IF t = 0 THEN "written" ELSE "unwritten", h, k)
  PROVE  Arranged(f \o r, b, g, w, c, k, t)
<1> DEFINE end == IF t = 0 THEN "written" ELSE "unwritten"
<1>1. /\ Rising(f) /\ Rising(a) /\ Rising(b) /\ Rising(g) /\ Before(a, b)
      /\ Before(f, a) /\ Before(f, b) /\ Before(f, g) /\ Before(a, g) /\ Before(b, g)
  BY ConcatRises, ConcatBefore DEF Arranged
<1>2. Rising(r) /\ Before(f, r) /\ Before(r, b) /\ Before(r, g) /\ Samples(r) = Samples(a)
  BY <1>1, SameEvents
<1>3. Rising(f \o r) /\ Before(f \o r, b) /\ Before(f \o r, g)
  BY <1>1, <1>2, ConcatRises, ConcatBefore
<1> DEFINE rest == Samples(b) \cup Samples(g)
<1>4. Samples(a) \cap rest = {}
  <2>1. Samples(a) \cap Samples(b) = {} BY <1>1, Apart, Identified
  <2>2. Samples(a) \cap Samples(g) = {} BY <1>1, Apart, Identified
  <2> QED BY <2>1, <2>2
<1>5. Placed(Samples(a) \cup rest, w, c, h)
  <2>1. Samples(a \o b) = Samples(a) \cup Samples(b) BY ConcatSamples
  <2>2. Samples(a \o b) \cup Samples(g) = Samples(a) \cup rest BY <2>1
  <2>3. Placed(Samples(a \o b) \cup Samples(g), w, c, h) BY DEF Arranged
  <2> HIDE DEF rest
  <2> QED BY <2>2, <2>3
<1> HIDE DEF rest, end
<1>6. end # "none" BY DEF end
<1>7. MetBy(Samples(a), end, h, k) BY DEF end
<1>8. Placed(rest, w, c, k) BY <1>4, <1>5, <1>6, <1>7, MetIsPlaced
<1>9. Given(f, k, s) BY <1>5, <1>7, MetIsGiven DEF Arranged
<1>10. k[Sample(r[1])] = end
  <2>1. 1 \in 1..Len(r) OBVIOUS
  <2>2. Sample(r[1]) \in Samples(a)
    <3>1. Sample(r[1]) \in Samples(r) BY <2>1 DEF Samples
    <3> QED BY <1>2, <3>1
  <2>3. Sample(r[1]) \in Identities
    <3>1. r[1] \in Anything BY <2>1, ElementOfSeq
    <3> QED BY <3>1, Identified
  <2> QED BY <1>7, <2>2, <2>3 DEF MetBy
<1>11. Given(f \o r, k, t) BY <1>9, <1>10, OneMoreGiven DEF end
<1> QED BY <1>1, <1>3, <1>8, <1>11 DEF Arranged, rest

-----------------------------------------------------------------------------
(* The moves of the system.                                                *)

(* A trigger, or nothing at all.                                           *)
LEMMA RecordingKeepsFates ==
  ASSUME TypeOK, TypeOK', FatesInv, Recording
  PROVE  FatesInv'
<1>1. OnPath /\ OnPath' BY PathTypes, PathTypesNext
<1>2. /\ Arranged(filled, events, fifo, waiting, triggerCount, fate, fitsStatus)
      /\ HandBounded /\ Charged
  BY <1>1, InParts
<1>3. UNCHANGED <<filled, events, fifo, fate, faults, fitsStatus>> BY DEF Recording
<1>4. HandBounded' BY <1>2, <1>3 DEF HandBounded
<1>5. Charged' BY <1>2, <1>3 DEF Charged, Destroyed
<1>6. Arranged(filled, events, fifo, waiting', triggerCount', fate, fitsStatus)
  <2>1. CASE UNCHANGED <<triggerCount, waiting>> BY <1>2, <2>1
  <2>2. ASSUME NEW ch \in Channels, Recorded(ch)
        PROVE  Arranged(filled, events, fifo, waiting', triggerCount', fate, fitsStatus)
    <3> DEFINE x == [ch |-> ch, triggerCount |-> triggerCount'[ch], as |-> InForce(ch),
                     samples |-> 0, run |-> IF pc \in Acquiring THEN run ELSE 0]
    <3>1. /\ triggerCount' = [triggerCount EXCEPT ![ch] = triggerCount[ch] + 1]
          /\ waiting' = [waiting EXCEPT ![ch] = Append(waiting[ch], x)]
      BY <2>2 DEF Recorded
    <3>2. x.ch = ch /\ x.triggerCount = triggerCount'[ch] OBVIOUS
    <3>3. triggerCount \in [Channels -> 0..MaxEvents] /\ waiting \in [Channels -> Seq(Event)]
      BY DEF TypeOK
    <3> HIDE DEF x
    <3>4. /\ triggerCount'[ch] = triggerCount[ch] + 1 /\ waiting'[ch] = Append(waiting[ch], x)
          /\ \A y \in Channels \ {ch} : waiting'[y] = waiting[y] /\ triggerCount'[y] = triggerCount[y]
      BY <3>1, <3>3
    <3>5. waiting[ch] \in Seq(Event) BY <3>3
    <3> DEFINE s == waiting[ch]
               t == Append(s, x)
    <3>6. /\ Len(t) = Len(s) + 1 /\ t[Len(s) + 1] = x
          /\ \A k \in 1..Len(s) : t[k] = s[k]
      <4> HIDE DEF s
      <4> QED BY <3>5, AppendProperties DEF s
    <3>7. Newest(x, ch, waiting, triggerCount, waiting', triggerCount')
      BY <3>2, <3>4, <3>6 DEF Newest
    <3>8. \A y \in Channels : waiting[y] \in Seq(Event) /\ triggerCount[y] \in Nat
      BY <1>1 DEF OnPath
    <3> HIDE DEF s, t
    <3> QED BY <1>2, <3>7, <3>8, RecordedIsArranged
  <2> QED BY <2>1, <2>2 DEF Recording
<1> QED BY <1>1, <1>3, <1>4, <1>5, <1>6, InPartsNext

(* The oldest event of a channel goes to the EventFIFO.                    *)
LEMMA SendingKeepsFates ==
  ASSUME TypeOK, TypeOK', FatesInv, NEW ch \in Channels, SendPacket(ch)
  PROVE  FatesInv'
<1>1. OnPath /\ OnPath' BY PathTypes, PathTypesNext
<1>2. /\ Arranged(filled, events, fifo, waiting, triggerCount, fate, fitsStatus)
      /\ HandBounded /\ Charged
  BY <1>1, InParts
<1>3. /\ UNCHANGED <<filled, events, triggerCount, fate, faults, fitsStatus>>
      /\ waiting[ch] # << >>
      /\ fifo' = Append(fifo, [Head(waiting[ch]) EXCEPT !.samples = packetSamples])
      /\ waiting' = [waiting EXCEPT ![ch] = Tail(waiting[ch])]
  BY DEF SendPacket, host, file
<1>4. HandBounded' BY <1>2, <1>3 DEF HandBounded
<1>5. Charged' BY <1>2, <1>3 DEF Charged, Destroyed
<1> DEFINE s == waiting[ch]
           x == [Head(s) EXCEPT !.samples = packetSamples]
<1>6. waiting \in [Channels -> Seq(Event)] /\ packetSamples \in Nat /\ s \in Seq(Event)
  BY DEF TypeOK
<1>7. /\ Head(s) \in Event /\ Len(s) = Len(Tail(s)) + 1
      /\ \A k \in 1..Len(Tail(s)) : Tail(s)[k] = s[k + 1]
  <2> HIDE DEF s
  <2>1. s # << >> BY <1>3 DEF s
  <2>2. /\ Head(s) \in Event /\ Tail(s) \in Seq(Event) /\ Len(Tail(s)) = Len(s) - 1
        /\ \A k \in 1..Len(Tail(s)) : Tail(s)[k] = s[k + 1]
    BY <1>6, <2>1, HeadTailProperties
  <2>3. Len(s) \in Nat BY <1>6, LenProperties
  <2> QED BY <2>2, <2>3
<1>8. Head(s) = s[1] OBVIOUS
<1>9. x \in Event /\ x.ch = Head(s).ch /\ x.triggerCount = Head(s).triggerCount
  <2> DEFINE h == Head(s)
  <2>1. h \in Event BY <1>7
  <2> HIDE DEF h
  <2>2. [h EXCEPT !.samples = packetSamples] \in Event
        /\ [h EXCEPT !.samples = packetSamples].ch = h.ch
        /\ [h EXCEPT !.samples = packetSamples].triggerCount = h.triggerCount
    BY <1>6, <2>1 DEF Event
  <2> QED BY <2>2 DEF h
<1>10. Head(s).ch = ch
  <2>1. 1 \in 1..Len(s)
    <3>1. Len(Tail(s)) \in Nat
      <4>1. Tail(s) \in Seq(Event)
        <5> HIDE DEF s
        <5> QED BY <1>3, <1>6, HeadTailProperties DEF s
      <4> QED BY <4>1, LenProperties
    <3> QED BY <1>7, <3>1
  <2> QED BY <1>2, <1>8, <2>1 DEF Arranged, Buffered
<1>11. waiting'[ch] = Tail(s) /\ \A y \in Channels \ {ch} : waiting'[y] = waiting[y]
  BY <1>3, <1>6
<1>12. Oldest(x, ch, waiting, waiting')
  <2> HIDE DEF x
  <2> QED BY <1>7, <1>8, <1>9, <1>10, <1>11 DEF Oldest
<1> HIDE DEF s, x
<1>13. x \in Anything BY <1>9 DEF Anything
<1>14. fifo' = fifo \o <<x>>
  <2>1. fifo \in Seq(Anything) BY <1>1 DEF OnPath
  <2>2. fifo' = Append(fifo, x) BY <1>3 DEF x, s
  <2> QED BY <1>13, <2>1, <2>2, AppendIsConcat
<1>15. /\ filled \in Seq(Anything) /\ events \in Seq(Anything) /\ fifo \in Seq(Anything)
       /\ \A y \in Channels :
            waiting[y] \in Seq(Event) /\ waiting'[y] \in Seq(Event) /\ triggerCount[y] \in Nat
  <2>1. \A y \in Channels : waiting'[y] \in Seq(Event) BY DEF TypeOK
  <2> QED BY <1>1, <2>1 DEF OnPath
<1>16. Arranged(filled, events, fifo \o <<x>>, waiting', triggerCount, fate, fitsStatus)
  BY <1>2, <1>12, <1>13, <1>15, SentIsArranged
<1> QED BY <1>1, <1>3, <1>4, <1>5, <1>14, <1>16, InPartsNext

(* A new file has no events yet.                                           *)
LEMMA OpeningKeepsFates ==
  ASSUME TypeOK, TypeOK', FatesInv, OpenOutput
  PROVE  FatesInv'
<1>1. OnPath /\ OnPath' BY PathTypes, PathTypesNext
<1>2. /\ Arranged(filled, events, fifo, waiting, triggerCount, fate, fitsStatus)
      /\ HandBounded /\ Charged
  BY <1>1, InParts
<1>3. /\ UNCHANGED <<events, fifo, waiting, triggerCount, fate, faults>>
      /\ filled' = << >> /\ fitsStatus' = 0
  BY DEF OpenOutput, createOutputFITSFile, board
<1>4. HandBounded' BY <1>2, <1>3 DEF HandBounded
<1>5. Destroyed' \subseteq Destroyed BY <1>3 DEF Destroyed
<1>6. Charged' BY <1>2, <1>3, <1>5, NothingCharged
<1>7. Rising(<< >>) /\ Before(<< >>, events) /\ Before(<< >>, fifo) BY NoEvents
<1>8. Given(<< >>, fate, 0) BY DEF Given
<1>9. Arranged(<< >>, events, fifo, waiting, triggerCount, fate, 0)
  BY <1>2, <1>7, <1>8 DEF Arranged
<1> QED BY <1>1, <1>3, <1>4, <1>6, <1>9, InPartsNext

(* The fates decided, of the events in a sequence of the path.             *)
LEMMA MetIs ==
  ASSUME FateTypes, NEW ids, NEW end \in Fates, Meet(ids, end)
  PROVE  /\ MetBy(ids, end, fate, fate')
         /\ end # "destroyed" => Destroyed' \subseteq Destroyed
         /\ Destroyed' \subseteq Destroyed \cup ids
<1>1. \A i \in Channels \X (1..MaxEvents) : fate'[i] = IF i \in ids THEN end ELSE fate[i] BY Met
<1>2. MetBy(ids, end, fate, fate') BY <1>1 DEF MetBy, Identities
<1>3. end # "destroyed" => Destroyed' \subseteq Destroyed BY <1>1 DEF Destroyed
<1>4. Destroyed' \subseteq Destroyed \cup ids BY <1>1 DEF Destroyed
<1> QED BY <1>2, <1>3, <1>4

(* The events a read takes are the beginning of the EventFIFO.             *)
LEMMA ReadIsBeginning ==
  ASSUME TypeOK, getEventData
  PROVE  /\ EventsInRead \in 0..Len(fifo) /\ EventsInRead <= ReadEvents
         /\ SubSeq(fifo, 1, EventsInRead) \in Seq(Anything) /\ fifo' \in Seq(Anything)
         /\ Len(SubSeq(fifo, 1, EventsInRead)) = EventsInRead
         /\ \A k \in 1..EventsInRead : SubSeq(fifo, 1, EventsInRead)[k] = fifo[k]
         /\ fifo = SubSeq(fifo, 1, EventsInRead) \o fifo'
<1>1. fifo \in Seq(Anything) /\ Len(fifo) \in Nat /\ ReadEvents \in Nat
  BY PathTypes, LenProperties DEF OnPath
<1>2. EventsInRead \in 0..Len(fifo) /\ EventsInRead <= ReadEvents BY <1>1 DEF EventsInRead
<1>3. fifo' = SubSeq(fifo, EventsInRead + 1, Len(fifo)) BY DEF getEventData
<1> DEFINE n == EventsInRead
<1> HIDE DEF n
<1>4. /\ SubSeq(fifo, 1, n) \in Seq(Anything) /\ SubSeq(fifo, n + 1, Len(fifo)) \in Seq(Anything)
      /\ Len(SubSeq(fifo, 1, n)) = n /\ \A k \in 1..n : SubSeq(fifo, 1, n)[k] = fifo[k]
      /\ fifo = SubSeq(fifo, 1, n) \o SubSeq(fifo, n + 1, Len(fifo))
  BY <1>1, <1>2, Divided DEF n
<1> QED BY <1>2, <1>3, <1>4 DEF n

(* A reply is lost.                                                        *)
LEMMA LosingKeepsFates ==
  ASSUME TypeOK, TypeOK', HandEmpty, FateTypes, FatesInv, LoseReply
  PROVE  FatesInv'
<1>1. OnPath /\ OnPath' BY PathTypes, PathTypesNext
<1>2. /\ Arranged(filled, events, fifo, waiting, triggerCount, fate, fitsStatus)
      /\ HandBounded /\ Charged
  BY <1>1, InParts
<1>3. /\ UNCHANGED <<filled, events, waiting, triggerCount, fitsStatus>> /\ events = << >>
      /\ faults' = faults + 1 /\ getEventData
      /\ Meet(Samples(SubSeq(fifo, 1, EventsInRead)), "destroyed")
  BY DEF LoseReply, HandEmpty, file
<1> DEFINE a == SubSeq(fifo, 1, EventsInRead)
<1>4. /\ a \in Seq(Anything) /\ fifo' \in Seq(Anything) /\ fifo = a \o fifo'
      /\ Len(a) = EventsInRead /\ EventsInRead <= ReadEvents
  BY <1>3, ReadIsBeginning
<1>5. /\ MetBy(Samples(a), "destroyed", fate, fate')
      /\ Destroyed' \subseteq Destroyed \cup Samples(a)
  BY <1>3, MetIs DEF Fates
<1> HIDE DEF a
<1>6. Arranged(filled, << >>, a \o fifo', waiting, triggerCount, fate, fitsStatus)
  BY <1>2, <1>3, <1>4
<1>7. filled \in Seq(Anything) BY <1>1 DEF OnPath
<1>8. Arranged(filled, << >>, fifo', waiting, triggerCount, fate', fitsStatus)
  BY <1>4, <1>5, <1>6, <1>7, LostIsArranged
<1>9. Charged' BY <1>2, <1>3, <1>4, <1>5, EventsCharged
<1>10. HandBounded' BY <1>2, <1>3 DEF HandBounded
<1> QED BY <1>1, <1>3, <1>8, <1>9, <1>10, InPartsNext

(* A read.                                                                 *)
LEMMA ReadingKeepsFates ==
  ASSUME TypeOK, TypeOK', HandEmpty, EventsProper, FatesInv, GetEvent
  PROVE  FatesInv'
<1>1. OnPath /\ OnPath' BY PathTypes, PathTypesNext
<1>2. /\ Arranged(filled, events, fifo, waiting, triggerCount, fate, fitsStatus)
      /\ HandBounded /\ Charged
  BY <1>1, InParts
<1>3. /\ UNCHANGED <<filled, waiting, triggerCount, fate, faults, fitsStatus>> /\ events = << >>
      /\ getEventData /\ events' = getDecodedEvents
  BY DEF GetEvent, HandEmpty, file
<1> DEFINE a == SubSeq(fifo, 1, EventsInRead)
<1>4. /\ a \in Seq(Anything) /\ fifo' \in Seq(Anything) /\ fifo = a \o fifo'
      /\ Len(a) = EventsInRead /\ EventsInRead <= ReadEvents
      /\ \A k \in 1..EventsInRead : a[k] = fifo[k]
  BY <1>3, ReadIsBeginning
<1>5. /\ Len(events') = EventsInRead
      /\ \A k \in 1..EventsInRead : /\ events'[k].ch = fifo[k].ch
                                   /\ events'[k].triggerCount = fifo[k].triggerCount
  BY <1>3, OneRead
<1> HIDE DEF a
<1>6. Same(events', a) BY <1>4, <1>5 DEF Same
<1>7. Arranged(filled, << >>, a \o fifo', waiting, triggerCount, fate, fitsStatus)
  BY <1>2, <1>3, <1>4
<1>8. filled \in Seq(Anything) BY <1>1 DEF OnPath
<1>9. Arranged(filled, events', fifo', waiting, triggerCount, fate, fitsStatus)
  BY <1>4, <1>6, <1>7, <1>8, ReadIsArranged
<1>10. Destroyed' \subseteq Destroyed BY <1>3 DEF Destroyed
<1>11. Charged' BY <1>2, <1>3, <1>10, NothingCharged
<1>12. HandBounded' BY <1>4, <1>5 DEF HandBounded
<1> QED BY <1>1, <1>3, <1>9, <1>11, <1>12, InPartsNext

(* The program is gone: a fault has made it go, or has made its last file  *)
(* fail before, or there was nothing in hand.                              *)
LEMMA ExitKeepsFates ==
  ASSUME TypeOK, TypeOK', FateTypes, FatesInv, Exit,
         faults' = faults + 1 \/ (faults' = faults /\ (events # << >> => fitsStatus # 0))
  PROVE  FatesInv'
<1>1. OnPath /\ OnPath' BY PathTypes, PathTypesNext
<1>2. /\ Arranged(filled, events, fifo, waiting, triggerCount, fate, fitsStatus)
      /\ HandBounded /\ Charged
  BY <1>1, InParts
<1>3. /\ UNCHANGED <<fifo, waiting, triggerCount>>
      /\ filled' = << >> /\ events' = << >> /\ fitsStatus' = 0
      /\ Meet(Samples(events), "destroyed")
  BY DEF Exit, board
<1>4. /\ MetBy(Samples(events), "destroyed", fate, fate')
      /\ Destroyed' \subseteq Destroyed \cup Samples(events)
  BY <1>3, MetIs DEF Fates
<1>5. filled \in Seq(Anything) /\ events \in Seq(Anything) /\ fifo \in Seq(Anything)
  BY <1>1 DEF OnPath
<1>6. Arranged(<< >>, << >>, fifo, waiting, triggerCount, fate', 0)
  BY <1>2, <1>4, <1>5, GoneIsArranged
<1>7. Charged'
  <2>1. Len(events) <= ReadEvents BY <1>2 DEF HandBounded
  <2>2. CASE faults' = faults + 1 BY <1>2, <1>3, <1>4, <1>5, <2>1, <2>2, EventsCharged
  <2>3. CASE faults' = faults /\ fitsStatus # 0
    BY <1>2, <1>3, <1>4, <1>5, <2>1, <2>3, EventsCharged
  <2>4. CASE faults' = faults /\ events = << >>
    <3>1. Samples(events) = {} BY <2>4, NoEvents
    <3>2. Destroyed' \subseteq Destroyed BY <1>4, <3>1
    <3> QED BY <1>2, <1>3, <2>4, <3>2, NothingCharged
  <2> QED BY <2>2, <2>3, <2>4
<1>8. HandBounded'
  <2>1. Len(<< >>) <= ReadEvents OBVIOUS
  <2> QED BY <1>3, <2>1 DEF HandBounded
<1> QED BY <1>1, <1>3, <1>6, <1>7, <1>8, InPartsNext

(* An event in hand is filled into the file, well or not.                  *)
LEMMA SavingKeepsFates ==
  ASSUME TypeOK, TypeOK', Control, FileSound, EventsProper, FateTypes, FatesInv, SaveEvent
  PROVE  FatesInv'
<1>1. OnPath /\ OnPath' BY PathTypes, PathTypesNext
<1>2. /\ Arranged(filled, events, fifo, waiting, triggerCount, fate, fitsStatus)
      /\ HandBounded /\ Charged
  BY <1>1, InParts
<1> DEFINE e == Head(events)
           a == SubSeq(events, 1, 1)
           r == <<Row(e)>>
           end == IF fitsStatus' = 0 THEN "written" ELSE "unwritten"
<1>3. /\ UNCHANGED <<fifo, waiting, triggerCount>> /\ pc = "fill" /\ events # << >>
      /\ events' = Tail(events) /\ filled' = Append(filled, Row(e))
      /\ Meet({Sample(e)}, end)
      /\ \/ fitsStatus' = fitsStatus /\ faults' = faults
         \/ fitsStatus = 0 /\ fitsStatus' = rowIndex + 1 /\ faults' = faults + 1
  BY DEF SaveEvent, FillEvent, FillEventFails, board
<1>4. /\ filled \in Seq(Anything) /\ events \in Seq(Anything) /\ fifo \in Seq(Anything)
      /\ events' \in Seq(Anything)
  BY <1>1 DEF OnPath
<1>5. /\ a \in Seq(Anything) /\ Len(a) = 1 /\ a[1] = e /\ events = a \o events'
      /\ Len(events') <= Len(events)
  <2>1. Len(events) \in Nat /\ Len(events) # 0 BY <1>3, <1>4, LenProperties, EmptySeq
  <2>2. 1 \in 0..Len(events) BY <2>1
  <2>3. /\ a \in Seq(Anything) /\ Len(a) = 1 /\ \A k \in 1..1 : a[k] = events[k]
        /\ events = a \o SubSeq(events, 1 + 1, Len(events))
    BY <1>4, <2>2, Divided
  <2>4. Tail(events) = SubSeq(events, 2, Len(events)) BY <1>3, <1>4, TailIsSubSeq
  <2>5. Len(Tail(events)) = Len(events) - 1 BY <1>3, <1>4, HeadTailProperties
  <2>6. e = events[1] OBVIOUS
  <2>7. 1 + 1 = 2 /\ 1 \in 1..1 OBVIOUS
  <2> HIDE DEF a, e
  <2>8. a[1] = e BY <2>3, <2>6, <2>7
  <2>9. events = a \o events' BY <1>3, <2>3, <2>4, <2>7
  <2>10. Len(events') <= Len(events) BY <1>3, <2>1, <2>5
  <2> QED BY <2>3, <2>8, <2>9, <2>10
<1>6. Row(e) \in Anything /\ Row(e).ch = e.ch /\ Row(e).triggerCount = e.triggerCount
  <2>1. e \in Read BY <1>3, HeadTailProperties DEF EventsProper
  <2>2. Row(e) \in Saved /\ Row(e).ch = e.ch /\ Row(e).triggerCount = e.triggerCount
    BY <1>3, <2>1, SavedRow
  <2> QED BY <2>2 DEF Saved, Anything
<1>7. r \in Seq(Anything) /\ Len(r) = 1 /\ r[1] = Row(e)
  <2> HIDE DEF e
  <2> QED BY <1>6
<1> HIDE DEF a, r, e, end
<1>8. Same(r, a)
  <2>1. \A k \in 1..1 : k = 1 OBVIOUS
  <2> QED BY <1>5, <1>6, <1>7, <2>1 DEF Same
<1>9. filled' = filled \o r BY <1>3, <1>4, <1>6, AppendIsConcat DEF r
<1>10. Samples(a) = {Sample(e)}
  <2>1. 1..1 = {1} OBVIOUS
  <2> QED BY <1>5, <2>1 DEF Samples
<1>11. end \in Fates /\ end # "destroyed" /\ MetBy(Samples(a), end, fate, fate')
       /\ Destroyed' \subseteq Destroyed
  <2>1. end \in Fates /\ end # "destroyed" BY DEF end, Fates
  <2> QED BY <1>3, <1>10, <2>1, MetIs
<1>12. /\ fitsStatus \in Nat /\ fitsStatus' \in Nat /\ fitsStatus <= Len(filled)
       /\ fitsStatus' = fitsStatus \/ (fitsStatus = 0 /\ fitsStatus' = Len(filled) + 1)
  <2>1. fitsStatus \in Nat /\ fitsStatus' \in Nat BY DEF TypeOK
  <2>2. outputFileIsOpen BY <1>3 DEF Control, FileOpen, UnderWay, Acquiring
  <2>3. rowIndex = Len(filled) /\ fitsStatus <= rowIndex BY <2>2 DEF FileSound
  <2> QED BY <1>3, <2>1, <2>3
<1>13. Arranged(filled, a \o events', fifo, waiting, triggerCount, fate, fitsStatus)
  BY <1>2, <1>5
<1>14. MetBy(Samples(a), IF fitsStatus' = 0 THEN "written" ELSE "unwritten", fate, fate')
  BY <1>11 DEF end
<1>15. Arranged(filled \o r, events', fifo, waiting, triggerCount, fate', fitsStatus')
  BY <1>4, <1>5, <1>7, <1>8, <1>12, <1>13, <1>14, SavedIsArranged
<1>16. Charged'
  <2>1. CASE fitsStatus' = fitsStatus /\ faults' = faults BY <1>2, <1>11, <2>1, NothingCharged
  <2>2. CASE faults' = faults + 1
    <3>1. << >> \in Seq(Anything) /\ Len(<< >>) = 0 /\ Len(<< >>) <= ReadEvents OBVIOUS
    <3>2. Destroyed' \subseteq Destroyed \cup Samples(<< >>) BY <1>11
    <3> QED BY <1>2, <2>2, <3>1, <3>2, EventsCharged
  <2> QED BY <1>3, <2>1, <2>2
<1>17. HandBounded'
  <2>1. Len(events) \in Nat /\ Len(events') \in Nat /\ ReadEvents \in Nat BY <1>4, LenProperties
  <2> QED BY <1>2, <1>5, <2>1 DEF HandBounded
<1> QED BY <1>1, <1>3, <1>9, <1>15, <1>16, <1>17, InPartsNext

-----------------------------------------------------------------------------
(* The fates, and what follows from them.                                  *)

LEMMA FatesStep ==
  ASSUME IInv, TypeOK', FatesInv, [Next]_vars
  PROVE  FatesInv'
<1>1. TypeOK /\ Control /\ HandEmpty /\ FileSound /\ EventsProper /\ FateTypes
  BY Typed DEF IInv, Control
<1>2. CASE Resting \/ Recording
  <2>1. Recording BY <1>2 DEF Resting, Recording
  <2> QED BY <1>1, <2>1, RecordingKeepsFates
<1>3. CASE \E ch \in Channels : SendPacket(ch) BY <1>1, <1>3, SendingKeepsFates
<1>4. CASE OpenOutput BY <1>1, <1>4, OpeningKeepsFates
<1>5. CASE LoseReply BY <1>1, <1>5, LosingKeepsFates
<1>6. CASE GetEvent BY <1>1, <1>6, ReadingKeepsFates
<1>7. CASE SaveEvent BY <1>1, <1>7, SavingKeepsFates
<1>8. CASE Crash
  <2>1. Exit /\ faults' = faults + 1 BY <1>8 DEF Crash
  <2> QED BY <1>1, <2>1, ExitKeepsFates
<1>9. CASE Exit /\ UNCHANGED faults /\ (events # << >> => CannotExpand)
  <2>1. events # << >> => fitsStatus # 0 BY <1>9 DEF CannotExpand
  <2> QED BY <1>1, <1>9, <2>1, ExitKeepsFates
<1> QED BY <1>1, <1>2, <1>3, <1>4, <1>5, <1>6, <1>7, <1>8, <1>9, WhoMovesEvents

LEMMA InitialFates ==
  ASSUME Init
  PROVE  FatesInv
<1>1. /\ filled = << >> /\ events = << >> /\ fifo = << >> /\ fitsStatus = 0 /\ faults = 0
      /\ waiting = [ch \in Channels |-> << >>] /\ triggerCount = [ch \in Channels |-> 0]
      /\ fate = [i \in Channels \X (1..MaxEvents) |-> "none"]
  BY DEF Init, NoFile
<1>2. TypeOK BY InitiallyInv, Typed
<1>3. OnPath BY <1>2, PathTypes
<1>4. \A ch \in Channels : Len(waiting[ch]) = 0 /\ triggerCount[ch] = 0 BY <1>1
<1>5. Buffered(waiting, triggerCount) BY <1>4 DEF Buffered
<1>6. Placed({}, waiting, triggerCount, fate)
  <2> SUFFICES ASSUME NEW ch \in Channels, NEW n \in 1..MaxEvents
               PROVE  ~(n + Len(waiting[ch]) <= triggerCount[ch]) /\ fate[<<ch, n>>] = "none"
    BY DEF Placed
  <2>1. n \in Nat \ {0} BY Sizes
  <2> QED BY <1>1, <1>4, <2>1
<1>7. Samples(<< >>) \cup Samples(<< >>) = {} BY NoEvents
<1>8. Arranged(<< >>, << >>, << >>, waiting, triggerCount, fate, 0)
  <2>1. Rising(<< >>) /\ Before(<< >>, << >>) BY NoEvents
  <2>2. Given(<< >>, fate, 0) BY DEF Given
  <2>3. Placed(Samples(<< >>) \cup Samples(<< >>), waiting, triggerCount, fate) BY <1>6, <1>7
  <2> QED BY <1>5, <2>1, <2>2, <2>3 DEF Arranged
<1>9. HandBounded
  <2>1. Len(<< >>) <= ReadEvents OBVIOUS
  <2> QED BY <1>1, <2>1 DEF HandBounded
<1>10. Charged
  <2>1. Destroyed = {} BY <1>1 DEF Destroyed
  <2>2. Cardinality(Destroyed) = 0 BY <2>1, FS_EmptySet
  <2>3. ReadEvents \in Nat /\ 0 * ReadEvents = 0 OBVIOUS
  <2> QED BY <1>1, <2>2, <2>3 DEF Charged
<1> QED BY <1>1, <1>3, <1>8, <1>9, <1>10, InParts

(* The events of the open file, with the fate their rows have.             *)
LEMMA FatesFollow ==
  ASSUME TypeOK, FileSound, FatesInv
  PROVE  EventFates
<1>1. WrittenInFile
  <2> SUFFICES ASSUME outputFileIsOpen, NEW k \in 1..Len(filled)
               PROVE  \/ fate[Sample(filled[k])] = "written" /\ table[k] = filled[k]
                      \/ fate[Sample(filled[k])] = "unwritten" /\ fitsStatus # 0 /\ k >= fitsStatus
    BY DEF WrittenInFile
  <2>1. table[k] = filled[k] \/ (fitsStatus # 0 /\ k >= fitsStatus) BY DEF FileSound
  <2>2. fate[Sample(filled[k])] = IF fitsStatus = 0 \/ k < fitsStatus THEN "written" ELSE "unwritten"
    BY DEF FatesInv, FilledFates
  <2>3. k \in Nat /\ fitsStatus \in Nat BY LenProperties DEF TypeOK
  <2>4. k >= fitsStatus <=> ~(k < fitsStatus) BY <2>3
  <2> QED BY <2>1, <2>2, <2>4, Zenon
<1>2. DamageBounded
  <2>1. Cardinality(Destroyed) \in Nat BY DestroyedFinite, FS_CardinalityType
  <2>2. faults \in Nat /\ ReadEvents \in Nat BY Sizes DEF TypeOK
  <2>3. faults * ReadEvents \in Nat BY <2>2
  <2> DEFINE m == faults * ReadEvents
  <2> HIDE DEF m
  <2>4. Cardinality(Destroyed) <= m
    <3>1. Cardinality(Destroyed) + (IF fitsStatus = 0 THEN 0 ELSE ReadEvents) <= m
      BY DEF FatesInv, Charged, m
    <3> QED BY <2>1, <2>2, <2>3, <3>1 DEF m
  <2> QED BY <2>4 DEF DamageBounded, m
<1> QED BY <1>1, <1>2 DEF EventFates, FatesInv

(* Over runs, changes of the file, crashes, lost replies and failing       *)
(* writes, every event is in one place or has met one fate, in the order   *)
(* of its channel; what was written is in the file, and a fault destroys   *)
(* the events of one read at most.                                         *)
THEOREM EventsHaveTheirFates == Spec => []EventFates
<1>1. Init => FatesInv BY InitialFates
<1>2. IInv /\ TypeOK' /\ FatesInv /\ [Next]_vars => FatesInv' BY FatesStep
<1>3. IInv /\ TypeOK /\ FatesInv => EventFates BY FatesFollow DEF IInv
<1> QED BY <1>1, <1>2, <1>3, Invariance, TypeCorrect, PTL DEF Spec

=============================================================================

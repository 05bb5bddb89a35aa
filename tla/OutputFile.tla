------------------------------ MODULE OutputFile ------------------------------
(***************************************************************************)
(* An event list file: EventListFileFITS on top of cfitsio.  The EVENTS    *)
(* table is created with InitialRowNumber blank rows; every event goes to  *)
(* the row after the last one, and a table that is full grows by steps     *)
(* that double; close() deletes the rows that were not used.               *)
(*                                                                         *)
(* What cfitsio does is modelled from its calls: writing the row after the *)
(* last one adds it, rows are inserted after a given row, and a call with  *)
(* a status that is not zero returns at once.  fillEvents() does not look  *)
(* at fitsStatus: after an error it fills nothing, silently, until         *)
(* something reports the status.                                           *)
(***************************************************************************)
EXTENDS Naturals, Sequences

CONSTANTS
  Blank,               (* a row nothing was written to                     *)
  InitialRowNumber

ASSUME RowAssumption == InitialRowNumber \in Nat \ {0}

VARIABLES
  outputFileIsOpen,
  table,               (* the rows of the EVENTS table                     *)
  rowIndex, fitsNRows, rowExpansionStep,
  fitsStatus,          (* 0, or the row at which cfitsio failed            *)
  filled               (* history: what fillEvents() was given             *)

file == <<outputFileIsOpen, table, rowIndex, fitsNRows, rowExpansionStep, fitsStatus, filled>>

-----------------------------------------------------------------------------
BlankRows(n) == [k \in 1..n |-> Blank]

(* fits_write_col() for each column of row n.                              *)
Written(n, row) == IF n <= Len(table) THEN [table EXCEPT ![n] = row] ELSE Append(table, row)

(* fits_insert_rows() and fits_delete_rows().                              *)
Inserted(t, after, n) == SubSeq(t, 1, after) \o BlankRows(n) \o SubSeq(t, after + 1, Len(t))
Deleted(t, first, n) == SubSeq(t, 1, first - 1) \o SubSeq(t, first + n, Len(t))

NoFile ==
  /\ outputFileIsOpen = FALSE
  /\ table = << >> /\ rowIndex = 0 /\ fitsNRows = 0 /\ rowExpansionStep = InitialRowNumber
  /\ fitsStatus = 0 /\ filled = << >>

createOutputFITSFile ==
  /\ outputFileIsOpen' = TRUE
  /\ table' = BlankRows(InitialRowNumber)
  /\ rowIndex' = 0 /\ fitsNRows' = InitialRowNumber /\ rowExpansionStep' = InitialRowNumber
  /\ fitsStatus' = 0 /\ filled' = << >>

ExpandBeforeRow(t) == Inserted(t, fitsNRows, rowExpansionStep - 1)      (* mutant *)
ExpandedTable(t) == Inserted(t, fitsNRows + 1, rowExpansionStep - 1)

(* expandIfNecessary(), with t the table after the write of this row.  The *)
(* loop ends after one round, since a step is a row at least.              *)
expandIfNecessary(t) ==
  IF rowIndex' <= fitsNRows
  THEN table' = t /\ UNCHANGED <<fitsNRows, rowExpansionStep>>
  ELSE /\ Len(t) > fitsNRows
       /\ table' = ExpandedTable(t)
       /\ fitsNRows' = Len(table')
       /\ rowExpansionStep' = 2 * rowExpansionStep

(* One round of the loop of fillEvents().                                  *)
FillEvent(row) ==
  /\ rowIndex' = rowIndex + 1
  /\ expandIfNecessary(IF fitsStatus = 0 THEN Written(rowIndex', row) ELSE table)
  /\ filled' = Append(filled, row)
  /\ UNCHANGED <<outputFileIsOpen, fitsStatus>>

(* The same, when a column cannot be written: the row is left out, or      *)
(* stays blank.                                                            *)
FillEventFails(row) ==
  /\ fitsStatus = 0
  /\ rowIndex' = rowIndex + 1 /\ fitsStatus' = rowIndex'
  /\ \E t \in {table, Written(rowIndex', Blank)} : expandIfNecessary(t)
  /\ filled' = Append(filled, row)
  /\ UNCHANGED outputFileIsOpen

(* There is no row after which rows could be inserted: the error is        *)
(* reported, and the program exits.                                        *)
CannotExpand == fitsStatus # 0 /\ rowIndex >= fitsNRows /\ Len(table) = fitsNRows

(* fillGPSTime() starts and ends with a report of fitsStatus.              *)
fillGPSTime == fitsStatus = 0

CloseAsIs(t) == t                         (* mutant                        *)
DeletedUnusedRows(t) ==
  IF fitsNRows # rowIndex THEN Deleted(t, rowIndex + 1, fitsNRows - rowIndex) ELSE t

(* close(), which has a status of its own.                                 *)
close ==
  /\ outputFileIsOpen' = FALSE
  /\ table' = DeletedUnusedRows(table)
  /\ UNCHANGED <<rowIndex, fitsNRows, rowExpansionStep, fitsStatus, filled>>
=============================================================================

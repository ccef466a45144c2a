------------------------------ MODULE TrendLog ------------------------------
(***************************************************************************)
(* The trend history of archetype check --record-trend and archetype trend *)
(* (archetype/trend.py): a JSON Lines file that is only ever appended to.  *)
(* A line is the sequence of the pieces that were written into it: n is    *)
(* the n-th record as a whole, Piece a part of one.                        *)
(***************************************************************************)
EXTENDS Naturals, SequencesExt

CONSTANTS
  MaxRecords,     \* how many checks record their violations
  MaxTrendFaults  \* bound on writes that fail

ASSUME TrendLogAssumption == MaxRecords \in Nat /\ MaxTrendFaults \in Nat

VARIABLES
  trendLines,   \* the lines of the file that have an end
  trendTail,    \* the line that has none, <<>> if there is no such line
  records,      \* how many records have been appended, as a whole or not
  acknowledged, \* those whose check has gone on, in order
  trendFaults   \* how many writes have failed

trendVars == <<trendLines, trendTail, records, acknowledged, trendFaults>>

Piece == 0

TrendTypeOK ==
  /\ trendLines \in Seq(Seq(0 .. MaxRecords)) /\ trendTail \in Seq(0 .. MaxRecords)
  /\ records \in 0 .. MaxRecords
  /\ acknowledged \in Seq(1 .. MaxRecords)
  /\ trendFaults \in 0 .. MaxTrendFaults

TrendInit ==
  /\ trendLines = <<>> /\ trendTail = <<>>
  /\ records = 0 /\ acknowledged = <<>>
  /\ trendFaults = 0

(* Faulty: the file is opened for writing.                                 *)
AppendEntryTruncating ==
  /\ records < MaxRecords
  /\ records' = records + 1
  /\ trendLines' = <<Append(trendTail, records')>>
  /\ trendTail' = <<>>
  /\ acknowledged' = Append(acknowledged, records')
  /\ UNCHANGED trendFaults

(* append_trend_entry: the record and its newline reach the file together, *)
(* when it is closed.                                                      *)
AppendEntry ==
  /\ records < MaxRecords
  /\ records' = records + 1
  /\ trendLines' = Append(trendLines, Append(trendTail, records'))
  /\ trendTail' = <<>>
  /\ acknowledged' = Append(acknowledged, records')
  /\ UNCHANGED trendFaults

(* A part of them, all but the newline perhaps, reaches the file, and the  *)
(* check fails.                                                            *)
AppendFails ==
  /\ records < MaxRecords /\ trendFaults < MaxTrendFaults
  /\ records' = records + 1 /\ trendFaults' = trendFaults + 1
  /\ \E piece \in {Piece, records'} : trendTail' = Append(trendTail, piece)
  /\ UNCHANGED <<trendLines, acknowledged>>

TrendNext == AppendEntry \/ AppendFails

-----------------------------------------------------------------------------
FileLines == IF trendTail = <<>> THEN trendLines ELSE Append(trendLines, trendTail)

(* A line of more than one piece, or of a part of a record, is no JSON.    *)
IsRecord(line) == Len(line) = 1 /\ line[1] # Piece

(* load_trend_entries: all records in the order of the file, or an error.  *)
Loaded ==
  IF \A i \in DOMAIN FileLines : IsRecord(FileLines[i])
  THEN [valid |-> TRUE, entries |-> [i \in DOMAIN FileLines |-> FileLines[i][1]]]
  ELSE [valid |-> FALSE, entries |-> <<>>]

-----------------------------------------------------------------------------
(* The reader never shows a history with a hole: it gives every record     *)
(* whose check went on, in order, with at most the last one that failed    *)
(* after them, or it fails; and it fails only if some write did            *)
(* (trend.py:66-98).                                                       *)
HistoryHasNoHoles ==
  /\ Loaded.valid => \/ Loaded.entries = acknowledged
                     \/ Loaded.entries = Append(acknowledged, records) /\ trendTail # <<>>
  /\ trendFaults = 0 => Loaded.valid
=============================================================================

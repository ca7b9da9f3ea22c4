------------------------------ MODULE MCLoader ------------------------------
(* ca-load with everything behind it that makes rows: one of the loaders   *)
(* of text, of tables and of column files, which main() chooses by the     *)
(* options and the input's format, the encoding of the series they insert, *)
(* and the run-length coder under that.  Each is given all inputs it can   *)
(* get from the one above, so one of them takes the steps of a behaviour.  *)
(*                                                                         *)
(* The bounds of the four are in the modules instantiated here and in      *)
(* MCOffsetScoreRow.  The run-length coder gets any MaxPuts bytes: 0, the  *)
(* last that is no mark, the first that is one, and the largest.           *)
EXTENDS MCOffsetScoreRow, RleStream, LoadColumns

CONSTANTS
  Works,                         \* what to check
  TextFiles, TextOptions,        \* of LoadText
  TableSets, TableOptions        \* of LoadMerge

VARIABLES
  work,                                                            \* what takes steps
  textOpt, file, text, pos, token_state, no_match, escape,
  current_key, next_key, offset, current_offset, value_string,
  pending, max_sorted_value_index, line, textRows, textPhase,      \* of LoadText
  tableOpt, tables, read, callback, tableRows, tablePhase          \* of LoadMerge

textVars == <<textOpt, file, text, pos, token_state, no_match, escape, current_key, next_key,
              offset, current_offset, value_string, pending, max_sorted_value_index, line,
              textRows, textPhase>>
tableVars == <<tableOpt, tables, read, callback, tableRows, tablePhase>>

Text == INSTANCE LoadText WITH
  Files <- TextFiles, Options <- TextOptions,
  opt <- textOpt, values <- pending, rows <- textRows, phase <- textPhase
Tables == INSTANCE LoadMerge WITH
  Options <- TableOptions, opt <- tableOpt, rows <- tableRows, phase <- tablePhase

TextValues == INSTANCE MCLoadText
TableValues == INSTANCE MCLoadMerge
ColumnValues == INSTANCE MCLoadColumns

AllWorks == {"codec", "run lengths", "text", "tables", "columns"}
ASSUME Works \subseteq AllWorks

(* No line of text and no row of a table is input too.                     *)
MCTextFiles == TextValues!MCFiles \cup {<<>>}
MCTextOptions == TextValues!MCOptions
MCTableSets == TableValues!SeriesTables \cup TableValues!SummaryTables \cup {<<<<>>>>}
MCTableOptions == TableValues!SeriesOptions \cup TableValues!SummaryOptions
MCColumnFiles == ColumnValues!MCInputs
MCColumnOptions == ColumnValues!MCOptions

(* What the loaders have while another part takes the steps.               *)
IdleText == textOpt = TextValues!Default /\ file = <<>>
IdleTables == tableOpt = TableValues!Default /\ tables = <<<<>>>>
IdleColumns == columnOpt = ColumnValues!Default /\ inputs = <<<<>>>>

(* Tables hold series, or the summaries that a merge of summaries is for.  *)
LikeTables ==
  \/ tableOpt \in TableValues!SeriesOptions /\ tables \in TableValues!SeriesTables
  \/ tableOpt \in TableValues!SummaryOptions /\ tables \in TableValues!SummaryTables

MCInit ==
  /\ work \in Works
  /\ Init
  /\ StreamInit
  /\ work /= "text" => IdleText
  /\ Text!Init
  /\ IF work = "tables" THEN LikeTables ELSE IdleTables
  /\ Tables!Init
  /\ work /= "columns" => IdleColumns
  /\ ColumnInit

MCNext ==
  \/ work = "codec" /\ Next /\ UNCHANGED <<work, streamVars, textVars, tableVars, columnVars>>
  \/ /\ work = "run lengths" /\ StreamNext
     /\ UNCHANGED <<work, vars, textVars, tableVars, columnVars>>
  \/ work = "text" /\ Text!Next /\ UNCHANGED <<work, vars, streamVars, tableVars, columnVars>>
  \/ work = "tables" /\ Tables!Next /\ UNCHANGED <<work, vars, streamVars, textVars, columnVars>>
  \/ work = "columns" /\ ColumnNext /\ UNCHANGED <<work, vars, streamVars, textVars, tableVars>>

MCSpec == MCInit /\ [][MCNext]_<<work, vars, streamVars, textVars, tableVars, columnVars>>
-----------------------------------------------------------------------------
(* A row that ca_table_write_offset_score wrote fits the buffer that was   *)
(* allotted to it, and ca_offset_score_parse, ca_offset_score_count and    *)
(* ca_offset_score_max_offset, which walk it with code of their own, agree *)
(* with what was written.                                                  *)
RowsReadBack == RoundTrip /\ CountAgrees /\ MaxOffsetAgrees /\ FitsBuffer

(* Text in the order of its keys is loaded exactly, to its last line, and  *)
(* without failure unless there is nothing to load; no complete line is    *)
(* lost or counted twice on the way, and the front of the values that the  *)
(* loader takes for sorted is.                                             *)
TextLoaded ==
  /\ Text!TypeOK /\ Text!LinesHeldOnce
  /\ Text!LoadedExactly /\ Text!InOrderSucceeds

(* A merge of time series writes every key of its shard once, in order,    *)
(* and every offset of it once, with the score of the merge mode, but for  *)
(* what is merged and then below the threshold; a union of compact JSON    *)
(* summaries keeps the members of all of them.                             *)
TablesMerged ==
  Tables!KeysOnce /\ Tables!ValuesMerged /\ Tables!CompactUnionKeepsMembers
=============================================================================

----------------------------- MODULE LoadColumns ----------------------------
(***************************************************************************)
(* ca-load --input-format=columnfile (main of src/src/ca-load.cc): rows of *)
(* two or three columns are read from any number of files.  The path of    *)
(* its own that this input takes applies no filter, threshold or prefix,   *)
(* does not sort the values of a key, and flushes them when a file ends.   *)
(*                                                                         *)
(* Keys are numbers in their order, of which 0 is the empty key.           *)
(***************************************************************************)
EXTENDS Integers, Sequences

CONSTANTS
  ColumnFiles,    \* the sequences of files; a file is a sequence of lines
  ColumnOptions   \* the command lines

ColumnLine == [key : Nat, date : Nat, score : Int]

ASSUME ColumnAssumption == ColumnFiles \subseteq Seq(Seq(ColumnLine))

NoScore == -1     \* a row of two columns

VARIABLES
  columnOpt,
  inputs,
  inputFile, at,    \* the file that is read, and how many of its rows were
  key, data,        \* the locals of the loop over a file
  columnRows,       \* what InsertRow() was given
  columnPhase       \* "loading", "synced" or "failed"

columnVars == <<columnOpt, inputs, inputFile, at, key, data, columnRows, columnPhase>>

ColumnInit ==
  /\ columnOpt \in ColumnOptions /\ inputs \in ColumnFiles
  /\ inputFile = 1 /\ at = 0
  /\ key = 0 /\ data = <<>>
  /\ columnRows = <<>> /\ columnPhase = "loading"

(* Keys ascend in a LevelDB table and do not descend in a write-once one.  *)
TakesKey(k) ==
  LET last == IF columnRows = <<>> THEN 0 ELSE columnRows[Len(columnRows)].key
  IN  IF columnOpt.backend = "leveldb-table" THEN k > last ELSE k >= last

InsertRow(k, value) ==
  \/ /\ TakesKey(k)
     /\ columnRows' = Append(columnRows, [key |-> k, value |-> value])
     /\ UNCHANGED columnPhase
  \/ ~TakesKey(k) /\ columnPhase' = "failed" /\ UNCHANGED columnRows

(* ca_table_write_offset_score, unless there is nothing to write.          *)
WriteData ==
  IF data = <<>> THEN UNCHANGED <<columnRows, columnPhase>> ELSE InsertRow(key, data)

ReadingColumns ==
  columnPhase = "loading" /\ inputFile <= Len(inputs) /\ at < Len(inputs[inputFile])
Line == inputs[inputFile][at + 1]

SummaryRow ==
  /\ ReadingColumns /\ columnOpt.type = "summaries"
  /\ InsertRow(Line.key, Line.date)
  /\ at' = at + 1
  /\ UNCHANGED <<columnOpt, inputs, inputFile, key, data>>

(* The summary tables that have a document, and its address in the last.   *)
Holding(doc) == {i \in DOMAIN columnOpt.summaries : doc \in DOMAIN columnOpt.summaries[i]}
Document(doc) ==
  columnOpt.summaries[CHOOSE i \in Holding(doc) : \A j \in Holding(doc) : j <= i][doc]

(* A line stands for a value, unless no summary table has its document.    *)
HasValue(line) == columnOpt.type = "index" => Holding(line.date) # {}
ValueOf(line) ==
  [offset |-> IF columnOpt.type = "index" THEN Document(line.date) ELSE line.date,
   score |-> IF line.score = NoScore THEN 0 ELSE line.score]
LineValues == IF HasValue(Line) THEN <<ValueOf(Line)>> ELSE <<>>

(* Mutant of ScoreRow: the values of the last key are kept.                *)
ScoreRowKeeps ==
  /\ ReadingColumns /\ columnOpt.type # "summaries"
  /\ IF Line.key # key THEN WriteData /\ key' = Line.key
     ELSE UNCHANGED <<key, columnRows, columnPhase>>
  /\ data' = data \o LineValues
  /\ at' = at + 1
  /\ UNCHANGED <<columnOpt, inputs, inputFile>>

(* A row with another key writes what the last one has gathered.           *)
ScoreRow ==
  /\ ReadingColumns /\ columnOpt.type # "summaries"
  /\ IF Line.key # key THEN WriteData /\ key' = Line.key /\ data' = LineValues
     ELSE data' = data \o LineValues /\ UNCHANGED <<key, columnRows, columnPhase>>
  /\ at' = at + 1
  /\ UNCHANGED <<columnOpt, inputs, inputFile>>

(* Mutant of EndOfFile: the values of the last key are dropped.            *)
EndOfFileForgets ==
  /\ columnPhase = "loading" /\ inputFile <= Len(inputs) /\ at = Len(inputs[inputFile])
  /\ inputFile' = inputFile + 1 /\ at' = 0 /\ key' = 0 /\ data' = <<>>
  /\ UNCHANGED <<columnOpt, inputs, columnRows, columnPhase>>

EndOfFile ==
  /\ columnPhase = "loading" /\ inputFile <= Len(inputs) /\ at = Len(inputs[inputFile])
  /\ WriteData
  /\ inputFile' = inputFile + 1 /\ at' = 0 /\ key' = 0 /\ data' = <<>>
  /\ UNCHANGED <<columnOpt, inputs>>

(* Sync() of a write-once table without rows fails, unless it gets along   *)
(* with an older file at the path (SyncOpen of WriteOnceBuilder).          *)
SyncColumns ==
  /\ columnPhase = "loading" /\ inputFile > Len(inputs)
  /\ \/ columnPhase' = "synced"
     \/ columnOpt.backend = "write-once" /\ columnRows = <<>> /\ columnPhase' = "failed"
  /\ UNCHANGED <<columnOpt, inputs, inputFile, at, key, data, columnRows>>

ColumnNext == SummaryRow \/ ScoreRow \/ EndOfFile \/ SyncColumns

ColumnSpec == ColumnInit /\ [][ColumnNext]_columnVars
-----------------------------------------------------------------------------
(* The places of the lines in the files, and of the values in rows.        *)
Places(s) == UNION {{n} \X (1..Len(s[n])) : n \in 1..Len(s)}
Cells(rows) == UNION {{n} \X (1..Len(rows[n].value)) : n \in 1..Len(rows)}
Earlier(p, q) == p[1] < q[1] \/ (p[1] = q[1] /\ p[2] < q[2])

LineAt(p) == inputs[p[1]][p[2]]
Valued == {p \in Places(inputs) : HasValue(LineAt(p))}

(* Every value of the rows is that of a line with the row's key, and they  *)
(* are in the order of the lines.                                          *)
ComeFrom(rows, from) ==
  /\ \A c, d \in Cells(rows) : Earlier(c, d) => Earlier(from[c], from[d])
  /\ \A c \in Cells(rows) : /\ LineAt(from[c]).key = rows[c[1]].key
                            /\ ValueOf(LineAt(from[c])) = rows[c[1]].value[c[2]]
Origins(rows, from) == {from[c] : c \in Cells(rows)}

(* As long as nothing fails, the values in the output are those of a       *)
(* beginning of the lines, in their order, each once and under its own     *)
(* key; and of all lines at the end.                                       *)
ColumnValuesOwn ==
  columnPhase # "failed" =>
    \E from \in [Cells(columnRows) -> Valued] :
      /\ ComeFrom(columnRows, from)
      /\ \A p \in Origins(columnRows, from), q \in Valued :
           Earlier(q, p) => q \in Origins(columnRows, from)
      /\ columnPhase = "synced" => Origins(columnRows, from) = Valued

(* The lines come in the order of their keys, none of them empty, and no   *)
(* key is in two files.                                                    *)
LinesOrdered ==
  \A p \in Places(inputs) :
    /\ LineAt(p).key > 0
    /\ \A q \in Places(inputs) : Earlier(p, q) =>
         /\ LineAt(p).key <= LineAt(q).key
         /\ p[1] < q[1] => LineAt(p).key # LineAt(q).key

NothingToLoad == columnOpt.backend = "write-once" /\ Valued = {}

(* Such lines are loaded, every key into one row, and fail only if they    *)
(* have not one value for a write-once table.                              *)
ColumnKeysOnce ==
  LinesOrdered =>
    /\ columnPhase = "failed" => NothingToLoad
    /\ \A m, n \in 1..Len(columnRows) : m < n => columnRows[m].key < columnRows[n].key

(* Column files in order, no key in two of them, are loaded into one row   *)
(* for each key, and without failure if there is anything to load or the   *)
(* table may be empty; and in any order values are loaded under their own  *)
(* key and once, and all of them unless it fails.                          *)
ColumnsLoaded == columnOpt.type # "summaries" => ColumnValuesOwn /\ ColumnKeysOnce

(* --threshold=SCORE: no score below it is in the output.                  *)
ColumnThreshold ==
  columnOpt.type # "summaries" =>
    \A n \in 1..Len(columnRows) : \A i \in 1..Len(columnRows[n].value) :
      columnRows[n].value[i].score >= columnOpt.threshold
=============================================================================

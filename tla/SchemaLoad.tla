----------------------------- MODULE SchemaLoad -----------------------------
(***************************************************************************)
(* Schema::Load and Schema::IndexTables of src/src/schema.cc, called by    *)
(* one statement of ca-shell after another: a statement that fails is      *)
(* reported and the next one finds the schema as it was left.  Opening a   *)
(* table may fail and succeed another time.                                *)
(***************************************************************************)
EXTENDS Integers, Sequences, FiniteSets

CONSTANTS
  SchemaFiles,     \* sequences of lines: a type and a path
  MaxFailures,     \* bound: tables that cannot be opened
  MaxStatements    \* bound: statements in a session

ASSUME SchemaAssumption ==
  /\ SchemaFiles \subseteq Seq([type : STRING, path : Nat])
  /\ MaxFailures \in Nat /\ MaxStatements \in Nat

VARIABLES
  file,
  summary_tables, summary_override_tables, index_table_paths_, index_tables_, loaded_,
  doing,        \* "idle", "Load", "IndexTables" or "running"
  at,           \* how many lines, or paths, this call is through
  failures, statements

tables == <<summary_tables, summary_override_tables, index_table_paths_, index_tables_>>
loadVars == <<file, tables, loaded_, doing, at, failures, statements>>

LoadInit ==
  /\ file \in SchemaFiles
  /\ summary_tables = <<>> /\ summary_override_tables = <<>>
  /\ index_table_paths_ = <<>> /\ index_tables_ = <<>>
  /\ loaded_ = FALSE
  /\ doing = "idle" /\ at = 0
  /\ failures = 0 /\ statements = 0

(* A statement calls Load() and IndexTables().                             *)
Begin ==
  /\ doing = "idle" /\ statements < MaxStatements
  /\ statements' = statements + 1
  /\ doing' = IF loaded_ THEN "IndexTables" ELSE "Load"
  /\ at' = 0
  /\ UNCHANGED <<file, tables, loaded_, failures>>

Throw == doing' = "idle" /\ at' = 0

(* One round of the loop in Load: empty lines and comments are passed      *)
(* over, the tables of a summary or an override are opened, the path of an *)
(* index is kept; on anything else Load throws.                            *)
LoadLine ==
  /\ doing = "Load" /\ at < Len(file)
  /\ LET type == file[at + 1].type
         path == file[at + 1].path
     IN  /\ summary_tables' =
              IF type = "summary" THEN Append(summary_tables, path) ELSE summary_tables
         /\ summary_override_tables' =
              IF type = "summary-override" THEN Append(summary_override_tables, path)
              ELSE summary_override_tables
         /\ index_table_paths_' =
              IF type = "index" THEN Append(index_table_paths_, path) ELSE index_table_paths_
         /\ IF type \in {"summary", "summary-override", "index", "#"}
            THEN at' = at + 1 /\ UNCHANGED doing ELSE Throw
  /\ UNCHANGED <<file, index_tables_, loaded_, failures, statements>>

(* Mutant of EndLoad: loaded_ is not set, and every statement loads again. *)
EndLoadForgets ==
  /\ doing = "Load" /\ at = Len(file)
  /\ doing' = "IndexTables" /\ at' = 0
  /\ UNCHANGED <<file, tables, loaded_, failures, statements>>

EndLoad ==
  /\ doing = "Load" /\ at = Len(file)
  /\ loaded_' = TRUE
  /\ doing' = "IndexTables" /\ at' = 0
  /\ UNCHANGED <<file, tables, failures, statements>>

(* Mutant of Due: a list that is not empty is taken for complete.          *)
DueWhenEmpty == index_tables_ = <<>> \/ at > 0

(* The numbers of paths and tables decide, when the call begins, whether   *)
(* all paths are opened.                                                   *)
Due == at > 0 \/ Len(index_table_paths_) /= Len(index_tables_)

OpenIndex ==
  /\ doing = "IndexTables" /\ Due /\ at < Len(index_table_paths_)
  /\ index_tables_' = Append(index_tables_, index_table_paths_[at + 1])
  /\ at' = at + 1
  /\ UNCHANGED <<file, summary_tables, summary_override_tables, index_table_paths_,
                 loaded_, doing, failures, statements>>

IndexTablesReturns ==
  /\ doing = "IndexTables" /\ (Due => at = Len(index_table_paths_))
  /\ doing' = "running"
  /\ UNCHANGED <<file, tables, loaded_, at, failures, statements>>

(* Mutant of OpenFails: a table that cannot be opened is left out.         *)
OpenFailsSkips ==
  /\ failures < MaxFailures
  /\ \/ /\ doing = "Load" /\ at < Len(file)
        /\ file[at + 1].type \in {"summary", "summary-override"}
     \/ doing = "IndexTables" /\ Due /\ at < Len(index_table_paths_)
  /\ failures' = failures + 1
  /\ at' = at + 1
  /\ UNCHANGED <<file, tables, loaded_, doing, statements>>

(* A table cannot be opened.                                               *)
OpenFails ==
  /\ failures < MaxFailures
  /\ \/ /\ doing = "Load" /\ at < Len(file)
        /\ file[at + 1].type \in {"summary", "summary-override"}
     \/ doing = "IndexTables" /\ Due /\ at < Len(index_table_paths_)
  /\ failures' = failures + 1
  /\ Throw
  /\ UNCHANGED <<file, tables, loaded_, statements>>

End ==
  /\ doing = "running"
  /\ doing' = "idle" /\ at' = 0
  /\ UNCHANGED <<file, tables, loaded_, failures, statements>>

LoadNext ==
  Begin \/ LoadLine \/ EndLoad \/ OpenIndex \/ IndexTablesReturns \/ OpenFails \/ End

LoadSpec == LoadInit /\ [][LoadNext]_loadVars
-----------------------------------------------------------------------------
(* How many of the first n lines name a table of the type.                 *)
Count(type, n) == Cardinality({k \in 1..n : file[k].type = type})

(* The list ends with what the first n lines say of the type, in order.    *)
EndsWith(list, type, n) ==
  /\ Len(list) >= Count(type, n)
  /\ \A k \in 1..n : file[k].type = type =>
       list[Len(list) - Count(type, n) + Count(type, k)] = file[k].path

Exactly(list, type) == EndsWith(list, type, Len(file)) /\ Len(list) = Count(type, Len(file))

(* Every table of the list is one of the file's, and comes behind all      *)
(* those that the file lists before it.                                    *)
StartsWith(list, type) ==
  \A p \in 1..Len(list) : \E k \in 1..Len(file) :
    /\ file[k].type = type /\ list[p] = file[k].path
    /\ \A j \in 1 .. k - 1 : file[j].type = type => \E q \in 1 .. p - 1 : list[q] = file[j].path

(* What failed attempts have left is in front, and changes no answer: of   *)
(* the tables that have a key, the first and the last in the list are      *)
(* those in the file.                                                      *)
AnswersAsFile(list, type) == EndsWith(list, type, Len(file)) /\ StartsWith(list, type)

(* However often loading has failed, statements use the summary tables of  *)
(* the file as if it had been loaded at once: KEY= takes the first that    *)
(* has the key (query.cc:394), an address is looked for from the last      *)
(* backwards, and overrides add to a document up to the first that does    *)
(* not have it (query.cc:872).  Members of an override that an attempt has *)
(* left are printed once more.                                             *)
SummariesAnswer ==
  loaded_ => /\ AnswersAsFile(summary_tables, "summary")
             /\ AnswersAsFile(summary_override_tables, "summary-override")

(* A statement that runs has every index table of the file, and no other.  *)
IndexTablesComplete ==
  doing = "running" =>
    {index_tables_[n] : n \in 1..Len(index_tables_)} =
      {file[k].path : k \in {m \in 1..Len(file) : file[m].type = "index"}}

(* A statement that runs has every index table of the file and no other,   *)
(* some of them perhaps several times, but in such an order that the last  *)
(* one that has a word, which answers for it (query.cc:406), is the last   *)
(* in the file.                                                            *)
IndexAnswers ==
  doing = "running" => AnswersAsFile(index_tables_, "index")

(* Where nothing has failed, every table was opened once, in the order of  *)
(* the file, however many statements have run.                             *)
OpenedOnce ==
  failures = 0 /\ doing = "running" =>
    /\ Exactly(summary_tables, "summary")
    /\ Exactly(summary_override_tables, "summary-override")
    /\ Exactly(index_tables_, "index")

(* Statements get the answers of a schema that was loaded at once: tables  *)
(* that failed attempts have left stay open, in front of those of the      *)
(* file, and never answer in the place of one of them.  Where nothing has  *)
(* failed, every table of the schema was opened once.                      *)
SchemaReady == SummariesAnswer /\ IndexAnswers /\ OpenedOnce

(* That index tables are opened once is true only where nothing failed:    *)
(* after one failure each statement opens all of them again.               *)
IndexOpenedOnce == doing = "running" => Exactly(index_tables_, "index")
=============================================================================

----------------------------- MODULE MCQueries ------------------------------
(* A statement of ca-shell from the schema to the page it prints: the      *)
(* schema file that the first statements load, what a query finds, sorts   *)
(* and groups, the fields that SELECT prints, and the loops over lists of  *)
(* offsets that queries are made of.  SchemaQuery uses the results that    *)
(* OffsetLists shows the loops to have, and takes a schema that is loaded; *)
(* so one of the four takes the steps of a behaviour.                      *)
(*                                                                         *)
(* Lists have up to three elements over three offsets and two scores, so   *)
(* that offsets come several times.  The bounds of schemas and statements  *)
(* are in the modules instantiated here.  SELECT has two summary tables of *)
(* two documents, at the addresses 0, 1, 4 and 5; at 3 there is none.      *)
EXTENDS OffsetLists, SchemaLoad, SelectFields, SequencesExt

CONSTANTS
  Parts,                                        \* what to check
  Worlds, Statements, MaxQueries                \* of SchemaQuery

VARIABLES
  part,                                                             \* the part that takes steps
  world, count, stmt, offsets, extra_data, page, results, stage     \* of SchemaQuery

queryVars == <<world, count, stmt, offsets, extra_data, page, results, stage>>

Query == INSTANCE SchemaQuery WITH MaxStatements <- MaxQueries

QueryValues == INSTANCE MCSchemaQuery

AllParts == {"lists", "query", "load", "select"}
ASSUME Parts \subseteq AllParts
ASSUME Query!SchemaQueryAssumption

ListElements == [offset : 1..3, score : 1..2]
ListsOf(len) ==
  {s \in [1..len -> ListElements] : \A n \in 1 .. len - 1 : s[n].offset <= s[n + 1].offset}
MCPairs == (UNION {ListsOf(n) : n \in 0..3}) \X (UNION {ListsOf(n) : n \in 0..2})
MCMinusInf == -9

MCWorlds == QueryValues!MCWorlds
MCStatements == QueryValues!MCStatements

(* Every schema file of up to four lines that lists no table twice.        *)
Lines ==
  {[type |-> "summary", path |-> 1], [type |-> "summary", path |-> 2],
   [type |-> "summary-override", path |-> 3],
   [type |-> "index", path |-> 4], [type |-> "index", path |-> 5],
   [type |-> "#", path |-> 0], [type |-> "summry", path |-> 6]}
MCSchemaFiles ==
  {f \in UNION {[1..n -> Lines] : n \in 1..4} :
     \A a, b \in 1..Len(f) : f[a] = f[b] /\ f[a].path /= 0 => a = b}

MCBases == <<0, 4>>
MCSizes == <<2, 2>>

(* The lists over some of the addresses, in order, with all scores.        *)
Ordered(S, scores) ==
  LET order == SetToSortSeq(S, <)
  IN  {[n \in 1..Len(order) |-> [offset |-> order[n], score |-> f[order[n]]]] :
         f \in [S -> scores]}
Fields == UNION {Ordered(S, {0, 2}) : S \in SUBSET {0, 1, 4}}
MCSelections == UNION {Ordered(S, {0}) : S \in SUBSET {0, 1, 3, 4, 5}}
MCFieldLists == {<<>>} \cup {<<f>> : f \in Fields} \cup (Fields \X Fields)

(* What the parts have while another takes the steps.                      *)
IdleLists == op = "intersect" /\ orig = <<>> /\ rhs = <<>>
IdleQuery == world = QueryValues!World
IdleLoad == file = <<[type |-> "#", path |-> 0]>>
IdleSelect == selection = <<>> /\ fields = <<>>

MCInit ==
  /\ part \in Parts
  /\ part /= "lists" => IdleLists
  /\ Init
  /\ part /= "query" => IdleQuery
  /\ Query!Init
  /\ part /= "load" => IdleLoad
  /\ LoadInit
  /\ part /= "select" => IdleSelect
  /\ SelectInit

MCNext ==
  \/ part = "lists" /\ Next /\ UNCHANGED <<part, queryVars, loadVars, selectVars>>
  \/ part = "query" /\ Query!Next /\ UNCHANGED <<part, vars, loadVars, selectVars>>
  \/ part = "load" /\ LoadNext /\ UNCHANGED <<part, vars, queryVars, selectVars>>
  \/ part = "select" /\ SelectNext /\ UNCHANGED <<part, vars, queryVars, loadVars>>

MCSpec == MCInit /\ [][MCNext]_<<part, vars, queryVars, loadVars, selectVars>>

(* A loop over lists runs on by itself.                                    *)
FairMCSpec == MCSpec /\ (part = "lists" => WF_vars(Next))
-----------------------------------------------------------------------------
(* Every loop over lists of offsets comes to its end.                      *)
ListLoopEnds == part = "lists" => LoopEnds

(* A search finds the documents that match, all of them and each once,     *)
(* with the best of the scores that a word lists for it; of the index      *)
(* tables that have a word only the last one says what matches it and with *)
(* which score (query.cc:406).                                             *)
FindsMatches == Query!FindsMatches /\ Query!BestScoreCounts

(* As if all tables that have a word were searched; not so.                *)
FindsInAllTables == Query!FindsInAllTables

(* A page holds the documents of its ranks, as many as it should; every    *)
(* result is the document that the loader gave its address, in the group   *)
(* of its score.                                                           *)
PrintsPage ==
  Query!PageHoldsRanks /\ Query!AddressesResolve /\ Query!GroupsHoldScores
=============================================================================

------------------------------ MODULE LoadMerge -----------------------------
(***************************************************************************)
(* ca-load with tables for input (CopyTable, the merge callbacks and the   *)
(* last part of main in src/src/ca-load.cc).  One table is copied row by   *)
(* row; several are merged by ca_table_merge, which hands a callback each  *)
(* key with all of its rows (module GroupedMerge says what it promises).   *)
(*                                                                         *)
(* A time series is a sequence of values, whose offsets ascend unless they *)
(* came from a column file; a summary is a sequence of characters of JSON  *)
(* text, among which a whole member counts as one.                         *)
(***************************************************************************)
EXTENDS Integers, Sequences, SequencesExt, FiniteSets, FiniteSetsExt

CONSTANTS
  TableSets,   \* the sequences of tables that may be given
  Options      \* the command lines

None == -1     \* no threshold

VARIABLES
  opt,       \* the command line
  tables,    \* tables[t] is a sequence of rows, a row a key and a value
  read,      \* how many rows have been read of each table
  callback,  \* what is called with the groups, or "copy"
  rows,      \* what InsertRow() was given
  phase      \* "loading", "synced" or "failed"

vars == <<opt, tables, read, callback, rows, phase>>
-----------------------------------------------------------------------------
KeyLess(a, b) ==
  \/ a /= b /\ IsPrefix(a, b)
  \/ \E i \in 1..Len(a) :
       /\ i <= Len(b) /\ a[i] < b[i]
       /\ SubSeq(a, 1, i - 1) = SubSeq(b, 1, i - 1)

(* min_key, a lower bound of what the filter lets through, is sought in    *)
(* every table before it is read.                                          *)
SeekToMin(t) == Cardinality({r \in 1..Len(t) : KeyLess(t[r].key, opt.min_key)})

Callback ==
  IF Len(tables) = 1 THEN "copy"
  ELSE IF opt.type = "index" THEN "simple" ELSE opt.type

Init ==
  /\ opt \in Options
  /\ tables \in TableSets
  /\ read = [t \in DOMAIN tables |-> SeekToMin(tables[t])]
  /\ callback = Callback
  /\ rows = <<>> /\ phase = "loading"

(* Rows ascend in a LevelDB table and do not descend in a write-once one.  *)
TakesKey(key) ==
  IF opt.backend = "write-once" THEN rows = <<>> \/ ~KeyLess(key, Last(rows).key)
  ELSE KeyLess(IF rows = <<>> THEN <<>> ELSE Last(rows).key, key)

InsertRow(key, value) ==
  IF TakesKey(key)
  THEN rows' = Append(rows, [key |-> key, value |-> value]) /\ UNCHANGED phase
  ELSE phase' = "failed" /\ UNCHANGED rows

Skip == UNCHANGED <<rows, phase>>
Fail == phase' = "failed" /\ UNCHANGED rows

OtherShard(key) == key \in opt.other_shards

(* Mutant of Filtered: what matches is skipped.                            *)
FilteredInverse(key) == key \notin opt.filtered

Filtered(key) == key \in opt.filtered
-----------------------------------------------------------------------------
(* One round of the loop in CopyTable.  std::equal with both ends asks for *)
(* a key that is the prefix and nothing else.                              *)
CopyRow ==
  /\ phase = "loading" /\ callback = "copy" /\ read[1] < Len(tables[1])
  /\ read' = [read EXCEPT ![1] = @ + 1]
  /\ LET row == tables[1][read[1] + 1] IN
       IF OtherShard(row.key) \/ Filtered(row.key) THEN Skip
       ELSE IF opt.strip /= <<>> /\ row.key /= opt.strip THEN Fail
       ELSE InsertRow(opt.add \o (IF opt.strip = <<>> THEN row.key ELSE <<>>), row.value)
  /\ UNCHANGED <<opt, tables, callback>>
-----------------------------------------------------------------------------
(* Merging.  The rows that are left of the smallest key are a group.       *)

Left == UNION {{t} \X (read[t] + 1 .. Len(tables[t])) : t \in DOMAIN tables}
RowAt(at) == tables[at[1]][at[2]]
Smallest(keys) == CHOOSE k \in keys : \A l \in keys : ~KeyLess(l, k)

(* The rows of a group come in any order of their tables.                  *)
Groups(members) ==
  {g \in SetToSeqs(members) :
     \A i, j \in 1..Len(g) : i < j /\ g[i][1] = g[j][1] => g[i][2] < g[j][2]}

SimpleMergeCallback(key, data) ==
  CASE OtherShard(key) -> Skip
    [] ~OtherShard(key) /\ Len(data) > 1 -> Fail
    [] OTHER -> InsertRow(opt.add \o key, data[1])

(* The values of all series as the heap of iterators gives them: the next  *)
(* one is the first of what is left of a series, with the least offset,    *)
(* and of those the one of the first series.                               *)
PopFront(data, s) ==
  LET left == {d \in 1..Len(data) : s.taken[d] < Len(data[d])}
      front(d) == data[d][s.taken[d] + 1]
      d == CHOOSE d \in left : \A e \in left :
             \/ front(d).offset < front(e).offset
             \/ front(d).offset = front(e).offset /\ d <= e
  IN  [taken |-> [s.taken EXCEPT ![d] = @ + 1], out |-> Append(s.out, front(d))]

InHeapOrder(data) ==
  FoldLeft(LAMBDA s, v : PopFront(data, s),
           [taken |-> [d \in 1..Len(data) |-> 0], out |-> <<>>], FlattenSeq(data)).out

(* Mutant of Combine: the value with percentiles is kept instead.          *)
CombineKeepsBand(old, new) ==
  IF new.offset /= old.offset THEN {}
  ELSE CASE opt.mode = "union" -> IF old.score = new.score THEN {old} ELSE {}
         [] opt.mode = "pick-one" -> IF ~old.band /\ new.band THEN {new} ELSE {old}
         [] opt.mode = "sum" ->
              IF new.band THEN {} ELSE {[old EXCEPT !.score = @ + new.score]}

(* What becomes of a value whose offset is not above the one before;       *)
(* nothing when a requirement fails.                                       *)
Combine(old, new) ==
  IF new.offset /= old.offset THEN {}
  ELSE CASE opt.mode = "union" -> IF old.score = new.score THEN {old} ELSE {}
         [] opt.mode = "pick-one" -> IF old.band /\ ~new.band THEN {new} ELSE {old}
         [] opt.mode = "sum" ->
              IF new.band THEN {} ELSE {[old EXCEPT !.score = @ + new.score]}

(* merged_values, as a set that is empty after a failure.                  *)
AddMerged(sofar, v) ==
  IF sofar = {} THEN {}
  ELSE LET s == CHOOSE s \in sofar : TRUE
       IN  IF s = <<>> \/ v.offset > Last(s).offset THEN {Append(s, v)}
           ELSE {Append(Front(s), c) : c \in Combine(Last(s), v)}
MergedValues(data) == FoldLeft(AddMerged, {<<>>}, InHeapOrder(data))

(* Mutant of Kept: the threshold itself is below the threshold.            *)
KeptAbove(v) == opt.threshold = None \/ v.score > opt.threshold

Kept(v) == opt.threshold = None \/ v.score >= opt.threshold

(* FlushValues asks for the prefix to strip in current_key, which only the *)
(* parser of text fills.                                                   *)
FlushValues(key, vs) ==
  LET kept == SelectSeq(vs, Kept)
  IN  IF OtherShard(key) \/ Filtered(key) \/ kept = <<>> THEN Skip
      ELSE IF opt.strip /= <<>> THEN Fail
      ELSE InsertRow(opt.add \o key, kept)

MergeTimeSeriesCallback(key, data) ==
  CASE OtherShard(key) -> Skip
    [] ~OtherShard(key) /\ Len(data) = 1 -> InsertRow(opt.add \o key, data[1])
    [] OTHER -> IF MergedValues(data) = {} THEN Fail
                ELSE \E vs \in MergedValues(data) : FlushValues(key, vs)

(* A brace at the front wants one at the back.                             *)
Braced(json) == json /= <<>> /\ json[1] = "{"
Closed(json) == Braced(json) => Last(json) = "}"

(* The members of a JSON object, without its braces.  A space at the front *)
(* takes characters away from the back until nothing is left.              *)
Members(json) ==
  LET bare == IF Braced(json) THEN SubSeq(json, 2, Len(json) - 1) ELSE json
  IN  IF bare /= <<>> /\ bare[1] = " " THEN <<>> ELSE bare

JoinMembers(merged, json) ==
  IF Members(json) = <<>> THEN merged
  ELSE merged \o (IF merged = <<>> THEN <<>> ELSE <<",">>) \o Members(json)

(* Mutant of MergeSummariesCallback: the first summary is taken whatever   *)
(* the mode.                                                               *)
MergeSummariesFirst(key, data) ==
  IF OtherShard(key) THEN Skip ELSE InsertRow(key \o opt.add, data[1])

MergeSummariesCallback(key, data) ==
  CASE OtherShard(key) -> Skip
    [] ~OtherShard(key) /\ (Len(data) = 1 \/ opt.mode = "pick-one") ->
         InsertRow(key \o opt.add, data[1])
    [] ~OtherShard(key) /\ Len(data) > 1 /\ opt.mode = "sum" -> Fail
    [] OTHER ->
         IF \E d \in 1..Len(data) : ~Closed(data[d]) THEN Fail
         ELSE InsertRow(key \o opt.add, FoldLeft(JoinMembers, <<>>, data))

Call(key, data) ==
  CASE callback = "time-series" -> MergeTimeSeriesCallback(key, data)
    [] callback = "summaries" -> MergeSummariesCallback(key, data)
    [] callback = "simple" -> SimpleMergeCallback(key, data)

MergeGroup ==
  /\ phase = "loading" /\ callback /= "copy" /\ Left /= {}
  /\ LET key == Smallest({RowAt(at).key : at \in Left})
         members == {at \in Left : RowAt(at).key = key}
     IN  /\ read' = [t \in DOMAIN tables |->
                       read[t] + Cardinality({at \in members : at[1] = t})]
         /\ \E g \in Groups(members) : Call(key, [i \in 1..Len(g) |-> RowAt(g[i]).value])
  /\ UNCHANGED <<opt, tables, callback>>

(* The case for summaries has no break: what is left of the tables, which  *)
(* is nothing, is merged once more.                                        *)
FallThrough ==
  /\ phase = "loading" /\ callback = "summaries" /\ Left = {}
  /\ callback' = "simple"
  /\ UNCHANGED <<opt, tables, read, rows, phase>>

(* Sync() of a write-once table without rows fails, unless it gets along   *)
(* with an older file at the path (SyncOpen of WriteOnceBuilder).          *)
Sync ==
  /\ phase = "loading" /\ Left = {} /\ callback /= "summaries"
  /\ \/ phase' = "synced"
     \/ opt.backend = "write-once" /\ rows = <<>> /\ phase' = "failed"
  /\ UNCHANGED <<opt, tables, read, callback, rows>>

Next == CopyRow \/ MergeGroup \/ FallThrough \/ Sync

Spec == Init /\ [][Next]_vars
-----------------------------------------------------------------------------
AllRows == UNION {ToSet(tables[t]) : t \in DOMAIN tables}
AllKeys == {row.key : row \in AllRows}

(* Value i of row r of table t is <<t, r, i>>.                             *)
Value(at) == tables[at[1]][at[2]].value[at[3]]
ValuesOf(key) ==
  UNION {UNION {{<<t, r, i>> : i \in 1..Len(tables[t][r].value)} :
                  r \in {q \in 1..Len(tables[t]) : tables[t][q].key = key}} :
           t \in DOMAIN tables}
ValuesAt(key, o) == {at \in ValuesOf(key) : Value(at).offset = o}
Named(key) == {r \in 1..Len(rows) : rows[r].key = opt.add \o key}
MergesSeries == opt.type = "time-series" /\ Len(tables) > 1
Merged(key) == Cardinality({t \in DOMAIN tables : \E r \in 1..Len(tables[t]) :
                               tables[t][r].key = key}) > 1

(* The scores that the values at some places may be merged to: their sum,  *)
(* the one they agree on, or one of them, without percentiles when there   *)
(* is such a value.                                                        *)
Picked(from) == {at \in from : Value(at).band => \A b \in from : Value(b).band}
MergedScores(from) ==
  IF opt.mode = "sum" THEN {MapThenSumSet(LAMBDA at : Value(at).score, from)}
  ELSE {Value(at).score : at \in Picked(from)}

Offsets(key) == {Value(at).offset : at \in ValuesOf(key)}
BelowThreshold(key, o) ==
  opt.threshold /= None /\ \E s \in MergedScores(ValuesAt(key, o)) : s < opt.threshold

(* A merge of time series that ends has written every key of the shard     *)
(* that the filter lets through exactly once and in ascending order: the   *)
(* groups' keys, which the backend wants to ascend, still do behind the    *)
(* prefix.  A key is left out only if several tables have it and its       *)
(* merged values are all below the threshold.                              *)
KeysOnce ==
  MergesSeries /\ phase = "synced" =>
    /\ \A r, s \in 1..Len(rows) : r < s => KeyLess(rows[r].key, rows[s].key)
    /\ \A key \in AllKeys : Cardinality(Named(key)) <= 1
    /\ \A key \in AllKeys \ (opt.other_shards \cup opt.filtered) : Named(key) = {} =>
         Merged(key) /\ \A o \in Offsets(key) : BelowThreshold(key, o)

IsMerged(v, from) ==
  /\ v.score \in MergedScores(from)
  /\ opt.mode = "union" => \A at \in from : Value(at).score = v.score
  /\ opt.mode = "pick-one" => \E at \in Picked(from) : Value(at) = v

(* The row of a key that several tables have holds the offsets of them     *)
(* all, each once and in order, with a score that is the mode's: the one   *)
(* they agree on, one of them - without percentiles when some table has    *)
(* such a value - or their sum.  An offset is left out only if this merged *)
(* score is below the threshold.                                           *)
ValuesMerged ==
  MergesSeries /\ phase = "synced" =>
    \A key \in AllKeys : Merged(key) => \A r \in Named(key) :
      LET out == rows[r].value IN
        /\ \A i, j \in 1..Len(out) : i < j => out[i].offset < out[j].offset
        /\ \A o \in Offsets(key) :
             \/ BelowThreshold(key, o) /\ \A i \in 1..Len(out) : out[i].offset /= o
             \/ \E i \in 1..Len(out) :
                  /\ out[i].offset = o
                  /\ opt.threshold = None \/ out[i].score >= opt.threshold
                  /\ IsMerged(out[i], ValuesAt(key, o))

(* A union of summaries keeps every member of every summary of a key.      *)
(* (Only for JSON text without white space behind the brace; see           *)
(* UnionKeepsMembers.)                                                     *)
CompactUnionKeepsMembers ==
  opt.type = "summaries" /\ opt.mode = "union" /\ Len(tables) > 1 /\ phase = "synced" =>
    \A row \in AllRows : row.key \notin opt.other_shards /\ row.value[2] /= " " =>
      \E r \in 1..Len(rows) :
        /\ IsPrefix(row.key, rows[r].key)
        /\ ToSet(row.value) \ {"{", "}"} \subseteq ToSet(rows[r].value)

(* The same for any JSON text.                                             *)
UnionKeepsMembers ==
  opt.type = "summaries" /\ phase = "synced" =>
    \A row \in AllRows : \E r \in 1..Len(rows) :
      ToSet(row.value) \ {"{", "}", " "} \subseteq ToSet(rows[r].value)

(* --add-key-prefix: every output key begins with the prefix.              *)
PrefixAdded == \A r \in 1..Len(rows) : IsPrefix(opt.add, rows[r].key)

(* --threshold: no value below it is in the output.                        *)
ThresholdHolds ==
  \A r \in 1..Len(rows) : \A i \in 1..Len(rows[r].value) :
    rows[r].value[i].score >= opt.threshold

(* --key-filter: a key that matches the expression is not in the output.   *)
FilterSkipsMatches == \A r \in 1..Len(rows) : rows[r].key \in opt.filtered

(* --strip-key-prefix: copying a table all of whose keys begin with the    *)
(* prefix does not fail.                                                   *)
StripSucceeds ==
  (\A key \in AllKeys : IsPrefix(opt.strip, key)) => phase /= "failed"
=============================================================================

------------------------------ MODULE LoadText ------------------------------
(***************************************************************************)
(* ca-load reading text (parse_data, AddOffsetScore, FlushValues and the   *)
(* end of main in src/src/ca-load.cc).  One step takes one character, so   *)
(* the chunks in which a pipe delivers the text make no difference.        *)
(*                                                                         *)
(* Characters are ASCII codes.  An offset is one digit, and a value is a   *)
(* sequence of digits, one per number that strtod() would find: how dates  *)
(* and numbers are spelt is left out, how many numbers there are is not.   *)
(***************************************************************************)
EXTENDS Integers, Sequences, SequencesExt, FiniteSets, TLC

CONSTANTS
  Files,     \* the sequences of lines that an input file may hold
  Options    \* the command lines

Tab == 9
LineFeed == 10
Return == 13
Backslash == 92
NoNumber == -1             \* a score that is not given
Digit(ch) == ch - 48

VARIABLES
  opt,                     \* the command line
  file,                    \* the lines that the text was made from
  text, pos,               \* the text, and how much of it has been parsed
  token_state, no_match, escape,      \* parse_state
  current_key, next_key, offset, current_offset, value_string,
  values, max_sorted_value_index,
  line,                    \* history: how many lines are complete
  rows,                    \* what InsertRow() was given, in that order
  phase                    \* "parsing", "synced" or "failed"

input == <<opt, file, text>>
parse == <<pos, token_state, no_match, escape>>
tokens == <<current_key, next_key, offset, current_offset, value_string>>
pending == <<values, max_sorted_value_index>>
vars == <<input, parse, tokens, pending, line, rows, phase>>
-----------------------------------------------------------------------------
(* The text of a file.  A tab, a line break or a backslash in a key is     *)
(* written with a backslash, unless --no-unescape is given; text for that  *)
(* option can have no such key but one with a backslash.                   *)

Escaped(key) ==
  LET spell(ch) == CASE ch = Tab -> <<Backslash, 116>>
                     [] ch = LineFeed -> <<Backslash, 110>>
                     [] ch = Return -> <<Backslash, 114>>
                     [] ch = Backslash -> <<Backslash, Backslash>>
                     [] OTHER -> <<ch>>
  IN  FlattenSeq([i \in 1..Len(key) |-> spell(key[i])])

LineText(l, o) ==
  (IF o.no_unescape THEN l.key ELSE Escaped(l.key)) \o <<Tab>>
    \o (IF o.type = "summaries" THEN <<>> ELSE <<48 + l.offset, Tab>>)
    \o [i \in 1..Len(l.value) |-> 48 + l.value[i]] \o <<Return, LineFeed>>

Text(f, o) == FlattenSeq([i \in 1..Len(f) |-> LineText(f[i], o)])

HasText(f, o) ==
  o.no_unescape => \A i \in 1..Len(f) : ToSet(f[i].key) \cap {Tab, LineFeed, Return} = {}

Init ==
  /\ opt \in Options
  /\ file \in Files /\ HasText(file, opt)
  /\ text = Text(file, opt)
  /\ pos = 0 /\ token_state = "parse_key" /\ no_match = FALSE /\ escape = FALSE
  /\ current_key = <<>> /\ next_key = <<>>
  /\ offset = <<>> /\ current_offset = 0 /\ value_string = <<>>
  /\ values = <<>> /\ max_sorted_value_index = 0
  /\ line = 0 /\ rows = <<>> /\ phase = "parsing"
-----------------------------------------------------------------------------
(* Writing rows.                                                           *)

(* Keys in the order of the bytes.                                         *)
KeyLess(a, b) ==
  \/ a /= b /\ IsPrefix(a, b)
  \/ \E i \in 1..Len(a) :
       /\ i <= Len(b) /\ a[i] < b[i]
       /\ SubSeq(a, 1, i - 1) = SubSeq(b, 1, i - 1)

(* The order that a backend asks of its rows: ascending in a LevelDB table *)
(* (which takes no empty key), not descending in a write-once table, any   *)
(* with --input-unsorted, but then neither key nor value may be empty (see *)
(* WriteEntryData of WriteOnceSorting).                                    *)
TakesRow(key, value) ==
  LET last == IF rows = <<>> THEN <<>> ELSE Last(rows).key
  IN  CASE opt.backend = "leveldb-table" -> KeyLess(last, key)
        [] opt.backend = "write-once" -> rows = <<>> \/ ~KeyLess(key, last)
        [] opt.backend = "unsorted write-once" -> key /= <<>> /\ value /= <<<<>>>>

InsertRow(key, value) ==
  IF TakesRow(key, value) THEN [rows |-> Append(rows, [key |-> key, value |-> value]), ok |-> TRUE]
  ELSE [rows |-> rows, ok |-> FALSE]

(* stable_sort by offset, after a sort() that leaves the order of values   *)
(* of one offset open.                                                     *)
SortedByOffset(vs) ==
  {s \in {[i \in 1..Len(vs) |-> vs[p[i]]] : p \in Permutations(1..Len(vs))} :
     \A i \in 1 .. Len(vs) - 1 : s[i].offset <= s[i + 1].offset}

(* Mutant of AboveThreshold: the threshold itself is refused.              *)
AboveThresholdStrict(vs) ==
  SelectSeq(vs, LAMBDA v : opt.threshold = NoNumber \/ v.score > opt.threshold)

AboveThreshold(vs) ==
  SelectSeq(vs, LAMBDA v : opt.threshold = NoNumber \/ v.score >= opt.threshold)

(* What FlushValues(key) may do to the output.                             *)
Flushed(key, vs) ==
  IF key \in opt.rejected \/ vs = <<>> THEN {[rows |-> rows, ok |-> TRUE]}
  ELSE IF ~IsPrefix(opt.strip, key) THEN {[rows |-> rows, ok |-> FALSE]}
  ELSE {InsertRow(opt.add \o SubSeq(key, Len(opt.strip) + 1, Len(key)), s) :
          s \in SortedByOffset(vs)}

(* Mutant of FlushValues: a key that the filter refuses leaves the index   *)
(* of the sorted values as it was.                                         *)
FlushValuesStaleIndex(key) ==
  \E out \in Flushed(key, AboveThreshold(values)) :
    /\ rows' = out.rows
    /\ phase' = IF out.ok THEN phase ELSE "failed"
    /\ values' = <<>>
    /\ max_sorted_value_index' =
         IF key \in opt.rejected THEN max_sorted_value_index ELSE 0

FlushValues(key) ==
  \E out \in Flushed(key, AboveThreshold(values)) :
    /\ rows' = out.rows
    /\ phase' = IF out.ok THEN phase ELSE "failed"
    /\ values' = <<>> /\ max_sorted_value_index' = 0

-----------------------------------------------------------------------------
(* The parser.                                                             *)

More == phase = "parsing" /\ pos < Len(text)

Unescape(ch) ==
  CASE ch = 116 -> Tab [] ch = 114 -> Return [] ch = 110 -> LineFeed [] OTHER -> ch

Ch == IF escape THEN Unescape(text[pos + 1]) ELSE text[pos + 1]
IsPlain(ch) == ~escape /\ Ch = ch
IsEscape == IsPlain(Backslash) /\ ~opt.no_unescape

Take == pos' = pos + 1 /\ escape' = FALSE

ReadBackslash ==
  /\ More /\ IsEscape
  /\ pos' = pos + 1 /\ escape' = TRUE
  /\ UNCHANGED <<input, token_state, no_match, tokens, pending, line, rows, phase>>

(* Reads a character as the given token.                                   *)
Reading(token) == More /\ token_state = token /\ ~IsEscape /\ Take

EndKey ==
  /\ Reading("parse_key") /\ IsPlain(Tab)
  /\ current_key' = next_key /\ next_key' = <<>>
  /\ token_state' = IF opt.type = "summaries" THEN "parse_value" ELSE "parse_offset"
  /\ UNCHANGED <<input, no_match, offset, current_offset, value_string,
                 pending, line, rows, phase>>

(* Mutant of IsNewKey: a key that continues the current one is not seen.   *)
IsNewKeyShort(ch) ==
  /\ values /= <<>> /\ Len(next_key) < Len(current_key)
  /\ current_key[Len(next_key) + 1] /= ch

(* Mutant of IsNewKey: every key is taken for a new one.                   *)
IsNewKeyAlways(ch) == values /= <<>>

IsNewKey(ch) ==
  /\ values /= <<>>
  /\ \/ Len(next_key) = Len(current_key)
     \/ current_key[Len(next_key) + 1] /= ch

KeyCharacter ==
  /\ Reading("parse_key") /\ ~IsPlain(Tab)
  /\ IF IsNewKey(Ch) THEN FlushValues(current_key)
                     ELSE UNCHANGED <<pending, rows, phase>>
  /\ next_key' = Append(next_key, Ch)
  /\ UNCHANGED <<input, token_state, no_match, current_key, offset,
                 current_offset, value_string, line>>

(* The summary tables that hold the document.                              *)
Holding(doc) == {i \in DOMAIN opt.summaries : doc \in DOMAIN opt.summaries[i].rows}

(* The number of a document in the last table that holds it.               *)
Document(doc) ==
  LET i == CHOOSE i \in Holding(doc) : \A j \in Holding(doc) : j <= i
  IN  opt.summaries[i].base + opt.summaries[i].rows[doc]

EndOffset ==
  /\ Reading("parse_offset") /\ IsPlain(Tab)
  /\ LET doc == Digit(offset[1])
     IN  IF opt.type /= "index" THEN current_offset' = doc /\ UNCHANGED no_match
         ELSE /\ no_match' = (Holding(doc) = {})
              /\ current_offset' =
                   IF Holding(doc) = {} THEN current_offset ELSE Document(doc)
  /\ offset' = <<>> /\ token_state' = "parse_value"
  /\ UNCHANGED <<input, current_key, next_key, value_string, pending, line, rows, phase>>

OffsetCharacter ==
  /\ Reading("parse_offset") /\ ~IsPlain(Tab)
  /\ offset' = Append(offset, Ch)
  /\ UNCHANGED <<input, token_state, no_match, current_key, next_key,
                 current_offset, value_string, pending, line, rows, phase>>

AddOffsetScore(v) ==
  /\ values' = Append(values, v)
  /\ max_sorted_value_index' =
       IF /\ max_sorted_value_index = Len(values)
          /\ values = <<>> \/ v.offset > Last(values).offset
       THEN max_sorted_value_index + 1 ELSE max_sorted_value_index

(* How many numbers a value may hold.  The second strtod() of a value with *)
(* percentiles does not move on: one number serves as the 5th and as the   *)
(* 25th percentile.                                                        *)
IsScore(s) == Len(s) = 1 \/ Len(s) >= 4
Percentiles(s) ==
  IF Len(s) = 1 THEN [k \in 1..4 |-> NoNumber]
  ELSE [k \in 1..4 |-> Digit(s[IF k = 1 THEN 2 ELSE k])]

Parsed ==
  [offset |-> current_offset, score |-> Digit(value_string[1]),
   pct |-> Percentiles(value_string), line |-> line + 1]

ReadReturn ==
  /\ Reading("parse_value") /\ IsPlain(Return)
  /\ UNCHANGED <<input, token_state, no_match, tokens, pending, line, rows, phase>>

(* Inserts the summary, or adds the value to those of the key.             *)
EndValue ==
  /\ Reading("parse_value") /\ IsPlain(LineFeed)
  /\ CASE opt.type = "summaries" ->
            LET out == InsertRow(opt.add \o current_key, <<value_string>>)
            IN  /\ rows' = out.rows
                /\ phase' = IF out.ok THEN phase ELSE "failed"
                /\ UNCHANGED <<pending, no_match>>
       [] opt.type /= "summaries" /\ no_match ->
            no_match' = FALSE /\ UNCHANGED <<pending, rows, phase>>
       [] OTHER ->
            /\ IF IsScore(value_string)
               THEN AddOffsetScore(Parsed) /\ UNCHANGED phase
               ELSE phase' = "failed" /\ UNCHANGED pending
            /\ UNCHANGED <<no_match, rows>>
  /\ value_string' = <<>> /\ token_state' = "parse_key"
  /\ line' = line + 1
  /\ UNCHANGED <<input, current_key, next_key, offset, current_offset>>

ValueCharacter ==
  /\ Reading("parse_value") /\ ~IsPlain(Return) /\ ~IsPlain(LineFeed)
  /\ value_string' = Append(value_string, Ch)
  /\ UNCHANGED <<input, token_state, no_match, current_key, next_key, offset,
                 current_offset, pending, line, rows, phase>>

(* The text ends: whoever writes it may stop anywhere.  A file without any *)
(* is an error.  Else the values that are left are written and the table   *)
(* is completed; what a write-once builder of unsorted rows has is put in  *)
(* order.  A write-once table without rows cannot be completed, unless it  *)
(* gets along with an older file at its path (SyncOpen of                  *)
(* WriteOnceBuilder).                                                      *)
ZeroSize == ~opt.pipe /\ pos = 0

Synced(rs) ==
  IF opt.backend = "unsorted write-once"
  THEN SortSeq(rs, LAMBDA a, b : KeyLess(a.key, b.key)) ELSE rs

SyncMayFail(rs) == opt.backend /= "leveldb-table" /\ rs = <<>>

LeftOver ==
  IF values = <<>> THEN {[rows |-> rows, ok |-> TRUE]}
  ELSE Flushed(current_key, AboveThreshold(values))

EndOfInput ==
  /\ phase = "parsing"
  /\ \E out \in LeftOver :
       \/ /\ ~ZeroSize /\ out.ok
          /\ rows' = Synced(out.rows) /\ phase' = "synced"
       \/ /\ ZeroSize \/ ~out.ok \/ SyncMayFail(out.rows)
          /\ rows' = rows /\ phase' = "failed"
  /\ values' = <<>> /\ max_sorted_value_index' = 0
  /\ UNCHANGED <<input, parse, tokens, line>>

Next ==
  \/ ReadBackslash
  \/ KeyCharacter \/ EndKey
  \/ OffsetCharacter \/ EndOffset
  \/ ReadReturn \/ ValueCharacter \/ EndValue
  \/ EndOfInput

Spec == Init /\ [][Next]_vars
-----------------------------------------------------------------------------
(* Every variable has its type.  The values before max_sorted_value_index  *)
(* ascend and are no more than there are: std::sort() in FlushValues of    *)
(* ca-load.cc starts there.                                                *)
TypeOK ==
  /\ pos \in 0..Len(text) /\ line \in 0..Len(file)
  /\ token_state \in {"parse_key", "parse_offset", "parse_value"}
  /\ no_match \in BOOLEAN /\ escape \in BOOLEAN
  /\ phase \in {"parsing", "synced", "failed"}
  /\ max_sorted_value_index \in 0..Len(values)
  /\ \A i, j \in 1..max_sorted_value_index :
       i < j => values[i].offset < values[j].offset

(* The lines that belong in the output.                                    *)
Accepted(i) ==
  /\ opt.type = "index" => Holding(file[i].offset) /= {}
  /\ file[i].key \notin opt.rejected
  /\ opt.threshold = NoNumber \/ file[i].value[1] >= opt.threshold

OutKey(i) == opt.add \o SubSeq(file[i].key, Len(opt.strip) + 1, Len(file[i].key))

Scored == opt.type /= "summaries"
InOrder == \A i, j \in 1..Len(file) : i < j => ~KeyLess(file[j].key, file[i].key)
WellFormed ==
  \A i \in 1..Len(file) :
    /\ IsPrefix(opt.strip, file[i].key) /\ OutKey(i) /= <<>>
    /\ Len(file[i].value) \in {1, 5}

LinesOf(row) == {row.value[n].line : n \in 1..Len(row.value)}

(* No line is lost and none counts twice: until the end, every complete    *)
(* line that is to be loaded is held by exactly one of `values' and the    *)
(* rows, once, whatever the order of the lines.  (Lines of one key and of  *)
(* a key that begins it may share a row; see OwnKey.)                      *)
LinesHeldOnce ==
  Scored /\ phase /= "failed" =>
    LET held == FlattenSeq([r \in 1..Len(rows) |-> rows[r].value]) \o values
    IN  /\ \A i, j \in 1..Len(held) : i /= j => held[i].line /= held[j].line
        /\ opt.rejected = {} =>
             \A i \in 1..line : Accepted(i) => \E n \in 1..Len(held) : held[n].line = i

(* Lines that come in the order of their keys are loaded exactly, even     *)
(* when the text breaks off in the middle of a line: one row for each key, *)
(* ascending, and in it, ascending by offset, the complete lines of that   *)
(* key that are to be loaded, each at the offset of its date or document.  *)
LoadedExactly ==
  Scored /\ InOrder /\ phase = "synced" =>
    /\ \A r, s \in 1..Len(rows) : r < s => KeyLess(rows[r].key, rows[s].key)
    /\ \A r \in 1..Len(rows) :
         /\ LinesOf(rows[r]) = {i \in 1..line : Accepted(i) /\ OutKey(i) = rows[r].key}
         /\ \A n \in 1..Len(rows[r].value) :
              LET v == rows[r].value[n]
                  l == file[v.line]
              IN  /\ v.score = l.value[1]
                  /\ v.offset = IF opt.type = "index"
                                THEN LET i == Max(Holding(l.offset))
                                     IN  opt.summaries[i].base
                                           + opt.summaries[i].rows[l.offset]
                                ELSE l.offset
                  /\ n > 1 => rows[r].value[n - 1].offset <= v.offset
    /\ \A i \in 1..line : Accepted(i) => \E r \in 1..Len(rows) : rows[r].key = OutKey(i)

(* There is no line for a write-once table, or no text at all.             *)
NothingToLoad ==
  \/ ZeroSize
  \/ opt.backend /= "leveldb-table" /\ \A i \in 1..line : Scored /\ ~Accepted(i)

(* Loading lines that come in the order of their keys does not fail, if    *)
(* there is something to load: no row is ever inserted out of the          *)
(* backend's order.  (With summaries the keys have to ascend too.)         *)
InOrderSucceeds ==
  /\ InOrder /\ WellFormed
  /\ Scored \/ \A i \in 1 .. Len(file) - 1 : file[i].key /= file[i + 1].key
  => (phase = "failed" => NothingToLoad)

(* Lines in any order, with --input-unsorted: a value is written under the *)
(* key of its own line.                                                    *)
OwnKey ==
  Scored => \A r \in 1..Len(rows) : \A i \in LinesOf(rows[r]) : OutKey(i) = rows[r].key

(* A value with percentiles is loaded with the numbers of its line.        *)
OwnPercentiles ==
  Scored => \A n \in 1..Len(values) :
    Len(file[values[n].line].value) = 5 =>
      values[n].pct = SubSeq(file[values[n].line].value, 2, 5)
=============================================================================

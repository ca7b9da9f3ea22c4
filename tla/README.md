# A verification project for cantera-table

cantera-table keeps large sorted tables of (key, value) rows in files, and
answers queries over them: `ca-load` builds tables, `ca-dump` prints them,
`ca-shell` runs queries, `correlate` among them. This directory holds TLA+
models of the program's own logic, the TLC configurations that check them on
small instances, and TLAPS proofs for every value of the constants. Source
paths below are relative to `src/src/`.

## 1. The system

| Component | State it keeps | Operations | Interacts with |
|---|---|---|---|
| Thread pool (`thread-pool.h`) | queue of calls, two task counters, `done_`, two condition variables, threads | `Launch` (void and future), `ThreadMain`, `Wait`, destructor | any caller; `correlate.cc` |
| Correlate (`correlate.cc`) | offset sets, output mutex, the pool | one task per series, `ProcessSeries`, `ProcessRange` | pool, query engine, stdout |
| Write-once builder (`table-backend-writeonce.cc`) | current block, index, temporary file | `InsertRow`, `Sync` | file system; loader and merge |
| Write-once reader, version 4 (same file) | cursor (block, entry), block at hand, key and value caches | `SeekToFirst`, `SeekToKey`, `Skip`, `ReadRow`, `Offset`, `Seek` | files of the builder; query, select, dump |
| Write-once reader, version 3 (same file) | memory map, hash index | as above | legacy files |
| Write-once sorting builder (same file) | unsorted rows in an anonymous file, sortable entries in memory | `InsertRow`, `Sync` | loader |
| LevelDB backend (`table-backend-leveldb-table.cc`, `util.cc`) | LevelDB table builder or iterator, anonymous temporary file | as above | LevelDB, `linkat` |
| Merge (`merge.cc`) | heap of cursors | `ca_table_merge` | tables, loader's callbacks |
| Loader (`ca-load.cc`) | current key and its values | parsing, flushing, merging of values | tables |
| Query engine (`query.cc`, `select.cc`) | sorted vectors of (offset, score) | set algebra, thresholds, summaries | schema, tables |
| Schema (`schema.cc`) | lists of tables, loaded lazily | `Load` and accessors | query engine |
| Offset-score codec (`format.cc`, `parse.cc`, `rle.c`, `third_party/oroch`) | none | encode, decode | loader, query engine |

What is hard in it:

* **Concurrency.** The pool notifies after it has unlocked; `Wait()` compares
  counters that are advanced in different critical sections; launchers run
  tasks themselves when the backlog is full; `correlate` hands the pool
  references to its own locals and leaves its scope without `Wait()`.
* **Crashes and failing calls.** A table is built in a temporary file, renamed
  and only then flushed with `fsync`. Any of these calls may fail, the process
  may be killed and the machine may lose power in between.
* **Boundaries.** Rows are cut into blocks by three limits in bytes, and the
  cursor is a pair of numbers over blocks that are read and decoded lazily.
  Ends of blocks, of tables, of runs and of hash indexes are where such code
  goes wrong.
* **Lists rewritten in place.** Queries, `correlate` and the loader filter, join
  and sort vectors over their own elements, with offsets that come several
  times, and keep what they gathered from one key, file or statement to the next.
* **Retries.** `ca-shell` reports a failed statement and runs the next on the
  schema as the failure left it.

What makes each part correct:

* pool: a call runs at most once; the counters count what `Wait()` needs; when
  `Wait()` returns nothing scheduled is under way; no call is left to workers
  that all sleep; `Wait()` and the destructor return;
* correlate: every series is printed, its lines in one piece; no task outlives
  what it refers to;
* builder: the final path never names an unfinished, unsorted or partly indexed
  file; no row is lost; a finished `Sync()` is durable; block limits are kept;
* reader: it behaves as a cursor over one sorted sequence of rows;
* merge: the callback gets each key once, in order, with all its rows;
* sorting builder: rows come out sorted, equal keys in the order they came;
* LevelDB: the cursor behaves as one over a sorted sequence; a path, once it
  names a table, always names a finished one, whoever crashes;
* codec: every reader finds in a row what was written into it;
* loader: the rows of the output are what the lines, tables or columns say;
* queries: lists are the sets they stand for, a page holds the ranks it is asked
  for, an address leads to its document; a schema, however it got loaded, answers
  as its file says.

`PROJECT.json` lists the components, the hazards at their lines and the
properties that cover each of them.

## 2. The modules

| Module | Models |
|---|---|
| `ThreadPool` | class `ThreadPool` |
| `Correlate` | `ca_schema_query_correlate` around the pool; EXTENDS `ThreadPool` |
| `CorrelateSeries` | what a task does with its series: `FilterByTimestamp`, `ProcessSeries`, `ProcessRange` |
| `WriteOnceFormat` | what builder and reader agree on: rows, index, sizes |
| `WriteOnceBuilder` | `WriteOnceBuilder` and the writing half of `WriteOnceTable`, with the file system |
| `WriteOnceSorting` | `WriteOnceSortingBuilder` |
| `TableCursor` | the abstract cursor: what `Table` and `SeekableTable` promise |
| `WriteOnceReader` | `WriteOnceReader_v4` with its block and caches; implements `TableCursor` |
| `WriteOnceReaderV3` | `WriteOnceReader_v3`: the hash index of older tables |
| `LevelDBCursor` | the reading half of `LevelDBTable`; implements `TableCursor` |
| `LevelDBPublish` | its writing half and `LinkAnonTemporaryFile`, for several programs |
| `GroupedMerge` | what `ca_table_merge` promises its callback |
| `Merge` | `ca_table_merge` and its heap; implements `GroupedMerge` |
| `Rle`, `RleStream` | the run-length coder, and a writer and a reader that use it |
| `Oroch` | `third_party/oroch`: varints, packed integers and the choice of an encoding |
| `Codec`, `OffsetScoreRow` | every encoding of a row, and a row written and read |
| `LoadText`, `LoadMerge`, `LoadColumns` | `ca-load` from text, from tables, from column files |
| `OffsetLists` | the loops of `query.cc` over lists of offsets |
| `SchemaQuery` | `ProcessQuery` and `ca_schema_query` |
| `SelectFields` | `SELECT` |
| `SchemaLoad` | `Schema::Load` and `Schema::IndexTables` |
| `CorrelateProofs`, `WriteOnceBuilderProofs`, `WriteOnceReaderProofs`, `LevelDBProofs`, `MergeProofs`, `LoaderProofs`, `OffsetListsProofs`, `SchemaProofs` | the theorems: of the pool and its driver, of both builders, of both write-once readers, and of the components the other names say (`LoaderProofs`: `RleStream` and `LoadColumns`; `SchemaProofs`: `SchemaLoad` and `SelectFields`) |
| `MCThreadPool`, `MCCorrelate`, `MCWriteOnceBuilder`, `MCReaders`, `MCMerge`, `MCLoader`, `MCQueries` | instances for TLC, one per group of components |
| `MCCorrelateSeries`, `MCOffsetScoreRow`, `MCLoadText`, `MCLoadMerge`, `MCLoadColumns`, `MCSchemaQuery` | inputs that those use |

An instance of several components puts together those of one program: one
EXTENDS the components that theorems are about, INSTANCEs the others, and a variable (`part`, `work` or
`input`) that `Init` chooses says which takes the steps. They do not share
state while they run: a reader keeps the file it has opened, and the program's
options and the input's format choose one loader, one builder, one backend.
Where one uses the result of another, it takes what the other's properties
establish: `LoadMerge` takes groups from `GroupedMerge`, `SchemaQuery` the
results of `OffsetLists`, `SelectFields` ascending lists from `SchemaQuery`,
`WriteOnceBuilder` rows in order from `WriteOnceSorting`, `WriteOnceReader`
files that `WriteOnceBuilder` can have written.

### ThreadPool

All shared state is read and written under `mutex_`, so a critical section is
one action: `Enqueue` or `StartInline` (`Launch` up to its unlock), `TakeWork`
(the worker's wait, test of `done_` and pop), `CompleteTask` (counting a task
*and* going on to the next wait, because the mutex is not released between the
two), `Wait`, `Destroy`. What happens outside the lock is an action of its own:
the body of a task (`CallReturns`, `CallThrows`, `RunInline`) and the
`notify_one()` of `Launch` (`LaunchNotify`). A thread waits on a condition
variable when its program counter is `"waiting"`; `SpuriousWorker` and
`SpuriousClient` end a wait for no reason. A task that throws ends the process
if it is void and runs in a worker, is stored if it has a future, and throws
out of `Launch` if it runs inline. `queue`, `scheduled` and `completed` are
`queued_calls_`, `scheduled_tasks_` and `completed_tasks_`; `done_` is
`phase # "live"`. Clients use the pool until one destroys it, and nobody is
inside a call at that moment, which is what C++ asks of callers. `kind`,
`status`, `runs` and `waitedFor` are history.

### Correlate

The calling thread is the pool's only client. `LaunchSeries` is the body of the
loop over the index tables; the rows it skips leave no trace. A task locks
`output_mutex` for each range that passes `ProcessRange`'s cutoffs
(`LockOutput`), prints the line in two or three calls of stdio (`PrintPiece`: odds,
counts and key; the range, if it has bounds; the end of the line) and unlocks (`UnlockOutput`). `Lines` gives the
number of calls of each line of each series. The calls of other tasks may come
between any two of these: only the mutex keeps them from it, and without it
`NoLineTorn` is violated. `LeaveScope` is
the destruction of `output_mutex`, which is declared after the pool and so dies
before it; `LeavePool` is `~ThreadPool()`. Nothing calls `Wait()`.

### CorrelateSeries

One task on the data of one series; a round of a loop is an action. `FilterNow`
and `FilterEvents` are the loops of the two overloads of `FilterByTimestamp`, which
write their result over the series they read (`keys`, with `i` and `output`, and the
cursors `a` and `b` in the two sets); `FilterEnd` erases the rest. `ProcessSeries` is
that function up to its loop over the partitioning points: it returns, calls
`ProcessRange` on everything, or sets `agg`. `TryMid` is a round of that loop, with
`mid` and `best` (`best_mid` and its score), and `EndCut` decides which ranges are
tried (`calls`). `CountDocument` is a round of `ProcessRange`'s loop, `ReturnRange`
its cutoffs; `count` holds the three match counts and `ranges` what the calls that
returned counted and whether they print. Logarithms of odds are compared as
fractions. `FrontOfEmpty` is `front()` of a series of which the filter has left
nothing.

### WriteOnceFormat and WriteOnceBuilder

The rows of all blocks follow each other in the file, so a file is its sequence
of `rows`, the index as the sequence `ends` of how many rows precede the end of
each block, and a `state`: the header is written with `index_offset` 0
(`"open"`), the index is appended (`"indexed"`), the header is rewritten
(`"complete"`). Keys are integers because only their order matters. Row sizes
are kept in bytes, with varint lengths, because `MustClose` depends on them.

`InsertRow` is the whole of `Add`, with the write of a full block. A key below the
one before is refused (`RefuseRow`), and the exception ends the use of the object. `Sync()` is
one action per group of system calls: `SyncBlock`, `SyncIndex`, `SyncHeader`,
`SyncRename`, `SyncFile`, `SyncOpen`. `IoError` is a call that fails; the
exception ends the use of the object and its destructor unlinks the temporary
file. `Kill` ends the process. `PowerLoss` replaces what the path names by a
member of `survivors`: what was there before the rename, the new file, or the
new file's name on contents that did not reach the disk (`Torn`), until `fsync`
or write-back. `fsync` of a file makes the file's contents durable and says
nothing about its directory entry, so the old file stays among the survivors.

### WriteOnceSorting

Rows go to an anonymous file through a stdio stream, which may write what it has
buffered at any time (`Spill`), and an entry with the row's place, its size and
the first bytes of its key stays in memory. `Build()` is `FlushEntryData`,
`SortEntries` (`std::stable_sort` with a comparison that looks at the prefixes
first and reads the file when they are equal) and `AddSorted` for each row.
Reading a row whose bytes are not in the file yet gives nothing. `fwrite` of an
empty key or value returns 0, which line 891 takes for a failure
(`WriteEntryData`): such a row is refused.

### TableCursor and WriteOnceReader

`TableCursor` has one number, how many rows the cursor has passed, and `call`, the
operation called last with its argument: `Skip(2)` must pass two rows, a search
must be for the key that was asked for. The readers record what they were called
with, and the refinements compare it. In
`WriteOnceReader` the state is that of the class: `block_num_`, `entry_num_`,
`block_read_num_` and, for each cache, the block it was filled from; the caches
are cleared only in `ReadBlock`, as in the code. Binary searches are given by
what `std::lower_bound` promises, over the last keys of the blocks and over the
keys of the block *the cache holds*, so that a stale cache shows as a wrong
row. `Skip` is a loop on copies of the cursor (`SkipStart`, `SkipStep`,
`SkipReturn`). An `entry_num_` behind its block's last entry makes `ReadRow`
index its caches out of bounds, which is the result `"undefined"`. `Spec` has
the callers of this repository, which `Seek` with `SEEK_SET` to an offset that
`Offset()` returned for a row; `AnySpec` has every `Seek` the class accepts.

### WriteOnceReaderV3

A row's number is its offset. Between the rows and the index there may be padding,
whose first byte is 0, and reading ends there as well as at the index (`AtEnd`).
`V3Skip` throws, as `Skip()` does. `V3SeekToKey` begins a search, `Probe` looks at one
slot: version 3 goes to the next slot, the versions before in steps that grow
until they overflow a word. In an ascending table the keys met on the way narrow
the rows that may still be compared. The program that wrote such tables is not in
the repository: it is modelled as the search expects it (`PlaceRow`, external),
trying slot after slot on a key's way until one is empty. A writer that finds none
never ends, and its table is never opened.

### LevelDBCursor and LevelDBPublish

LevelDB's iterator is external: it stands on a row or on none, and must not be
moved or read then. After a read the cursor stays on its row and `need_seek_`
says that it has to move first; `eof_` says that it must not. Every operation is
one action. With `MayFail` a block may be unreadable, which the iterator passes
over.

In `LevelDBPublish` programs build tables in files without a name and give them
one at the same path: `LinkPath` is `linkat` to the path; when that is taken,
`LinkIntermediate` links a random other name, up to `kMaxAttempts` times, and
`Rename` replaces the path. `SyscallFails` and `Kill` may come between any two
steps. `orphans` is history: names that failures and kills have left.

### GroupedMerge and Merge

`GroupedMerge` says what `ca_table_merge` promises: each key once, in order,
with all rows that have it. `Merge` is the code: `Fill` is a round of the loop
that reads the first row of each table, `Step` a round of the loop that hands
the smallest row to `callback_wrapper` and replaces or pops the heap's top,
`Return` the last group. The heap's three functions run in steps of their own,
one per round of their loops: `call` is the function that runs and `hole` its
`i`; `HoleDown` moves the smaller child up into the hole, `HoleAtBottom` ends that
loop, `HoleUp` moves the parent down while `entry` belongs above it, and
`FillHole` puts `entry` in. `push` starts with the second loop. `pop` looks at
`heap[0]` of the shifted array when its entry has reached the top; that is the
phase `"undefined"`.
A row is its table and number; a table that is not sorted makes the merge throw.

### Rle, RleStream, Oroch, Codec, OffsetScoreRow

`Rle` has the coder one byte at a time, as operators on its context; in
`RleStream` a writer puts bytes and a reader takes them. `Oroch` has what
`format.cc` and `parse.cc` use of `third_party/oroch`: varints and zigzag, bit
packing in blocks of two words, `select`, which computes the size of a list in
each of seven encodings and takes the shortest, patched bit packing with its lists
of outliers, the metadata and the decoders. Differences of signed integers wrap as
the unsigned ones do. `Codec` has the encoders of `format.cc` and, each from its
own code, the three readers of `parse.cc`. The constants shrink bytes and words
(`Bytes`, `WordBytes`, `MaskBits`, `Nibble`, `MaxRun`) and keep what follows from
them: varints of several bytes, runs at their limit, masks of several bytes,
differences modulo a word. All sizes are the code's in these units: a float takes
half a word, a `ca_offset_score` four words, a block of packed integers two, and
`FitsBuffer` compares what was written with what `ca_offset_score_size` allots.
Scores are counted in halves, so that some are no integers. In `OffsetScoreRow` a row is written by
`ca_table_write_offset_score`, or in the encoding that this version only reads,
perhaps gets another block behind it, and is read by one of the readers.

### LoadText, LoadMerge, LoadColumns

`LoadText` parses text one character per step, with `ca-load`'s parser state: a
key is compared with the current one character by character while it is read, and
what was gathered is flushed where they differ (`IsNewKey`), so that which values
go under which key is decided between two characters. Escapes are undone on the
way, or not, with `--no-unescape` (`IsEscape`). `FlushValues` applies the
threshold, the filter and the prefixes, sorts and inserts. The input may break
off anywhere (`EndOfInput`); a file, unlike a pipe, must not be empty
(`ZeroSize`). An offset is one digit and a value a sequence of
digits, one for each number that `strtod()` would find; the second `strtod()` of
a value with percentiles starts where the first did, as in the code.

All three end with `Sync()`. A write-once table without rows makes it throw, unless
an older file is at the path, which `Sync()` then opens in its place (section 5,
2): the model leaves open which, so an empty load may fail (`SyncMayFail`).

`LoadMerge` copies one table or merges several, with one callback for time
series, for summaries and for the rest, and the order of a key's rows left open.
Values of one key come in the order of the heap of iterators (`InHeapOrder`), which
is that of offsets only if each row's are; where they are not, `Combine` throws.
A key filter is the set of keys it refuses, a shard the set of the others' keys.
The case for summaries runs into the next (`FallThrough`).

`LoadColumns` is the loop over column files, a path of its own that applies none
of these options.

### OffsetLists, SchemaQuery, SelectFields, SchemaLoad

`OffsetLists` runs nine loops of `query.cc` step by step on `lhs`, with `l`, `r`
and `o` for the iterators; lists may hold an offset several times. `SchemaQuery`
takes their results: `Find` evaluates a query tree (words, keys, comparisons,
set operators, samples, MAX, MIN, ORDER BY) over the index tables and removes
duplicates, `FilterByThresholds` filters by a word's scores, `Sort` leaves the
page that `partial_sort` may leave, `Fetch` fetches one result, in the order of
addresses, with its overrides, headers and group. `extra_data` lives as long as
the process. `SelectFields` walks each field's list along the selection, then
prints.

`SchemaLoad` reads the schema file line by line, opens summary tables, keeps the
paths of index tables and opens these when a statement first needs them, one
per step. A table that cannot be opened (`OpenFails`) throws out of the
statement, and the next one finds what was opened so far.

## 3. The runs

| Run | Shows |
|---|---|
| `thread_pool` | tasks run at most once; counters account for every task; `Wait()` is a barrier and protects what was launched before it; no wake-up is lost; queued calls are taken, `Wait()` returns, the destructor returns |
| `correlate` | the call returns; no task outlives it; lines are tasks' own and no other line's calls come between those of one. A task's filter reads each value as it was; what it keeps is from before the document's event; a document counts once in a range; the ranges of a cut hold every value once |
| `correlate_dropped` (violated) | series still queued when the scope ends are never run |
| `writeonce_writers` | blocks close where the comments on the limits say; no row is lost; with failures, kills and power loss anywhere the path names nothing or a finished, sorted, indexed file; `Sync()` is durable. The sorting builder's entries lead to their rows, its output is accepted by the sorted builder, and equal keys keep their order |
| `writeonce_empty` (violated) | `Sync()` of an empty table fails, unlike in the test `EmptyTableOK` |
| `writeonce_unsorted` (violated) | a row out of order is refused, unlike in the test `CanWriteThenReadUnsorted` |
| `table_readers` | the version 4 and LevelDB readers implement `TableCursor`, call by call with its argument; cursors stay inside; a hash search finds its key exactly when it is there, and ends in version 3; the path of a LevelDB table never names an unfinished one nor, once named, nothing; a program renames its own file only; only kills and failures leave names behind; publishing ends |
| `merge` | the heap merge implements `GroupedMerge`; the heap stays ordered with one entry per table; `pop` stays in the array; the merge ends |
| `loader` | run lengths, encoded rows and their three readers agree; text in order is loaded exactly, and fails only if there is nothing to load; no line is lost or doubled in any order; merged series have every key and offset once with the mode's score, and lack one only if its merged score is below the threshold; compact summaries keep their members; column files are loaded exactly, and fail, in order, only for want of rows |
| `queries` | each loop over lists computes its set, in order, from elements it has not overwritten, and ends; a query finds what matches, by the last index table that has the word, once, with its best score; pages, documents and groups are right; `SELECT` prints each document's own values; after one failure every table answers as the schema file says |
| `offset_lists_filter` (violated) | the threshold filter writes behind its list |
| `schema_load_twice` (violated) | two failures leave a schema with one index table twice and another missing |

### What the composed properties say

A run's property that joins several of a module's is one promise of that part;
the parts are stated, each with its comment, where the code is modelled. The
mutants in `PROJECT.json` break the parts one by one.

| Property | Joins |
|---|---|
| `TasksPrintTheirLines` | `Correlate!CorrelateTypeOK`, `NoLineTorn`, `LinesComeFromTasks` |
| `FiltersByEvent` | `CorrelateSeries!FilterReadsRow`, `Filtered` at the end |
| `RangesPartition` | `CorrelateSeries!CallsPartition`, `CountsDocumentsOnce` |
| `SortsStably` | `WriteOnceSorting!EntriesLeadToRows`, `BuildSucceeds`, `BuildsStably` |
| `FindsExactly` | `WriteOnceReaderV3!PositionInside`, `SearchIsRight` |
| `FlagsFollowIterator` | `LevelDBCursor!CursorTypeOK`, `FlagsFollowIterator` |
| `PublishesSafely` | `LevelDBPublish!PublishTypeOK`, `PathIsComplete`, `RenamesItsOwn`, `NamesAccountedFor` |
| `CallsEnd` | `WriteOnceReader!SkipReturns`, `WriteOnceReaderV3!SeekEnds`, `LevelDBPublish!PublishEnds` |
| `HeapSound` | `Merge!TypeOK`, `HeapHoldsCursors`, `PopStaysInside` |
| `RunLengthsReadBack` | `RleStream!StreamTypeOK`, `ReadsWhatWasPut`, `EndsTogether`, `AtMostDoubles` |
| `RowsReadBack` | `OffsetScoreRow!RoundTrip`, `CountAgrees`, `MaxOffsetAgrees`, `FitsBuffer` |
| `TextLoaded` | `LoadText!TypeOK`, `LinesHeldOnce`, `LoadedExactly`, `InOrderSucceeds` |
| `TablesMerged` | `LoadMerge!KeysOnce`, `ValuesMerged`, `CompactUnionKeepsMembers` |
| `ColumnsLoaded` | `LoadColumns!ColumnValuesOwn`, `ColumnKeysOnce`, but for summaries |
| `ListsComputed` | `OffsetLists!ComputesSets`, `StaysAscending`, `ReadsOriginals` |
| `FindsMatches` | `SchemaQuery!FindsMatches`, `BestScoreCounts` |
| `PrintsPage` | `SchemaQuery!PageHoldsRanks`, `AddressesResolve`, `GroupsHoldScores` |
| `SchemaReady` | `SchemaLoad!SummariesAnswer`, `IndexAnswers`, `OpenedOnce` |
| `SelectsFields` | `SelectFields!SelectsOwnValues`, `PrintsSelection` |

### Bounds

* Pool: two workers and two clients are the fewest for which workers race for a
  call and launchers for the backlog. Three tasks and a backlog of one give a
  queued, a running and an inline task together. No symmetry is used, since the
  run has liveness properties.
* Correlate: four series with a backlog of one, worth two lines, one, none and
  one, of two calls or three: a series runs in a worker, runs inline, and is dropped. Tasks: disjoint
  sets A and B of up to two documents of three, series of up to three values, so
  that a document comes several times and both sets have documents before,
  between and behind the other's.
* Writers: three rows with the sizes at which each limit flips (two fill a block
  exactly, just at and just over the entry limit), and two tables at one path, so
  that there is an old file to lose. Unsorted: three rows, a prefix of one byte,
  keys that share it and of which one begins another, the empty key and value.
* Readers: all sorted tables of up to three rows over three keys, cut into
  blocks in every way; `Skip` by up to four rows. That has duplicate keys across
  a block end, keys before, between and after all rows, blocks of one row, and
  skips beyond the end. Version 3: up to three rows in three or four slots with
  every hash (the first key's at slot 0, since both ways through the slots
  commute with a rotation as long as no step overflows), so that searches wrap and
  collide, with and without padding. LevelDB: every
  table of up to four rows over even keys, keys looked for on and between them;
  two programs, two tables each, two intermediate names and attempts, so that
  leftovers can take all names.
* Merge: five tables, the fewest for which the heap has three levels and the
  tail need not be under the hole, with up to two rows over three keys, the empty
  key (the first value of `current_key`) among them.
* Loader: bytes of 4 bits with runs up to four and words of four of them: varints
  take one to six bytes, a block of packed integers has 32 bits. Every series of
  one value over offsets and scores at the width boundaries, pairs, series of up
  to 21 values in patterns that fill runs, masks and step tables, and of up to 40
  for which `select` takes each of its seven encodings, with few and many
  outliers. Text: all files of two lines over five keys (one
  begins three others, two need escaping), two offsets and two scores, and all of
  three lines with one score; six command lines. Tables: pairs of tables of up to
  two rows, one empty, one alone or three alike; ten command lines. Columns: two
  files of up to two rows.
* Queries: lists of up to three and two elements over three offsets and two
  scores. Two schemas with two summary, two override and two index tables, in one of them
  with words that both index tables have; some
  900 statements: all pairs of simple queries under AND, OR and -, pages at and
  behind every end, and groups. Schema files of up to four lines, up to one
  failure (two in the violated run), three statements. `SELECT`: every selection
  of five addresses, one of which leads nowhere, and up to two fields.

`MaxRows`, `MaxWritten`, `MaxTables`, `NTasks`, `MaxSkip`, `MaxLevelDBSkip`,
`MaxPuts`, `MaxUnsorted`, `MaxQueries`, `MaxStatements` and `MaxFailures` are the
named bounds; they appear as guards or as ranges of arguments. The theorems hold
for all their values, except that `SchemaIsReady` has `MaxFailures <= 1` as its
hypothesis.

### Fairness

`ThreadPool!Fairness`: each worker, each client inside a call and the join go on
if they can (weak fairness). That is what a preemptive scheduler gives a
runnable thread, together with the assumption that task bodies return. A
worker's step at the mutex stays enabled until taken because every critical
section is one action. Nothing obliges a client to call, and no spurious wake-up
is assumed. `Correlate!CFairness` is the same, with the output of each task weakly fair: it
locks if it can, and what it prints and unlocks follows. Weak fairness of the lock
suffices because each task prints at most two lines; and the loop over the tables
ends because tables are finite. Everywhere else weak
fairness says that a loop inside one call runs on: `Skip()` of the version 4
reader, the probing of version 3, the attempts of `LinkAnonTemporaryFile` (a
program that is not killed goes on), the loops over lists, and the thread that
merges.

Deadlock is checked in every run whose system always has a step; a destroyed
pool, a returned correlate call, a finished build and programs that have
published all their tables have an explicit stuttering step. It is not checked
for the merge, the loader and the queries, which end.

## 4. The theorems

Assumptions are the named `ASSUME`s: finitely many workers, natural bounds,
integer keys, for the reader `WellBuilt` files, which is what
`WriteOnceBuilder` establishes (`WellFormed` rows and index) plus strictly
increasing offsets, and for `SELECT` what it is given (`SelectAssumption`):
ascending lists and summary tables that do not overlap.

**CorrelateProofs, the pool**, for any finite set of workers, any clients, backlog and
number of tasks:
`PoolTypeCorrect`, `TasksRunAtMostOnce`, `CountersAgree`, `WaitIsABarrier`,
`WaitProtectsTasks`, `WakeupsAreNotLost`.
`RunsAtMostOnce` is not inductive: nothing in it says that the call at the front
of the queue has not been run. `PlaceInv` says where each task is: it stands in
the queue once if and only if its status is `"queued"`, a running task is in the
hands of exactly one worker, an inline task of one client, launched tasks are
those that are not new, and only the end of the destructor drops tasks. The
accounting theorem counts busy workers with the finite-set theorems; the barrier
follows from accounting (equal counters mean an empty queue and no busy worker)
and `PlaceInv`.

**CorrelateProofs, the driver**, for any threads, series and number of lines:
`DriverUsesPool` is the refinement `CSpec => Spec`: every step of the driver is
one of the pool or leaves it alone, so that the pool's invariants can be used.
`ReferencesOutliveTasks` and `LinesArePrintedWhole` follow from `DriverInv`: the
main thread is in no call of the pool but `Launch` and the destructor, the holder
of `output_mutex` is a task in hand with a line left, what is on stdout is whole
lines but for the holder's last, a task that returned has printed all its lines, and a destroyed pool has nothing in hand or queued. The
last is why references to locals outlive the tasks although nothing waits.

**CorrelateProofs, the task**, for any two non-empty disjoint sets and any series, of
any lengths and scores: `FilterIsExact` and `RangesAreExact`, both from
`SeriesInvariant`. Of `Filtered`, nothing is known while the filter runs; `CopyInv`
says instead that the elements in front of `output` are, in order, what becomes of
the elements in front of `i` (`Wrote`, with a map from places written to places
read), and the elements from `i` on are the row's. That an element becomes the right
thing needs that the cursors in the two sets have passed only documents before the
one at hand (`Behind`), that with `now` an element that was passed lies before the
next event, and that with two sets the filter stands at the first value of a
document (`FilterInv`). `RangeInv` says that the counts of a range are those of the
documents seen so far, and that the next element is not of a document already
counted; the second is what skipping duplicates is for. A cut loses nothing because
neighbours in `agg` have no score of the series between them (`CutInv`,
`CutSides`). `SeriesAssumption` states what callers give: sets that ascend and
series that do so weakly, and scores within -`HUGE_VAL` and `HUGE_VAL`, as are their
differences from an event or from now.

**WriteOnceBuilderProofs**, for any rows, sizes and number of tables:
`BuilderTypeCorrect`, `PathNamesCompleteFiles`, `NoRowIsLost`,
`SyncMakesDurable`, `BlocksCloseAtLimits`. The invariant says that while
building, the accepted rows are the file's rows followed by the block's, that
they are sorted, that the index covers the file's part and that an empty block
means no rows at all. The last conjunct is why checking a row against the current
block alone keeps the *whole* table sorted. None of that depends on where blocks
are cut. `BlocksCloseAtLimits` does, and needs `SizedInv`: the block in memory is
one that may be written, and its first row is the one that closed the block
before it. What it uses of a block's estimated size is that a row adds to it
(`EstimateFacts`, from the recursive function `ByteEnds`).

For the sorting builder, `SortingIsStable`, for rows of any number and size. While
rows are added, the file with what the stream holds back is the rows one after the
other, and the entry of a row says where it is (`Adding`); after the flush the
same is true of the file alone (`Flushed`), so that a comparison reads whole keys
and none fails. `Build()` hands on the rows in the order of a permutation that
sorts them stably, and that what it has handed on is a beginning of that is what
is inductive. `LessAsymmetric`, `PrefixFacts` and `PrefixTells` say that comparing
prefixes first, and keys when these are equal, is comparing keys.

**WriteOnceReaderProofs**, for any set of well-built files and any skip count:
`ReaderTypeCorrect`, `CursorStaysInBlock` and `ReaderImplementsCursor`, that is,
`Spec => Cursor!Spec`. The invariant says that the cursor is unset, on an entry
of its block, or behind the last block; that a cache is empty or holds the block
at hand; and that inside `Skip()` the copies have as far to go as was asked by the call
recorded. The
refinement needs all of it: `SeekToKey` uses that the search in the right
block's keys is the search in the whole table, `SkipReturn` uses the count, and
`ReadRow` the caches.

For the versions before, `HashSearchIsExact`, for any table, hashes, number of
slots and either way through them. A search is right because every row is on the
way of its key with no empty slot in front of it. `Leads` says so without numbering
the slots of a way: every set of slots that has the first one, and with a slot that
is taken by another row the next one, has the row's. Placing a row in an empty slot
keeps that for the rows before and establishes it for the new one, since its way has
come over taken slots only (`Reaches`); a probe that does not end the search keeps
it for the next slot (`LeadsOn`). `Ahead` adds that the row sought is within the
bounds, which needs that an ascending table ascends. Nothing is used of the step
from slot to slot but that it stays in the index, so the overflow of the older
versions' steps does no harm.

**LevelDBProofs**. `PublishingIsSafe` and `PathIsNeverEmptied`, for any number of
programs, tables, names and attempts, killed or failing anywhere: `PublishInv`
says that files are sorted at any time and a name, final or intermediate, is only
given to a file that has its footer; that a program about to rename owns the name
it renames; and that every intermediate name is the one of such a program or an
orphan. `FlagsAreInStep`, for all tables, unreadable blocks included, is inductive
as it is stated. `LevelDBImplementsCursor` is the refinement of `TableCursor`; its
hypothesis `MayFail = FALSE` is needed, since LevelDB passes over a block it
cannot read and the code does not ask (section 5).

**MergeProofs**, for any number of tables of any lengths: `HeapIsSound` and
`MergeImplementsGroups`, that is, `Spec => Grouped!Spec`. Neither follows from
itself while a heap function runs. `MergeInv` therefore speaks of a heap with a
hole: `OrderInv` says that entries are in order wherever the hole is not
concerned *and across it*, from its parent to its children; that the entry on the
way is not larger than what is below the hole; and that the tail which a pop is
placing is not smaller than the top, which is why it never gets in front of the
array. `CursorInv` says which entries stand for rows: those in the heap outside
the hole and the one a push or a replacement carries, exactly one for each table
that has rows left. `GroupInv` ties these to the history: a row was handed on if
and only if it was read and has no entry, the rows gathered have the current key,
the groups before smaller ones, and no entry has a smaller one. The group handed on
is whole because the top is least (`TopIsLeast`, up the tree from the least
position that would be smaller) and tables are sorted.

**LoaderProofs**. `RunLengthsAreExact`, for any bytes, any width of a byte and longest
run. What a coded sequence stands for is a recursion over it; the
invariant has it as a map instead, from every position at which a code begins to
the number of bytes before it (`Codes`). A put or a flush extends the map at its
end, and the reader walks along it. The only assumptions are the constants' own:
`RleAssumption`, and that what is put are bytes.

`ColumnsAreLoaded`, for any number of column files with any lines, and any summary
tables. `ColumnInv` says of the rows, with what is gathered as the last of them
(`Gathered`), that they hold exactly the values of the lines passed, in their order
and under their keys: a map from the places of values to those of lines (`Holds`),
to which a line adds one place, in a new row or at the end of the last. Without
what is gathered, the rows hold those of a beginning (`RowsHold`). Where the lines
are in order, `OrderInv` adds that the key of every row is that of a line read and
less than the key at hand, so that no insertion fails, with either backend, and
`Sync()` fails only for a write-once table when no line has a value. The
assumption is `ColumnAssumption`, the types of lines.

**OffsetListsProofs**, for lists of any length, any offsets, scores and
thresholds: `ListLoopsAreExact` for all nine loops. `ListsInv` has a conjunct for
each kind of loop. Loops that copy within one list: the elements written so far
are, in order, those of the elements read so far that the operator keeps
(`Selected`, with a map from places written to places read, which grows and is
never ahead of the reading), and what is not read yet is as it was (`Unread`).
Where the operator pairs elements, that is exact if offsets come once; the filter
stays inside its list if the row's offsets come once (section 5 has what happens
otherwise).

**SchemaProofs**. `SummariesAnswerAsFile`, for any schema file, any number of
statements and of failures, and `SchemaIsReady`, for one failure at most. Failed
attempts leave tables in front of those that the last one opened, and these are
used: `AnswersAsFile` says that this changes no answer, because the list ends with
the tables of the file in order (`ListsEnd`), so that the last table that has a key
is the file's last, and every table in it comes behind those that the file lists
before it (`ListsStart`), so that the first is the file's first. What repeated
tables do cost is in section 5. `LoadInv` finds the tables of the file in the lists
by counting lines (`CountFacts`); as long as opening failed at most once, the number
of index tables tells whether they are complete. That is the conjunct which two
failures break (section 5).

`SelectIsExact`, for any selection, fields and summary tables. `WalkInv` says that
what the walk has passed in a field's list lies below the next document, so that the
place where it stops has the document's value or shows that there is none; every
document has as many values as fields were walked for it. `OutputInv` ties the lines
to them. A value that is missing is different from every score (`NaN`, `Value`).

The type invariants of the pool, the builder and the version 4 reader are proved
and in no run of their own; those of the other modules with proofs are part of
their properties.

Only model-checked, and why:

* everything about liveness (`WaitReturns`, `DestructorReturns`,
  `CorrelateReturns`, `CallsEnd`, `MergeEnds`, `ListLoopEnds`), and that the
  searches of the readers always find something: the proofs show that what they
  find is right;
* `FindsMatches` and `PrintsPage`: `SchemaQuery` evaluates trees with RECURSIVE
  operators, which the prover cannot be given;
* `RowsReadBack`: what the codec computes is a recursion over a row, for three
  readers. Induction over data is not to be had from the library, whose theorems
  take an operator; where a proof needs the least counterexample of a fixed
  predicate, `LeastNat` gives it from the well-founded order of the numbers;
* `TextLoaded` and `TablesMerged`: their modules are written for
  TLC, with folds and sorted sequences inside their actions, and have no inductive
  invariant yet.

## 5. Where code and documentation disagree

Five disagreements have a run that TLC must find violated:

1. `correlate.cc:566`: the scope ends without `Wait()`; queued series are
   dropped and their features not printed (`correlate_dropped`).
2. `table-backend-writeonce.cc:760`: a table without rows is not committed, and
   `Sync()` then fails to open it; the test `EmptyTableOK` expects it to work
   (`writeonce_empty`).
3. `table-backend-writeonce.cc:671`: a key below the one before is refused, unless
   the options say that the input is unsorted. The test `CanWriteThenReadUnsorted`
   inserts a, c, d, b with default options and expects a table that is not sorted
   (`writeonce_unsorted`). `CommittedIsComplete` is stated for what the code does:
   the path never names an unsorted file.
4. `query.cc:773`: the threshold filter moves on in the row's values and not in
   the list, so a document with several values in range makes the result longer
   than the list it is written over (`offset_lists_filter`).
5. `schema.cc:123`: index tables count as opened when there are as many as
   paths; after two failures on the second of two there are, and the first is
   there twice (`schema_load_twice`).

The modules state further properties that the code does not have. They are in
no run; TLC refutes each as an invariant over the constants of the run named
(of `queries` with the schemas and statements at the end of `MCSchemaQuery`
where these are mentioned):

| Property | Instance | What the code does |
|---|---|---|
| `Correlate!OutputMutexAlive` | `correlate` | `correlate.cc:522`: `output_mutex` is declared after the pool and destroyed before it, while tasks still lock it |
| `CorrelateSeries!DiscardsOnlyUnavailable` | `correlate` | `correlate.cc:362`: values of documents behind the last one of set A are discarded too; `correlate.cc:420`: only the first value of a document is compared with its event, so later ones from before it go as well. The comment at 481 speaks of information that was unavailable at the time of the event |
| `CorrelateSeries!WholeIsBest` | `correlate` | `correlate.cc:340`: the first cut stands for none found, although it can be the best; line 342 says that no subrange was more predictive |
| `CorrelateSeries!SeriesHasFront` | `correlate` | `correlate.cc:198`: `front()` of a series that the filter has emptied |
| `WriteOnceReader!NoUndefinedRead` | `table_readers`, `AnySpec` | `table-backend-writeonce.cc:1123`: a `Seek()` to the end, or inside the last row of a block, is accepted, and `ReadRow()` reads behind the caches. No program of the repository makes such a call |
| `WriteOnceReader!SeekCurStays` | `table_readers`, `AnySpec` | `table-backend-writeonce.cc:1098`: `SEEK_CUR` does not count the header |
| `LevelDBCursor!FalseMeansEnd` | `table_readers`, `MayFail` | `table-backend-leveldb-table.cc:237`: a block that cannot be read is passed over by LevelDB's iterator and `status()` is never asked, so rows go missing silently |
| `LoadText!OwnKey` | `loader` | `ca-load.cc:270`: in unsorted input a key that begins the one before is taken for it, and gets its values |
| `LoadText!OwnPercentiles` | `loader` | `ca-load.cc:355`: the 25th percentile is parsed where the 5th was, and the later ones shift |
| `LoadMerge!PrefixAdded` | `loader` | `ca-load.cc:511`: merged summaries get `--add-key-prefix` behind their keys |
| `LoadMerge!UnionKeepsMembers` | `loader` | `ca-load.cc:532`: a summary with white space in front is emptied from its end |
| `LoadMerge!ThresholdHolds` | `loader` | `ca-load.cc:413`: a key of one table only is copied past the threshold |
| `LoadMerge!FilterSkipsMatches` | `loader` | `ca-load.cc:550`: the filter keeps the keys that the help text says it skips |
| `LoadMerge!StripSucceeds` | `loader` | `ca-load.cc:555`: `CopyTable` asks for the whole key to equal the prefix it strips |
| `LoadColumns!ColumnThreshold` | `loader` | `ca-load.cc:878`: `--threshold` is not applied to column files |
| `SchemaQuery!FindsInAllTables` | `queries` | `query.cc:406`: of several index tables with a word the last one's documents remain; the sample schema at `README.md:16` has two. `FindsMatches` is stated for the last table |
| `SchemaLoad!IndexOpenedOnce` | `queries` | `schema.cc:123`: after one failure there are more index tables than paths, and each statement opens all of them again. Overrides that a failed `Load()` has left are applied twice, and print their members again (`query.cc:872`) |
| `WriteOnceReaderV3!SeekEndsInAnyVersion` | `table_readers` with 8 slots, `Word = 1024`, version 2 and six rows at slots 0, 1, 3, 5, 6, 7 | `table-backend-writeonce.cc:1274`: modulo 8 the Fibonacci steps never come by two of the slots; a search in vain that finds the others taken does not end |
| `SchemaQuery!AddressesResolve` | `queries`, `Reordered` | `query.cc:844`: an address is resolved to a wrong table unless the schema lists tables by ascending offset |
| `SchemaQuery!ScoresInRange` | `queries`, `NoSuchWord` | `query.cc:897`: the filter runs only if some table has the thresholds' word, but "the score is known to be within range" |
| `SchemaQuery!OverridesUsed` | `queries` | `query.cc:873`: the loop over override tables ends at the first without the document |
| `SchemaQuery!HeadersOfThisQuery` | `queries`, `ObjectThenWord`, two statements | `query.cc:291`: headers of earlier queries stay in `extra_data` |
| `SchemaQuery!SummariesMerged` | `queries`, `SharedDocument` | `query.cc:853`: one of a document's summaries is shown; `README.md:25` says that they are merged |

`README.md` also calls the loader's output type `summary` where the code knows
`summaries`.

## 6. Not modelled

* Next, proofs: the loaders of text and of tables, step by step where they fold now.
* A second `Sync()` after a failed one, and the version 4 reader after a read
  error: no program goes on after them. The path of the sorting builder's
  temporary directory and its descriptors are not part of its state.
* `ca-dump.cc`, `ca-shell.cc`, `statement.cc`, `output.cc`: option parsing, dispatch
  of statements and layout of output.
  `table.cc` and the options of `ca-table.h`: getters, setters, and the choice
  of a backend by its name.
* `query-lexer.ll` and `query-parser.yy`, of which code is generated; queries
  are trees here. `keywords.cc`: a table read once. `delegate.h`: a wrapper of
  functions. The rest of `util.cc`: thin wrappers of system calls.
* Vendored code but for oroch. LevelDB, zstd and stdio are external.

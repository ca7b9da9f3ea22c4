-------------------------- MODULE WriteOnceSorting --------------------------
(***************************************************************************)
(* WriteOnceSortingBuilder of src/src/table-backend-writeonce.cc: rows in  *)
(* any order go to an anonymous file through a stdio stream, with an entry *)
(* of their place and the first bytes of their key in memory; Build()      *)
(* sorts the entries and reads the rows back in order for the sorted       *)
(* builder, which module WriteOnceBuilder models.  The stream may write    *)
(* what it has buffered at any time.                                       *)
(*                                                                         *)
(* Keys, values and the file are sequences of bytes.                       *)
(***************************************************************************)
EXTENDS Integers, Sequences

CONSTANTS
  RawKeys, RawValues,    \* sequences of bytes
  PrefixSize,            \* sizeof(Entry::prefix); 24 in the code
  MaxUnsorted            \* bound: rows that are added

ASSUME SortingAssumption ==
  /\ RawKeys \subseteq Seq(Int) /\ RawValues \subseteq Seq(Int)
  /\ PrefixSize \in Nat \ {0} /\ MaxUnsorted \in Nat

VARIABLES
  file, buffered,            \* raw_fd_, and what raw_stream_ holds back
  index_, offset_, key_size_max_,
  unsorted,                  \* history: the rows of Add()
  added,                     \* the rows that WriteOnceBuilder::Add took
  sorting                    \* "adding", "flushed", "sorted", "built" or an error

sortVars == <<file, buffered, index_, offset_, key_size_max_, unsorted, added, sorting>>

SortInit ==
  /\ file = <<>> /\ buffered = <<>>
  /\ index_ = <<>> /\ offset_ = 0 /\ key_size_max_ = 0
  /\ unsorted = <<>> /\ added = <<>> /\ sorting = "adding"
-----------------------------------------------------------------------------
PrefixOf(key) == IF Len(key) < PrefixSize THEN key ELSE SubSeq(key, 1, PrefixSize)

EntryOf(key, value) ==
  [offset |-> offset_, key_size |-> Len(key), value_size |-> Len(value), prefix |-> PrefixOf(key)]

(* Mutant of AddEntry: the running offset forgets the keys.                *)
AddEntryValues(key, value) ==
  /\ index_' = Append(index_, EntryOf(key, value))
  /\ offset_' = offset_ + Len(value)
  /\ key_size_max_' = IF key_size_max_ < Len(key) THEN Len(key) ELSE key_size_max_

AddEntry(key, value) ==
  /\ index_' = Append(index_, EntryOf(key, value))
  /\ offset_' = offset_ + Len(key) + Len(value)
  /\ key_size_max_' = IF key_size_max_ < Len(key) THEN Len(key) ELSE key_size_max_

(* fwrite() of nothing returns 0, which is taken for a failure; on a full  *)
(* disk it fails too.                                                      *)
WriteEntryData(key, value) ==
  \/ /\ key /= <<>> /\ value /= <<>>
     /\ buffered' = buffered \o key \o value
     /\ unsorted' = Append(unsorted, [key |-> key, value |-> value])
     /\ UNCHANGED sorting
  \/ sorting' = "fwrite_failed" /\ UNCHANGED <<buffered, unsorted>>

Add(key, value) ==
  /\ sorting = "adding" /\ Len(index_) < MaxUnsorted
  /\ AddEntry(key, value) /\ WriteEntryData(key, value)
  /\ UNCHANGED <<file, added>>

Spill ==
  /\ sorting = "adding" /\ buffered /= <<>>
  /\ file' = file \o buffered /\ buffered' = <<>>
  /\ UNCHANGED <<index_, offset_, key_size_max_, unsorted, added, sorting>>

(* Mutant of FlushEntryData: what is buffered stays there.                 *)
FlushEntryDataLater ==
  /\ sorting = "adding"
  /\ sorting' \in {"flushed", "fflush_failed"}
  /\ UNCHANGED <<file, buffered, index_, offset_, key_size_max_, unsorted, added>>

FlushEntryData ==
  /\ sorting = "adding"
  /\ \/ sorting' = "flushed" /\ file' = file \o buffered /\ buffered' = <<>>
     \/ sorting' = "fflush_failed" /\ UNCHANGED <<file, buffered>>
  /\ UNCHANGED <<index_, offset_, key_size_max_, unsorted, added>>
-----------------------------------------------------------------------------
(* Build().                                                                *)

(* The order of the bytes: the two agree in n of them, then a ends or has  *)
(* the smaller one.                                                        *)
Less(a, b) ==
  \E n \in 0..Len(a) :
    /\ n < Len(b) /\ \A k \in 1..n : a[k] = b[k]
    /\ n < Len(a) => a[n + 1] < b[n + 1]

InFile(offset, size) == offset + size <= Len(file)
Read(offset, size) == SubSeq(file, offset + 1, offset + size)

(* Keys are read from the file only if what is in memory does not tell.    *)
Compare(lhs, rhs) ==
  IF lhs.prefix /= rhs.prefix THEN Less(lhs.prefix, rhs.prefix)
  ELSE Less(Read(lhs.offset, lhs.key_size), Read(rhs.offset, rhs.key_size))

ReadsTooFar ==
  \E n, m \in 1..Len(index_) : /\ n /= m /\ index_[n].prefix = index_[m].prefix
                               /\ ~InFile(index_[n].offset, index_[n].key_size)

(* Mutant of Before: what compares as equal changes places.                *)
BeforeUnstable(n, m) ==
  \/ Compare(index_[n], index_[m])
  \/ ~Compare(index_[m], index_[n]) /\ n > m

(* The order of std::stable_sort.                                          *)
Before(n, m) ==
  \/ Compare(index_[n], index_[m])
  \/ ~Compare(index_[m], index_[n]) /\ n < m

(* The ways to put n things in an order.                                   *)
Orders(n) == {p \in [1..n -> 1..n] : \A k, m \in 1..n : p[k] = p[m] => k = m}

SortEntries ==
  /\ sorting = "flushed"
  /\ IF ReadsTooFar THEN sorting' = "pread_incomplete" /\ UNCHANGED index_
     ELSE /\ sorting' = "sorted"
          /\ \E p \in Orders(Len(index_)) :
               /\ \A n, m \in 1..Len(index_) : n < m => Before(p[n], p[m])
               /\ index_' = [n \in 1..Len(index_) |-> index_[p[n]]]
  /\ UNCHANGED <<file, buffered, offset_, key_size_max_, unsorted, added>>

(* One round of the loop in Build: the row is read and handed to the       *)
(* sorted builder, which refuses a key below the last one of its block.    *)
AddSorted ==
  /\ sorting = "sorted" /\ Len(added) < Len(index_)
  /\ LET e == index_[Len(added) + 1]
         row == [key |-> Read(e.offset, e.key_size),
                 value |-> Read(e.offset + e.key_size, e.value_size)]
     IN  IF ~InFile(e.offset, e.key_size + e.value_size)
         THEN sorting' = "pread_incomplete" /\ UNCHANGED added
         ELSE IF added /= <<>> /\ Less(row.key, added[Len(added)].key)
         THEN sorting' = "unsorted_input" /\ UNCHANGED added
         ELSE added' = Append(added, row) /\ UNCHANGED sorting
  /\ UNCHANGED <<file, buffered, index_, offset_, key_size_max_, unsorted>>

Built ==
  /\ sorting = "sorted" /\ Len(added) = Len(index_)
  /\ sorting' = "built"
  /\ UNCHANGED <<file, buffered, index_, offset_, key_size_max_, unsorted, added>>

SortNext ==
  \/ \E key \in RawKeys, value \in RawValues : Add(key, value)
  \/ Spill \/ FlushEntryData \/ SortEntries \/ AddSorted \/ Built

SortSpec == SortInit /\ [][SortNext]_sortVars
-----------------------------------------------------------------------------
(* The bytes x are those of s from `at' on.                                *)
Holds(s, at, x) == at + Len(x) <= Len(s) /\ \A k \in 1..Len(x) : s[at + k] = x[k]

(* The entry e is that of the row, which is in s.                          *)
Leads(s, e, row) ==
  /\ e.key_size = Len(row.key) /\ e.value_size = Len(row.value)
  /\ Holds(s, e.offset, row.key) /\ Holds(s, e.offset + e.key_size, row.value)

(* While rows are added, every entry leads to its row in the file or in    *)
(* what the stream holds back, and a key fits the buffers that Compare     *)
(* reads it into.                                                          *)
EntriesLeadToRows ==
  sorting = "adding" =>
    /\ Len(index_) = Len(unsorted) /\ Len(file \o buffered) = offset_
    /\ \A n \in 1..Len(index_) : /\ Leads(file \o buffered, index_[n], unsorted[n])
                                 /\ index_[n].key_size <= key_size_max_

(* Reading the rows back never comes to the end of the file too soon, and  *)
(* the sorted builder never finds its input unsorted: comparing the first  *)
(* bytes in memory agrees with comparing whole keys.                       *)
BuildSucceeds == sorting \notin {"pread_incomplete", "unsorted_input"}

(* The table has exactly the rows that were added, in the order of their   *)
(* keys, and rows of one key in the order in which they came.              *)
BuildsStably ==
  sorting = "built" =>
    /\ Len(added) = Len(unsorted)
    /\ \E p \in Orders(Len(unsorted)) :
         /\ \A n \in 1..Len(added) : added[n] = unsorted[p[n]]
         /\ \A n, m \in 1..Len(added) : n < m =>
              /\ ~Less(added[m].key, added[n].key)
              /\ added[n].key = added[m].key => p[n] < p[m]

(* The sorting builder's entries lead to their rows, in the file or in     *)
(* what the stream holds back; rows in any order are built without an      *)
(* error that is not the disk's, none read back incomplete or found out of *)
(* order; and they are handed on by key, those of one key as they were     *)
(* added.                                                                  *)
SortsStably == EntriesLeadToRows /\ BuildSucceeds /\ BuildsStably
=============================================================================

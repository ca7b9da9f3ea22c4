--------------------------- MODULE LevelDBPublish ---------------------------
(***************************************************************************)
(* The writing half of LevelDBTable (src/src/table-backend-leveldb-        *)
(* table.cc) and LinkAnonTemporaryFile (src/src/util.cc): a table is built *)
(* in a file without a name, which Sync() links at the table's path.  If   *)
(* the path is taken, the file gets an intermediate name first, which then *)
(* replaces the path.                                                      *)
(*                                                                         *)
(* Several programs write tables at the same path at the same time, and    *)
(* any of them may be killed or see a system call fail between any two     *)
(* steps.  A directory is a function from names to files; a file that has  *)
(* no name and no program is gone.  A file is known by its program and the *)
(* number of the program's attempt.                                        *)
(***************************************************************************)
EXTENDS Integers, Sequences, FiniteSets

CONSTANTS Programs,       \* programs that write a table at the path
          Names,          \* the intermediate names MakeRandomString may give
          WrittenKeys,    \* the keys that rows may have
          MaxWritten,     \* bound: rows of a table
          MaxTables,      \* bound: tables each program builds
          kMaxAttempts    \* intermediate names tried, 62^3 in the code

ASSUME PublishAssumption ==
  /\ WrittenKeys \subseteq Nat /\ MaxWritten \in Nat /\ MaxTables \in Nat
  /\ kMaxAttempts \in Nat \ {0}

VARIABLES
  path,     \* the file at the table's path
  named,    \* the files at intermediate names
  written,  \* the keys in each program's file: what the builder has written
  footer,   \* whether Finish() has completed it
  step,     \* where each program is
  built,    \* how many tables each program has begun
  tries,    \* i of LinkAnonTemporaryFile
  name,     \* intermediate_path
  orphans   \* history: names left by programs that were killed or that threw

publishVars == <<path, named, written, footer, step, built, tries, name, orphans>>

None == <<>>
File == Programs \X (1..MaxTables)
Mine(p) == <<p, built[p]>>

PublishInit ==
  /\ path = None /\ named = [n \in Names |-> None]
  /\ written = [f \in File |-> <<>>] /\ footer = [f \in File |-> FALSE]
  /\ step = [p \in Programs |-> "idle"] /\ built = [p \in Programs |-> 0]
  /\ tries = [p \in Programs |-> 0] /\ name = [p \in Programs |-> None]
  /\ orphans = {}

PublishTypeOK ==
  /\ path \in File \cup {None} /\ named \in [Names -> File \cup {None}]
  /\ written \in [File -> Seq(WrittenKeys)] /\ footer \in [File -> BOOLEAN]
  /\ step \in [Programs -> {"idle", "open", "link", "intermediate", "rename",
                          "returned", "thrown", "killed"}]
  /\ built \in [Programs -> 0..MaxTables]
  /\ tries \in [Programs -> 0..kMaxAttempts]
  /\ name \in [Programs -> Names \cup {None}]
  /\ orphans \subseteq Names

Goto(p, l) == step' = [step EXCEPT ![p] = l]

(* LevelDBTableBackend::Create: a new file without a name.                 *)
Create(p) ==
  /\ step[p] \in {"idle", "returned", "thrown"} /\ built[p] < MaxTables
  /\ built' = [built EXCEPT ![p] = @ + 1]
  /\ tries' = [tries EXCEPT ![p] = 0] /\ name' = [name EXCEPT ![p] = None]
  /\ Goto(p, "open")
  /\ UNCHANGED <<path, named, written, footer, orphans>>

(* prev_key_ starts as the empty key, which is 0 here.                     *)
PrevKey(p) == IF written[Mine(p)] = <<>> THEN 0
              ELSE written[Mine(p)][Len(written[Mine(p)])]

(* Mutant of InOrder: equal keys are let through.                          *)
InOrderOrEqual(p, key) == PrevKey(p) <= key

InOrder(p, key) == PrevKey(p) < key

(* A key out of order throws out of InsertRow(); the program ends.         *)
Add(p, key) ==
  /\ step[p] = "open" /\ Len(written[Mine(p)]) < MaxWritten
  /\ IF InOrder(p, key)
     THEN written' = [written EXCEPT ![Mine(p)] = Append(@, key)] /\ UNCHANGED step
     ELSE Goto(p, "thrown") /\ UNCHANGED written
  /\ UNCHANGED <<path, named, footer, built, tries, name, orphans>>

(* Sync(): table_builder_->Finish(), which may fail.                       *)
Finish(p) ==
  /\ step[p] = "open"
  /\ \/ footer' = [footer EXCEPT ![Mine(p)] = TRUE] /\ Goto(p, "link")
     \/ Goto(p, "thrown") /\ UNCHANGED footer
  /\ UNCHANGED <<path, named, written, built, tries, name, orphans>>

(* linkat() to the path.  It fails with EEXIST if the path is taken, or    *)
(* for another reason.                                                     *)
LinkPath(p) ==
  /\ step[p] = "link"
  /\ IF path = None THEN path' = Mine(p) /\ Goto(p, "returned")
     ELSE Goto(p, "intermediate") /\ UNCHANGED path
  /\ UNCHANGED <<named, written, footer, built, tries, name, orphans>>

(* Mutant of LinkIntermediate: a name that is taken is used all the same.  *)
LinkIntermediateOver(p, n) ==
  /\ step[p] = "intermediate" /\ tries[p] < kMaxAttempts
  /\ named' = [named EXCEPT ![n] = Mine(p)]
  /\ name' = [name EXCEPT ![p] = n] /\ Goto(p, "rename")
  /\ UNCHANGED <<path, written, footer, built, tries, orphans>>

(* One turn of the loop, with the random name n.                           *)
LinkIntermediate(p, n) ==
  /\ step[p] = "intermediate" /\ tries[p] < kMaxAttempts
  /\ IF named[n] = None
     THEN /\ named' = [named EXCEPT ![n] = Mine(p)]
          /\ name' = [name EXCEPT ![p] = n]
          /\ Goto(p, "rename") /\ UNCHANGED tries
     ELSE tries' = [tries EXCEPT ![p] = @ + 1] /\ UNCHANGED <<named, name, step>>
  /\ UNCHANGED <<path, written, footer, built, orphans>>

(* Mutant of GiveUp: the loop has no end.                                  *)
GiveUpNever(p) == FALSE /\ UNCHANGED publishVars

GiveUp(p) ==
  /\ step[p] = "intermediate" /\ tries[p] = kMaxAttempts
  /\ Goto(p, "thrown")
  /\ UNCHANGED <<path, named, written, footer, built, tries, name, orphans>>

(* Mutant of Rename: the path is unlinked first, by a step of its own.     *)
RenameInTwo(p) ==
  /\ step[p] = "rename"
  /\ IF path /= None THEN path' = None /\ UNCHANGED <<named, step>>
     ELSE /\ path' = named[name[p]]
          /\ named' = [named EXCEPT ![name[p]] = None] /\ Goto(p, "returned")
  /\ UNCHANGED <<written, footer, built, tries, name, orphans>>

(* Mutant of Rename: the path is linked and the other name stays.          *)
RenameKeepsName(p) ==
  /\ step[p] = "rename"
  /\ path' = named[name[p]]
  /\ Goto(p, "returned")
  /\ UNCHANGED <<named, written, footer, built, tries, name, orphans>>

(* renameat() moves the intermediate name's file to the path.              *)
Rename(p) ==
  /\ step[p] = "rename"
  /\ path' = named[name[p]]
  /\ named' = [named EXCEPT ![name[p]] = None]
  /\ Goto(p, "returned")
  /\ UNCHANGED <<written, footer, built, tries, name, orphans>>

(* The names of files that p leaves behind.                                *)
Abandons(p) == IF step[p] = "rename" THEN {name[p]} ELSE {}

(* linkat() or renameat() fails for a reason other than EEXIST.            *)
SyscallFails(p) ==
  /\ step[p] \in {"link", "intermediate", "rename"}
  /\ orphans' = orphans \cup Abandons(p)
  /\ Goto(p, "thrown")
  /\ UNCHANGED <<path, named, written, footer, built, tries, name>>

(* The process ends; its file, if it has no name, is gone with it.         *)
Kill(p) ==
  /\ step[p] \in {"open", "link", "intermediate", "rename"}
  /\ orphans' = orphans \cup Abandons(p)
  /\ Goto(p, "killed")
  /\ UNCHANGED <<path, named, written, footer, built, tries, name>>

PublishNext ==
  \E p \in Programs :
    \/ Create(p) \/ Finish(p) \/ LinkPath(p) \/ GiveUp(p) \/ Rename(p)
    \/ SyscallFails(p) \/ Kill(p)
    \/ \E key \in WrittenKeys : Add(p, key)
    \/ \E n \in Names : LinkIntermediate(p, n)

PublishSpec == PublishInit /\ [][PublishNext]_publishVars

(* A thread in LinkAnonTemporaryFile waits for nobody.                     *)
Publish(p) ==
  LinkPath(p) \/ GiveUp(p) \/ Rename(p) \/ \E n \in Names : LinkIntermediate(p, n)
FairPublishSpec == PublishSpec /\ \A p \in Programs : WF_publishVars(Publish(p))
-----------------------------------------------------------------------------
Sorted(s) == \A i, j \in 1..Len(s) : i < j => s[i] < s[j]

(* The path never names a table that is unfinished or out of order,        *)
(* whoever writes, fails or is killed (Sync links only after Finish(), Add *)
(* refuses keys out of order).                                             *)
PathIsComplete == path /= None => footer[path] /\ Sorted(written[path])

(* Once there is a table at the path there always is: a reader never finds *)
(* the path empty while it is replaced (the reason util.cc gives for the   *)
(* intermediate name: "to atomically replace with rename()").              *)
PathStaysNamed == [][path /= None => path' /= None]_path

(* The name a program is about to rename is still its own file's: no other *)
(* program took it in the meantime, so no table is published twice or      *)
(* under another's Sync() (linkat() with EEXIST is what excludes it).      *)
RenamesItsOwn ==
  \A p \in Programs : step[p] = "rename" => named[name[p]] = Mine(p)

(* Intermediate names do not pile up: each belongs to a program between    *)
(* linkat() and renameat(), or to one that was killed or failed there.     *)
NamesAccountedFor ==
  \A n \in Names : named[n] /= None =>
     n \in orphans \/ \E p \in Programs : step[p] = "rename" /\ name[p] = n

(* The three together: the path never names an unfinished or unsorted      *)
(* table; a program renames its own file, whatever others do in between;   *)
(* and only killed and failed programs leave intermediate names behind.    *)
PublishesSafely == PublishTypeOK /\ PathIsComplete /\ RenamesItsOwn /\ NamesAccountedFor

(* A program that has begun to publish and is not killed returns or        *)
(* throws, even when other programs' leftovers take every name: the number *)
(* of attempts is bounded.                                                 *)
PublishEnds ==
  \A p \in Programs :
    step[p] = "link" ~> step[p] \in {"returned", "thrown", "killed"}
=============================================================================

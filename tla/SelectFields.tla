---------------------------- MODULE SelectFields ----------------------------
(***************************************************************************)
(* SELECT (src/src/select.cc): the documents of one query are printed with *)
(* a value for each field, which is a query too.  The values of a field    *)
(* are found by walking its list and the selection side by side.           *)
(*                                                                         *)
(* What ProcessQuery yields (module SchemaQuery) is given: lists of an     *)
(* offset and a score, ascending, an offset once.                          *)
(***************************************************************************)
EXTENDS Integers, Sequences

CONSTANTS
  Selections,  \* what a query may yield
  FieldLists,  \* what the queries of the fields may yield together
  Bases,       \* the addresses at which summary tables begin, in their order
  Sizes        \* how many documents they hold

(* By ascending offset, an offset once.                                    *)
Walkable(list) ==
  /\ list \in Seq([offset : Nat, score : Int])
  /\ \A n, m \in 1..Len(list) : n < m => list[n].offset < list[m].offset

ASSUME SelectAssumption ==
  /\ Bases \in Seq(Nat) /\ Sizes \in Seq(Nat) /\ Len(Bases) > 0 /\ Len(Sizes) = Len(Bases)
  /\ \A t, u \in 1..Len(Bases) : t < u => Bases[t] + Sizes[t] <= Bases[u]
  /\ \A list \in Selections : Walkable(list)
  /\ \A lists \in FieldLists : /\ lists \in Seq(Seq([offset : Nat, score : Int]))
                               /\ \A f \in 1..Len(lists) : Walkable(lists[f])

(* A value is there or not.                                                *)
Value(score) == <<score>>
NaN == <<>>

VARIABLES
  selection, fields,
  values,      \* for each document, the values found so far
  field,       \* the field that is looked up
  i, vi,       \* the next document, and where the walk is in the field's list
  output,      \* the lines printed: a document and its values
  selectPhase  \* "values", "output", "returned" or "thrown"

selectVars == <<selection, fields, values, field, i, vi, output, selectPhase>>

SelectInit ==
  /\ selection \in Selections /\ fields \in FieldLists
  /\ values = [n \in 1..Len(selection) |-> <<>>]
  /\ field = 1 /\ i = 1 /\ vi = 1
  /\ output = <<>> /\ selectPhase = "values"

(* A field without any score stands for membership.                        *)
AllZero(list) == \A n \in 1..Len(list) : list[n].score = 0

(* The walk, from where it is, stops at v: at the first element that is    *)
(* not below the offset, or behind the list.                               *)
StopsAt(list, v, offset) ==
  /\ \A n \in vi .. v - 1 : list[n].offset < offset
  /\ v <= Len(list) => list[v].offset >= offset

ValueAt(list, v, offset) ==
  IF v > Len(list) \/ list[v].offset > offset THEN NaN
  ELSE Value(IF AllZero(list) THEN 1 ELSE list[v].score)

AddValue ==
  /\ selectPhase = "values" /\ field <= Len(fields) /\ i <= Len(selection)
  /\ LET list == fields[field]
         offset == selection[i].offset
     IN  \E v \in vi .. Len(list) + 1 :
           /\ StopsAt(list, v, offset)
           /\ vi' = v
           /\ values' = [values EXCEPT ![i] = Append(@, ValueAt(list, v, offset))]
  /\ i' = i + 1
  /\ UNCHANGED <<selection, fields, field, output, selectPhase>>

(* Mutant of NextField: the walk goes on where the last one ended.         *)
NextFieldKeeps ==
  /\ selectPhase = "values" /\ field <= Len(fields) /\ i > Len(selection)
  /\ field' = field + 1 /\ i' = 1
  /\ UNCHANGED <<selection, fields, values, vi, output, selectPhase>>

NextField ==
  /\ selectPhase = "values" /\ field <= Len(fields) /\ i > Len(selection)
  /\ field' = field + 1 /\ i' = 1 /\ vi' = 1
  /\ UNCHANGED <<selection, fields, values, output, selectPhase>>

StartOutput ==
  /\ selectPhase = "values" /\ field > Len(fields)
  /\ selectPhase' = "output" /\ i' = 1
  /\ UNCHANGED <<selection, fields, values, field, vi, output>>

(* The summary table of an address, as in ca_schema_query.                 *)
TableOf(x) ==
  LET below == {t \in 2..Len(Bases) : Bases[t] <= x}
  IN  IF below = {} THEN 1 ELSE CHOOSE t \in below : \A u \in below : u <= t

(* Mutant of Within: an address counts from the start of the first table.  *)
WithinAll(x) == x

Within(x) == x - Bases[TableOf(x)]

(* Seek() and ReadRow() throw behind the end of the table; the lines       *)
(* before are printed already.  (For the end itself see NoUndefinedRead of *)
(* module WriteOnceReader.)                                                *)
PrintRow ==
  /\ selectPhase = "output" /\ i <= Len(selection)
  /\ LET x == selection[i].offset
     IN  IF Within(x) \in 0 .. Sizes[TableOf(x)] - 1
         THEN /\ output' = Append(output, [table |-> TableOf(x), row |-> Within(x),
                                           values |-> values[i]])
              /\ i' = i + 1 /\ UNCHANGED selectPhase
         ELSE selectPhase' = "thrown" /\ UNCHANGED <<output, i>>
  /\ UNCHANGED <<selection, fields, values, field, vi>>

EndOutput ==
  /\ selectPhase = "output" /\ i > Len(selection)
  /\ selectPhase' = "returned"
  /\ UNCHANGED <<selection, fields, values, field, i, vi, output>>

SelectNext == AddValue \/ NextField \/ StartOutput \/ PrintRow \/ EndOutput

SelectSpec == SelectInit /\ [][SelectNext]_selectVars
-----------------------------------------------------------------------------
(* The value of a field for a document.                                    *)
Field(list, offset) ==
  LET of == {n \in 1..Len(list) : list[n].offset = offset}
  IN  IF of = {} THEN NaN
      ELSE Value(IF AllZero(list) THEN 1 ELSE list[CHOOSE n \in of : TRUE].score)

(* Every line has exactly one value for each field, in the order of the    *)
(* fields, and it is the one that the field's query has for this document, *)
(* although a walk serves all documents and every field needs a new one.   *)
SelectsOwnValues ==
  \A n \in 1..Len(output) :
    output[n].values = [f \in 1..Len(fields) |-> Field(fields[f], selection[n].offset)]

(* The lines are those of the selected documents, each once and in the     *)
(* order of their addresses; all of them unless an address leads behind a  *)
(* table.                                                                  *)
PrintsSelection ==
  /\ Len(output) <= Len(selection)
  /\ \A n \in 1..Len(output) : Bases[output[n].table] + output[n].row = selection[n].offset
  /\ selectPhase = "returned" => Len(output) = Len(selection)
  /\ (\A n \in 1..Len(selection) : \E t \in 1..Len(Bases) :
        selection[n].offset \in Bases[t] .. Bases[t] + Sizes[t] - 1) => selectPhase /= "thrown"

(* SELECT prints every document once, in the order of the addresses, and   *)
(* in every field of its line the value of that document.                  *)
SelectsFields == SelectsOwnValues /\ PrintsSelection
=============================================================================

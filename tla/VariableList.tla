---------------------------- MODULE VariableList -----------------------------
(***************************************************************************)
(* The order and the addresses of the variables of a project: the table    *)
(* is kept sorted by type and name, and the cells of the node's memory are *)
(* given out in that order.  An index is JavaScript's, from 0; -1 is no    *)
(* link.  A name is a number here, ordered as the names are.               *)
(***************************************************************************)
EXTENDS Integers, SequencesExt

\* VAR_TYPES: the types sort in this order.
DIN == 16
DOUT == 32
BIT == 80
TMR == 96

\* VAR_SIZE; a timer's operand names the first of its cells.
Size(v) == IF v.type = TMR THEN 6 ELSE 1

\* variable_compare_type(a, b) < 0.
Before(a, b) == a.type < b.type \/ (a.type = b.type /\ a.name < b.name)

\* The loop of add_variable looks for the first variable v comes before, and
\* takes an index of 0 for "not found yet".
Splice(table, v) ==
  LET later == {i \in 1 .. Len(table) - 1 : Before(v, table[i + 1])}
  IN  IF later = {} THEN 0 ELSE CHOOSE i \in later : \A j \in later : i <= j

\* Faulty variant of Sorted: the table is left as it is.
Unsorted(s) == s

\* assign_variable_list sorts, whatever the splice point was: no two variables
\* are alike, and in place i is the one with i - 1 before it.
Sorted(s) ==
  LET Behind(i) == CHOOSE v \in Range(s) : Cardinality({k \in DOMAIN s : Before(s[k], v)}) = i - 1
  IN  [i \in DOMAIN s |-> Behind(i)]

\* ... and gives out the cells in order; find_variable_offset looks them up.
Offset(table, index) ==
  LET Cells[i \in 0 .. Len(table)] == IF i = 0 THEN 0 ELSE Cells[i - 1] + Size(table[i])
  IN  IF index = -1 THEN -1 ELSE Cells[index]

\* The links of add_variable and of remove_variable, an index each.
MovedUp(index, splice) == IF index >= splice THEN index + 1 ELSE index
ClosedUp(index, removed) ==
  CASE index = removed -> -1
    [] index > removed -> index - 1
    [] OTHER -> index

IsIO(v) == v.type \in {DIN, DOUT}
Exists(table, name) == \E i \in 1 .. Len(table) : table[i].name = name

=============================================================================

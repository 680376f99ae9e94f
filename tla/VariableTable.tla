---------------------------- MODULE VariableTable ----------------------------
(***************************************************************************)
(* The variable table of the web project, the ladder nodes that refer to   *)
(* variables by their index in it, and the code assembled from them.       *)
(* Adding or removing a variable moves others in the sorted table, and     *)
(* links and code have to move along.  The drawing is one rung with nodes  *)
(* on it.                                                                  *)
(***************************************************************************)
EXTENDS VariableList

CONSTANTS
  Nodes,     \* the nodes with an operand
  Displays,  \* the objects of the operator panel with a tag
  Names,     \* the names a user gives
  IO,        \* the input and output variables of the board, in order
  Loaded     \* the other variables of the project that is loaded, in order

ASSUME NameAssumption ==
  /\ Names \subseteq Nat
  /\ IO \in Seq([name : Nat \ Names, type : {DIN, DOUT}]) /\ IO # <<>>
  /\ Loaded \in Seq([name : Nat, type : {BIT, TMR}])
  /\ \A s \in {IO, Loaded} : \A i, j \in DOMAIN s : i < j => Before(s[i], s[j])

VARIABLES
  variables,   \* variable_list.variables
  op1,         \* the operand of each node that is drawn
  begin,       \* the rung has its begin symbol
  code,        \* cpu_bytecode: the cell each node's instruction names
  meant,       \* the variable the user linked the node to, or NoEntry
  compiled,    \* the same when the code was assembled
  tag,         \* the index each of the panel's objects has
  shows,       \* the variable the user gave it, or NoEntry
  appended,    \* a variable was added behind all the others
  outdated     \* the last assembly failed

drawing == <<op1, begin, meant>>
bytecode == <<code, compiled, outdated>>
panel == <<tag, shows>>
vars == <<variables, drawing, bytecode, panel, appended>>

Entry(name, type) == [name |-> name, type |-> type]
NoEntry == Entry(0, 0)
Entries == Range(IO \o Loaded) \cup {Entry(n, t) : n \in Names, t \in {BIT, TMR}}

\* Six cells for a timer.
MaxCells == 6 * (Len(IO) + Len(Loaded) + Cardinality(Names))

TypeOK ==
  /\ variables \in Seq(Entries) /\ appended \in BOOLEAN
  /\ DOMAIN op1 \subseteq Nodes /\ DOMAIN meant = DOMAIN op1
  /\ \A n \in DOMAIN op1 :
       op1[n] \in -1 .. Len(variables) - 1 /\ meant[n] \in Entries \cup {NoEntry}
  /\ \A d \in Displays : tag[d] \in Nat /\ shows[d] \in Entries \cup {NoEntry}
  /\ DOMAIN code \subseteq Nodes /\ DOMAIN compiled = DOMAIN code
  /\ \A n \in DOMAIN code :
       code[n] \in -1 .. MaxCells /\ compiled[n] \in Entries \cup {NoEntry}
  /\ {begin, outdated} \subseteq BOOLEAN

-----------------------------------------------------------------------------
(* Assembly.                                                               *)

\* Faulty variant of Assembly: the cells of the table as it was.
AssemblyEarly(table, links, means) ==
  IF begin
  THEN /\ code' = [n \in DOMAIN links |-> Offset(variables, links[n])]
       /\ compiled' = means /\ outdated' = FALSE
  ELSE outdated' = TRUE /\ UNCHANGED <<code, compiled>>

\* assemble: without a begin symbol there is no instruction, which is taken
\* for a failure, and cpu_bytecode keeps the code of the last assembly.
Assembly(table, links, means) ==
  IF begin
  THEN /\ code' = [n \in DOMAIN links |-> Offset(table, links[n])]
       /\ compiled' = means /\ outdated' = FALSE
  ELSE outdated' = TRUE /\ UNCHANGED <<code, compiled>>

\* The menu item.
Assemble ==
  /\ Assembly(variables, op1, meant)
  /\ UNCHANGED <<variables, drawing, panel, appended>>

\* load_project_object assembles what it loads.
Init ==
  /\ variables = IO \o Loaded
  /\ op1 \in [Nodes -> -1 .. Len(variables) - 1]
  /\ begin = TRUE
  /\ meant = [n \in Nodes |-> IF op1[n] = -1 THEN NoEntry ELSE variables[op1[n] + 1]]
  /\ code = [n \in Nodes |-> Offset(variables, op1[n])]
  /\ compiled = meant
  /\ tag = [d \in Displays |-> 0] /\ shows = [d \in Displays |-> NoEntry]
  /\ appended = FALSE /\ outdated = FALSE

-----------------------------------------------------------------------------
(* Editing.                                                                *)

AddVariable(v) ==
  /\ ~Exists(variables, v.name)
  /\ op1' = [n \in DOMAIN op1 |-> MovedUp(op1[n], Splice(variables, v))]
  /\ variables' = Sorted(InsertAt(variables, Splice(variables, v) + 1, v))
  /\ Assembly(variables', op1', meant)
  /\ appended' = (appended \/ \A i \in 1 .. Len(variables) : Before(variables[i], v))
  /\ UNCHANGED <<begin, meant, panel>>

\* What remove_variable does to the table and the ghosts, given the new links.
Removal(index, links) ==
  /\ ~IsIO(variables[index + 1])     \* "Cannot delete IO"
  /\ variables' = RemoveAt(variables, index + 1)
  /\ op1' = links
  /\ meant' = [n \in DOMAIN op1 |->
                 IF meant[n] = variables[index + 1] THEN NoEntry ELSE meant[n]]
  /\ shows' = [d \in Displays |->
                 IF shows[d] = variables[index + 1] THEN NoEntry ELSE shows[d]]
  /\ Assembly(variables', links, meant')
  /\ UNCHANGED <<begin, tag, appended>>

\* Faulty variant of RemoveVariable: its own links are not cut.
RemoveVariableKeepsLinks(index) ==
  Removal(index, [n \in DOMAIN op1 |-> IF op1[n] > index THEN op1[n] - 1 ELSE op1[n]])

RemoveVariable(index) ==
  Removal(index, [n \in DOMAIN op1 |-> ClosedUp(op1[n], index)])

\* The properties dialog of the ladder editor.
LinkNode(n, index) ==
  /\ n \in DOMAIN op1
  /\ op1' = [op1 EXCEPT ![n] = index]
  /\ meant' = [meant EXCEPT ![n] = variables[index + 1]]
  /\ UNCHANGED <<variables, begin, bytecode, panel, appended>>

\* set_node: a new node is linked to the first variable, ...
DrawNode(n) ==
  /\ op1' = [m \in DOMAIN op1 \cup {n} |-> IF m = n THEN 0 ELSE op1[m]]
  /\ meant' = [m \in DOMAIN op1 \cup {n} |-> IF m = n THEN variables[1] ELSE meant[m]]
  /\ UNCHANGED <<variables, begin, bytecode, panel, appended>>

\* ... and drawing nothing over a node erases it; the same for the symbol
\* the rung begins with.
EraseNode(n) ==
  /\ op1' = [m \in DOMAIN op1 \ {n} |-> op1[m]]
  /\ meant' = [m \in DOMAIN op1 \ {n} |-> meant[m]]
  /\ UNCHANGED <<variables, begin, bytecode, panel, appended>>

SetBegin(b) ==
  /\ begin' = b
  /\ UNCHANGED <<variables, op1, meant, bytecode, panel, appended>>

\* The properties box of the panel's editor.
LinkTag(d, index) ==
  /\ tag' = [tag EXCEPT ![d] = index]
  /\ shows' = [shows EXCEPT ![d] = variables[index + 1]]
  /\ UNCHANGED <<variables, drawing, bytecode, appended>>

Next ==
  \/ \E name \in Names, type \in {BIT, TMR} : AddVariable(Entry(name, type))
  \/ \E index \in 0 .. Len(variables) - 1 :
       \/ RemoveVariable(index)
       \/ \E n \in Nodes : LinkNode(n, index)
       \/ \E d \in Displays : LinkTag(d, index)
  \/ \E n \in Nodes : DrawNode(n) \/ EraseNode(n)
  \/ \E b \in BOOLEAN : SetBegin(b)
  \/ Assemble

Spec == Init /\ [][Next]_vars

-----------------------------------------------------------------------------
(* The engine takes the inputs for the first cells and the outputs for     *)
(* those after them (Logic.cpp:123, 133), so no variable may come before   *)
(* them -- although one that sorts last is spliced in at the front.        *)
IoKeepsCells == SubSeq(variables, 1, Len(IO)) = IO

(* "Must be able to keep existing links" (Project.js:993): every node      *)
(* refers to the variable it was linked to, until that is removed.         *)
LinksFollow ==
  \A n \in DOMAIN op1 : IF op1[n] = -1 THEN meant[n] = NoEntry
                                       ELSE variables[op1[n] + 1] = meant[n]

(* As long as no variable was added behind all the others, they do: the    *)
(* index 0 the loop starts from is the only thing that is wrong with it.   *)
LinksFollowInside == appended \/ LinksFollow

(* "Must be able to keep existing links and values" (Project.js:993): what *)
(* the operator's panel shows for a tag is the variable it was given.      *)
TagsFollow ==
  \A d \in Displays :
    shows[d] # NoEntry => tag[d] < Len(variables) /\ variables[tag[d] + 1] = shows[d]

(* save_project stores the code of the last assembly with the variables of *)
(* now (Project.js:166), and they fit: each instruction names the cell of  *)
(* the variable its node was linked to then.  Every change of the table    *)
(* assembles again, so only a failed assembly leaves code that does not.   *)
CodeFitsTable ==
  outdated \/ appended \/
    \A n \in DOMAIN code :
      compiled[n] # NoEntry =>
        \E i \in 1 .. Len(variables) :
          variables[i] = compiled[n] /\ code[n] = Offset(variables, i - 1)

(* The three together, of the code in every order of edits.                *)
TableHolds == IoKeepsCells /\ LinksFollowInside /\ CodeFitsTable

=============================================================================

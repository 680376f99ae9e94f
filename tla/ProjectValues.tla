---------------------------- MODULE ProjectValues ----------------------------
(***************************************************************************)
(* A project open in the page: the drawing with its mouse tools and the    *)
(* dialog of a cell (Weblogix.js), the variables with their values, and    *)
(* the memory of the page's own engine (Project.js, CPU.js), which shows   *)
(* what the node answers while the page is online and what it computes     *)
(* itself while it is not.  The node's memory is bytes too, laid out by    *)
(* the program that was stored last: only the order of the variables says  *)
(* which byte belongs to which of them.                                    *)
(*                                                                         *)
(* The value of a bit is <<b>>, that of a timer <<value, base, pre, acc>>. *)
(* What the engine computes is left open: it may write any bit to the      *)
(* cells of the outputs in the drawing.                                    *)
(***************************************************************************)
EXTENDS VariableList

CONSTANTS
  Initial,   \* the variables of the project that is open, with their values
  Added,     \* what a user may add, with the value add_variable gives it
  Drawn,     \* the drawings to start with
  Places,    \* the cells of the drawing
  Symbols    \* those a user draws

VARIABLES
  list,      \* variable_list.variables
  memory,    \* variable_data of the page's engine
  outputs,   \* the cells its program writes
  nodes,     \* the drawing, in the order of its list
  online,    \* logic_mode
  tool,      \* the mouse's mode; in MODE_EDIT the symbol, "none" to erase
  dialog,    \* the cell properties that are shown, with the names in them
  file,      \* project.txt on the node
  board,     \* what the node runs: its variables and their bytes
  stored,    \* bytecode.txt as long as the node has not loaded it
  answer,    \* an answer to getvars on its way
  command,   \* a setvar on its way
  truth,     \* of each variable, the value it was given last
  unsure,    \* variables given a value that list or memory does not have yet
  strange,   \* an answer came whose bytes are laid out in another way
  flattened, \* a timer was replaced by a number when the table was next used
  astray,    \* a link was set by a dialog older than the table, or moved by
             \* a variable that sorts last
  misset     \* a setvar reached another variable's cell

drawingVars == <<nodes, tool, dialog, astray>>
engineVars == <<list, memory, outputs, truth, unsure, flattened>>
nodeVars == <<board, stored, answer, command, strange, misset>>
valueVars == <<drawingVars, engineVars, nodeVars, online, file>>

None == [none |-> TRUE]
NamesOf(table) == {table[i].name : i \in DOMAIN table}
Layout(table) == [i \in DOMAIN table |-> [name |-> table[i].name, type |-> table[i].type]]

-----------------------------------------------------------------------------
(* Values and bytes.                                                       *)

Zeros(n) == [i \in 1 .. n |-> 0]
IsNumber(v) == v.type = TMR /\ Len(v.value) = 1

\* set_variable_index, and generate_variable_bytecode in hexadecimal.  The
\* fields of a number are undefined, which the engine stores as 0.
Bytes(v) ==
  IF v.type # TMR THEN v.value
  ELSE IF IsNumber(v) THEN Zeros(6)
  ELSE <<v.value[1], v.value[2], v.value[3] \div 256, v.value[3] % 256,
         v.value[4] \div 256, v.value[4] % 256>>

\* resize_variable_data and set_variable_values.
Image(table) ==
  LET Laid[i \in 0 .. Len(table)] == IF i = 0 THEN <<>> ELSE Laid[i - 1] \o Bytes(table[i])
  IN  Laid[Len(table)]

Byte(m, offset) == IF offset < Len(m) THEN m[offset + 1] ELSE 0
Word(m, offset) == 256 * Byte(m, offset) + Byte(m, offset + 1)

\* Faulty variant of Read: the bytes of a word change places.
ReadSwapped(m, offset, type) ==
  IF type # TMR THEN <<Byte(m, offset)>>
  ELSE <<Byte(m, offset), Byte(m, offset + 1),
         256 * Byte(m, offset + 3) + Byte(m, offset + 2), Word(m, offset + 4)>>

\* get_value and get_timer.
Read(m, offset, type) ==
  IF type # TMR THEN <<Byte(m, offset)>>
  ELSE <<Byte(m, offset), Byte(m, offset + 1), Word(m, offset + 2), Word(m, offset + 4)>>

ValueAt(table, m, i) == Read(m, Offset(table, i - 1), table[i].type)

\* get_variable_values.
WithValues(table, m) == [i \in DOMAIN table |-> [table[i] EXCEPT !.value = ValueAt(table, m, i)]]

-----------------------------------------------------------------------------
(* The page's engine.                                                      *)

\* The cells of the outputs in a drawing.
OutputCells(table, drawn) ==
  {Offset(table, drawn[k].op1) :
     k \in {j \in DOMAIN drawn : drawn[j].type = "ote" /\ drawn[j].op1 \in 0 .. Len(table) - 1}}

Written(table, cells) ==
  {table[i].name : i \in {j \in DOMAIN table : Offset(table, j - 1) \in cells}}

\* solve_logic
Solutions(m, cells) ==
  {[i \in DOMAIN m |-> IF i - 1 \in cells THEN f[i - 1] ELSE m[i]] : f \in [cells -> {0, 1}]}

\* assign_variable_list and assemble, with the table sorted and the drawing's
\* links moved: memory is made anew from the list.
Assign(table, drawn) ==
  /\ list' = table
  /\ outputs' = OutputCells(table, drawn)
  /\ memory' \in Solutions(Image(table), outputs')
  /\ truth' = [n \in NamesOf(table) |->
       IF n \in DOMAIN truth \ unsure THEN truth[n]
       ELSE LET i == CHOOSE j \in DOMAIN table : table[j].name = n
            IN  Read(Bytes(table[i]), 0, table[i].type)]
  /\ unsure' = Written(table, outputs')
  /\ flattened' = (flattened \/ \E i \in DOMAIN table : IsNumber(table[i]))

\* cpu.update and cpu_updated
CpuUpdate ==
  /\ ~online
  /\ memory' \in Solutions(memory, outputs)
  /\ list' = WithValues(list, memory')
  /\ truth' = [n \in DOMAIN truth |->
       IF n \notin unsure \cup Written(list, outputs) THEN truth[n]
       ELSE list'[CHOOSE j \in DOMAIN list : list[j].name = n].value]
  /\ unsure' = {}
  /\ UNCHANGED <<drawingVars, nodeVars, outputs, flattened, online, file>>

-----------------------------------------------------------------------------
(* The table.                                                              *)

\* VariableEdit.js goes offline first, and so do all edits.
AddVariable(v) ==
  /\ ~Exists(list, v.name)
  /\ online' = FALSE
  /\ nodes' = [k \in DOMAIN nodes |-> [nodes[k] EXCEPT !.op1 = MovedUp(@, Splice(list, v))]]
  /\ Assign(Sorted(Append(list, v)), nodes')
  /\ astray' = (astray \/ \A i \in DOMAIN list : Before(list[i], v))
  /\ UNCHANGED <<nodeVars, tool, dialog, file>>

RemoveVariable(index) ==
  /\ ~IsIO(list[index + 1])
  /\ online' = FALSE
  /\ nodes' = [k \in DOMAIN nodes |->
       [nodes[k] EXCEPT !.op1 = ClosedUp(@, index),
                        !.means = IF @ = list[index + 1].name THEN 0 ELSE @]]
  /\ Assign(RemoveAt(list, index + 1), nodes')
  /\ UNCHANGED <<nodeVars, tool, dialog, file, astray>>

-----------------------------------------------------------------------------
(* The drawing.                                                            *)

FindNode(at) ==
  LET found == {k \in DOMAIN nodes : nodes[k].at = at}
  IN  IF found = {} THEN 0 ELSE CHOOSE k \in found : \A j \in found : k <= j

NewNode(at, symbol) == [at |-> at, type |-> symbol, op1 |-> 0, means |-> list[1].name]

\* icon_click
ClickIcon(t) == tool' = t /\ UNCHANGED <<nodes, dialog, astray, engineVars, nodeVars, online, file>>

\* Faulty variant of SetNode: what is there stays.
SetNodeOver(at, symbol) ==
  /\ online' = FALSE
  /\ nodes' = IF symbol = "none"
              THEN IF FindNode(at) = 0 THEN nodes ELSE RemoveAt(nodes, FindNode(at))
              ELSE Append(nodes, NewNode(at, symbol))
  /\ UNCHANGED <<tool, dialog, astray, engineVars, nodeVars, file>>

\* set_node: every new node is linked to the first variable.
SetNode(at, symbol) ==
  /\ online' = FALSE
  /\ LET rest == IF FindNode(at) = 0 THEN nodes ELSE RemoveAt(nodes, FindNode(at))
     IN  nodes' = IF symbol = "none" THEN rest ELSE Append(rest, NewNode(at, symbol))
  /\ UNCHANGED <<tool, dialog, astray, engineVars, nodeVars, file>>

\* v.value ? 0 : 1, also of a timer, which is an object.
Toggled(v) == IF Len(v.value) = 4 THEN <<0>> ELSE <<IF v.value[1] = 0 THEN 1 ELSE 0>>

\* toggle_node, of a node with an operand: the value is in the list, and in
\* memory or on its way to the node.
ToggleNode(k) ==
  LET index == nodes[k].op1
      v == list[index + 1]
      offset == Offset(list, index)
      new == Toggled(v)
      lag == IF online \/ v.type = TMR THEN {v.name} ELSE {}
      m == IF online THEN memory ELSE [memory EXCEPT ![offset + 1] = new[1]]
  IN  /\ online => ~IsIO(v) /\ command = None   \* "Cannot toggle IO in online mode"
      /\ list' = [list EXCEPT ![index + 1].value = new]
      /\ memory' \in Solutions(m, outputs)
      /\ truth' = IF lag = {} THEN [truth EXCEPT ![v.name] = new] ELSE truth
      /\ unsure' = unsure \cup lag \cup Written(list, outputs)
      /\ command' = IF online
                    THEN [offset |-> offset, value |-> new[1], name |-> v.name,
                          layout |-> Layout(list)]
                    ELSE command
      /\ UNCHANGED <<drawingVars, outputs, flattened, board, stored, answer, strange, misset,
                     online, file>>

\* select_cell
SelectCell(k) ==
  /\ dialog' = [at |-> nodes[k].at, names |-> [i \in DOMAIN list |-> list[i].name]]
  /\ UNCHANGED <<nodes, tool, astray, engineVars, nodeVars, online, file>>

\* onMouseDown
MouseDown(at) ==
  \/ tool \in Symbols \cup {"none"} /\ SetNode(at, tool)
  \/ /\ FindNode(at) # 0
     /\ \/ tool = "select" /\ SelectCell(FindNode(at))
        \/ /\ tool = "toggle" /\ nodes[FindNode(at)].op1 \in 0 .. Len(list) - 1
           /\ ToggleNode(FindNode(at))

IsOperation(n) == n.type \in {"xic", "ote"}

\* prop_ok_click, with one of the variables that are offered.
PropOk(index) ==
  /\ dialog # None /\ index + 1 \in DOMAIN dialog.names
  /\ LET k == FindNode(dialog.at)
         name == dialog.names[index + 1]
     IN  IF k = 0 THEN UNCHANGED <<nodes, dialog, online, astray>>
         ELSE /\ dialog' = None
              /\ IF ~IsOperation(nodes[k]) THEN UNCHANGED <<nodes, online, astray>>
                 ELSE /\ nodes' = [nodes EXCEPT ![k].op1 = index, ![k].means = name]
                      /\ online' = (online /\ nodes[k].op1 = index)
                      /\ astray' = (astray \/ index >= Len(list) \/ list[index + 1].name # name)
  /\ UNCHANGED <<tool, engineVars, nodeVars, file>>

PropCancel ==
  /\ dialog # None /\ dialog' = None
  /\ UNCHANGED <<nodes, tool, astray, engineVars, nodeVars, online, file>>

-----------------------------------------------------------------------------
(* Saving and loading.                                                     *)

\* Faulty variant of Exported: an operand that counts as false is left out.
ExportedTruthy(n) ==
  IF n.op1 \in {0, -1} THEN [t |-> n.type, at |-> n.at, means |-> n.means]
  ELSE [t |-> n.type, at |-> n.at, means |-> n.means, o1 |-> n.op1]

\* nodes_get_export_object: an operand that is not set is left out.
Exported(n) ==
  IF n.op1 = -1 THEN [t |-> n.type, at |-> n.at, means |-> n.means]
  ELSE [t |-> n.type, at |-> n.at, means |-> n.means, o1 |-> n.op1]

\* add_node
Imported(n) ==
  [at |-> n.at, type |-> n.t, means |-> n.means,
   op1 |-> IF "o1" \in DOMAIN n THEN n.o1 ELSE -1]

\* save_project.  The bytes of a number cannot be written: the save ends
\* behind the first file.
Save ==
  /\ file' = [nodes |-> [k \in DOMAIN nodes |-> Exported(nodes[k])], vars |-> list]
  /\ IF \E i \in DOMAIN list : IsNumber(list[i])
     THEN flattened' = TRUE /\ UNCHANGED stored
     ELSE stored' = [layout |-> Layout(list), cells |-> Image(list)] /\ UNCHANGED flattened
  /\ UNCHANGED <<drawingVars, list, memory, outputs, truth, unsure, board, answer, command,
                 strange, misset, online>>

\* load_project_object, as the node's file has come.
Load ==
  /\ online' = TRUE
  /\ nodes' = [k \in DOMAIN file.nodes |-> Imported(file.nodes[k])]
  /\ list' = Sorted(file.vars)
  /\ outputs' = OutputCells(list', nodes')
  /\ memory' \in Solutions(Image(list'), outputs')
  /\ truth' = [n \in NamesOf(list') |->
       LET i == CHOOSE j \in DOMAIN list' : list'[j].name = n
       IN  Read(Bytes(list'[i]), 0, list'[i].type)]
  /\ unsure' = Written(list', outputs')
  /\ flattened' = (flattened \/ \E i \in DOMAIN list' : IsNumber(list'[i]))
  /\ UNCHANGED <<nodeVars, tool, dialog, file, astray>>

-----------------------------------------------------------------------------
(* The mode and the node.                                                  *)

SetMode(b) == online' = b /\ UNCHANGED <<drawingVars, engineVars, nodeVars, file>>

\* The node's answer to a question of update.
Answer ==
  /\ online /\ answer = None /\ answer' = board
  /\ UNCHANGED <<drawingVars, engineVars, board, stored, command, strange, misset, online, file>>

\* ws_getvars_command: whatever the mode is by now, and however many bytes
\* have come.
GetvarsCommand ==
  /\ answer # None /\ answer' = None
  /\ memory' = [i \in DOMAIN memory |-> Byte(answer.cells, i - 1)]
  /\ list' = WithValues(list, memory')
  /\ IF answer.layout = Layout(list)
     THEN truth' = [n \in DOMAIN truth |->
            LET i == CHOOSE j \in DOMAIN list : list[j].name = n
            IN  Read(answer.cells, Offset(answer.layout, i - 1), list[i].type)]
          /\ UNCHANGED strange
     ELSE strange' = TRUE /\ UNCHANGED truth
  /\ unsure' = {}
  /\ UNCHANGED <<drawingVars, outputs, flattened, board, stored, command, misset, online, file>>

\* IOT::handle_message and Logic::set_byte.
SetVar ==
  /\ command # None /\ command' = None
  /\ board' = IF command.offset < Len(board.cells)
              THEN [board EXCEPT !.cells[command.offset + 1] = command.value] ELSE board
  /\ misset' = (misset \/
       /\ board.layout = command.layout
       /\ ~ \E i \in DOMAIN board.layout :
              board.layout[i].name = command.name /\ Offset(board.layout, i - 1) = command.offset)
  /\ UNCHANGED <<drawingVars, engineVars, stored, answer, strange, online, file>>

\* The node's own program changes a bit.
BoardScan(i) ==
  /\ LET cell == Offset(board.layout, i - 1) + 1
     IN  board' = [board EXCEPT !.cells[cell] = 1 - @]
  /\ UNCHANGED <<drawingVars, engineVars, stored, answer, command, strange, misset, online, file>>

\* Logic::load, some time after the save.
Reload ==
  /\ stored # None /\ board' = stored /\ stored' = None
  /\ UNCHANGED <<drawingVars, engineVars, answer, command, strange, misset, online, file>>

ValuesInit ==
  /\ list = Initial /\ memory = Image(list) /\ outputs = {}
  /\ nodes \in Drawn /\ online = TRUE /\ tool = "toggle" /\ dialog = None
  /\ file = [nodes |-> [k \in DOMAIN nodes |-> Exported(nodes[k])], vars |-> list]
  /\ board = [layout |-> Layout(list), cells |-> Image(list)]
  /\ stored = None /\ answer = None /\ command = None
  /\ truth = [n \in NamesOf(list) |-> (CHOOSE v \in Range(list) : v.name = n).value]
  /\ unsure = {} /\ strange = FALSE /\ flattened = FALSE /\ astray = FALSE /\ misset = FALSE

EditTable ==
  \/ \E v \in Added : AddVariable(v)
  \/ \E index \in 0 .. Len(list) - 1 : RemoveVariable(index)

Draw ==
  \/ \E t \in Symbols \cup {"none", "select", "toggle"} : ClickIcon(t)
  \/ \E index \in 0 .. Len(list) + 1 : PropOk(index)
  \/ PropCancel

Exchange ==
  \/ CpuUpdate \/ Answer \/ GetvarsCommand \/ SetVar \/ Reload
  \/ \E b \in BOOLEAN : SetMode(b)
  \/ \E i \in DOMAIN board.layout : BoardScan(i)

ValuesNext ==
  EditTable \/ Draw \/ Exchange \/ Save \/ Load \/ \E at \in Places : MouseDown(at)

ValuesSpec == ValuesInit /\ [][ValuesNext]_valueVars

-----------------------------------------------------------------------------
(* "Must be able to keep existing links and values" (Project.js:993): in   *)
(* whatever order variables are added and removed, toggled, computed,      *)
(* answered by the node, saved and loaded, the list and the memory of the  *)
(* page have for each variable the value it was given, and what is         *)
(* toggled is what the node sets -- as long as the node's bytes have the   *)
(* order of the page's table, which nothing sees to, and no timer is used  *)
(* after a click has made it a number.                                     *)
ValuesFollow ==
  /\ ~misset
  /\ strange \/ flattened \/
       \A i \in DOMAIN list :
         LET n == list[i].name
         IN  n \in unsure \/ (list[i].value = truth[n] /\ ValueAt(list, memory, i) = truth[n])

(* The drawing is what was drawn: a place has one symbol, each link names  *)
(* the variable that was picked for it, unless the dialog was older than   *)
(* the table (it stays open behind other pages) or a variable sorted last, *)
(* and a project that is loaded is the one that was saved.                 *)
DrawingKept ==
  /\ \A j, k \in DOMAIN nodes : j # k => nodes[j].at # nodes[k].at
  /\ astray \/ \A k \in DOMAIN nodes :
       IF nodes[k].op1 = -1 THEN nodes[k].means = 0
       ELSE nodes[k].op1 < Len(list) /\ list[nodes[k].op1 + 1].name = nodes[k].means
  /\ \A k \in DOMAIN nodes : Imported(Exported(nodes[k])) = nodes[k]

=============================================================================

----------------------------- MODULE MCProject ------------------------------
(***************************************************************************)
(* What the page keeps in a project.  A behaviour is about one part of it, *)
(* which its initial state chooses:                                        *)
(*   "variables"  one input, one output, a bit and two timers, names that  *)
(*                sort before, between and behind those of the bit and the *)
(*                timers, and a ladder node (VariableTable);               *)
(*   "tags"       the same table and an object of the operator's panel;    *)
(*   "config"     a node's name, a name of an input, the check box of the  *)
(*                Ethernet interface and two other nodes (ConfigFile);     *)
(*   "hmi"        a panel of two points with a rectangle, a display on a   *)
(*                lower layer and an input that may be added (HmiEditor);  *)
(*   "drawing"    an input, a bit and a timer, a bit that may be added, on *)
(*                a drawing of two places with its tools (ProjectValues);  *)
(*   "values"     the same variables with a contact or an output, the      *)
(*                node, and a user who does Clicks things.  A behaviour    *)
(*                ends where the properties promise nothing any more.      *)
(***************************************************************************)
EXTENDS VariableTable, ConfigFile, HmiEditor

CONSTANTS Initial, Added, Drawn, Places, Symbols, Clicks

\* The variables of the board come first, no name twice; what a user adds is
\* a bit or a timer; a node that is drawn already is linked to what it means.
ASSUME ValuesAssumption ==
  /\ Initial \in Seq([name : Nat, type : Nat, value : Seq(Nat)])
  /\ Initial # <<>> /\ Initial[1].type \in {DIN, DOUT}
  /\ \A i, j \in DOMAIN Initial : i < j => Before(Initial[i], Initial[j])
  /\ \A i, j \in DOMAIN Initial : Initial[i].name = Initial[j].name => i = j
  /\ Added \subseteq [name : Nat, type : {BIT, TMR}, value : Seq(Nat)]
  /\ \A v \in Added \cup {Initial[i] : i \in DOMAIN Initial} :
       Len(v.value) = IF v.type = TMR THEN 4 ELSE 1
  /\ Places \subseteq Int /\ Symbols \subseteq STRING
  /\ Drawn \subseteq Seq([at : Int, type : STRING, op1 : Int, means : Nat])
  /\ \A d \in Drawn : \A j, k \in DOMAIN d :
       /\ j # k => d[j].at # d[k].at
       /\ d[k].op1 \in 0 .. Len(Initial) - 1 /\ Initial[d[k].op1 + 1].name = d[k].means

VARIABLES
  part, list, memory, outputs, nodes, online, tool, dialog, file, board, stored, answer, command,
  truth, unsure, strange, flattened, astray, misset,
  clicks     \* how often the user of "values" did something

Pv == INSTANCE ProjectValues

pvVars == <<list, memory, outputs, nodes, online, tool, dialog, file, board, stored, answer,
            command, truth, unsure, strange, flattened, astray, misset, clicks>>
ValuesFollow == Pv!ValuesFollow
DrawingKept == Pv!DrawingKept

MCIO == <<Entry(1, DIN), Entry(2, DOUT)>>
MCLoaded == <<Entry(4, BIT), Entry(5, TMR), Entry(9, TMR)>>
MCTexts == {NodeName, <<"io", "input1", "name">>}
MCBoxes == {<<"network", "eth", "enabled">>}
MCObject(name, type, layer, x) ==
  [name |-> name, type |-> type, layer |-> layer, x |-> x, x_start |-> 0, locked |-> FALSE,
   selected |-> FALSE]
MCHmiLoaded == <<MCObject("a", "rect", 2, 0),
                 [MCObject("b", "display", 1, 1) EXCEPT !.selected = TRUE]>>
MCVariable(name, type, value) == [name |-> name, type |-> type, value |-> value]
MCInitial ==
  <<MCVariable(1, DIN, <<0>>), MCVariable(3, BIT, <<0>>), MCVariable(5, TMR, <<1, 0, 258, 0>>)>>
MCAdded == {MCVariable(2, BIT, <<0>>)}
MCNode(symbol, index) ==
  <<[at |-> 1, type |-> symbol, op1 |-> index, means |-> MCInitial[index + 1].name]>>
MCDrawn == {MCNode("xic", 1), MCNode("xic", 2), MCNode("ote", 1)}

ProjectInit ==
  /\ part \in {"variables", "tags", "config", "hmi", "drawing", "values"}
  /\ Init /\ ConfigInit /\ HmiInit /\ Pv!ValuesInit /\ clicks = 0
  /\ part = "values" \/ nodes = MCNode("xic", 1)
  /\ part = "variables" \/ \A n \in Nodes : op1[n] = -1

\* The two sides of the table one at a time.
TableNext == UNCHANGED panel /\ Next
TagsNext ==
  \/ \E d \in Displays, index \in 0 .. Len(variables) - 1 : LinkTag(d, index)
  \/ \E name \in Names, type \in {BIT, TMR} : AddVariable(Entry(name, type))
  \/ \E index \in 0 .. Len(variables) - 1 : RemoveVariable(index)

DrawingNext ==
  /\ UNCHANGED clicks
  /\ \/ Pv!EditTable \/ Pv!Draw \/ Pv!Load
     \/ tool # "toggle" /\ \E at \in Places : Pv!MouseDown(at)

\* The node's program changes the bits; the fields of a timer stay.
ValuesNext ==
  \/ /\ clicks < Clicks /\ clicks' = clicks + 1
     /\ \/ Pv!EditTable \/ Pv!Save \/ Pv!Load
        \/ \E at \in Places \cap {1} : Pv!MouseDown(at)
        \/ \E b \in BOOLEAN : b # online /\ Pv!SetMode(b)
  \/ /\ UNCHANGED clicks
     /\ \/ Pv!CpuUpdate \/ Pv!Answer \/ Pv!GetvarsCommand \/ Pv!SetVar \/ Pv!Reload
        \/ \E i \in DOMAIN board.layout : board.layout[i].type = BIT /\ Pv!BoardScan(i)

Over == strange \/ flattened \/ astray

ProjectNext ==
  \/ part = "variables" /\ TableNext /\ UNCHANGED <<part, configVars, hmiVars, pvVars>>
  \/ part = "tags" /\ TagsNext /\ UNCHANGED <<part, configVars, hmiVars, pvVars>>
  \/ part = "config" /\ ConfigNext /\ UNCHANGED <<part, vars, hmiVars, pvVars>>
  \/ part = "hmi" /\ HmiNext /\ UNCHANGED <<part, vars, configVars, pvVars>>
  \/ part = "drawing" /\ ~Over /\ DrawingNext /\ UNCHANGED <<part, vars, configVars, hmiVars>>
  \/ part = "values" /\ ~Over /\ ValuesNext /\ UNCHANGED <<part, vars, configVars, hmiVars>>
  \/ part \in {"drawing", "values"} /\ Over /\ UNCHANGED <<part, vars, configVars, hmiVars, pvVars>>

ProjectSpec == ProjectInit /\ [][ProjectNext]_<<part, vars, configVars, hmiVars, pvVars>>
=============================================================================

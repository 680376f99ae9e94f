----------------------------- MODULE Assembler ------------------------------
(***************************************************************************)
(* The web assembler: from the cells of a ladder drawing to the            *)
(* instructions of the engine.  resolve_chain follows the wires from the   *)
(* begin symbol and links the cells, assemble_tree walks the links.        *)
(*                                                                         *)
(* A drawing is [cells, begins]: cells maps the drawn positions <<x, y>>,  *)
(* y counted downwards, to their symbol [op, arg], with arg the cell of    *)
(* the operand; begins are the begin symbols in the order of the node      *)
(* list.  The limits of 100 cells a line, 32 levels and 1000 nodes are     *)
(* left out, and so are symbols the editor does not offer.                 *)
(***************************************************************************)
EXTENDS Integers, Sequences

Operations == {"XIC", "XIO", "OTE", "OTL", "OTU", "TMR"}

Inst(name) == <<[op |-> name, arg |-> 0]>>

Right == <<1, 0>>
Down == <<0, 1>>
Up == <<0, -1>>
Move(pos, dir) == <<pos[1] + dir[1], pos[2] + dir[2]>>
Nowhere == <<-1, -1>>

-----------------------------------------------------------------------------
(* Flow direction resolution.                                              *)

\* What resolve_links finds in the nodes before any chain is followed.
Unresolved(cells) ==
  LET all(v) == [p \in DOMAIN cells |-> v]
  IN  [next |-> all(Nowhere), branch |-> all(Nowhere), prev |-> all(Nowhere),
       kind |-> all("none"), consumed |-> {}, stack |-> <<>>]

Turn(op, dir) ==
  CASE op = "BRDOWN" -> IF dir = Up THEN Right ELSE Down
    [] op = "BRRIGHT" -> Down
    [] op = "CAPRIGHT" -> Right
    [] op = "CAPLEFT" -> Up
    [] OTHER -> dir

\* A branch that opens goes on below; its line is pushed for later.
Opening(st, pos) ==
  [st EXCEPT !.kind[pos] = "open", !.next[pos] = Move(pos, Right),
             !.branch[pos] = Move(pos, Down), !.stack = Append(@, Move(pos, Right))]

Closing(st, pos, next) ==
  [st EXCEPT !.kind[pos] = "close", !.next[pos] = next, !.prev[pos] = Move(pos, Down)]

Linked(st, op, pos, dir) ==
  CASE op = "BRDOWN" /\ dir = Up -> Closing(st, pos, Move(pos, Right))
    [] op = "BRRIGHT" \/ (op = "BRDOWN" /\ dir # Up) -> Opening(st, pos)
    [] op = "BRLEFT" -> Closing(st, pos, Move(pos, Up))
    [] OTHER -> [st EXCEPT !.next[pos] = Move(pos, Turn(op, dir))]

(* resolve_chain: a chain ends at a cell that is not drawn or already      *)
(* consumed, at the end symbol, and at a BRLEFT not reached from below.    *)
RECURSIVE Chain(_, _, _, _)
Chain(cells, st, pos, dir) ==
  IF pos \notin DOMAIN cells \/ pos \in st.consumed THEN st
  ELSE LET op == cells[pos].op
           taken == [st EXCEPT !.consumed = @ \cup {pos}]
       IN  CASE op = "E" -> taken
             [] op = "BRLEFT" /\ dir # Up -> [taken EXCEPT !.kind[pos] = "close"]
             [] OTHER -> Chain(cells, Linked(taken, op, pos, dir),
                               Move(pos, Turn(op, dir)), Turn(op, dir))

\* resolve_nodes: the lines on the branch stack, the last one first.
RECURSIVE Lines(_, _)
Lines(cells, st) ==
  IF st.stack = <<>> THEN st
  ELSE LET last == Len(st.stack)
           popped == [st EXCEPT !.stack = SubSeq(@, 1, last - 1)]
       IN  Lines(cells, Chain(cells, popped, st.stack[last], Right))

RECURSIVE Resolve(_, _, _)
Resolve(cells, st, begins) ==
  IF begins = <<>> THEN st
  ELSE Resolve(cells, Lines(cells, Chain(cells, st, Head(begins), Right)), Tail(begins))

-----------------------------------------------------------------------------
(* Node tree assembly.                                                     *)

\* Faulty variant of Tree: the line is restored before it is collected.
RECURSIVE TreeSwapped(_, _, _, _)
TreeSwapped(cells, st, pos, from) ==
  IF pos \notin DOMAIN cells THEN <<>>
  ELSE LET on == TreeSwapped(cells, st, st.next[pos], pos)
       IN  CASE st.kind[pos] = "close" ->
                  IF from = st.prev[pos] THEN Inst("POPOR") \o on ELSE Inst("POPCR")
             [] st.kind[pos] = "open" ->
                  Inst("PUSHCR") \o TreeSwapped(cells, st, st.next[pos], Nowhere)
                    \o Inst("PUSHOR") \o TreeSwapped(cells, st, st.branch[pos], pos)
             [] cells[pos].op \in Operations -> <<cells[pos]>> \o on
             [] OTHER -> on

(* assemble_tree from pos, reached from another cell.  A node that closes  *)
(* a branch collects when it is reached from below, and ends the segment   *)
(* when it is reached from the line.                                       *)
RECURSIVE Tree(_, _, _, _)
Tree(cells, st, pos, from) ==
  IF pos \notin DOMAIN cells THEN <<>>
  ELSE LET on == Tree(cells, st, st.next[pos], pos)
       IN  CASE st.kind[pos] = "close" ->
                  IF from # Nowhere /\ from = st.prev[pos]
                  THEN Inst("POPOR") \o on ELSE Inst("PUSHOR")
             [] st.kind[pos] = "open" ->
                  Inst("PUSHCR") \o Tree(cells, st, st.next[pos], Nowhere)
                    \o Inst("POPCR") \o Tree(cells, st, st.branch[pos], pos)
             [] cells[pos].op \in Operations -> <<cells[pos]>> \o on
             [] OTHER -> on

\* assemble_nodes: every rung starts with a CLEAR.
RECURSIVE Rungs(_, _, _)
Rungs(cells, st, begins) ==
  IF begins = <<>> THEN <<>>
  ELSE Inst("CLEAR") \o Tree(cells, st, Head(begins), Nowhere)
         \o Rungs(cells, st, Tail(begins))

Assembled(d) == Rungs(d.cells, Resolve(d.cells, Unresolved(d.cells), d.begins), d.begins)

=============================================================================

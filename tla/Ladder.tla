------------------------------- MODULE Ladder -------------------------------
(***************************************************************************)
(* What a ladder drawing means to an electrician: power flows from the     *)
(* begin symbol along the wires, both ways, and through the contacts that  *)
(* are closed, from left to right.  The engine of Scan runs what the       *)
(* assembler made of the drawing; the two stacks of the interpreter have   *)
(* to agree with the flow of power.                                        *)
(***************************************************************************)
EXTENDS Simulator, Assembler

CONSTANTS Drawings      \* the ladders whose meaning is looked at

\* The sides of its cell a symbol is connected to; an operation's left and
\* right side are apart, all other sides are one wire.
Sides(op) ==
  CASE op = "B" -> {"right"} [] op = "E" -> {"left"}
    [] op = "VERT" -> {"up", "down"}
    [] op = "BRDOWN" -> {"left", "right", "down"}
    [] op = "BRRIGHT" -> {"up", "down", "right"} [] op = "BRLEFT" -> {"up", "down", "left"}
    [] op = "CAPRIGHT" -> {"up", "right"} [] op = "CAPLEFT" -> {"up", "left"}
    [] OTHER -> {"left", "right"}

\* What the right and left side of a cell are called in a net.
Exit(cells, p) == IF cells[p].op \in Operations THEN <<p, "out">> ELSE <<p, "wire">>
Entry(cells, p) == IF cells[p].op \in Operations THEN <<p, "in">> ELSE <<p, "wire">>

\* Pairs of points that one wire joins.
Wires(cells) ==
  LET across == {p \in DOMAIN cells : /\ Move(p, Right) \in DOMAIN cells
                                      /\ "right" \in Sides(cells[p].op)
                                      /\ "left" \in Sides(cells[Move(p, Right)].op)}
      downward == {p \in DOMAIN cells : /\ Move(p, Down) \in DOMAIN cells
                                        /\ "down" \in Sides(cells[p].op)
                                        /\ "up" \in Sides(cells[Move(p, Down)].op)}
  IN  {{Exit(cells, p), Entry(cells, Move(p, Right))} : p \in across}
        \cup {{<<p, "wire">>, <<Move(p, Down), "wire">>} : p \in downward}

Ladders == {[cells |-> d.cells, begins |-> d.begins, wires |-> Wires(d.cells),
             code |-> Assembled(d)] : d \in Drawings}

Conducts(inst, m) ==
  CASE inst.op = "XIC" -> m[inst.arg] = 1
    [] inst.op = "XIO" -> m[inst.arg] = 0
    [] OTHER -> TRUE

\* The points power reaches from some, when the operations in closed conduct.
RECURSIVE Reached(_, _, _)
Reached(wires, closed, points) ==
  LET through == {<<q[1], "out">> : q \in {p \in points : p[2] = "in" /\ p[1] \in closed}}
      more == points \cup through \cup UNION {w \in wires : w \cap points # {}}
  IN  IF more = points THEN points ELSE Reached(wires, closed, more)

(* The variables after the rung that begins at a cell: each coil takes the *)
(* power at its left.  (The drawings looked at read no variable in a rung  *)
(* behind a coil that writes it, and write none twice in it.)              *)
Energized(l, begin, m) ==
  LET cells == l.cells
      operations == {p \in DOMAIN cells : cells[p].op \in Operations}
      rung == Reached(l.wires, operations, {<<begin, "wire">>})
      live == Reached(l.wires, {p \in operations : Conducts(cells[p], m)}, {<<begin, "wire">>})
      coils(op, points) ==
        {cells[p].arg : p \in {q \in operations : cells[q].op = op /\ <<q, "in">> \in points}}
      on == coils("OTE", live) \cup coils("OTL", live)
      off == coils("OTU", live) \cup (coils("OTE", rung) \ coils("OTE", live))
  IN  [c \in DOMAIN m |-> IF c \in on THEN 1 ELSE IF c \in off THEN 0 ELSE m[c]]

RECURSIVE Meaning(_, _, _)
Meaning(l, begins, m) ==
  IF begins = <<>> THEN m
  ELSE Meaning(l, Tail(begins), Energized(l, Head(begins), m))

\* The ladders a program is assembled from.
Sources == [p \in Programs |-> {l \in Ladders : l.code = p}]

(* A scan no web client disturbed leaves in the variables what the drawing *)
(* means, however its branches nest: the branch symbols, the instructions  *)
(* the assembler makes of them and the two stacks of the engine agree.     *)
ScanMeaning ==
  pc = "out" /\ clean /\ ~aborted =>
    \A l \in Sources[prog] : mem = Meaning(l, l.begins, start)

=============================================================================

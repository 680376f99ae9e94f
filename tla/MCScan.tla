------------------------------- MODULE MCScan -------------------------------
(* Drawings: every supported way to lead the wires from the begin symbol to *)
(* one coil through Columns columns and three lines, with a contact or a    *)
(* wire in each place of the columns up to Wired and a contact elsewhere;   *)
(* two rungs with a latch; a branch too deep and one too wide for stacks of *)
(* StackMax.  Besides, code no assembler emits, and input 0 driving a timer *)
(* that drives an output.                                                   *)
EXTENDS Ladder

CONSTANTS Preset,           \* of the timer in cells 4 .. 8
          Columns, Wired

Op(name, cell) == [op |-> name, arg |-> cell]
Symbols == {"HORZ", "VERT", "BRDOWN", "BRRIGHT", "BRLEFT", "CAPRIGHT", "CAPLEFT"}
Wire(name) == Op(name, 0)

-----------------------------------------------------------------------------
(* Drawings from their lines.                                              *)

Blank == Wire("NONE")

Drawing(lines, begins) ==
  LET positions == UNION {{<<x, y>> : x \in 1 .. Len(lines[y])} : y \in 1 .. Len(lines)}
  IN  [cells |-> [p \in {q \in positions : lines[q[2]][q[1]] # Blank} |-> lines[p[2]][p[1]]],
       begins |-> begins]

(* All the ways to fill the grid, cell by cell from the left and the top:  *)
(* a side is connected if and only if the neighbour's is.  A vertical wire *)
(* that line to its left ends in starts none to its right: power that went *)
(* down it would not be followed (resolve_chain stops at the BRLEFT).      *)

Joins(cells, p, side) == p \in DOMAIN cells /\ side \in Sides(cells[p].op)

\* Whether the vertical wire that comes down to p has ended, or begun, a line.
RECURSIVE Run(_, _, _)
Run(cells, p, symbols) ==
  LET above == Move(p, Up)
  IN  /\ above \in DOMAIN cells /\ cells[above].op # "BRDOWN"
      /\ cells[above].op \in symbols \/ Run(cells, above, symbols)

Fits(cells, p, op) ==
  /\ ("left" \in Sides(op)) = Joins(cells, Move(p, <<-1, 0>>), "right")
  /\ ("up" \in Sides(op)) = Joins(cells, Move(p, Up), "down")
  /\ "down" \in Sides(op) => p[2] < 3
  /\ p[1] = Columns + 1 => ("right" \in Sides(op)) = (p[2] = 1)
  /\ op \in {"BRRIGHT", "CAPRIGHT"} => ~Run(cells, p, {"BRLEFT"})
  /\ op \in {"BRLEFT", "CAPLEFT"} => ~Run(cells, p, {"BRRIGHT"})

\* Contacts beside and below each other have different inputs.
At3(p) == (p[1] + p[2]) % 3

Fill(cells, p) ==
  {[q \in DOMAIN cells \cup {p} |-> IF q = p THEN s ELSE cells[q]] :
     s \in {Wire(op) : op \in {t \in Symbols \ {"HORZ"} : Fits(cells, p, t)}}
            \cup IF Fits(cells, p, "HORZ")
                 THEN {Op("XIC", At3(p))} \cup (IF p[1] <= Wired + 1 THEN {Wire("HORZ")} ELSE {})
                 ELSE {}}
  \cup IF Joins(cells, Move(p, <<-1, 0>>), "right") \/ Joins(cells, Move(p, Up), "down")
       THEN {} ELSE {cells}

RECURSIVE Grown(_, _)
Grown(drawings, i) ==
  IF i = 3 * Columns THEN drawings
  ELSE Grown(UNION {Fill(c, <<(i % Columns) + 2, (i \div Columns) + 1>>) : c \in drawings}, i + 1)

Begin == <<1, 1>>

Grid ==
  {[cells |-> [p \in DOMAIN c \cup {<<Columns + 2, 1>>, <<Columns + 3, 1>>} |->
                 IF p = <<Columns + 2, 1>> THEN Op("OTE", 3)
                 ELSE IF p = <<Columns + 3, 1>> THEN Wire("E") ELSE c[p]],
    begins |-> <<Begin>>] : c \in Grown({[p \in {Begin} |-> Wire("B")]}, 0)}

-----------------------------------------------------------------------------
B == Wire("B")
E == Wire("E")
Dn == Wire("BRDOWN")
V == Wire("VERT")
R == Wire("BRRIGHT")
L == Wire("BRLEFT")
CR == Wire("CAPRIGHT")
CL == Wire("CAPLEFT")
X(i) == Op("XIC", i)
No == Blank

LatchPair ==
  Drawing(<< <<B, X(0), Op("OTL", 4), E>>,
             <<B, Dn, X(1), Dn, Op("OTU", 4), Op("OTL", 3), E>>,
             <<No, CR, Op("XIO", 3), CL>> >>, << <<1, 1>>, <<1, 2>> >>)

TooDeep ==
  Drawing(<< <<B, Dn, Dn, Dn, Dn, X(0), Dn, Dn, Dn, Dn, Op("OTE", 3), E>>,
             <<No, V, V, V, CR, X(1), CL, V, V, V>>,
             <<No, V, V, CR, X(1), X(2), X(1), CL, V, V>>,
             <<No, V, CR, X(1), X(2), X(0), X(2), X(1), CL, V>>,
             <<No, CR, X(0), X(1), X(2), X(0), X(2), X(1), X(0), CL>> >>, <<Begin>>)

TooWide ==
  Drawing(<< <<B, Dn, X(0), Dn, Op("OTE", 3), E>>, <<No, R, X(1), L>>,
             <<No, R, X(2), L>>, <<No, CR, X(0), CL>> >>, <<Begin>>)

Unassembled == <<Op("CLEAR", 0), Op("NONE", 0), Op("XIC", 0), Op("OTE", 9)>>
TimedCode == <<Op("CLEAR", 0), Op("XIC", 0), Op("TMR", 4), Op("OTE", 3)>>

MCDrawings == Grid \cup {LatchPair, TooDeep, TooWide}
MCPrograms == {l.code : l \in Ladders} \cup {Unassembled, TimedCode}
ASSUME NestingAssumption == \A p \in Programs : Nested(p)
LatchCode == Assembled(LatchPair)
MCSettable(p) == CASE p = LatchCode -> {3, 4} [] p = TimedCode -> {3} [] OTHER -> {}
MCMem == [c \in 0 .. 8 |-> IF c = 6 THEN Preset ELSE 0]
=============================================================================

------------------------------ MODULE Simulator ------------------------------
(***************************************************************************)
(* The simulator of the web page (CPU.js): while the page is offline it    *)
(* runs the instructions of the last assembly itself, so that the user     *)
(* sees the ladder work before it is saved.  It is a second program for    *)
(* the same instructions: its stacks have no limit, its words do not wrap, *)
(* and an instruction it does not know ends the scan.  (A stack is empty   *)
(* when it is popped in programs that break NoUnderflow only.)             *)
(***************************************************************************)
EXTENDS Scan, SequencesExt

\* get_byte and get_word; set_byte and set_word.
Stored(m, c) == IF c \in DOMAIN m THEN m[c] ELSE 0
Store(m, c, v) == IF c \in DOMAIN m THEN [m EXCEPT ![c] = v] ELSE m

\* The state solve_logic makes for the instructions.
StartState(m) ==
  [data |-> m, cr |-> 1, cr_stack |-> <<>>, or_stack |-> <<>>, ended |-> FALSE]

BitAnd(bit, value) == (bit * value) % 2

TimerDone(s, t, d) ==
  s.cr = 1 /\ Stored(s.data, t + 4) + d >= Stored(s.data, t + 2)

\* Faulty variant of TimerAcc: a timer that loses its source keeps its count.
TimerAccKept(s, t, d) ==
  CASE s.cr = 0 -> Stored(s.data, t + 4)
    [] TimerDone(s, t, d) -> Stored(s.data, t + 2)
    [] OTHER -> Stored(s.data, t + 4) + d

TimerAcc(s, t, d) ==
  CASE s.cr = 0 -> 0
    [] TimerDone(s, t, d) -> Stored(s.data, t + 2)
    [] OTHER -> Stored(s.data, t + 4) + d

Bit(b) == IF b THEN 1 ELSE 0

\* inst_tmr.
Timed(s, t, d) ==
  [s EXCEPT !.cr = Bit(TimerDone(s, t, d)),
            !.data = Store(Store(@, t, Bit(TimerDone(s, t, d))), t + 4, TimerAcc(s, t, d))]

\* The instruction table.
Executed(s, inst, d) ==
  LET op == inst.op  a == inst.arg
  IN  CASE op = "CLEAR" -> [s EXCEPT !.cr = 1]
        [] op = "PUSHCR" -> [s EXCEPT !.cr_stack = Append(@, s.cr)]
        [] op = "POPCR" -> [s EXCEPT !.cr = Last(s.cr_stack), !.cr_stack = Front(@)]
        [] op = "PUSHOR" -> [s EXCEPT !.or_stack = Append(@, s.cr)]
        [] op = "POPOR" -> [s EXCEPT !.cr = Bit(1 \in {@, Last(s.or_stack)}),
                                     !.or_stack = Front(@)]
        [] op = "XIC" -> [s EXCEPT !.cr = BitAnd(@, Stored(s.data, a))]
        [] op = "XIO" -> [s EXCEPT !.cr = BitAnd(@, Bit(Stored(s.data, a) = 0))]
        [] op = "OTE" -> [s EXCEPT !.data = Store(@, a, s.cr)]
        [] op = "OTL" -> IF s.cr = 1 THEN [s EXCEPT !.data = Store(@, a, 1)] ELSE s
        [] op = "OTU" -> IF s.cr = 1 THEN [s EXCEPT !.data = Store(@, a, 0)] ELSE s
        [] op = "TMR" -> Timed(s, a, d)
        [] OTHER -> [s EXCEPT !.ended = TRUE]

\* What solve_logic leaves in variable_data after d milliseconds.
Simulated(code, m, d) ==
  FoldLeft(LAMBDA s, inst : IF s.ended THEN s ELSE Executed(s, inst, d),
           StartState(m), code).data

\* Where the two programs are meant to do the same: every instruction is
\* known to both, and no accumulator is about to leave its word.
Simulable ==
  /\ \A i \in 1 .. Len(prog) : prog[i].op # "NONE"
  /\ \A i \in 1 .. Len(prog) :
       prog[i].op = "TMR" => Stored(start, prog[i].arg + 4) + dt < Word

(* A scan no web client disturbed computes what the page's simulator shows *)
(* for the same variables: the user sees offline what the node will do.    *)
SimulatorAgrees ==
  pc = "out" /\ clean /\ ~aborted /\ Simulable => mem = Simulated(prog, start, dt)

=============================================================================

-------------------------------- MODULE Scan --------------------------------
(***************************************************************************)
(* The scan cycle of the logic engine: Logic::update reads the inputs into *)
(* the variables, solve_logic interprets the program one instruction at a  *)
(* time, map_outputs hands the output variables to the ports.  All of it   *)
(* runs in the loop task, while the async_tcp task may write a variable    *)
(* (setvar) or command an output (set) between any two instructions.       *)
(*                                                                         *)
(* The variables are memory cells 0 .. MemSize-1.  A timer at cell t has   *)
(* its value in t, its 16-bit preset in t+2 and its 16-bit accumulator in  *)
(* t+4; a word is one cell here, and Word (2^16 in the code) its modulus.  *)
(***************************************************************************)
EXTENDS Integers, Sequences, FiniteSets

CONSTANTS
  NumInputs, NumOutputs,  \* NUM_INPUTS and NUM_OUTPUTS of the board
  OutputOffset,           \* the variable map_outputs takes for output 0
  MemSize,                \* variables_size
  Programs,               \* the programs, sequences of [op, arg]
  InitialMem,             \* the variables the loaded file gives
  Word,                   \* the modulus of a word
  MaxDt,                  \* the longest time between two scans
  StackMax,               \* CRSTACK_MAX and ORSTACK_MAX
  Settable(_)             \* the cells web clients toggle under a program

ASSUME SizeAssumption ==
  /\ NumInputs \in Nat /\ NumOutputs \in Nat /\ OutputOffset \in Nat
  /\ MemSize \in Nat /\ NumInputs <= MemSize
  /\ OutputOffset + NumOutputs <= MemSize
  /\ Word \in Nat /\ Word > 1 /\ MaxDt \in Nat \ {0} /\ StackMax \in Nat \ {0}
  /\ \A p \in Programs : Settable(p) \subseteq 0 .. MemSize - 1

ASSUME ProgramAssumption ==
  /\ Programs \subseteq Seq([op : STRING, arg : Nat])
  /\ InitialMem \in [0 .. MemSize - 1 -> 0 .. Word - 1]

VARIABLES
  prog,          \* bytecode
  mem,           \* variables
  inputs,        \* Input::state of each input
  next_state,    \* Output::next_state of each output
  pc,            \* where Logic::update is; "rest" is the rest of loop()
  ip, cr, cr_stack, or_stack,
  dt,            \* milliseconds since the last scan
  start,         \* the variables when solve_logic began
  clean,         \* no web client wrote a variable since then
  aborted        \* this scan ended in a stack error

cpuVars == <<ip, cr, cr_stack, or_stack>>
ioVars == <<inputs, next_state>>
ghostVars == <<start, clean, aborted>>
vars == <<prog, mem, ioVars, pc, cpuVars, dt, ghostVars>>

Cells == 0 .. MemSize - 1
Bits == 0 .. 1

TypeOK ==
  /\ prog \in Programs
  /\ mem \in [Cells -> 0 .. Word - 1] /\ start \in [Cells -> 0 .. Word - 1]
  /\ inputs \in [0 .. NumInputs - 1 -> Bits]
  /\ next_state \in [0 .. NumOutputs - 1 -> Bits]
  /\ pc \in {"rest", "map", "solve", "out"}
  /\ ip \in 1 .. Len(prog) + 1 /\ cr \in Bits
  /\ cr_stack \in Seq(Bits) /\ Len(cr_stack) <= StackMax
  /\ or_stack \in Seq(Bits) /\ Len(or_stack) <= StackMax
  /\ dt \in 0 .. MaxDt /\ clean \in BOOLEAN /\ aborted \in BOOLEAN

Init ==
  /\ prog \in Programs
  /\ mem = InitialMem /\ start = InitialMem
  /\ inputs = [i \in 0 .. NumInputs - 1 |-> 0]
  /\ next_state = [o \in 0 .. NumOutputs - 1 |-> 0]
  /\ pc = "rest" /\ ip = 1 /\ cr = 1 /\ cr_stack = <<>> /\ or_stack = <<>>
  /\ dt = 0 /\ clean = TRUE /\ aborted = FALSE

-----------------------------------------------------------------------------
(* Before and after solve_logic.                                           *)

\* IO::update samples the input pins; then Logic::update computes dt.
IoUpdate ==
  /\ pc = "rest" /\ pc' = "map"
  /\ inputs' \in [0 .. NumInputs - 1 -> Bits]
  /\ dt' \in 0 .. MaxDt
  /\ UNCHANGED <<prog, mem, next_state, cpuVars, ghostVars>>

\* map_inputs, and the registers as solve_logic sets them up.
MapInputs ==
  /\ pc = "map" /\ pc' = "solve"
  /\ mem' = [c \in Cells |-> IF c < NumInputs THEN inputs[c] ELSE mem[c]]
  /\ ip' = 1 /\ cr' = 1 /\ cr_stack' = <<>> /\ or_stack' = <<>>
  /\ start' = mem' /\ clean' = TRUE /\ aborted' = FALSE
  /\ UNCHANGED <<prog, ioVars, dt>>

EndOfProgram ==
  /\ pc = "solve" /\ ip > Len(prog)
  /\ pc' = "out"
  /\ UNCHANGED <<prog, mem, ioVars, cpuVars, dt, ghostVars>>

MapOutputs ==
  /\ pc = "out" /\ pc' = "rest"
  /\ next_state' = [o \in 0 .. NumOutputs - 1 |->
                      IF mem[o + OutputOffset] # 0 THEN 1 ELSE 0]
  /\ UNCHANGED <<prog, mem, inputs, cpuVars, dt, ghostVars>>

-----------------------------------------------------------------------------
(* solve_logic, one instruction a step.                                    *)

At(op) == pc = "solve" /\ ip <= Len(prog) /\ prog[ip].op = op
Arg == prog[ip].arg

\* get_byte and set_byte refuse an offset that is out of range.
Get(c) == IF c \in Cells THEN mem[c] ELSE 0
Put(m, c, v) == IF c \in Cells THEN [m EXCEPT ![c] = v] ELSE m

Clear ==
  /\ At("CLEAR")
  /\ cr' = 1 /\ ip' = ip + 1
  /\ UNCHANGED <<prog, mem, ioVars, pc, cr_stack, or_stack, dt, ghostVars>>

\* Faulty variant of PushCR: nothing limits the stack.
PushCRUnchecked ==
  /\ At("PUSHCR")
  /\ cr_stack' = Append(cr_stack, cr)
  /\ ip' = ip + 1
  /\ UNCHANGED <<prog, mem, ioVars, pc, cr, or_stack, dt, ghostVars>>

\* A push that reaches the limit ends the scan; map_outputs still runs.
PushCR ==
  /\ At("PUSHCR")
  /\ cr_stack' = Append(cr_stack, cr)
  /\ IF Len(cr_stack) + 1 >= StackMax
     THEN pc' = "out" /\ aborted' = TRUE /\ UNCHANGED ip
     ELSE ip' = ip + 1 /\ UNCHANGED <<pc, aborted>>
  /\ UNCHANGED <<prog, mem, ioVars, cr, or_stack, dt, start, clean>>

\* The tests for a pointer below 0 never hold, as the pointers are unsigned:
\* popping an empty stack reads outside it (NoUnderflow).
PopCR ==
  /\ At("POPCR") /\ cr_stack # <<>>
  /\ cr' = cr_stack[Len(cr_stack)]
  /\ cr_stack' = SubSeq(cr_stack, 1, Len(cr_stack) - 1)
  /\ ip' = ip + 1
  /\ UNCHANGED <<prog, mem, ioVars, pc, or_stack, dt, ghostVars>>

\* Faulty variant of PushOR: the push is forgotten.
PushORSkipped ==
  /\ At("PUSHOR")
  /\ ip' = ip + 1
  /\ UNCHANGED <<prog, mem, ioVars, pc, cr, cr_stack, or_stack, dt, ghostVars>>

PushOR ==
  /\ At("PUSHOR")
  /\ or_stack' = Append(or_stack, cr)
  /\ IF Len(or_stack) + 1 >= StackMax
     THEN pc' = "out" /\ aborted' = TRUE /\ UNCHANGED ip
     ELSE ip' = ip + 1 /\ UNCHANGED <<pc, aborted>>
  /\ UNCHANGED <<prog, mem, ioVars, cr, cr_stack, dt, start, clean>>

PopOR ==
  /\ At("POPOR") /\ or_stack # <<>>
  /\ cr' = IF cr = 1 \/ or_stack[Len(or_stack)] = 1 THEN 1 ELSE 0
  /\ or_stack' = SubSeq(or_stack, 1, Len(or_stack) - 1)
  /\ ip' = ip + 1
  /\ UNCHANGED <<prog, mem, ioVars, pc, cr_stack, dt, ghostVars>>

\* XIC is a bitwise and, so only an odd value is "closed"; XIO negates first,
\* so only 0 is "open".
Closed(v) == v % 2 = 1
Open(v) == v = 0

Contact ==
  /\ \/ At("XIC") /\ cr' = (IF cr = 1 /\ Closed(Get(Arg)) THEN 1 ELSE 0)
     \/ At("XIO") /\ cr' = (IF cr = 1 /\ Open(Get(Arg)) THEN 1 ELSE 0)
  /\ ip' = ip + 1
  /\ UNCHANGED <<prog, mem, ioVars, pc, cr_stack, or_stack, dt, ghostVars>>

\* Faulty variant of Coil: an unlatch that is not energized latches.
CoilUnlatchAlways ==
  /\ \/ At("OTE") /\ mem' = Put(mem, Arg, cr)
     \/ At("OTL") /\ mem' = Put(mem, Arg, cr)
     \/ At("OTU") /\ mem' = (IF cr = 1 THEN Put(mem, Arg, 0) ELSE mem)
  /\ ip' = ip + 1
  /\ UNCHANGED <<prog, ioVars, pc, cr, cr_stack, or_stack, dt, ghostVars>>

Coil ==
  /\ \/ At("OTE") /\ mem' = Put(mem, Arg, cr)
     \/ At("OTL") /\ mem' = (IF cr = 1 THEN Put(mem, Arg, 1) ELSE mem)
     \/ At("OTU") /\ mem' = (IF cr = 1 THEN Put(mem, Arg, 0) ELSE mem)
  /\ ip' = ip + 1
  /\ UNCHANGED <<prog, ioVars, pc, cr, cr_stack, or_stack, dt, ghostVars>>

\* The accumulator after d more milliseconds: 16-bit addition, then the cap.
Accumulated(acc, pre, d) ==
  LET sum == (acc + d) % Word IN IF sum > pre THEN pre ELSE sum

\* Faulty variant of Timer: done only past the preset, which the cap prevents.
TimerStrict ==
  /\ At("TMR")
  /\ LET pre == Get(Arg + 2)
         acc == IF cr = 1 THEN Accumulated(Get(Arg + 4), pre, dt) ELSE 0
         done == IF cr = 1 /\ acc > pre THEN 1 ELSE 0
     IN  /\ cr' = done
         /\ mem' = Put(Put(mem, Arg, done), Arg + 4, acc)
  /\ ip' = ip + 1
  /\ UNCHANGED <<prog, ioVars, pc, cr_stack, or_stack, dt, ghostVars>>

\* The timebase (cell t+1) is read and not used.
Timer ==
  /\ At("TMR")
  /\ LET pre == Get(Arg + 2)
         acc == IF cr = 1 THEN Accumulated(Get(Arg + 4), pre, dt) ELSE 0
         done == IF cr = 1 /\ acc >= pre THEN 1 ELSE 0
     IN  /\ cr' = done
         /\ mem' = Put(Put(mem, Arg, done), Arg + 4, acc)
  /\ ip' = ip + 1
  /\ UNCHANGED <<prog, ioVars, pc, cr_stack, or_stack, dt, ghostVars>>

\* An unknown opcode is logged and skipped.
Unknown ==
  /\ At("NONE")
  /\ ip' = ip + 1
  /\ UNCHANGED <<prog, mem, ioVars, pc, cr, cr_stack, or_stack, dt, ghostVars>>

Instruction ==
  \/ Clear \/ PushCR \/ PopCR \/ PushOR \/ PopOR
  \/ Contact \/ Coil \/ Timer \/ Unknown

LoopTask == IoUpdate \/ MapInputs \/ Instruction \/ EndOfProgram \/ MapOutputs

-----------------------------------------------------------------------------
(* The async_tcp task: IOT::handle_message.                                *)

SetVar(c, v) ==
  /\ mem' = Put(mem, c, v)
  /\ clean' = FALSE
  /\ UNCHANGED <<prog, ioVars, pc, cpuVars, dt, start, aborted>>

SetOutput(o, v) ==
  /\ next_state' = [next_state EXCEPT ![o] = v]
  /\ UNCHANGED <<prog, mem, inputs, pc, cpuVars, dt, ghostVars>>

WebTask ==
  \/ \E c \in Settable(prog), v \in Bits : SetVar(c, v)
  \/ \E o \in 0 .. NumOutputs - 1, v \in Bits : SetOutput(o, v)

Next == LoopTask \/ WebTask

Spec == Init /\ [][Next]_vars

\* loop() runs forever, and the clock does not stand still.
FairSpec == Spec /\ WF_vars(LoopTask) /\ []<><<LoopTask /\ dt' > dt>>_vars

-----------------------------------------------------------------------------
(* A program never pops an empty stack, which solve_logic could not tell   *)
(* (CPU.cpp:193 and 210 compare an unsigned pointer with 0).               *)
NoUnderflow ==
  /\ At("POPCR") => cr_stack # <<>>
  /\ At("POPOR") => or_stack # <<>>

(* What it takes, which MCScan tests of all the code it assembles: before  *)
(* each pop there are more pushes than pops.                               *)
Uses(p, op, i) == Cardinality({j \in 1 .. i - 1 : p[j].op = op})
Nested(p) ==
  \A i \in 1 .. Len(p) :
    /\ p[i].op = "POPCR" => Uses(p, "POPCR", i) < Uses(p, "PUSHCR", i)
    /\ p[i].op = "POPOR" => Uses(p, "POPOR", i) < Uses(p, "PUSHOR", i)

\* The cells a program only ever latches.
Args(ops) == {prog[i].arg : i \in {j \in 1 .. Len(prog) : prog[j].op \in ops}}
Latched == Args({"OTL"}) \ Args({"OTE", "OTU", "TMR"})

(* What OTL, "Output Latch" (README.md:93), has set stays set: no step of  *)
(* the scan clears a variable the program only latches (a web client may). *)
LatchHolds ==
  [][LoopTask => \A c \in Latched \cap Cells : mem[c] = 1 => mem'[c] = 1]_vars

(* TMR "accumulates if source high" (README.md:99): when input 0, the      *)
(* source of a timer, stays high, the timer is done in the end and for     *)
(* good, if its preset leaves a scan's time below the largest word (a      *)
(* larger one may never be met: the sum of CPU.cpp:272 wraps).  Between    *)
(* map_inputs and the next instruction only the loop runs.                 *)
TimerFires ==
  <>[](inputs[0] = 1) =>
    <>[](\A t \in Args({"TMR"}) : mem[t + 2] + MaxDt <= Word => mem[t] = 1)

=============================================================================

----------------------------- MODULE Scan_proofs ------------------------------
(* Proofs about the scan cycle, for every set of programs, any number of   *)
(* variables, inputs and outputs, any stack limit and any word.            *)
EXTENDS Scan, FiniteSetTheorems, SequenceTheorems, TLAPS

(* A scan that goes on has room for a push on both stacks: the push that   *)
(* uses up the room ends the scan.                                         *)
RoomOnStacks ==
  pc = "solve" => Len(cr_stack) < StackMax /\ Len(or_stack) < StackMax

IInv == TypeOK /\ RoomOnStacks

(* An instruction that is about to run is one of the program's. *)
LEMMA InstructionType ==
  ASSUME TypeOK, pc = "solve", ip <= Len(prog)
  PROVE  /\ ip \in 1 .. Len(prog) /\ ip + 1 \in 1 .. Len(prog) + 1
         /\ prog[ip] \in [op : STRING, arg : Nat]
         /\ Arg \in Nat
<1>1. prog \in Seq([op : STRING, arg : Nat]) /\ ip \in 1 .. Len(prog) + 1
  BY ProgramAssumption DEF TypeOK
<1>2. Len(prog) \in Nat
  BY <1>1
<1>3. ip \in 1 .. Len(prog) /\ ip + 1 \in 1 .. Len(prog) + 1
  BY <1>1, <1>2
<1>4. prog[ip] \in [op : STRING, arg : Nat]
  <2> DEFINE Instr == [op : STRING, arg : Nat]
  <2>1. prog \in Seq(Instr)
    BY <1>1
  <2> HIDE DEF Instr
  <2>2. prog[ip] \in Instr
    BY <1>3, <2>1, ElementOfSeq
  <2> QED BY <2>2 DEF Instr
<1>5. Arg \in Nat
  BY <1>4 DEF Arg
<1> QED BY <1>3, <1>4, <1>5

(* Reading a variable gives a value of a word, writing one keeps them all. *)
LEMMA GetType ==
  ASSUME TypeOK, NEW c \in Nat
  PROVE  Get(c) \in 0 .. Word - 1
BY SizeAssumption DEF TypeOK, Get, Cells

LEMMA PutType ==
  ASSUME NEW m \in [Cells -> 0 .. Word - 1], NEW c \in Nat, NEW v \in 0 .. Word - 1
  PROVE  Put(m, c, v) \in [Cells -> 0 .. Word - 1]
BY DEF Put

LEMMA BitsAreWords == Bits \subseteq 0 .. Word - 1
BY SizeAssumption DEF Bits

(* The accumulator never leaves its word: the sum wraps before the cap. *)
LEMMA AccumulatedType ==
  ASSUME NEW acc \in 0 .. Word - 1, NEW pre \in 0 .. Word - 1, NEW d \in Nat
  PROVE  Accumulated(acc, pre, d) \in 0 .. Word - 1
<1>1. Word \in Nat /\ Word > 0 /\ acc + d \in Nat
  BY SizeAssumption
<1>2. (acc + d) % Word \in 0 .. Word - 1
  BY <1>1
<1> QED BY <1>2 DEF Accumulated

(* A push and a pop keep a stack a stack. *)
LEMMA StackType ==
  ASSUME NEW s \in Seq(Bits), NEW b \in Bits
  PROVE  /\ Append(s, b) \in Seq(Bits) /\ Len(Append(s, b)) = Len(s) + 1
         /\ s # <<>> => /\ s[Len(s)] \in Bits
                        /\ SubSeq(s, 1, Len(s) - 1) \in Seq(Bits)
                        /\ Len(SubSeq(s, 1, Len(s) - 1)) = Len(s) - 1
<1>1. Append(s, b) \in Seq(Bits) /\ Len(Append(s, b)) = Len(s) + 1
  BY AppendProperties
<1>2. ASSUME s # <<>>
      PROVE  /\ s[Len(s)] \in Bits
             /\ SubSeq(s, 1, Len(s) - 1) \in Seq(Bits)
             /\ Len(SubSeq(s, 1, Len(s) - 1)) = Len(s) - 1
  <2>1. Len(s) \in Nat /\ Len(s) > 0
    BY <1>2, EmptySeq
  <2>2. s[Len(s)] \in Bits
    BY <2>1, ElementOfSeq
  <2>3. \A i \in 1 .. Len(s) - 1 : s[i] \in Bits
    BY <2>1, ElementOfSeq
  <2> DEFINE n == Len(s) - 1
  <2>4. n \in Nat
    BY <2>1
  <2>5. \A i \in 1 .. n : s[i] \in Bits
    BY <2>3
  <2> HIDE DEF n
  <2>6. 1 \in Int /\ n \in Int
    BY <2>4
  <2>7. /\ SubSeq(s, 1, n) \in Seq(Bits)
        /\ Len(SubSeq(s, 1, n)) = IF 1 <= n THEN n - 1 + 1 ELSE 0
    BY <2>5, <2>6, SubSeqProperties
  <2>8. Len(SubSeq(s, 1, n)) = n
    BY <2>4, <2>7
  <2> QED BY <2>2, <2>7, <2>8 DEF n
<1> QED BY <1>1, <1>2

-----------------------------------------------------------------------------

LEMMA InitIInv == Init => IInv
<1> SUFFICES ASSUME Init PROVE IInv
  OBVIOUS
<1>1. Len(prog) \in Nat /\ 1 \in 1 .. Len(prog) + 1
  BY ProgramAssumption, LenProperties DEF Init
<1>2. /\ mem \in [Cells -> 0 .. Word - 1] /\ start \in [Cells -> 0 .. Word - 1]
      /\ inputs \in [0 .. NumInputs - 1 -> Bits]
      /\ next_state \in [0 .. NumOutputs - 1 -> Bits]
  BY ProgramAssumption DEF Init, Cells, Bits
<1>3. /\ cr_stack \in Seq(Bits) /\ Len(cr_stack) = 0
      /\ or_stack \in Seq(Bits) /\ Len(or_stack) = 0
  BY EmptySeq DEF Init
<1>4. /\ prog \in Programs /\ pc = "rest" /\ ip \in 1 .. Len(prog) + 1
      /\ cr \in Bits /\ dt \in 0 .. MaxDt
  BY <1>1, SizeAssumption DEF Init, Bits
<1>5. clean \in BOOLEAN /\ aborted \in BOOLEAN
  BY Zenon DEF Init
<1>6. 0 <= StackMax
  BY SizeAssumption
<1> QED BY <1>2, <1>3, <1>4, <1>5, <1>6 DEF IInv, TypeOK, RoomOnStacks

LEMMA StepIInv == IInv /\ [Next]_vars => IInv'
<1> SUFFICES ASSUME IInv, [Next]_vars PROVE IInv'
  OBVIOUS
<1> USE DEF IInv
<1>1. CASE IoUpdate
  BY <1>1 DEF IoUpdate, TypeOK, RoomOnStacks, cpuVars, ghostVars
<1>2. CASE MapInputs
  <2>1. mem' \in [Cells -> 0 .. Word - 1]
    <3>1. ASSUME NEW c \in Cells
          PROVE  (IF c < NumInputs THEN inputs[c] ELSE mem[c]) \in 0 .. Word - 1
      <4>1. CASE c < NumInputs
        <5>1. c \in 0 .. NumInputs - 1
          BY <4>1, SizeAssumption DEF Cells
        <5>2. inputs[c] \in Bits
          BY <5>1 DEF TypeOK
        <5> QED BY <4>1, <5>2, BitsAreWords
      <4>2. CASE ~ (c < NumInputs)
        BY <4>2 DEF TypeOK
      <4> QED BY <4>1, <4>2
    <3> QED BY <1>2, <3>1 DEF MapInputs
  <2>2. 1 \in 1 .. Len(prog) + 1
    BY ProgramAssumption, LenProperties DEF TypeOK
  <2>3. /\ cr_stack' \in Seq(Bits) /\ Len(cr_stack') = 0
        /\ or_stack' \in Seq(Bits) /\ Len(or_stack') = 0
    BY <1>2, EmptySeq DEF MapInputs
  <2>4. clean' \in BOOLEAN /\ aborted' \in BOOLEAN
    BY <1>2, Zenon DEF MapInputs
  <2>5. /\ cr' \in Bits /\ ip' \in 1 .. Len(prog') + 1 /\ start' = mem'
        /\ UNCHANGED <<prog, inputs, next_state, dt>>
        /\ pc' = "solve"
    BY <1>2, <2>2 DEF MapInputs, ioVars, Bits
  <2>6. 0 < StackMax /\ 0 <= StackMax
    BY SizeAssumption
  <2> QED BY <2>1, <2>3, <2>4, <2>5, <2>6 DEF TypeOK, RoomOnStacks
<1>3. CASE EndOfProgram
  BY <1>3 DEF EndOfProgram, TypeOK, RoomOnStacks, ioVars, cpuVars, ghostVars
<1>4. CASE MapOutputs
  BY <1>4 DEF MapOutputs, TypeOK, RoomOnStacks, cpuVars, ghostVars, Bits
<1>5. CASE Clear
  BY <1>5, InstructionType
     DEF Clear, At, TypeOK, RoomOnStacks, ioVars, ghostVars, Bits
<1>6. CASE PushCR
  <2>1. cr_stack' \in Seq(Bits) /\ Len(cr_stack') = Len(cr_stack) + 1
    BY <1>6, StackType DEF PushCR, TypeOK
  <2>2. Len(cr_stack) \in Nat /\ StackMax \in Nat
    BY SizeAssumption, LenProperties DEF TypeOK
  <2>3. ip \in 1 .. Len(prog) + 1 /\ ip + 1 \in 1 .. Len(prog) + 1
    BY <1>6, InstructionType DEF PushCR, At, TypeOK
  <2>4. Len(cr_stack) < StackMax /\ Len(or_stack) < StackMax
    BY <1>6 DEF PushCR, At, RoomOnStacks
  <2>5. CASE Len(cr_stack) + 1 >= StackMax
    BY <1>6, <2>1, <2>2, <2>3, <2>4, <2>5
       DEF PushCR, TypeOK, RoomOnStacks, ioVars
  <2>6. CASE ~ (Len(cr_stack) + 1 >= StackMax)
    BY <1>6, <2>1, <2>2, <2>3, <2>4, <2>6
       DEF PushCR, TypeOK, RoomOnStacks, ioVars
  <2> QED BY <2>5, <2>6
<1>7. CASE PopCR
  <2>1. cr' \in Bits /\ cr_stack' \in Seq(Bits) /\ Len(cr_stack') = Len(cr_stack) - 1
    BY <1>7, StackType DEF PopCR, TypeOK
  <2>2. /\ ip' \in 1 .. Len(prog) + 1 /\ pc = "solve" /\ pc' = pc
        /\ UNCHANGED <<prog, mem, inputs, next_state, or_stack, dt, start, clean, aborted>>
    BY <1>7, InstructionType DEF PopCR, At, ioVars, ghostVars
  <2>3. Len(cr_stack') < StackMax /\ Len(cr_stack') <= StackMax
    BY <2>1, <2>2, SizeAssumption, LenProperties DEF TypeOK, RoomOnStacks
  <2> QED BY <2>1, <2>2, <2>3 DEF TypeOK, RoomOnStacks
<1>8. CASE PushOR
  <2>1. or_stack' \in Seq(Bits) /\ Len(or_stack') = Len(or_stack) + 1
    BY <1>8, StackType DEF PushOR, TypeOK
  <2>2. Len(or_stack) \in Nat /\ StackMax \in Nat
    BY SizeAssumption, LenProperties DEF TypeOK
  <2>3. ip \in 1 .. Len(prog) + 1 /\ ip + 1 \in 1 .. Len(prog) + 1
    BY <1>8, InstructionType DEF PushOR, At, TypeOK
  <2>4. Len(or_stack) < StackMax /\ Len(cr_stack) < StackMax
    BY <1>8 DEF PushOR, At, RoomOnStacks
  <2>5. CASE Len(or_stack) + 1 >= StackMax
    BY <1>8, <2>1, <2>2, <2>3, <2>4, <2>5
       DEF PushOR, TypeOK, RoomOnStacks, ioVars
  <2>6. CASE ~ (Len(or_stack) + 1 >= StackMax)
    BY <1>8, <2>1, <2>2, <2>3, <2>4, <2>6
       DEF PushOR, TypeOK, RoomOnStacks, ioVars
  <2> QED BY <2>5, <2>6
<1>9. CASE PopOR
  <2>1. or_stack' \in Seq(Bits) /\ Len(or_stack') = Len(or_stack) - 1
    BY <1>9, StackType DEF PopOR, TypeOK
  <2>2. cr' \in Bits
    BY <1>9 DEF PopOR, Bits
  <2>3. /\ ip' \in 1 .. Len(prog) + 1 /\ pc = "solve" /\ pc' = pc
        /\ UNCHANGED <<prog, mem, inputs, next_state, cr_stack, dt, start, clean, aborted>>
    BY <1>9, InstructionType DEF PopOR, At, ioVars, ghostVars
  <2>4. Len(or_stack') < StackMax /\ Len(or_stack') <= StackMax
    BY <2>1, <2>3, SizeAssumption, LenProperties, SMTT(30) DEF TypeOK, RoomOnStacks
  <2> QED BY <2>1, <2>2, <2>3, <2>4 DEF TypeOK, RoomOnStacks
<1>10. CASE Contact
  <2>1. cr' \in Bits
    BY <1>10 DEF Contact, Bits
  <2> QED BY <1>10, <2>1, InstructionType
       DEF Contact, At, TypeOK, RoomOnStacks, ioVars, ghostVars
<1>11. CASE Coil
  <2>1. mem' \in [Cells -> 0 .. Word - 1]
    <3>1. Arg \in Nat
      BY <1>11, InstructionType DEF Coil, At
    <3>2. /\ mem \in [Cells -> 0 .. Word - 1] /\ cr \in 0 .. Word - 1
          /\ 0 \in 0 .. Word - 1 /\ 1 \in 0 .. Word - 1
      BY BitsAreWords DEF TypeOK, Bits
    <3>3. /\ Put(mem, Arg, cr) \in [Cells -> 0 .. Word - 1]
          /\ Put(mem, Arg, 0) \in [Cells -> 0 .. Word - 1]
          /\ Put(mem, Arg, 1) \in [Cells -> 0 .. Word - 1]
      BY <3>1, <3>2, PutType
    <3> QED BY <1>11, <3>2, <3>3 DEF Coil
  <2> QED BY <1>11, <2>1, InstructionType
       DEF Coil, At, TypeOK, RoomOnStacks, ioVars, ghostVars
<1>12. CASE Timer
  <2> DEFINE pre == Get(Arg + 2)
             acc == IF cr = 1 THEN Accumulated(Get(Arg + 4), pre, dt) ELSE 0
             done == IF cr = 1 /\ acc >= pre THEN 1 ELSE 0
  <2>1. Arg \in Nat /\ Arg + 2 \in Nat /\ Arg + 4 \in Nat
    BY <1>12, InstructionType, SMTT(30) DEF Timer, At
  <2>2. pre \in 0 .. Word - 1 /\ Get(Arg + 4) \in 0 .. Word - 1
    BY <2>1, GetType
  <2>3. acc \in 0 .. Word - 1
    <3>1. dt \in Nat
      BY SizeAssumption DEF TypeOK
    <3>2. Accumulated(Get(Arg + 4), pre, dt) \in 0 .. Word - 1
      BY <2>2, <3>1, AccumulatedType
    <3>3. 0 \in 0 .. Word - 1
      BY BitsAreWords DEF Bits
    <3> HIDE DEF pre
    <3> QED BY <3>2, <3>3
  <2>4. done \in Bits /\ done \in 0 .. Word - 1
    BY BitsAreWords DEF Bits
  <2>5. cr' = done /\ mem' = Put(Put(mem, Arg, done), Arg + 4, acc)
    BY <1>12 DEF Timer
  <2> HIDE DEF pre, acc, done
  <2>6. Put(mem, Arg, done) \in [Cells -> 0 .. Word - 1]
    BY <2>1, <2>4, PutType DEF TypeOK
  <2>7. mem' \in [Cells -> 0 .. Word - 1]
    BY <2>1, <2>3, <2>5, <2>6, PutType
  <2> QED BY <1>12, <2>4, <2>5, <2>7, InstructionType
       DEF Timer, At, TypeOK, RoomOnStacks, ioVars, ghostVars
<1>13. CASE Unknown
  BY <1>13, InstructionType
     DEF Unknown, At, TypeOK, RoomOnStacks, ioVars, ghostVars
<1>14. ASSUME NEW c \in Settable(prog), NEW v \in Bits, SetVar(c, v) PROVE IInv'
  <2>1. c \in Nat
    BY SizeAssumption DEF TypeOK
  <2>2. mem' \in [Cells -> 0 .. Word - 1]
    BY <1>14, <2>1, PutType, BitsAreWords DEF SetVar, TypeOK
  <2> QED BY <1>14, <2>2 DEF SetVar, TypeOK, RoomOnStacks, ioVars, cpuVars
<1>15. ASSUME NEW o \in 0 .. NumOutputs - 1, NEW v \in Bits, SetOutput(o, v) PROVE IInv'
  BY <1>15 DEF SetOutput, TypeOK, RoomOnStacks, cpuVars, ghostVars
<1>16. CASE UNCHANGED vars
  BY <1>16 DEF vars, TypeOK, RoomOnStacks, ioVars, cpuVars, ghostVars
<1> QED
  BY <1>1, <1>2, <1>3, <1>4, <1>5, <1>6, <1>7, <1>8, <1>9, <1>10, <1>11, <1>12,
     <1>13, <1>14, <1>15, <1>16
  DEF Next, LoopTask, Instruction, WebTask

(* The invariant holds in every reachable state. *)
THEOREM Invariance == Spec => []IInv
BY InitIInv, StepIInv, PTL DEF Spec

(* No program, however deep its branches, writes beyond CRSTACK_MAX or     *)
(* ORSTACK_MAX (CPU.cpp:186, 204), runs past its end or stores a value     *)
(* that is wider than its variable.                                        *)
THEOREM TypeCorrect == Spec => []TypeOK
<1>1. IInv => TypeOK  BY DEF IInv
<1> QED BY <1>1, Invariance, PTL

-----------------------------------------------------------------------------
(* Latches.                                                                *)

(* What a latch needs of the layout of the variables, which the board      *)
(* alone decides (BoardConfig.h, and the fixed output offset of            *)
(* Logic.cpp:133): a variable that is only latched is neither an input nor *)
(* the accumulator of a timer.                                             *)
LatchedApart ==
  \A c \in Latched : c >= NumInputs /\ \A t \in Args({"TMR"}) : c # t + 4

(* No latched cell loses a 1 in this step. *)
Kept == \A c \in Latched \cap Cells : mem[c] = 1 => mem'[c] = 1

(* The operand of the instruction that runs is one of the program's. *)
LEMMA ArgOfProgram ==
  ASSUME TypeOK, NEW op, NEW ops, op \in ops, At(op)
  PROVE  Arg \in Args(ops)
<1>1. ip \in 1 .. Len(prog) /\ prog[ip].op \in ops
  BY InstructionType DEF At
<1> QED BY <1>1 DEF Args, Arg

(* A write elsewhere leaves a cell as it was. *)
LEMMA PutElsewhere ==
  ASSUME NEW m \in [Cells -> 0 .. Word - 1], NEW c \in Cells, NEW d \in Nat,
         NEW v \in 0 .. Word - 1, c # d
  PROVE  Put(m, d, v)[c] = m[c]
BY DEF Put

LEMMA StepKept == IInv /\ LatchedApart /\ LoopTask => Kept
<1> SUFFICES ASSUME IInv, LatchedApart, LoopTask,
                    NEW c \in Latched \cap Cells, mem[c] = 1
             PROVE  mem'[c] = 1
  BY DEF Kept
<1> USE DEF IInv
<1>1. CASE UNCHANGED mem
  BY <1>1
<1>2. CASE MapInputs
  <2>1. ~ (c < NumInputs)
    BY SizeAssumption DEF LatchedApart, Cells
  <2> QED BY <1>2, <2>1 DEF MapInputs
<1>3. CASE Coil
  <2>1. Arg \in Nat /\ mem \in [Cells -> 0 .. Word - 1]
    BY <1>3, InstructionType DEF Coil, At, TypeOK
  <2>2. 0 \in 0 .. Word - 1 /\ cr \in 0 .. Word - 1
    BY BitsAreWords DEF TypeOK, Bits
  <2>3. CASE At("OTL")
    <3>1. mem' = mem \/ mem' = Put(mem, Arg, 1)
      BY <1>3, <2>3 DEF Coil, At
    <3>2. CASE mem' = Put(mem, Arg, 1)
      BY <2>1, <3>2 DEF Put
    <3> QED BY <3>1, <3>2
  <2>4. CASE At("OTE") \/ At("OTU")
    <3>1. Arg \in Args({"OTE", "OTU", "TMR"})
      BY <2>4, ArgOfProgram
    <3>2. c # Arg
      BY <3>1 DEF Latched
    <3>3. mem' = mem \/ mem' = Put(mem, Arg, 0) \/ mem' = Put(mem, Arg, cr)
      BY <1>3, <2>4 DEF Coil, At
    <3> QED BY <2>1, <2>2, <3>2, <3>3, PutElsewhere
  <2> QED BY <1>3, <2>3, <2>4 DEF Coil
<1>4. CASE Timer
  <2> DEFINE pre == Get(Arg + 2)
             acc == IF cr = 1 THEN Accumulated(Get(Arg + 4), pre, dt) ELSE 0
             done == IF cr = 1 /\ acc >= pre THEN 1 ELSE 0
  <2>1. mem' = Put(Put(mem, Arg, done), Arg + 4, acc)
    BY <1>4 DEF Timer
  <2> HIDE DEF pre, acc, done
  <2>2. Arg \in Nat /\ Arg + 4 \in Nat
    BY <1>4, InstructionType DEF Timer, At
  <2>3. Arg \in Args({"TMR"}) /\ Arg \in Args({"OTE", "OTU", "TMR"})
    BY <1>4, ArgOfProgram DEF Timer
  <2>4. c # Arg /\ c # Arg + 4
    BY <2>3 DEF Latched, LatchedApart
  <2>5. Put(mem, Arg, done)[c] = mem[c]
    BY <2>4 DEF Put, TypeOK
  <2>6. c \in DOMAIN Put(mem, Arg, done)
    BY DEF Put, TypeOK
  <2> QED BY <2>1, <2>4, <2>5, <2>6 DEF Put
<1> QED
  BY <1>1, <1>2, <1>3, <1>4
  DEF LoopTask, Instruction, IoUpdate, EndOfProgram, MapOutputs, Clear, PushCR,
      PopCR, PushOR, PopOR, Contact, Unknown

(* A latch holds (README.md:93) under every program whose latched          *)
(* variables are apart from the inputs and from the timers: no interleaving*)
(* of the scan with the web task makes the scan clear one.                 *)
THEOREM LatchesHold == Spec /\ []LatchedApart => LatchHolds
<1>1. IInv /\ LatchedApart /\ [Next]_vars
        => [LoopTask => \A c \in Latched \cap Cells :
                          mem[c] = 1 => mem'[c] = 1]_vars
  BY StepKept DEF Kept
<1> QED BY <1>1, Invariance, PTL DEF Spec, LatchHolds

-----------------------------------------------------------------------------
(* The stacks hold what they are asked for.                                *)

\* How many instructions op there are when one more is counted.
LEMMA UsesNext ==
  ASSUME NEW p, NEW op, NEW i \in Nat \ {0}
  PROVE  /\ Uses(p, op, i) \in Nat
         /\ Uses(p, op, i + 1) = IF p[i].op = op THEN Uses(p, op, i) + 1 ELSE Uses(p, op, i)
<1>1. PICK T : T = {j \in 1 .. i - 1 : p[j].op = op}
  OBVIOUS
<1>2. PICK U : U = {j \in 1 .. i + 1 - 1 : p[j].op = op}
  OBVIOUS
<1>3. Uses(p, op, i) = Cardinality(T) /\ Uses(p, op, i + 1) = Cardinality(U)
  BY <1>1, <1>2 DEF Uses
<1>4. IsFiniteSet(T)
  <2>1. T \subseteq 1 .. i - 1 /\ IsFiniteSet(1 .. i - 1)
    BY <1>1, FS_Interval
  <2> QED
    BY <2>1, FS_Subset
<1>5. Cardinality(T) \in Nat
  BY <1>4, FS_CardinalityType
<1>6. CASE p[i].op = op
  <2>1. U = T \cup {i} /\ i \notin T
    BY <1>1, <1>2, <1>6
  <2>2. Cardinality(U) = Cardinality(T) + 1
    BY <1>4, <2>1, FS_AddElement
  <2> QED
    BY <1>3, <1>5, <1>6, <2>2
<1>7. CASE p[i].op # op
  <2>1. U = T
    BY <1>1, <1>2, <1>7
  <2> QED
    BY <1>3, <1>5, <1>7, <2>1
<1> QED
  BY <1>6, <1>7

\* While a program runs the stacks hold what was pushed and not popped.
StacksCount ==
  pc = "solve" =>
    /\ Len(cr_stack) = Uses(prog, "PUSHCR", ip) - Uses(prog, "POPCR", ip)
    /\ Len(or_stack) = Uses(prog, "PUSHOR", ip) - Uses(prog, "POPOR", ip)

\* Nothing is used before the first instruction.
LEMMA NothingUsed == ASSUME NEW p, NEW op PROVE Uses(p, op, 1) = 0
<1>1. {j \in 1 .. 1 - 1 : p[j].op = op} = {}
  OBVIOUS
<1> QED
  BY <1>1, FS_EmptySet DEF Uses

\* An instruction counts for itself and for no other.
LEMMA InstructionCounts ==
  ASSUME IInv, StacksCount, pc = "solve", ip <= Len(prog), prog' = prog, ip' = ip + 1,
         pc' = "solve",
         Len(cr_stack') = IF At("PUSHCR") THEN Len(cr_stack) + 1
                          ELSE IF At("POPCR") THEN Len(cr_stack) - 1 ELSE Len(cr_stack),
         Len(or_stack') = IF At("PUSHOR") THEN Len(or_stack) + 1
                          ELSE IF At("POPOR") THEN Len(or_stack) - 1 ELSE Len(or_stack)
  PROVE  StacksCount'
<1>1. ip \in Nat \ {0} /\ prog[ip].op = prog[ip].op
  BY InstructionType DEF IInv, TypeOK
<1>2. /\ At("PUSHCR") <=> prog[ip].op = "PUSHCR"
      /\ At("POPCR") <=> prog[ip].op = "POPCR"
      /\ At("PUSHOR") <=> prog[ip].op = "PUSHOR"
      /\ At("POPOR") <=> prog[ip].op = "POPOR"
  BY DEF At
<1>3. Len(cr_stack) \in Nat /\ Len(or_stack) \in Nat
  BY LenProperties DEF IInv, TypeOK
<1>4. PICK now : now = [op \in {"PUSHCR", "POPCR", "PUSHOR", "POPOR"} |-> Uses(prog, op, ip)]
  OBVIOUS
<1>5. PICK next : next = [op \in {"PUSHCR", "POPCR", "PUSHOR", "POPOR"} |-> Uses(prog, op, ip + 1)]
  OBVIOUS
<1>6. \A op \in {"PUSHCR", "POPCR", "PUSHOR", "POPOR"} :
        /\ now[op] \in Nat
        /\ next[op] = IF prog[ip].op = op THEN now[op] + 1 ELSE now[op]
  BY <1>1, <1>4, <1>5, UsesNext
<1>7. /\ Len(cr_stack) = now["PUSHCR"] - now["POPCR"]
      /\ Len(or_stack) = now["PUSHOR"] - now["POPOR"]
  BY <1>4 DEF StacksCount
<1>8. Len(cr_stack') = next["PUSHCR"] - next["POPCR"]
  <2>1. PICK u \in Nat, d \in Nat, l \in Nat :
          u = now["PUSHCR"] /\ d = now["POPCR"] /\ l = Len(cr_stack)
    BY <1>3, <1>6
  <2> DEFINE k == Len(cr_stack')
  <2>2. l = u - d
    BY <1>7, <2>1
  <2>3. CASE prog[ip].op = "PUSHCR"
    <3>0. l + 1 = u + 1 - d
      BY <2>2
    <3>1. next["PUSHCR"] = u + 1 /\ next["POPCR"] = d /\ k = l + 1
      BY <1>2, <1>6, <2>1, <2>3
    <3> QED
      BY <3>0, <3>1
  <2>4. CASE prog[ip].op = "POPCR"
    <3>0. l - 1 = u - (d + 1)
      BY <2>2
    <3>1. next["PUSHCR"] = u /\ next["POPCR"] = d + 1 /\ k = l - 1
      BY <1>2, <1>6, <2>1, <2>4
    <3> QED
      BY <3>0, <3>1
  <2>5. CASE prog[ip].op \notin {"PUSHCR", "POPCR"}
    <3>0. l = u - d
      BY <2>2
    <3>1. next["PUSHCR"] = u /\ next["POPCR"] = d /\ k = l
      BY <1>2, <1>6, <2>1, <2>5
    <3> QED
      BY <3>0, <3>1
  <2> QED
    BY <2>3, <2>4, <2>5
<1>9. Len(or_stack') = next["PUSHOR"] - next["POPOR"]
  <2>1. PICK u \in Nat, d \in Nat, l \in Nat :
          u = now["PUSHOR"] /\ d = now["POPOR"] /\ l = Len(or_stack)
    BY <1>3, <1>6
  <2> DEFINE k == Len(or_stack')
  <2>2. l = u - d
    BY <1>7, <2>1
  <2>3. CASE prog[ip].op = "PUSHOR"
    <3>0. l + 1 = u + 1 - d
      BY <2>2
    <3>1. next["PUSHOR"] = u + 1 /\ next["POPOR"] = d /\ k = l + 1
      BY <1>2, <1>6, <2>1, <2>3
    <3> QED
      BY <3>0, <3>1
  <2>4. CASE prog[ip].op = "POPOR"
    <3>0. l - 1 = u - (d + 1)
      BY <2>2
    <3>1. next["PUSHOR"] = u /\ next["POPOR"] = d + 1 /\ k = l - 1
      BY <1>2, <1>6, <2>1, <2>4
    <3> QED
      BY <3>0, <3>1
  <2>5. CASE prog[ip].op \notin {"PUSHOR", "POPOR"}
    <3>0. l = u - d
      BY <2>2
    <3>1. next["PUSHOR"] = u /\ next["POPOR"] = d /\ k = l
      BY <1>2, <1>6, <2>1, <2>5
    <3> QED
      BY <3>0, <3>1
  <2> QED
    BY <2>3, <2>4, <2>5
<1> QED
  BY <1>5, <1>8, <1>9 DEF StacksCount

LEMMA StackSteps ==
  ASSUME IInv, StacksCount, [Next]_vars
  PROVE  StacksCount'
<1>1. CASE MapInputs
  <2>1. pc' = "solve" /\ ip' = 1 /\ Len(cr_stack') = 0 /\ Len(or_stack') = 0
    BY <1>1, EmptySeq DEF MapInputs
  <2> QED
    BY <2>1, NothingUsed DEF StacksCount
<1>2. CASE IoUpdate \/ EndOfProgram \/ MapOutputs
  BY <1>2 DEF IoUpdate, EndOfProgram, MapOutputs, StacksCount
<1>3. CASE Clear \/ Contact \/ Coil \/ Timer \/ Unknown
  <2>1. /\ pc = "solve" /\ ip <= Len(prog) /\ prog' = prog /\ ip' = ip + 1 /\ pc' = "solve"
        /\ cr_stack' = cr_stack /\ or_stack' = or_stack
        /\ prog[ip].op \in {"CLEAR", "XIC", "XIO", "OTE", "OTL", "OTU", "TMR", "NONE"}
    BY <1>3 DEF Clear, Contact, Coil, Timer, Unknown, At
  <2>2. ~At("PUSHCR") /\ ~At("POPCR") /\ ~At("PUSHOR") /\ ~At("POPOR")
    BY <2>1 DEF At
  <2> QED
    BY <2>1, <2>2, InstructionCounts
<1>4. CASE PushCR
  <2>1. /\ pc = "solve" /\ ip <= Len(prog) /\ prog' = prog /\ or_stack' = or_stack
        /\ At("PUSHCR") /\ ~At("POPCR") /\ ~At("PUSHOR") /\ ~At("POPOR")
        /\ (pc' = "out" \/ (ip' = ip + 1 /\ pc' = "solve"))
    BY <1>4 DEF PushCR, At
  <2>2. Len(cr_stack') = Len(cr_stack) + 1
    BY <1>4, StackType DEF PushCR, IInv, TypeOK
  <2>3. CASE pc' = "out"
    BY <2>3 DEF StacksCount
  <2> QED
    BY <2>1, <2>2, <2>3, InstructionCounts
<1>5. CASE PopCR
  <2>1. /\ pc = "solve" /\ ip <= Len(prog) /\ prog' = prog /\ or_stack' = or_stack
        /\ At("POPCR") /\ ~At("PUSHCR") /\ ~At("PUSHOR") /\ ~At("POPOR")
        /\ ip' = ip + 1 /\ pc' = "solve"
    BY <1>5 DEF PopCR, At
  <2>2. Len(cr_stack') = Len(cr_stack) - 1
    BY <1>5, StackType DEF PopCR, IInv, TypeOK
  <2> QED
    BY <2>1, <2>2, InstructionCounts
<1>6. CASE PushOR
  <2>1. /\ pc = "solve" /\ ip <= Len(prog) /\ prog' = prog /\ cr_stack' = cr_stack
        /\ At("PUSHOR") /\ ~At("POPCR") /\ ~At("PUSHCR") /\ ~At("POPOR")
        /\ (pc' = "out" \/ (ip' = ip + 1 /\ pc' = "solve"))
    BY <1>6 DEF PushOR, At
  <2>2. Len(or_stack') = Len(or_stack) + 1
    BY <1>6, StackType DEF PushOR, IInv, TypeOK
  <2>3. CASE pc' = "out"
    BY <2>3 DEF StacksCount
  <2> QED
    BY <2>1, <2>2, <2>3, InstructionCounts
<1>7. CASE PopOR
  <2>1. /\ pc = "solve" /\ ip <= Len(prog) /\ prog' = prog /\ cr_stack' = cr_stack
        /\ At("POPOR") /\ ~At("PUSHCR") /\ ~At("PUSHOR") /\ ~At("POPCR")
        /\ ip' = ip + 1 /\ pc' = "solve"
    BY <1>7 DEF PopOR, At
  <2>2. Len(or_stack') = Len(or_stack) - 1
    BY <1>7, StackType DEF PopOR, IInv, TypeOK
  <2> QED
    BY <2>1, <2>2, InstructionCounts
<1>8. CASE UNCHANGED <<prog, pc, cpuVars>>
  BY <1>8 DEF StacksCount, cpuVars
<1> QED
  BY <1>1, <1>2, <1>3, <1>4, <1>5, <1>6, <1>7, <1>8
  DEF Next, LoopTask, Instruction, WebTask, SetVar, SetOutput, vars

(* No program that is Nested pops an empty stack (CPU.cpp:193 and 210 see  *)
(* no pointer below 0), wherever a scan is cut short by a full stack and   *)
(* whatever web clients write meanwhile.                                   *)
THEOREM NestedPops ==
  ASSUME \A p \in Programs : Nested(p)
  PROVE  Spec => []NoUnderflow
<1>1. Init => StacksCount
  BY DEF Init, StacksCount
<1>2. IInv /\ StacksCount /\ [Next]_vars => StacksCount'
  BY StackSteps
<1>3. IInv /\ StacksCount => NoUnderflow
  <2> SUFFICES ASSUME IInv, StacksCount PROVE NoUnderflow
    OBVIOUS
  <2>1. ASSUME pc = "solve", ip <= Len(prog)
        PROVE  /\ ip \in 1 .. Len(prog) /\ ip \in Nat \ {0} /\ Nested(prog)
               /\ Len(<<>>) = 0
    <3>1. ip \in 1 .. Len(prog) /\ prog \in Programs
      BY <2>1, InstructionType DEF IInv, TypeOK
    <3> QED
      BY <3>1
  <2>2. ASSUME At("POPCR") PROVE cr_stack # <<>>
    <3>1. pc = "solve" /\ ip <= Len(prog) /\ prog[ip].op = "POPCR"
      BY <2>2 DEF At
    <3>2. Uses(prog, "POPCR", ip) < Uses(prog, "PUSHCR", ip)
      BY <2>1, <3>1 DEF Nested
    <3>3. Uses(prog, "POPCR", ip) \in Nat /\ Uses(prog, "PUSHCR", ip) \in Nat
      BY <2>1, <3>1, UsesNext
    <3>4. Len(cr_stack) = Uses(prog, "PUSHCR", ip) - Uses(prog, "POPCR", ip)
      BY <3>1 DEF StacksCount
    <3> QED
      BY <2>1, <3>1, <3>2, <3>3, <3>4
  <2>3. ASSUME At("POPOR") PROVE or_stack # <<>>
    <3>1. pc = "solve" /\ ip <= Len(prog) /\ prog[ip].op = "POPOR"
      BY <2>3 DEF At
    <3>2. Uses(prog, "POPOR", ip) < Uses(prog, "PUSHOR", ip)
      BY <2>1, <3>1 DEF Nested
    <3>3. Uses(prog, "POPOR", ip) \in Nat /\ Uses(prog, "PUSHOR", ip) \in Nat
      BY <2>1, <3>1, UsesNext
    <3>4. Len(or_stack) = Uses(prog, "PUSHOR", ip) - Uses(prog, "POPOR", ip)
      BY <3>1 DEF StacksCount
    <3> QED
      BY <2>1, <3>1, <3>2, <3>3, <3>4
  <2> QED
    BY <2>2, <2>3 DEF NoUnderflow
<1> QED
  BY <1>1, <1>2, <1>3, Invariance, PTL DEF Spec

=============================================================================

------------------------------ MODULE IOPorts -------------------------------
(***************************************************************************)
(* The digital inputs and outputs of IOPorts.cpp and IO.cpp: each port is  *)
(* sampled or driven once per pass of loop(), and announces its value to   *)
(* the web clients, at most once per IO_UPDATE_PERIOD.                     *)
(*                                                                         *)
(* millis() is a counter modulo Wrap (2^32 in the code), and the age of an *)
(* announcement is computed modulo Wrap as the code's unsigned long        *)
(* difference is.  A pass starts at most MaxLag milliseconds after the     *)
(* previous one.                                                           *)
(***************************************************************************)
EXTENDS Naturals

CONSTANTS
  Inputs, Outputs,  \* the ports
  Period,           \* IO_UPDATE_PERIOD
  Wrap,             \* the modulus of millis()
  MaxLag            \* the longest time between two passes of loop()

ASSUME PortsAssumption == Inputs \cap Outputs = {}
ASSUME ClockAssumption ==
  /\ Period \in Nat \ {0} /\ Wrap \in Nat /\ MaxLag \in Nat \ {0}
  /\ MaxLag + Period <= Wrap

VARIABLES
  level,         \* the level at each input pin
  current,       \* millis() at the start of this pass
  state,         \* Input::state and Output::state
  last_update,   \* when each port announced itself last
  state_changed, \* Input::state_changed
  next_state,    \* Output::next_state
  pin,           \* what digitalWrite put on each output pin
  todo,          \* the ports IO::update has not updated in this pass
  told           \* the value each port announced last, or none

Ports == Inputs \cup Outputs
portVars == <<state, last_update, state_changed, next_state, pin>>
vars == <<level, current, portVars, todo, told>>

None == 2

TypeOK ==
  /\ level \in [Inputs -> 0 .. 1] /\ current \in 0 .. Wrap - 1
  /\ state \in [Ports -> 0 .. 1] /\ last_update \in [Ports -> 0 .. Wrap - 1]
  /\ state_changed \in [Inputs -> BOOLEAN]
  /\ next_state \in [Outputs -> 0 .. 1] /\ pin \in [Outputs -> 0 .. 1]
  /\ todo \subseteq Ports
  /\ told \in [Ports -> {0, 1, None}]

\* The Input constructor that init uses leaves state_changed indeterminate.
Init ==
  /\ level \in [Inputs -> 0 .. 1]
  /\ current = 0
  /\ state = [p \in Ports |-> 0] /\ last_update = [p \in Ports |-> 0]
  /\ state_changed \in [Inputs -> BOOLEAN]
  /\ next_state = [o \in Outputs |-> 0] /\ pin = [o \in Outputs |-> 0]
  /\ todo = {}
  /\ told = [p \in Ports |-> None]

-----------------------------------------------------------------------------
(* The loop task.                                                          *)

\* current - last_update in unsigned long arithmetic.
Age(p) == (current + Wrap - last_update[p]) % Wrap

\* Faulty variant of Limited: the difference does not wrap.
LimitedNoWrap(p) == current < last_update[p] + Period

\* The rate limit of both update functions.
Limited(p) == Age(p) < Period

\* publish: a "set" message to every open web socket (MQTT and AWS carry the
\* same value).
Publish(p, v) == told' = [told EXCEPT ![p] = v]

\* Faulty variant of Pass: the counter does not roll over.
PassOn(d) ==
  /\ todo = {} /\ todo' = Ports
  /\ current' = current + d
  /\ UNCHANGED <<level, portVars, told>>

\* loop() reads millis(); d is the time since it last did.
Pass(d) ==
  /\ todo = {}
  /\ current' = (current + d) % Wrap
  /\ todo' = Ports
  /\ UNCHANGED <<level, portVars, told>>

\* Faulty variant of UpdateInput: a change inside the period is forgotten.
UpdateInputForgets(i) ==
  /\ i \in todo /\ todo' = todo \ {i}
  /\ state' = [state EXCEPT ![i] = level[i]]
  /\ IF level[i] # state[i] /\ ~Limited(i)
     THEN /\ last_update' = [last_update EXCEPT ![i] = current]
          /\ Publish(i, level[i])
     ELSE UNCHANGED <<last_update, told>>
  /\ UNCHANGED <<level, current, state_changed, next_state, pin>>

\* Input::update.
UpdateInput(i) ==
  /\ i \in todo /\ todo' = todo \ {i}
  /\ LET changed == state_changed[i] \/ level[i] # state[i]
         due == changed /\ ~Limited(i)
     IN  /\ state' = [state EXCEPT ![i] = level[i]]
         /\ state_changed' = [state_changed EXCEPT ![i] = changed /\ ~due]
         /\ IF due THEN /\ last_update' = [last_update EXCEPT ![i] = current]
                        /\ Publish(i, level[i])
            ELSE UNCHANGED <<last_update, told>>
  /\ UNCHANGED <<level, current, next_state, pin>>

\* Output::update.
UpdateOutput(o) ==
  /\ o \in todo /\ todo' = todo \ {o}
  /\ IF state[o] # next_state[o] /\ ~Limited(o)
     THEN /\ state' = [state EXCEPT ![o] = next_state[o]]
          /\ pin' = [pin EXCEPT ![o] = next_state[o]]
          /\ last_update' = [last_update EXCEPT ![o] = current]
          /\ Publish(o, next_state[o])
     ELSE UNCHANGED <<state, last_update, pin, told>>
  /\ UNCHANGED <<level, current, state_changed, next_state>>

UpdatePort(p) ==
  \/ p \in Inputs /\ UpdateInput(p)
  \/ p \in Outputs /\ UpdateOutput(p)

Loop == (\E d \in 1 .. MaxLag : Pass(d)) \/ \E p \in Ports : UpdatePort(p)

-----------------------------------------------------------------------------
(* The world: pins change; the scan, MQTT, AWS or a web client commands an *)
(* output (Output::set).                                                   *)

LevelChanges(i) ==
  /\ level' = [level EXCEPT ![i] = 1 - @]
  /\ UNCHANGED <<current, portVars, todo, told>>

Set(o, v) ==
  /\ next_state' = [next_state EXCEPT ![o] = v]
  /\ UNCHANGED <<level, current, state, last_update, state_changed, pin, todo, told>>

World ==
  \/ \E i \in Inputs : LevelChanges(i)
  \/ \E o \in Outputs, v \in 0 .. 1 : Set(o, v)

Next == Loop \/ World

Spec == Init /\ [][Next]_vars

\* loop() runs forever.
FairSpec == Spec /\ WF_vars(Loop)

-----------------------------------------------------------------------------
(* Whatever happened to an input before, once its pin keeps a level that   *)
(* is not the one announced last, that level is announced: a change inside *)
(* the rate limit is late, never lost, also when millis() rolls over.      *)
ChangesAreTold ==
  \A i \in Inputs : \A v \in 0 .. 1 :
    <>[](level[i] = v) => <>[](state[i] = v /\ (told[i] = v \/ (v = 0 /\ told[i] = None)))

(* An input that was announced and changed is never silent for good: what  *)
(* was announced last differs from the state only while state_changed      *)
(* remembers that it must still be announced.                              *)
NothingForgotten ==
  \A i \in Inputs : told[i] \notin {state[i], None} => state_changed[i]

(* A command that stays reaches the pin and is announced.                  *)
CommandsArrive ==
  \A o \in Outputs : \A v \in 0 .. 1 :
    <>[](next_state[o] = v) => <>[](pin[o] = v /\ told[o] \in {v, None})

=============================================================================

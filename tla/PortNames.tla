----------------------------- MODULE PortNames ------------------------------
(***************************************************************************)
(* Which output a command drives: by its MQTT topic, by its name in a      *)
(* message of a page, by its number in the ladder's scan (IO.cpp and       *)
(* IOPorts.cpp).  The node publishes its own ports at the same broker it   *)
(* takes commands from, and is subscribed to "iomodules/#", below which    *)
(* its inputs' topics are: what it says comes back to it (NMQTT.cpp).      *)
(* A topic is a name with or without that root; the broker is external:    *)
(* it delivers what matches the subscription, in order, at most Backlog    *)
(* messages behind, and others publish at any topic, unretained.           *)
(***************************************************************************)
EXTENDS Naturals, Sequences

CONSTANTS
  InputNames, OutputNames,   \* the names of inputs[] and outputs[], in their order
  Backlog

VARIABLES
  input_state, output_state,  \* state, of each port
  next_output,                \* next_state of each output
  deliveries,                 \* what the broker has for the node
  commanded                   \* the last command each output was given

namesVars == <<input_state, output_state, next_output, deliveries, commanded>>

Ins == {InputNames[n] : n \in 1 .. Len(InputNames)}
Outs == {OutputNames[n] : n \in 1 .. Len(OutputNames)}
Names == Ins \cup Outs \cup {"other", ""}
Texts == {"0", "1", ""}
Topics == [root : BOOLEAN, name : Names]

NamesTypeOK ==
  /\ input_state \in [Ins -> 0 .. 1]
  /\ output_state \in [Outs -> 0 .. 1] /\ next_output \in [Outs -> 0 .. 1]
  /\ commanded \in [Outs -> 0 .. 1]
  /\ deliveries \in Seq([topic : Topics, payload : Texts, own : BOOLEAN])
  /\ Len(deliveries) <= Backlog

NamesInit ==
  /\ input_state = [i \in Ins |-> 0]
  /\ output_state = [o \in Outs |-> 0] /\ next_output = [o \in Outs |-> 0]
  /\ deliveries = <<>> /\ commanded = [o \in Outs |-> 0]

-----------------------------------------------------------------------------
(* What the ports publish.                                                 *)

Text(v) == IF v = 1 THEN "1" ELSE "0"

\* Input::publish, below the root.
InputMessage(i, v) == [topic |-> [root |-> TRUE, name |-> i], payload |-> Text(v), own |-> TRUE]

\* Faulty variant of OutputMessage: below the root, as Output::update writes it to the log.
OutputMessageRooted(o, v) == InputMessage(o, v)

\* Output::publish, at the bare name.
OutputMessage(o, v) == [topic |-> [root |-> FALSE, name |-> o], payload |-> Text(v), own |-> TRUE]

\* The subscription that NMQTT::update makes.
Matching(messages) ==
  LET kept[n \in 0 .. Len(messages)] ==
        IF n = 0 THEN <<>>
        ELSE IF messages[n].topic.root THEN Append(kept[n - 1], messages[n])
        ELSE kept[n - 1]
  IN  kept[Len(messages)]

Send(messages) ==
  /\ Len(deliveries) + Len(Matching(messages)) <= Backlog
  /\ deliveries' = deliveries \o Matching(messages)

PinChanges(i, v) ==
  /\ v # input_state[i] /\ input_state' = [input_state EXCEPT ![i] = v]
  /\ Send(<<InputMessage(i, v)>>)
  /\ UNCHANGED <<output_state, next_output, commanded>>

DriveOutput(o) ==
  /\ output_state[o] # next_output[o]
  /\ output_state' = [output_state EXCEPT ![o] = next_output[o]]
  /\ Send(<<OutputMessage(o, next_output[o])>>)
  /\ UNCHANGED <<input_state, next_output, commanded>>

\* IO::send_current, in a new session: inputs first.
SendCurrent ==
  /\ Send([n \in 1 .. Len(InputNames) |-> InputMessage(InputNames[n], input_state[InputNames[n]])]
          \o [n \in 1 .. Len(OutputNames) |-> OutputMessage(OutputNames[n], output_state[OutputNames[n]])])
  /\ UNCHANGED <<input_state, output_state, next_output, commanded>>

-----------------------------------------------------------------------------
(* What drives them.                                                       *)

\* payload[0] == '1', of a text that is not empty.
High(text) == IF text = "1" THEN 1 ELSE 0

\* Output::check_msg.
check_msg(o, topic, text) == topic = [root |-> TRUE, name |-> o] /\ text # ""

\* IO::check_message: the first output that takes it.
check_message(topic, text) ==
  LET takes == {n \in 1 .. Len(OutputNames) : check_msg(OutputNames[n], topic, text)}
  IN  IF takes = {} THEN next_output
      ELSE [next_output EXCEPT ![OutputNames[CHOOSE n \in takes : \A k \in takes : n <= k]] = High(text)]

\* What the sender meant: ghost, with no part in the routing.
Meant(name, v) == [o \in Outs |-> IF o = name THEN v ELSE commanded[o]]

\* messageReceived; the node's own messages are no commands.
Delivered ==
  /\ deliveries # <<>> /\ deliveries' = Tail(deliveries)
  /\ LET m == Head(deliveries)
     IN  /\ next_output' = check_message(m.topic, m.payload)
         /\ commanded' = (IF m.own \/ m.payload = "" THEN commanded
                          ELSE Meant(m.topic.name, High(m.payload)))
  /\ UNCHANGED <<input_state, output_state>>

\* IO::set_byte by name, for "set" of a page: every output of that name.
SetByName(name, text) ==
  /\ next_output' = (IF name = "" \/ text = "" THEN next_output
                     ELSE [o \in Outs |-> IF o = name THEN High(text) ELSE next_output[o]])
  /\ commanded' = (IF text = "" THEN commanded ELSE Meant(name, High(text)))
  /\ UNCHANGED <<input_state, output_state, deliveries>>

\* IO::set_output, after a scan; an index counts from 0.
SetByIndex(index, v) ==
  /\ IF index >= Len(OutputNames) THEN UNCHANGED <<next_output, commanded>>
     ELSE /\ next_output' = [next_output EXCEPT ![OutputNames[index + 1]] = v]
          /\ commanded' = Meant(OutputNames[index + 1], v)
  /\ UNCHANGED <<input_state, output_state, deliveries>>

\* Another client of the broker.
OthersPublish(topic, text) ==
  /\ Send(<<[topic |-> topic, payload |-> text, own |-> FALSE]>>)
  /\ UNCHANGED <<input_state, output_state, next_output, commanded>>

NamesNext ==
  \/ \E i \in Ins, v \in 0 .. 1 : PinChanges(i, v)
  \/ \E o \in Outs : DriveOutput(o)
  \/ SendCurrent \/ Delivered
  \/ \E name \in Names, text \in Texts : SetByName(name, text)
  \/ \E index \in 0 .. Len(OutputNames), v \in 0 .. 1 : SetByIndex(index, v)
  \/ \E topic \in Topics, text \in Texts : OthersPublish(topic, text)

NamesSpec == NamesInit /\ [][NamesNext]_namesVars

-----------------------------------------------------------------------------
(* An output goes where the last command that named it sends it, whichever *)
(* way it came; neither a command for another port nor what the node said  *)
(* itself and hears again, late, undoes it.                                *)
CommandsKept == next_output = commanded
=============================================================================

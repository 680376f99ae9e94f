---------------------------- MODULE Board_proofs ----------------------------
(***************************************************************************)
(* Proofs about the parts of the loop that serve the board itself, for     *)
(* every value of their constants: the ports (IOPorts), the network        *)
(* supervisor (Network), the WiFi library under it (WifiStation), the      *)
(* socket of the MQTT session (WifiClient), the deadlines (Hardware) and   *)
(* the names of the ports (PortNames).                                     *)
(***************************************************************************)
EXTENDS MCBoard, Integers, SequenceTheorems, WellFoundedInduction, TLAPS

-----------------------------------------------------------------------------
(* The ports: any number of them, any rate limit and any modulus of        *)
(* millis() that is larger than the limit and a pass together.             *)

(* Types and the memory of what is still to be announced are inductive     *)
(* together: the values told are ports' values.                            *)
IInv == TypeOK /\ NothingForgotten

LEMMA InitIInv == Init => IInv
BY ClockAssumption DEF Init, IInv, TypeOK, NothingForgotten, Ports, None

LEMMA StepIInv == IInv /\ [Next]_vars => IInv'
<1> SUFFICES ASSUME IInv, [Next]_vars PROVE IInv'
  OBVIOUS
<1> USE DEF IInv
<1>1. ASSUME NEW d \in 1 .. MaxLag, Pass(d) PROVE IInv'
  <2>1. Wrap \in Nat /\ Wrap > 0 /\ d \in Nat /\ current + d \in Nat
    BY <1>1, ClockAssumption DEF TypeOK
  <2>2. current' \in 0 .. Wrap - 1
    BY <1>1, <2>1 DEF Pass
  <2> QED BY <1>1, <2>2 DEF Pass, TypeOK, NothingForgotten, portVars, Ports
<1>2. ASSUME NEW i \in Inputs, UpdateInput(i) PROVE IInv'
  <2>1. TypeOK'
    BY <1>2 DEF UpdateInput, TypeOK, Publish, Ports, None
  <2>2. ASSUME NEW j \in Inputs, told'[j] \notin {state'[j], None}
        PROVE  state_changed'[j]
    <3>1. CASE j = i
      BY <1>2, <2>2, <3>1 DEF UpdateInput, TypeOK, NothingForgotten, Publish, Ports
    <3>2. CASE j # i
      BY <1>2, <2>2, <3>2 DEF UpdateInput, TypeOK, NothingForgotten, Publish, Ports
    <3> QED BY <3>1, <3>2
  <2> QED BY <2>1, <2>2 DEF NothingForgotten
<1>3. ASSUME NEW o \in Outputs, UpdateOutput(o) PROVE IInv'
  <2>1. TypeOK'
    BY <1>3 DEF UpdateOutput, TypeOK, Publish, Ports, None
  <2>2. \A i \in Inputs : i # o
    BY PortsAssumption
  <2> QED BY <1>3, <2>1, <2>2
       DEF UpdateOutput, TypeOK, NothingForgotten, Publish, Ports
<1>4. ASSUME NEW i \in Inputs, LevelChanges(i) PROVE IInv'
  BY <1>4 DEF LevelChanges, TypeOK, NothingForgotten, portVars, Ports
<1>5. ASSUME NEW o \in Outputs, NEW v \in 0 .. 1, Set(o, v) PROVE IInv'
  BY <1>5 DEF Set, TypeOK, NothingForgotten, Ports
<1>6. CASE UNCHANGED vars
  BY <1>6 DEF vars, portVars, TypeOK, NothingForgotten, Ports
<1> QED
  BY <1>1, <1>2, <1>3, <1>4, <1>5, <1>6 DEF Next, Loop, World, UpdatePort

(* The invariant holds in every reachable state. *)
THEOREM Invariance == Spec => []IInv
BY InitIInv, StepIInv, PTL DEF Spec

(* Clock, states and announcements keep their types: the age of an         *)
(* announcement is computed from two values of millis().                   *)
THEOREM TypeCorrect == Spec => []TypeOK
<1>1. IInv => TypeOK  BY DEF IInv
<1> QED BY <1>1, Invariance, PTL

(* An announced input whose state differs from what was announced is due   *)
(* for another announcement: the rate limit of Input::update delays a      *)
(* change and never forgets it.                                            *)
THEOREM NothingIsForgotten == Spec => []NothingForgotten
<1>1. IInv => NothingForgotten  BY DEF IInv
<1> QED BY <1>1, Invariance, PTL

-----------------------------------------------------------------------------
(* The network supervisor: every buffer length and every set of events the *)
(* stack may report.                                                       *)

\* The buffer holds events; before init nothing is connected.
QueueHoldsEvents == queue \in Seq(Events)
StartsUnconnected == step = "init" => ~connected

Flags ==
  /\ connected \in BOOLEAN /\ missed \in BOOLEAN
  /\ started \in Types /\ link \in Types

NetInv == QueueHoldsEvents /\ StartsUnconnected /\ Flags /\ SettlesTrue

-----------------------------------------------------------------------------
(* Helpers on the events and the buffer.                                   *)

\* What the switch of process_events makes of the three kinds of events.
LEMMA HandledUp ==
  ASSUME NEW e \in {EthernetUp, WifiUp}, NEW c, NEW t
  PROVE  /\ Handled(e, c, t)[1] = TRUE
         /\ Handled(e, c, t)[2] = IF e = EthernetUp THEN "eth" ELSE "wifi"
BY UpEventsAssumption DEF Handled

LEMMA HandledDown ==
  ASSUME NEW e \in LinkEvents, e \notin {EthernetUp, WifiUp}, NEW c, NEW t
  PROVE  Handled(e, c, t)[1] = FALSE
BY EventsAssumption DEF Handled, LinkEvents

LEMMA HandledNoise ==
  ASSUME NEW e \in Noise, NEW c, NEW t
  PROVE  Handled(e, c, t) = <<c, t>>
BY UpEventsAssumption, NoiseAssumption DEF Handled

LEMMA UpIsLink == {EthernetUp, WifiUp} \subseteq LinkEvents
BY EventsAssumption, UpEventsAssumption DEF LinkEvents

\* An event that joins the buffer truthfully is the last word; noise changes
\* nothing; refusing a link event is marked.
LEMMA EventKeepsTruth ==
  ASSUME NetInv, NEW e \in LinkEvents, Event(e), Truthful(e)'
  PROVE  QueueHoldsEvents' /\ missed' \in BOOLEAN /\ SettlesTrue'
<1>1. CASE Accept(e)
  <2>1. /\ queue' \in Seq(Events) /\ Len(queue') = Len(queue) + 1
        /\ Len(queue) \in Nat /\ queue'[Len(queue) + 1] = e
    BY <1>1 DEF Accept, NetInv, QueueHoldsEvents, LinkEvents
  <2>2. Waiting'
    BY <2>1 DEF Waiting, LastLinkEvent
  <2>3. missed' \in BOOLEAN
    BY <1>1 DEF Event, NetInv, Flags, Accept, Refuse
  <2> QED
    BY <2>1, <2>2, <2>3 DEF QueueHoldsEvents, SettlesTrue
<1>2. CASE ~Accept(e)
  BY <1>2 DEF Event, Refuse, NetInv, QueueHoldsEvents, Flags, SettlesTrue
<1> QED
  BY <1>1, <1>2

LEMMA NoiseKeepsTruth ==
  ASSUME NetInv, NEW e \in Noise, Event(e), UNCHANGED <<link, connected, network_type>>
  PROVE  QueueHoldsEvents' /\ missed' \in BOOLEAN /\ SettlesTrue'
<1>1. CASE Accept(e)
  <2>1. /\ queue' \in Seq(Events) /\ Len(queue') = Len(queue) + 1
        /\ Len(queue) \in Nat /\ queue'[Len(queue) + 1] = e
        /\ \A i \in 1 .. Len(queue) : queue'[i] = queue[i]
    BY <1>1, EventsAssumption DEF Accept, NetInv, QueueHoldsEvents
  <2>2. \A i \in 0 .. Len(queue) : LastLinkEvent(i) => LastLinkEvent(i)'
    BY <2>1 DEF LastLinkEvent
  <2>3. Waiting => Waiting'
    BY <2>1, <2>2 DEF Waiting, Truthful
  <2>4. missed' = missed
    BY <1>1 DEF Event, NetInv, Flags, Accept, Refuse
  <2> QED
    BY <2>1, <2>2, <2>3, <2>4 DEF NetInv, Flags, QueueHoldsEvents, SettlesTrue
<1>2. CASE ~Accept(e)
  BY <1>2 DEF Event, Refuse, NetInv, QueueHoldsEvents, Flags, SettlesTrue, Waiting,
              LastLinkEvent, Truthful, LinkEvents
<1> QED
  BY <1>1, <1>2

-----------------------------------------------------------------------------
(* The steps.                                                              *)

LEMMA NetInvInit == NetInit => NetInv
<1> SUFFICES ASSUME NetInit PROVE NetInv
  OBVIOUS
<1>1. QueueHoldsEvents /\ LastLinkEvent(0)
  BY DEF NetInit, QueueInit, QueueHoldsEvents, LastLinkEvent
<1>2. Flags /\ StartsUnconnected
  BY DEF NetInit, Flags, Types, StartsUnconnected
<1>3. SettlesTrue
  BY <1>1 DEF NetInit, SettlesTrue
<1> QED
  BY <1>1, <1>2, <1>3 DEF NetInv

\* The stack tells the truth about the change it makes.
LEMMA StackKeepsInv == NetInv /\ Stack => NetInv'
<1> SUFFICES ASSUME NetInv, Stack PROVE NetInv'
  OBVIOUS
<1>1. CASE GotIP
  <2> PICK e : e = IF started = "eth" THEN EthernetUp ELSE WifiUp
    OBVIOUS
  <2>1. Event(e) /\ link' = started /\ started # "none" /\ started \in Types
    BY <1>1 DEF GotIP, NetInv, Flags
  <2>2. e \in LinkEvents /\ Truthful(e)'
    BY <2>1, UpIsLink DEF Truthful
  <2>3. QueueHoldsEvents' /\ missed' \in BOOLEAN /\ SettlesTrue'
    BY <2>1, <2>2, EventKeepsTruth
  <2> QED
    BY <1>1, <2>3 DEF GotIP, NetInv, Flags, StartsUnconnected, stateVars
<1>2. ASSUME NEW e \in Events, LinkLost(e) PROVE NetInv'
  <2>1. e \in LinkEvents /\ e \notin {EthernetUp, WifiUp}
    BY <1>2, EventsAssumption, UpEventsAssumption, NoiseAssumption DEF LinkLost, LinkEvents
  <2>2. Truthful(e)' /\ Event(e)
    BY <1>2, <2>1 DEF Truthful, LinkLost
  <2>3. QueueHoldsEvents' /\ missed' \in BOOLEAN /\ SettlesTrue'
    BY <2>1, <2>2, EventKeepsTruth
  <2> QED
    BY <1>2, <2>3 DEF LinkLost, NetInv, Flags, Types, StartsUnconnected, stateVars
<1>3. ASSUME NEW e \in Events, OtherEvent(e) PROVE NetInv'
  <2>1. e \in Noise /\ Event(e) /\ UNCHANGED <<link, connected, network_type>>
    BY <1>3 DEF OtherEvent, stateVars
  <2>2. QueueHoldsEvents' /\ missed' \in BOOLEAN /\ SettlesTrue'
    BY <2>1, NoiseKeepsTruth
  <2> QED
    BY <1>3, <2>2 DEF OtherEvent, NetInv, Flags, StartsUnconnected, stateVars
<1> QED
  BY <1>1, <1>2, <1>3 DEF Stack

\* connect() writes network_type with no event: while nothing is connected this
\* can only concern a link whose event is still to come.
LEMMA ConnectKeepsTruth ==
  ASSUME NetInv, NEW w, Connect(w), ~connected, UNCHANGED connected
  PROVE  QueueHoldsEvents' /\ Flags' /\ SettlesTrue'
<1>1. Chosen(w) \in Types
  BY DEF Chosen, Types
<1>2. CASE Eth \/ Wifi(w)
  <2>1. started' \in Types
    BY <1>1, <1>2 DEF Connect
  <2>2. CASE Chosen(w) = "eth" /\ link # "none"
    <3>1. PICK e \in EthernetDown : Event(e)
      BY <1>2, <2>2 DEF Connect
    <3>2. link' = "none"
      BY <1>2, <2>2 DEF Connect
    <3>3. e \in LinkEvents /\ e \notin {EthernetUp, WifiUp}
      BY EventsAssumption, UpEventsAssumption, NoiseAssumption DEF LinkEvents
    <3>4. Truthful(e)'
      BY <3>2, <3>3 DEF Truthful
    <3> QED
      BY <2>1, <3>1, <3>2, <3>3, <3>4, EventKeepsTruth DEF NetInv, Flags, Types
  <2>3. CASE ~ (Chosen(w) = "eth" /\ link # "none")
    <3>1. UNCHANGED <<queue, link, missed>>
      BY <1>2, <2>3 DEF Connect, qvars
    <3> QED
      BY <2>1, <3>1 DEF NetInv, QueueHoldsEvents, Flags, SettlesTrue, Waiting,
                        LastLinkEvent, Truthful
  <2> QED
    BY <2>2, <2>3
<1>3. CASE ~ (Eth \/ Wifi(w))
  BY <1>3 DEF Connect, qvars, stackVars, NetInv, QueueHoldsEvents, Flags, SettlesTrue,
              Waiting, LastLinkEvent, Truthful
<1> QED
  BY <1>2, <1>3

\* The switch: the last link event to leave the buffer settles both.
LEMMA ProcessKeepsInv == NetInv /\ ProcessEvent => NetInv'
<1> SUFFICES ASSUME NetInv, ProcessEvent PROVE NetInv'
  OBVIOUS
<1> DEFINE e == Head(queue)
           h == Handled(e, connected, network_type)
<1>1. /\ queue # <<>> /\ queue' = Tail(queue)
      /\ connected' = h[1] /\ network_type' = h[2]
      /\ UNCHANGED <<link, started, missed, step>> /\ step = "events"
  BY DEF ProcessEvent, Deliver, stackVars
<1>2. /\ queue \in Seq(Events) /\ Len(queue) \in Nat \ {0}
      /\ e = queue[1] /\ e \in Events
      /\ queue' \in Seq(Events) /\ Len(queue') = Len(queue) - 1
      /\ \A i \in 1 .. Len(queue') : queue'[i] = queue[i + 1]
  BY <1>1 DEF NetInv, QueueHoldsEvents
<1> HIDE DEF e
<1>3. \A i \in 1 .. Len(queue) : LastLinkEvent(i) => LastLinkEvent(i - 1)'
  BY <1>2 DEF LastLinkEvent
<1>4. connected' \in BOOLEAN
  <2>1. CASE e \in Noise
    BY <1>1, <2>1, HandledNoise DEF NetInv, Flags
  <2>2. CASE e \in LinkEvents
    BY <1>1, <2>2, HandledUp, HandledDown
  <2> QED
    BY <1>2, <2>1, <2>2 DEF LinkEvents
<1>5. ASSUME ~missed PROVE SettlesTrue'
  <2>1. CASE Waiting
    <3>1. PICK i \in 1 .. Len(queue) :
            queue[i] \in LinkEvents /\ LastLinkEvent(i) /\ Truthful(queue[i])
      BY <2>1 DEF Waiting
    <3>2. CASE i = 1
      <4>1. LastLinkEvent(0)' /\ e \in LinkEvents /\ Truthful(e)
        BY <1>2, <1>3, <3>1, <3>2
      <4>2. connected' = (link # "none") /\ (link # "none" => network_type' = link)
        <5>1. CASE e \in {EthernetUp, WifiUp}
          BY <1>1, <4>1, <5>1, HandledUp, UpEventsAssumption
             DEF Truthful, NetInv, Flags, Types
        <5>2. CASE e \notin {EthernetUp, WifiUp}
          BY <1>1, <4>1, <5>2, HandledDown DEF Truthful
        <5> QED
          BY <5>1, <5>2
      <4> QED
        BY <1>1, <4>1, <4>2 DEF SettlesTrue
    <3>3. CASE i # 1
      <4>1. /\ i - 1 \in 1 .. Len(queue') /\ queue'[i - 1] = queue[i]
            /\ LastLinkEvent(i - 1)'
        BY <1>2, <1>3, <3>1, <3>3
      <4>2. Waiting'
        BY <1>1, <3>1, <4>1 DEF Waiting, Truthful
      <4> QED
        BY <4>2 DEF SettlesTrue
    <3> QED
      BY <3>2, <3>3
  <2>2. CASE ~Waiting
    <3>1. LastLinkEvent(0) /\ connected = (link # "none")
          /\ (link # "none" => network_type = link)
      BY <1>5, <2>2 DEF NetInv, SettlesTrue
    <3>2. e \in Noise /\ LastLinkEvent(0)'
      BY <1>2, <3>1 DEF LastLinkEvent
    <3>3. connected' = connected /\ network_type' = network_type
      BY <1>1, <3>2, HandledNoise
    <3> QED
      BY <1>1, <3>1, <3>2, <3>3 DEF SettlesTrue
  <2> QED
    BY <2>1, <2>2
<1>6. SettlesTrue'
  BY <1>1, <1>5 DEF SettlesTrue
<1> QED
  BY <1>1, <1>2, <1>4, <1>6
     DEF NetInv, QueueHoldsEvents, StartsUnconnected, Flags

\* The steps that touch neither the buffer, nor the link, nor the two flags.
LEMMA OthersKeepInv ==
  ASSUME NetInv, UNCHANGED <<queue, stackVars, connected, network_type>>,
         step' = "init" => step = "init"
  PROVE  NetInv'
BY DEF NetInv, QueueHoldsEvents, StartsUnconnected, Flags, SettlesTrue, Waiting,
       LastLinkEvent, Truthful, stackVars

LEMMA LoopKeepsInv == NetInv /\ (LoopTask \/ RestOfLoop \/ Expire) => NetInv'
<1> SUFFICES ASSUME NetInv, LoopTask \/ RestOfLoop \/ Expire PROVE NetInv'
  OBVIOUS
<1>1. CASE Initialize
  <2>1. ~connected /\ UNCHANGED connected /\ step' = "events"
    BY <1>1 DEF Initialize, NetInv, StartsUnconnected
  <2>2. Connect(wifi_enabled /\ ~eth_enabled)
    BY <1>1 DEF Initialize
  <2> QED
    BY <2>1, <2>2, ConnectKeepsTruth DEF NetInv, StartsUnconnected
<1>2. CASE ProcessEvent
  BY <1>2, ProcessKeepsInv
<1>3. CASE EventsDone \/ Wait \/ RestOfLoop \/ Expire
  BY <1>3, OthersKeepInv DEF EventsDone, Wait, RestOfLoop, Expire, qvars, stateVars
<1>4. CASE Reconnect
  <2>1. ~connected /\ UNCHANGED connected /\ step' = "rest"
    BY <1>4 DEF Reconnect
  <2>2. Connect(wifi_enabled)
    BY <1>4 DEF Reconnect
  <2> QED
    BY <2>1, <2>2, ConnectKeepsTruth DEF NetInv, StartsUnconnected
<1> QED
  BY <1>1, <1>2, <1>3, <1>4 DEF LoopTask

(* Whatever the length of the buffer and whatever the stack reports, and   *)
(* unless the buffer refused the latest link event (Network.cpp:453), the  *)
(* truth about the interface is known to the loop, or the last link event  *)
(* that waits tells it.                                                    *)
THEOREM TruthSettles == NetSpec => []SettlesTrue
<1>1. NetInv /\ UNCHANGED netVars => NetInv'
  BY OthersKeepInv DEF netVars, qvars, stateVars
<1>2. NetInv /\ [NetNext]_netVars => NetInv'
  BY <1>1, StackKeepsInv, LoopKeepsInv DEF NetNext
<1>3. NetInv => SettlesTrue
  BY DEF NetInv
<1> QED
  BY NetInvInit, <1>2, <1>3, PTL DEF NetSpec

-----------------------------------------------------------------------------
(* The WiFi library and connect_wifi: any number of outages and of waiting *)
(* events.                                                                 *)

StationTypes ==
  /\ esp_wifi_started \in BOOLEAN /\ configured \in BOOLEAN /\ knows \in BOOLEAN
  /\ sta_status \in Statuses
  /\ handler \in {"take", "chain", "stop", "start", "begin", "callbacks"}
  /\ loop \in {"rest", "started", "begin", "connect"}
  /\ waiting \in Nat /\ event \in Happenings \cup {"none"}
  /\ driver \in {"stopped", "idle", "connecting", "associated", "address"}

\* The driver's one event is always the latest, so it says where the driver is.
EventShowsDriver ==
  /\ event = "none" => driver = "stopped" /\ waiting = 0 /\ handler = "take"
  /\ event = "STOP" => driver = "stopped" /\ handler = "start"
  /\ event \in Reasons \cup {"START"} => driver \in {"idle", "connecting"}
  /\ event = "CONNECTED" => driver = "associated"
  /\ event = "GOT_IP" => driver = "address"

\* Only a driver that has the name connects, and only then does the node know.
NameIsThere ==
  driver \in {"connecting", "associated", "address"} \/ knows \/ sta_status = "CONNECTED" => configured

\* The library's flag follows the driver, but between its start and the flag.
FlagFollows ==
  /\ loop # "started" => (esp_wifi_started <=> driver # "stopped")
  /\ loop = "started" => event = "START" /\ (handler = "stop" => ~esp_wifi_started)

\* Something on its way will find that the connection is gone, or connect again.
Pending ==
  \/ event \in Reasons /\ (waiting > 0 \/ handler \in {"chain", "callbacks"})
  \/ handler \in {"stop", "start", "begin"}

KnowsFalsely == knows /\ driver \in {"stopped", "idle"} => Pending

\* A status that is wrong is about to be set; until then nothing connects.
StatusIsCurrent ==
  sta_status = "CONNECTED" =>
    /\ handler \in {"take", "chain", "callbacks"}
    /\ \/ driver = "address"
       \/ /\ driver = "idle" /\ event \in LostBy /\ loop # "connect"
          /\ waiting > 0 \/ handler = "chain"

StationInv ==
  StationTypes /\ EventShowsDriver /\ NameIsThere /\ FlagFollows /\ KnowsFalsely /\ StatusIsCurrent

LEMMA StationStart == StationInit => StationInv
<1> SUFFICES ASSUME StationInit PROVE StationInv
  OBVIOUS
<1>1. StationTypes
  BY DEF StationInit, StationTypes, Statuses
<1>2. EventShowsDriver /\ NameIsThere /\ FlagFollows /\ KnowsFalsely /\ StatusIsCurrent
  BY DEF StationInit, EventShowsDriver, NameIsThere, FlagFollows, KnowsFalsely, StatusIsCurrent,
         Reasons
<1> QED
  BY <1>1, <1>2 DEF StationInv

LEMMA ChainKeepsInv == StationInv /\ Chain => StationInv'
<1> SUFFICES ASSUME StationInv, Chain PROVE StationInv'
  OBVIOUS
<1>1. /\ handler = "chain" /\ sta_status' = StatusAfter(event, sta_status)
      /\ handler' = IF event \in Reasons \ {"AUTH_FAIL", "other"} THEN "stop" ELSE "callbacks"
      /\ UNCHANGED <<esp_wifi_started, loop, waiting, event, driver, configured, knows>>
  BY DEF Chain, Reconnects, queueSta, driverSta
<1>2. /\ event # "none" /\ event # "STOP" /\ event \in Happenings /\ sta_status \in Statuses
      /\ event = "GOT_IP" => driver = "address"
      /\ sta_status = "CONNECTED" => event # "AUTH_EXPIRE"
  BY <1>1, LostByAssumption
  DEF StationInv, StationTypes, EventShowsDriver, StatusIsCurrent, Happenings, Reasons
<1>3. /\ sta_status' \in Statuses
      /\ sta_status' = "CONNECTED" => event = "GOT_IP"
  BY <1>1, <1>2 DEF StatusAfter, Statuses, Happenings, Reasons
<1>4. StationTypes' /\ EventShowsDriver' /\ NameIsThere' /\ FlagFollows'
  BY <1>1, <1>2, <1>3
  DEF StationInv, StationTypes, EventShowsDriver, NameIsThere, FlagFollows, Reasons
<1>5. KnowsFalsely'
  BY <1>1, <1>2 DEF StationInv, KnowsFalsely, Pending, Reasons
<1>6. StatusIsCurrent'
  BY <1>1, <1>2, <1>3 DEF StatusIsCurrent, Reasons
<1> QED
  BY <1>4, <1>5, <1>6 DEF StationInv

LEMMA TaskKeepsInv ==
  StationInv /\ (TakeEvent \/ StopStation \/ StartStation \/ BeginStored \/ Callbacks) => StationInv'
<1> USE DEF StationInv, StationTypes, EventShowsDriver, NameIsThere, FlagFollows, KnowsFalsely,
            Pending, StatusIsCurrent, Happenings, Reasons, queueSta, driverSta, librarySta
<1>1. StationInv /\ TakeEvent => StationInv'
  BY DEF TakeEvent
<1>2. StationInv /\ StopStation => StationInv'
  <2> SUFFICES ASSUME StationInv, StopStation PROVE StationInv'
    OBVIOUS
  <2> USE DEF StopStation, DriverStops, Post, Up
  <2>1. StationTypes'
    <3>1. waiting' \in Nat /\ waiting \in Nat
      OBVIOUS
    <3>2. event' \in Happenings \cup {"none"} /\ driver' \in {"stopped", "idle", "connecting", "associated", "address"}
      OBVIOUS
    <3> QED
      BY <3>1, <3>2
  <2>2. EventShowsDriver'
    OBVIOUS
  <2>3. NameIsThere'
    OBVIOUS
  <2>4. FlagFollows'
    OBVIOUS
  <2>5. KnowsFalsely'
    OBVIOUS
  <2>6. StatusIsCurrent'
    OBVIOUS
  <2> QED
    BY <2>1, <2>2, <2>3, <2>4, <2>5, <2>6
<1>3. StationInv /\ StartStation => StationInv'
  <2> SUFFICES ASSUME StationInv, StartStation PROVE StationInv'
    OBVIOUS
  <2> USE DEF StartStation, DriverStarts, Post
  <2>1. StationTypes'
    <3>1. waiting' \in Nat /\ waiting \in Nat
      OBVIOUS
    <3>2. event' \in Happenings \cup {"none"} /\ driver' \in {"stopped", "idle", "connecting", "associated", "address"}
      OBVIOUS
    <3> QED
      BY <3>1, <3>2
  <2>2. EventShowsDriver'
    OBVIOUS
  <2>3. NameIsThere'
    OBVIOUS
  <2>4. FlagFollows'
    OBVIOUS
  <2>5. KnowsFalsely'
    OBVIOUS
  <2>6. StatusIsCurrent'
    OBVIOUS
  <2> QED
    BY <2>1, <2>2, <2>3, <2>4, <2>5, <2>6
<1>4. StationInv /\ BeginStored => StationInv'
  BY DEF BeginStored, DriverConnects
<1>5. StationInv /\ Callbacks => StationInv'
  <2> SUFFICES ASSUME StationInv, Callbacks PROVE StationInv'
    OBVIOUS
  <2> USE DEF Callbacks
  <2>1. StationTypes'
    OBVIOUS
  <2>2. EventShowsDriver'
    OBVIOUS
  <2>3. NameIsThere'
    OBVIOUS
  <2>4. FlagFollows'
    OBVIOUS
  <2>5. KnowsFalsely'
    OBVIOUS
  <2>6. StatusIsCurrent'
    OBVIOUS
  <2> QED
    BY <2>1, <2>2, <2>3, <2>4, <2>5, <2>6
<1> QED
  BY <1>1, <1>2, <1>3, <1>4, <1>5

LEMMA LoopKeepsStation ==
  StationInv /\ (ConnectWifi \/ LoopRests) => StationInv'
<1> USE DEF StationInv, StationTypes, EventShowsDriver, NameIsThere, FlagFollows, KnowsFalsely,
            Pending, StatusIsCurrent, Happenings, Reasons, queueSta, driverSta, librarySta
<1>1. StationInv /\ SetMode => StationInv'
  BY DEF SetMode, DriverStarts, Post
<1>2. StationInv /\ ModeSet => StationInv'
  BY DEF ModeSet
<1>3. StationInv /\ BeginNamed => StationInv'
  <2> SUFFICES ASSUME StationInv, BeginNamed PROVE StationInv'
    OBVIOUS
  <2> USE DEF BeginNamed, DriverStarts, Post
  <2>1. StationTypes'
    <3>1. waiting' \in Nat /\ waiting \in Nat
      OBVIOUS
    <3>2. event' \in Happenings \cup {"none"} /\ driver' \in {"stopped", "idle", "connecting", "associated", "address"}
      OBVIOUS
    <3> QED
      BY <3>1, <3>2
  <2>2. EventShowsDriver'
    OBVIOUS
  <2>3. NameIsThere'
    OBVIOUS
  <2>4. FlagFollows'
    OBVIOUS
  <2>5. KnowsFalsely'
    OBVIOUS
  <2>6. StatusIsCurrent'
    OBVIOUS
  <2> QED
    BY <2>1, <2>2, <2>3, <2>4, <2>5, <2>6
<1>4. StationInv /\ ConnectNamed => StationInv'
  BY DEF ConnectNamed, DriverConnects
<1>5. StationInv /\ LoopRests => StationInv'
  BY DEF LoopRests, stationVars
<1> QED
  BY <1>1, <1>2, <1>3, <1>4, <1>5 DEF ConnectWifi

LEMMA RadioKeepsInv ==
  StationInv /\ (Answered \/ GivenUp \/ GoesAway \/ ComesBack) => StationInv'
<1> USE DEF StationInv, StationTypes, EventShowsDriver, NameIsThere, FlagFollows, KnowsFalsely,
            Pending, StatusIsCurrent, Happenings, Reasons, queueSta, driverSta, librarySta
<1>1. StationInv /\ Answered => StationInv'
  BY DEF Answered, Tell, Post
<1>2. StationInv /\ GivenUp => StationInv'
  BY LostByAssumption DEF GivenUp, Tell, Post
<1>3. StationInv /\ (GoesAway \/ ComesBack) => StationInv'
  BY DEF GoesAway, ComesBack
<1> QED
  BY <1>1, <1>2, <1>3

(* With no event on the way the status tells the truth and a node that      *)
(* believes to be connected has a driver that connects: however many events *)
(* wait and are taken for others, and however often the access point goes.  *)
THEOREM StatusTellsTruth == StationSpec => []StatusSettles
<1>1. StationInv /\ [StationNext]_stationVars => StationInv'
  <2>1. StationInv /\ UNCHANGED stationVars => StationInv'
    BY DEF stationVars, librarySta, queueSta, driverSta, StationInv, StationTypes, EventShowsDriver,
           NameIsThere, FlagFollows, KnowsFalsely, Pending, StatusIsCurrent
  <2> QED
    BY <2>1, ChainKeepsInv, TaskKeepsInv, LoopKeepsStation, RadioKeepsInv DEF StationNext, EventTask
<1>2. StationInv => StatusSettles
  BY DEF StationInv, KnowsFalsely, Pending, StatusIsCurrent, StatusSettles
<1> QED
  BY <1>1, <1>2, StationStart, PTL DEF StationSpec

-----------------------------------------------------------------------------
(* The socket of the MQTT session (WifiClient): any sizes of the buffer,   *)
(* the calls and the pieces.                                               *)

ReadCalls ==
  [op : {"read"}, at : {"first", "second", "rest"}, len : Nat, left : Nat, failed : BOOLEAN]
WriteCalls == [op : {"write"}, from : Nat, size : Nat, total : Nat, retry : Nat]

\* The bytes from the socket to the callers.
Inward ==
  /\ buffer \in Seq(Nat) /\ pos \in Nat /\ received \in Nat /\ read \in Seq(Nat)
  /\ Sock!Numbered(read)
  /\ pos <= Len(buffer) /\ Len(buffer) <= RxSize
  /\ received = Len(read) + (Len(buffer) - pos)
  /\ \A i \in pos + 1 .. Len(buffer) : buffer[i] = Len(read) + (i - pos)

\* The bytes from the callers to the socket.
Outward ==
  /\ wire \in Seq(Nat) /\ Sock!Numbered(wire) /\ write_told \in Nat

\* What a call has done so far.
Calls ==
  /\ call \in {Sock!Idle} \cup ReadCalls \cup WriteCalls
  /\ read_told \in Nat /\ arrived \in Nat
  /\ call.op = "write" =>
       call.from = write_told /\ call.total <= call.size /\ write_told + call.total = Len(wire)
  /\ call.op # "write" => write_told = Len(wire)
  /\ call.op = "read" /\ call.at = "rest" =>
       call.left <= call.len /\ read_told + (call.len - call.left) = Len(read)
  /\ ~(call.op = "read" /\ call.at = "rest") => read_told = Len(read)

SockInv == Inward /\ Outward /\ Calls

\* What filling the buffer gives: the same bytes, and the next ones behind them.
GoodOutcome(o) ==
  /\ o.buffer \in Seq(Nat) /\ o.pos \in Nat /\ o.n \in Nat /\ o.failed \in BOOLEAN
  /\ o.pos <= Len(o.buffer) /\ Len(o.buffer) <= RxSize
  /\ Len(o.buffer) - o.pos = (Len(buffer) - pos) + o.n
  /\ \A i \in o.pos + 1 .. Len(o.buffer) : o.buffer[i] = Len(read) + (i - o.pos)

\* Joining two sequences, and a run of numbers that goes on in the second.
LEMMA Joined ==
  ASSUME NEW s \in Seq(Nat), NEW t \in Seq(Nat)
  PROVE  /\ s \o t \in Seq(Nat) /\ Len(s \o t) = Len(s) + Len(t)
         /\ Len(s) \in Nat /\ Len(t) \in Nat
         /\ \A i \in 1 .. Len(s) : (s \o t)[i] = s[i]
         /\ \A i \in 1 .. Len(t) : (s \o t)[Len(s) + i] = t[i]
<1>1. Len(s) \in Nat /\ Len(t) \in Nat
  BY LenProperties
<1>2. /\ s \o t \in Seq(Nat) /\ Len(s \o t) = Len(s) + Len(t)
      /\ \A i \in 1 .. Len(s) + Len(t) :
           (s \o t)[i] = IF i <= Len(s) THEN s[i] ELSE t[i - Len(s)]
  BY ConcatProperties
<1>3. \A i \in 1 .. Len(s) : (s \o t)[i] = s[i]
  BY <1>1, <1>2
<1>4. ASSUME NEW i \in 1 .. Len(t) PROVE (s \o t)[Len(s) + i] = t[i]
  <2>1. Len(s) + i \in 1 .. Len(s) + Len(t) /\ ~(Len(s) + i <= Len(s)) /\ (Len(s) + i) - Len(s) = i
    BY <1>1
  <2> QED
    BY <1>2, <2>1
<1> QED
  BY <1>1, <1>2, <1>3, <1>4

LEMMA RunGoesOn ==
  ASSUME NEW s \in Seq(Nat), NEW t \in Seq(Nat), NEW p \in Nat, NEW a \in Nat, p <= Len(s),
         \A i \in p + 1 .. Len(s) : s[i] = a + (i - p),
         \A i \in 1 .. Len(t) : t[i] = a + (Len(s) - p) + i
  PROVE  \A i \in p + 1 .. Len(s \o t) : (s \o t)[i] = a + (i - p)
<1> SUFFICES ASSUME NEW i \in p + 1 .. Len(s \o t) PROVE (s \o t)[i] = a + (i - p)
  OBVIOUS
<1>1. Len(s) \in Nat /\ Len(t) \in Nat /\ Len(s \o t) = Len(s) + Len(t) /\ i \in Nat
  BY Joined
<1>2. CASE i <= Len(s)
  <2>1. i \in p + 1 .. Len(s) /\ i \in 1 .. Len(s)
    BY <1>1, <1>2
  <2>2. (s \o t)[i] = s[i]
    BY <2>1, Joined
  <2> QED
    BY <2>1, <2>2
<1>3. CASE i > Len(s)
  <2>1. PICK j \in 1 .. Len(t) : i = Len(s) + j
    <3>1. i - Len(s) \in 1 .. Len(t) /\ i = Len(s) + (i - Len(s))
      BY <1>1, <1>3
    <3> QED
      BY <3>1
  <2>2. (s \o t)[i] = t[j]
    BY <2>1, Joined
  <2>3. a + (Len(s) - p) + j = a + ((Len(s) + j) - p)
    BY <1>1, <2>1
  <2> QED
    BY <2>1, <2>2, <2>3
<1> QED
  BY <1>1, <1>2, <1>3


LEMMA NumberedRuns ==
  ASSUME NEW s \in Seq(Nat)
  PROVE  Sock!Numbered(s) <=> \A i \in 0 + 1 .. Len(s) : s[i] = 0 + (i - 0)
<1>1. Len(s) \in Nat /\ DOMAIN s = 1 .. Len(s) /\ s \in [1 .. Len(s) -> Nat]
  BY LenProperties
<1>2. ASSUME Sock!Numbered(s) PROVE \A i \in 0 + 1 .. Len(s) : s[i] = 0 + (i - 0)
  BY <1>1, <1>2 DEF Sock!Numbered
<1>3. ASSUME \A i \in 0 + 1 .. Len(s) : s[i] = 0 + (i - 0) PROVE Sock!Numbered(s)
  <2>1. \A i \in 1 .. Len(s) : s[i] = i
    BY <1>1, <1>3
  <2>2. s = [i \in 1 .. Len(s) |-> s[i]]
    BY <1>1
  <2> QED
    BY <2>1, <2>2 DEF Sock!Numbered
<1> QED
  BY <1>2, <1>3

LEMMA NumberedGoesOn ==
  ASSUME NEW s \in Seq(Nat), NEW t \in Seq(Nat), Sock!Numbered(s),
         \A i \in 1 .. Len(t) : t[i] = Len(s) + i
  PROVE  Sock!Numbered(s \o t)
<1>1. Len(s) \in Nat /\ s \o t \in Seq(Nat)
  BY Joined
<1>2. \A i \in 0 + 1 .. Len(s) : s[i] = 0 + (i - 0)
  BY NumberedRuns
<1>3. \A i \in 1 .. Len(t) : t[i] = 0 + (Len(s) - 0) + i
  BY <1>1
<1>4. \A i \in 0 + 1 .. Len(s \o t) : (s \o t)[i] = 0 + (i - 0)
  <2>1. 0 \in Nat /\ 0 <= Len(s)
    BY <1>1
  <2> QED
    BY <1>2, <1>3, <2>1, RunGoesOn
<1> QED
  BY <1>1, <1>4, NumberedRuns

LEMMA Piece ==
  ASSUME NEW n \in Nat, NEW from \in Nat, NEW t, t = [i \in 1 .. n |-> from + i]
  PROVE  t \in Seq(Nat) /\ Len(t) = n /\ \A i \in 1 .. n : t[i] = from + i
<1>1. \A i \in 1 .. n : t[i] = from + i /\ from + i \in Nat
  OBVIOUS
<1>2. t \in [1 .. n -> Nat]
  BY <1>1
<1> QED
  BY <1>1, <1>2

LEMMA SameOutcome ==
  ASSUME Inward
  PROVE  GoodOutcome(Sock!Outcome(buffer, pos, 0, FALSE))
BY DEF Inward, GoodOutcome, Sock!Outcome

LEMMA FillDoes ==
  ASSUME Inward, arrived \in Nat, NEW o \in Sock!FillBuffer
  PROVE  GoodOutcome(o)
<1>1. PICK b, p :
        /\ b = IF pos = Len(buffer) THEN <<>> ELSE buffer
        /\ p = IF pos = Len(buffer) THEN 0 ELSE pos
  OBVIOUS
<1>2. /\ b \in Seq(Nat) /\ p \in Nat /\ p <= Len(b) /\ Len(b) <= RxSize /\ Len(b) \in Nat
      /\ Len(b) - p = Len(buffer) - pos
      /\ \A i \in p + 1 .. Len(b) : b[i] = Len(read) + (i - p)
      /\ Len(read) \in Nat /\ received \in Nat /\ Len(buffer) \in Nat /\ pos \in Nat
      /\ received = Len(read) + (Len(b) - p)
  <2>1. CASE pos = Len(buffer)
    BY <1>1, <2>1, SocketAssumption DEF Inward
  <2>2. CASE ~(pos = Len(buffer))
    BY <1>1, <2>2, SocketAssumption DEF Inward
  <2> QED
    BY <2>1, <2>2
<1>3. o \in Sock!Received(b, p, RxSize - Len(b)) \/ o = Sock!Outcome(b, p, 0, FALSE)
  BY <1>1 DEF Sock!FillBuffer
<1>4. CASE o = Sock!Outcome(b, p, 0, FALSE) \/ o = Sock!Outcome(b, p, 0, TRUE)
  <2>1. PICK f \in BOOLEAN : o = [buffer |-> b, pos |-> p, n |-> 0, failed |-> f]
    BY <1>4 DEF Sock!Outcome
  <2>2. /\ o.buffer = b /\ o.pos = p /\ o.n = 0 /\ o.failed \in BOOLEAN
    BY <2>1
  <2>3. Len(b) - p = (Len(buffer) - pos) + 0
    BY <1>2
  <2> QED
    BY <1>2, <2>2, <2>3 DEF GoodOutcome
<1>5. ASSUME NEW n \in Nat, n <= RxSize - Len(b),
             o = Sock!Outcome(b \o [i \in 1 .. n |-> received + i], p, n, FALSE)
      PROVE  GoodOutcome(o)
  <2>1. PICK more : more = [i \in 1 .. n |-> received + i]
    OBVIOUS
  <2>2. more \in Seq(Nat) /\ Len(more) = n /\ \A i \in 1 .. n : more[i] = received + i
    BY <1>2, <2>1, Piece
  <2>3. /\ o.buffer = b \o more /\ o.pos = p /\ o.n = n /\ o.failed = FALSE
    BY <1>5, <2>1 DEF Sock!Outcome
  <2>4. b \o more \in Seq(Nat) /\ Len(b \o more) = Len(b) + n
    BY <1>2, <2>2, Joined
  <2>5. \A i \in 1 .. Len(more) : more[i] = Len(read) + (Len(b) - p) + i
    BY <1>2, <2>2
  <2>6. \A i \in p + 1 .. Len(b \o more) : (b \o more)[i] = Len(read) + (i - p)
    BY <1>2, <2>2, <2>5, RunGoesOn, SMTT(30)
  <2>7. RxSize \in Nat
    BY SocketAssumption
  <2>8. /\ (Len(b) + n) - p = (Len(buffer) - pos) + n
        /\ p <= Len(b) + n /\ Len(b) + n <= RxSize
    <3>1. PICK l \in Nat, k \in Nat, q \in Nat : l = Len(b) /\ k = Len(buffer) /\ q = pos
      BY <1>2
    <3>2. p \in Nat /\ l - p = k - q /\ p <= l /\ n <= RxSize - l
      BY <1>2, <1>5, <3>1
    <3>3. (l + n) - p = (k - q) + n /\ p <= l + n
      BY <3>2
    <3>4. l + n <= RxSize
      BY <2>7, <3>2
    <3> QED
      BY <3>1, <3>3, <3>4
  <2> QED
    BY <1>2, <2>3, <2>4, <2>6, <2>8 DEF GoodOutcome
<1>6. ASSUME o \in Sock!Received(b, p, RxSize - Len(b)), o # Sock!Outcome(b, p, 0, TRUE)
      PROVE  GoodOutcome(o)
  <2>1. Sock!Waiting \in Int
    BY <1>2 DEF Sock!Waiting
  <2>2. o \in {Sock!Outcome(b \o [i \in 1 .. n |-> received + i], p, n, FALSE) :
                 n \in {m \in 1 .. Sock!Waiting : m <= RxSize - Len(b)}}
    BY <1>6 DEF Sock!Received
  <2>3. PICK n \in {m \in 1 .. Sock!Waiting : m <= RxSize - Len(b)} :
          o = Sock!Outcome(b \o [i \in 1 .. n |-> received + i], p, n, FALSE)
    BY <2>2
  <2>4. n \in Nat /\ n <= RxSize - Len(b)
    BY <2>1, <2>3
  <2> QED
    BY <1>5, <2>3, <2>4
<1> QED
  BY <1>3, <1>4, <1>6

\* Copying unread bytes of an outcome keeps the stream.
LEMMA CopiedKeeps ==
  ASSUME Inward, NEW o, GoodOutcome(o), NEW n \in Nat, n <= Len(o.buffer) - o.pos,
         Sock!Copied(o, n)
  PROVE  Inward' /\ Len(read') = Len(read) + n
<1>1. /\ o.buffer \in Seq(Nat) /\ o.pos \in Nat /\ o.n \in Nat /\ Len(o.buffer) \in Nat
      /\ Len(read) \in Nat /\ read \in Seq(Nat)
      /\ buffer \in Seq(Nat) /\ pos \in Nat /\ received \in Nat
  BY LenProperties DEF GoodOutcome, Inward
<1>2. Len(buffer) \in Nat
  BY <1>1, LenProperties
<1>3. o.pos + n <= Len(o.buffer) /\ o.pos + 1 \in Int /\ o.pos + n \in Int
  BY <1>1, SMTT(30)
<1>4. PICK copy : copy = SubSeq(o.buffer, o.pos + 1, o.pos + n)
  OBVIOUS
<1>5. copy \in Seq(Nat) /\ Len(copy) = n /\ \A i \in 1 .. n : copy[i] = o.buffer[o.pos + i]
  <2>1. \A i \in o.pos + 1 .. o.pos + n : o.buffer[i] \in Nat
    <3> SUFFICES ASSUME NEW i \in o.pos + 1 .. o.pos + n PROVE o.buffer[i] \in Nat
      OBVIOUS
    <3>1. i \in 1 .. Len(o.buffer)
      BY <1>1, <1>3, SMTT(30)
    <3> QED
      BY <1>1, <3>1, ElementOfSeq
  <2>2. /\ copy \in Seq(Nat)
        /\ Len(copy) = IF o.pos + 1 <= o.pos + n THEN (o.pos + n) - (o.pos + 1) + 1 ELSE 0
        /\ \A i \in 1 .. (o.pos + n) - (o.pos + 1) + 1 : copy[i] = o.buffer[(o.pos + 1) + i - 1]
    BY <1>3, <1>4, <2>1, SubSeqProperties, SMTT(30)
  <2>3. PICK q \in Nat : q = o.pos
    BY <1>1
  <2>4. (q + n) - (q + 1) + 1 = n /\ (q + 1 <= q + n \/ n = 0)
    OBVIOUS
  <2>5. \A i \in 1 .. n : (q + 1) + i - 1 = q + i
    OBVIOUS
  <2>6. Len(copy) = n
    BY <2>2, <2>3, <2>4
  <2>7. \A i \in 1 .. n : copy[i] = o.buffer[(q + 1) + i - 1]
    BY <2>2, <2>3, <2>4
  <2> QED
    BY <2>2, <2>3, <2>5, <2>6, <2>7
<1>6. read' = read \o copy /\ buffer' = o.buffer /\ pos' = o.pos + n /\ received' = received + o.n
  BY <1>4 DEF Sock!Copied
<1>7. \A i \in 1 .. n : copy[i] = Len(read) + i
  <2> SUFFICES ASSUME NEW i \in 1 .. n PROVE copy[i] = Len(read) + i
    OBVIOUS
  <2>1. o.pos + i \in o.pos + 1 .. Len(o.buffer) /\ (o.pos + i) - o.pos = i
    <3>1. PICK q \in Nat, l \in Nat : q = o.pos /\ l = Len(o.buffer)
      BY <1>1
    <3>2. q + i \in q + 1 .. l /\ (q + i) - q = i
      BY <1>3, <3>1, SMTT(30)
    <3> QED
      BY <3>1, <3>2
  <2>2. o.buffer[o.pos + i] = Len(read) + ((o.pos + i) - o.pos)
    BY <2>1 DEF GoodOutcome
  <2> QED
    BY <1>5, <2>1, <2>2
<1>8. read' \in Seq(Nat) /\ Len(read') = Len(read) + n
  BY <1>1, <1>5, <1>6, Joined
<1>9. Sock!Numbered(read')
  <2>1. Sock!Numbered(read)
    BY DEF Inward
  <2>2. Sock!Numbered(read \o copy)
    BY <1>1, <1>5, <1>7, <2>1, NumberedGoesOn
  <2> QED
    BY <1>6, <2>2 DEF Sock!Numbered
<1>10. \A i \in pos' + 1 .. Len(buffer') : buffer'[i] = Len(read') + (i - pos')
  <2> SUFFICES ASSUME NEW i \in (o.pos + n) + 1 .. Len(o.buffer)
               PROVE  o.buffer[i] = (Len(read) + n) + (i - (o.pos + n))
    BY <1>6, <1>8
  <2>1. i \in o.pos + 1 .. Len(o.buffer)
    BY <1>1
  <2>2. o.buffer[i] = Len(read) + (i - o.pos)
    BY <2>1 DEF GoodOutcome
  <2>3. Len(read) + (i - o.pos) = (Len(read) + n) + (i - (o.pos + n))
    BY <1>1
  <2> QED
    BY <2>2, <2>3
<1>11. received' = Len(read') + (Len(buffer') - pos')
  <2>1. /\ received = Len(read) + (Len(buffer) - pos)
        /\ Len(o.buffer) - o.pos = (Len(buffer) - pos) + o.n
    BY DEF Inward, GoodOutcome
  <2>2. PICK r \in Nat, l \in Nat, k \in Nat, q \in Nat, m \in Nat, x \in Nat :
          /\ r = Len(read) /\ l = Len(buffer) /\ k = Len(o.buffer)
          /\ q = o.pos /\ m = o.n /\ x = pos
    BY <1>1, <1>2
  <2>3. received = r + (l - x) /\ k - q = (l - x) + m
    BY <2>1, <2>2
  <2>4. received + m = (r + n) + (k - (q + n))
    BY <2>3
  <2> QED
    BY <1>6, <1>8, <2>2, <2>4
<1>12. /\ buffer' \in Seq(Nat) /\ pos' \in Nat /\ received' \in Nat
       /\ pos' <= Len(buffer') /\ Len(buffer') <= RxSize
  <2>1. o.pos + n \in Nat /\ received + o.n \in Nat
    BY <1>1, SMTT(30)
  <2>2. Len(o.buffer) <= RxSize
    BY DEF GoodOutcome
  <2> QED
    BY <1>1, <1>3, <1>6, <2>1, <2>2
<1> QED
  BY <1>8, <1>9, <1>10, <1>11, <1>12 DEF Inward, Sock!Numbered

LEMMA CallKinds ==
  ASSUME Calls
  PROVE  /\ call.op = "read" => call \in ReadCalls
         /\ call.op = "write" => call \in WriteCalls
         /\ Sock!Idle.op = "none"
BY DEF Calls, ReadCalls, WriteCalls, Sock!Idle

LEMMA LengthsAreNat ==
  ASSUME SockInv
  PROVE  /\ Len(read) \in Nat /\ Len(wire) \in Nat /\ Len(buffer) \in Nat /\ pos \in Nat
         /\ read_told \in Nat /\ write_told \in Nat /\ arrived \in Nat
         /\ RxSize \in Nat /\ WriteRetries \in Nat
BY LenProperties, SocketAssumption DEF SockInv, Inward, Outward, Calls

LEMMA SocketStart == Sock!WifiClientInit => SockInv
<1> SUFFICES ASSUME Sock!WifiClientInit PROVE SockInv
  OBVIOUS
<1>1. /\ buffer = <<>> /\ pos = 0 /\ received = 0 /\ read = <<>> /\ read_told = 0
      /\ wire = <<>> /\ write_told = 0 /\ call = Sock!Idle /\ arrived = 0
  BY DEF Sock!WifiClientInit
<1>2. Sock!Numbered(<<>>) /\ <<>> \in Seq(Nat) /\ Len(<<>>) = 0
  BY DEF Sock!Numbered
<1>3. Inward
  BY <1>1, <1>2, SocketAssumption DEF Inward
<1>4. Outward
  BY <1>1, <1>2 DEF Outward
<1>5. Calls
  BY <1>1, <1>2 DEF Calls, Sock!Idle
<1> QED
  BY <1>3, <1>4, <1>5 DEF SockInv

\* A new connection, and the restart, begin anew.
LEMMA AnewKeeps ==
  ASSUME call = Sock!Idle, UNCHANGED call,
         buffer' = <<>> /\ pos' = 0 /\ received' = 0 /\ arrived' = 0,
         read' = <<>> /\ read_told' = 0 /\ wire' = <<>> /\ write_told' = 0
  PROVE  SockInv'
<1>1. Sock!Numbered(<<>>) /\ <<>> \in Seq(Nat) /\ Len(<<>>) = 0
  BY DEF Sock!Numbered
<1>2. Sock!Numbered(read)' /\ Sock!Numbered(wire)'
  BY <1>1 DEF Sock!Numbered
<1>3. Inward'
  BY <1>1, <1>2, SocketAssumption DEF Inward
<1>4. Outward'
  BY <1>1, <1>2 DEF Outward
<1>5. Calls'
  BY <1>1 DEF Calls, Sock!Idle
<1> QED
  BY <1>3, <1>4, <1>5 DEF SockInv

\* What neither copies nor sends keeps both directions.
LEMMA DirectionsKept ==
  ASSUME SockInv
  PROVE  /\ UNCHANGED <<buffer, pos, received, read>> => Inward'
         /\ UNCHANGED <<wire, write_told>> => Outward'
BY DEF SockInv, Inward, Outward, Sock!Numbered

\* The end of a read that has copied n bytes in all.
LEMMA ReadEnds ==
  ASSUME SockInv, NEW o, NEW n \in Nat, Sock!Returned(o, n), Inward',
         Len(read') = read_told + n, UNCHANGED <<wire, write_told, arrived>>,
         call.op = "read"
  PROVE  SockInv'
<1>1. call' = Sock!Idle /\ read_told' = read_told + n
  BY DEF Sock!Returned
<1>2. write_told = Len(wire) /\ arrived \in Nat /\ read_told \in Nat
  BY DEF SockInv, Calls
<1>3. Calls'
  BY <1>1, <1>2 DEF Calls, Sock!Idle
<1> QED
  BY <1>3, DirectionsKept DEF SockInv

\* A read that goes on, with what it has copied so far.
LEMMA ReadGoesOn ==
  ASSUME SockInv, call.op = "read", NEW o, NEW next \in ReadCalls, o.failed \in BOOLEAN,
         Sock!GoesOn(o, next), Inward', UNCHANGED <<wire, write_told, arrived>>,
         next.at = "rest" => next.left <= next.len /\ read_told + (next.len - next.left) = Len(read'),
         next.at # "rest" => read_told = Len(read')
  PROVE  SockInv'
<1>1. call \in ReadCalls
  BY CallKinds DEF SockInv
<1>2. call' = [next EXCEPT !.failed = call.failed \/ o.failed] /\ read_told' = read_told
  BY DEF Sock!GoesOn
<1>3. /\ call' \in ReadCalls /\ call'.op = "read" /\ call'.at = next.at
      /\ call'.len = next.len /\ call'.left = next.left
  BY <1>1, <1>2 DEF ReadCalls
<1>4. write_told = Len(wire) /\ arrived \in Nat /\ read_told \in Nat
  BY DEF SockInv, Calls
<1>5. Calls'
  BY <1>2, <1>3, <1>4 DEF Calls
<1> QED
  BY <1>5, DirectionsKept DEF SockInv

LEMMA ReadFirstKeeps == SockInv /\ Sock!ReadFirst => SockInv'
<1> SUFFICES ASSUME SockInv, Sock!ReadFirst PROVE SockInv'
  OBVIOUS
<1>1. /\ call.op = "read" /\ call.at = "first" /\ UNCHANGED <<wire, write_told, arrived>>
  BY DEF Sock!ReadFirst, Sock!writeVars
<1>2. call \in ReadCalls /\ read_told = Len(read) /\ arrived \in Nat /\ Inward
  BY <1>1, CallKinds DEF SockInv, Calls
<1>3. PICK next : next = [call EXCEPT !.at = "second"]
  OBVIOUS
<1>4. next \in ReadCalls /\ next.at = "second"
  BY <1>2, <1>3 DEF ReadCalls
<1>5. CASE pos < Len(buffer)
  <2>1. PICK o : /\ o = Sock!Outcome(buffer, pos, 0, FALSE) /\ Sock!GoesOn(o, next)
                 /\ UNCHANGED <<buffer, pos, received, read>>
    BY <1>3, <1>5 DEF Sock!ReadFirst, Sock!rxVars
  <2>2. o.failed \in BOOLEAN /\ Inward' /\ Len(read') = Len(read)
    BY <2>1, DirectionsKept DEF Sock!Outcome
  <2> QED
    BY <1>1, <1>2, <1>4, <2>1, <2>2, ReadGoesOn
<1>6. CASE ~(pos < Len(buffer))
  <2>1. PICK o \in Sock!FillBuffer :
          /\ Sock!Copied(o, 0)
          /\ IF o.n = 0 THEN Sock!Returned(o, 0) ELSE Sock!GoesOn(o, next)
    BY <1>3, <1>6 DEF Sock!ReadFirst
  <2>2. GoodOutcome(o)
    BY <1>2, FillDoes
  <2>3. 0 <= Len(o.buffer) - o.pos /\ o.failed \in BOOLEAN
    BY <2>2, LenProperties DEF GoodOutcome
  <2>4. Inward' /\ Len(read') = Len(read) + 0
    BY <1>2, <2>1, <2>2, <2>3, CopiedKeeps
  <2>5. Len(read') = read_told + 0 /\ read_told = Len(read')
    BY <1>2, <2>4, LengthsAreNat
  <2> QED
    BY <1>1, <1>4, <2>1, <2>3, <2>4, <2>5, ReadEnds, ReadGoesOn
<1> QED
  BY <1>5, <1>6

LEMMA ReadSecondKeeps == SockInv /\ Sock!ReadSecond => SockInv'
<1> SUFFICES ASSUME SockInv, Sock!ReadSecond PROVE SockInv'
  OBVIOUS
<1>1. PICK a : a = Len(buffer) - pos
  OBVIOUS
<1>2. PICK there, rest : /\ there = Sock!Outcome(buffer, pos, 0, FALSE)
                       /\ rest = [call EXCEPT !.at = "rest", !.left = call.len - a]
  OBVIOUS
<1>3. /\ call.op = "read" /\ call.at = "second" /\ UNCHANGED <<wire, write_told, arrived>>
      /\ IF call.len <= a
         THEN Sock!Copied(there, call.len) /\ Sock!Returned(there, call.len)
         ELSE IF call.len - a > RxSize - Len(buffer)
              THEN Sock!Copied(there, a) /\ Sock!GoesOn(there, rest)
              ELSE \E o \in Sock!FillBuffer :
                     IF o.n >= call.len - a
                     THEN Sock!Copied(o, call.len) /\ Sock!Returned(o, call.len)
                     ELSE Sock!Copied(o, a) /\ Sock!GoesOn(o, rest)
  BY <1>1, <1>2 DEF Sock!ReadSecond, Sock!Unread, Sock!writeVars
<1>4. call \in ReadCalls /\ read_told = Len(read) /\ arrived \in Nat /\ Inward
  BY <1>3, CallKinds DEF SockInv, Calls
<1>5. call.len \in Nat /\ a \in Nat
  <2>1. call.len \in Nat
    BY <1>4 DEF ReadCalls
  <2>2. a \in Nat
    BY <1>1, <1>4, LengthsAreNat DEF Inward
  <2> QED
    BY <2>1, <2>2
<1>6. GoodOutcome(there) /\ there.failed \in BOOLEAN /\ Len(there.buffer) - there.pos = a
  BY <1>1, <1>2, <1>4, SameOutcome DEF GoodOutcome, Sock!Outcome
<1>7. ~(call.len <= a) => rest \in ReadCalls /\ rest.at = "rest" /\ rest.len = call.len
                          /\ rest.left = call.len - a
  <2> SUFFICES ASSUME ~(call.len <= a)
               PROVE  /\ rest \in ReadCalls /\ rest.at = "rest" /\ rest.len = call.len
                      /\ rest.left = call.len - a
    OBVIOUS
  <2>1. call.len - a \in Nat
    BY <1>5
  <2> QED
    BY <1>2, <1>4, <2>1 DEF ReadCalls
\* Everything was there.
<1>8. ASSUME NEW o, GoodOutcome(o), call.len <= Len(o.buffer) - o.pos,
             Sock!Copied(o, call.len), Sock!Returned(o, call.len)
      PROVE  SockInv'
  <2>1. Inward' /\ Len(read') = Len(read) + call.len
    BY <1>4, <1>5, <1>8, CopiedKeeps
  <2> QED
    BY <1>3, <1>4, <1>5, <1>8, <2>1, ReadEnds
\* The part that was there.
<1>9. ASSUME NEW o, GoodOutcome(o), a <= Len(o.buffer) - o.pos, ~(call.len <= a),
             Sock!Copied(o, a), Sock!GoesOn(o, rest)
      PROVE  SockInv'
  <2>1. Inward' /\ Len(read') = Len(read) + a
    BY <1>4, <1>5, <1>9, CopiedKeeps
  <2>2. rest.left <= rest.len /\ read_told + (rest.len - rest.left) = Len(read')
    <3>1. PICK r \in Nat : r = Len(read) /\ r = read_told
      BY <1>4, LengthsAreNat
    <3>2. call.len - a <= call.len /\ r + (call.len - (call.len - a)) = r + a
      BY <1>5
    <3> QED
      BY <1>7, <1>9, <2>1, <3>1, <3>2
  <2>3. o.failed \in BOOLEAN
    BY <1>9 DEF GoodOutcome
  <2> QED
    BY <1>3, <1>7, <1>9, <2>1, <2>2, <2>3, ReadGoesOn
<1>10. CASE call.len <= a
  BY <1>3, <1>6, <1>8, <1>10
<1>11. CASE ~(call.len <= a) /\ call.len - a > RxSize - Len(buffer)
  BY <1>3, <1>5, <1>6, <1>9, <1>11
<1>12. CASE ~(call.len <= a) /\ ~(call.len - a > RxSize - Len(buffer))
  <2>1. PICK o \in Sock!FillBuffer :
          IF o.n >= call.len - a
          THEN Sock!Copied(o, call.len) /\ Sock!Returned(o, call.len)
          ELSE Sock!Copied(o, a) /\ Sock!GoesOn(o, rest)
    BY <1>3, <1>12
  <2>2. GoodOutcome(o)
    BY <1>4, FillDoes
  <2>3. Len(o.buffer) - o.pos = a + o.n /\ o.n \in Nat
    BY <1>1, <2>2 DEF GoodOutcome
  <2>4. CASE o.n >= call.len - a
    <3>1. call.len <= a + o.n
      BY <1>5, <2>3, <2>4
    <3> QED
      BY <1>8, <2>1, <2>2, <2>3, <2>4, <3>1
  <2>5. CASE ~(o.n >= call.len - a)
    <3>1. a <= a + o.n
      BY <1>5, <2>3
    <3> QED
      BY <1>9, <1>12, <2>1, <2>2, <2>3, <2>5, <3>1
  <2> QED
    BY <2>4, <2>5
<1> QED
  BY <1>10, <1>11, <1>12

LEMMA ReadRestKeeps == SockInv /\ Sock!ReadRest => SockInv'
<1> SUFFICES ASSUME SockInv, Sock!ReadRest PROVE SockInv'
  OBVIOUS
<1>1. /\ call.op = "read" /\ call.at = "rest" /\ UNCHANGED <<wire, write_told, arrived>>
  BY DEF Sock!ReadRest, Sock!writeVars
<1>2. PICK o \in Sock!FillBuffer :
        \E a, n, failed :
          /\ a = Len(o.buffer) - o.pos /\ n = (IF a > call.left THEN call.left ELSE a)
          /\ failed = [o EXCEPT !.failed = o.failed \/ call.failed]
          /\ IF o.n = 0
             THEN Sock!Copied(o, 0) /\ Sock!Returned(failed, call.len - call.left)
             ELSE /\ Sock!Copied(o, n)
                  /\ IF n = call.left THEN Sock!Returned(failed, call.len)
                     ELSE Sock!GoesOn(o, [call EXCEPT !.left = call.left - n])
  BY DEF Sock!ReadRest, Sock!Unread
<1>3. PICK a, n, failed :
        /\ a = Len(o.buffer) - o.pos /\ n = (IF a > call.left THEN call.left ELSE a)
        /\ IF o.n = 0
           THEN Sock!Copied(o, 0) /\ Sock!Returned(failed, call.len - call.left)
           ELSE /\ Sock!Copied(o, n)
                /\ IF n = call.left THEN Sock!Returned(failed, call.len)
                   ELSE Sock!GoesOn(o, [call EXCEPT !.left = call.left - n])
  BY <1>2
<1>4. /\ call \in ReadCalls /\ arrived \in Nat /\ Inward /\ read_told \in Nat
      /\ call.left <= call.len /\ read_told + (call.len - call.left) = Len(read)
  BY <1>1, CallKinds DEF SockInv, Calls
<1>5. call.len \in Nat /\ call.left \in Nat /\ call.len - call.left \in Nat
  <2>1. call.len \in Nat /\ call.left \in Nat
    BY <1>4 DEF ReadCalls
  <2> QED
    BY <1>4, <2>1
<1>6. GoodOutcome(o)
  BY <1>4, FillDoes
<1>7. a \in Nat /\ o.failed \in BOOLEAN
  BY <1>3, <1>6, LenProperties DEF GoodOutcome
<1>8. n \in Nat /\ n <= a /\ n <= call.left
  BY <1>3, <1>5, <1>7
<1>9. CASE o.n = 0
  <2>1. Sock!Copied(o, 0) /\ 0 <= Len(o.buffer) - o.pos
    BY <1>3, <1>7, <1>9
  <2>2. Inward' /\ Len(read') = Len(read) + 0
    BY <1>4, <1>6, <2>1, CopiedKeeps
  <2>3. Len(read') = read_told + (call.len - call.left)
    BY <1>4, <1>5, <2>2
  <2> QED
    BY <1>1, <1>3, <1>5, <1>9, <2>2, <2>3, ReadEnds
<1>10. CASE o.n # 0
  <2>1. Inward' /\ Len(read') = Len(read) + n
    BY <1>3, <1>4, <1>6, <1>8, <1>10, CopiedKeeps
  <2>2. CASE n = call.left
    <3>1. Len(read') = read_told + call.len
      <4>1. PICK r \in Nat : r = Len(read)
        BY LengthsAreNat
      <4>2. r + n = read_told + call.len
        BY <1>4, <1>5, <2>2, <4>1
      <4> QED
        BY <2>1, <4>1, <4>2
    <3> QED
      BY <1>1, <1>3, <1>5, <1>10, <2>1, <2>2, <3>1, ReadEnds
  <2>3. CASE n # call.left
    <3>1. PICK next : next = [call EXCEPT !.left = call.left - n]
      OBVIOUS
    <3>2. /\ next \in ReadCalls /\ next.at = "rest" /\ next.len = call.len
          /\ next.left = call.left - n
      <4>1. call.left - n \in Nat
        BY <1>5, <1>8
      <4> QED
        BY <1>1, <1>4, <3>1, <4>1 DEF ReadCalls
    <3>3. next.left <= next.len /\ read_told + (next.len - next.left) = Len(read')
      <4>1. PICK r \in Nat : r = Len(read)
        BY LengthsAreNat
      <4>2. call.left - n <= call.len /\ read_told + (call.len - (call.left - n)) = r + n
        <5>1. PICK c \in Nat, l \in Nat, t \in Nat : c = call.len /\ l = call.left /\ t = read_told
          BY <1>4, <1>5
        <5>2. t + (c - l) = r /\ n <= l /\ l <= c
          BY <1>4, <1>8, <4>1, <5>1
        <5>3. l - n <= c /\ t + (c - (l - n)) = r + n
          BY <1>8, <5>2
        <5> QED
          BY <5>1, <5>3
      <4> QED
        BY <2>1, <3>2, <4>1, <4>2
    <3> QED
      BY <1>1, <1>3, <1>7, <1>10, <2>1, <2>3, <3>1, <3>2, <3>3, ReadGoesOn
  <2> QED
    BY <2>2, <2>3
<1> QED
  BY <1>9, <1>10

LEMMA ReadCallKeeps ==
  ASSUME SockInv, NEW n \in 1 .. Inbound, Sock!ReadCall(n)
  PROVE  SockInv'
<1>1. /\ call = Sock!Idle /\ UNCHANGED <<buffer, pos, received, read, read_told, wire, write_told, arrived>>
      /\ call' = [op |-> "read", at |-> "first", len |-> n, left |-> n, failed |-> FALSE]
  BY DEF Sock!ReadCall, Sock!rxVars, Sock!readVars, Sock!writeVars
<1>2. n \in Nat
  BY SocketAssumption
<1>3. call' \in ReadCalls /\ call'.op = "read" /\ call'.at = "first"
  BY <1>1, <1>2 DEF ReadCalls
<1>4. read_told = Len(read) /\ write_told = Len(wire) /\ arrived \in Nat /\ read_told \in Nat
  BY <1>1, CallKinds DEF SockInv, Calls
<1>5. Calls'
  BY <1>1, <1>3, <1>4 DEF Calls
<1> QED
  BY <1>1, <1>5, DirectionsKept DEF SockInv

LEMMA WriteCallKeeps ==
  ASSUME SockInv, NEW n \in 1 .. Outbound, Sock!WriteCall(n)
  PROVE  SockInv'
<1>1. /\ call = Sock!Idle /\ UNCHANGED <<buffer, pos, received, read, read_told, wire, write_told, arrived>>
      /\ call' = [op |-> "write", from |-> write_told, size |-> n, total |-> 0, retry |-> WriteRetries]
  BY DEF Sock!WriteCall, Sock!rxVars, Sock!readVars, Sock!writeVars
<1>2. n \in Nat /\ WriteRetries \in Nat
  BY SocketAssumption
<1>3. read_told = Len(read) /\ write_told = Len(wire) /\ arrived \in Nat /\ read_told \in Nat
      /\ write_told \in Nat
  BY <1>1, CallKinds DEF SockInv, Calls, Outward
<1>4. /\ call' \in WriteCalls /\ call'.op = "write" /\ call'.from = write_told
      /\ call'.total = 0 /\ call'.size = n
  BY <1>1, <1>2, <1>3 DEF WriteCalls
<1>5. 0 <= n /\ write_told + 0 = Len(wire)
  BY <1>2, <1>3
<1>6. Calls'
  BY <1>1, <1>3, <1>4, <1>5 DEF Calls
<1> QED
  BY <1>1, <1>6, DirectionsKept DEF SockInv

\* A write that has handed m more bytes to the socket.
LEMMA WriteGoesOn ==
  ASSUME SockInv, call.op = "write", NEW m \in Nat, call.total + m <= call.size,
         NEW r \in Nat, call' = [call EXCEPT !.total = call.total + m, !.retry = r],
         NEW t \in Seq(Nat), Len(t) = m, \A i \in 1 .. m : t[i] = call.from + call.total + i,
         wire' = wire \o t, UNCHANGED <<buffer, pos, received, read, read_told, write_told, arrived>>
  PROVE  SockInv'
<1>1. /\ call \in WriteCalls /\ call.from = write_told /\ write_told + call.total = Len(wire)
      /\ read_told = Len(read) /\ arrived \in Nat /\ read_told \in Nat /\ write_told \in Nat
      /\ wire \in Seq(Nat) /\ Sock!Numbered(wire) /\ Len(wire) \in Nat
  BY CallKinds, LenProperties DEF SockInv, Calls, Outward
<1>2. call.total \in Nat /\ call.size \in Nat /\ call.from \in Nat
  BY <1>1 DEF WriteCalls
<1>3. /\ call' \in WriteCalls /\ call'.op = "write" /\ call'.from = call.from
      /\ call'.total = call.total + m /\ call'.size = call.size
  <2>1. call.total + m \in Nat
    BY <1>2
  <2> QED
    BY <1>1, <2>1 DEF WriteCalls
<1>4. wire' \in Seq(Nat) /\ Len(wire') = Len(wire) + m
  BY <1>1, Joined
<1>5. Sock!Numbered(wire)'
  <2>1. \A i \in 1 .. Len(t) : t[i] = Len(wire) + i
    BY <1>1
  <2>2. Sock!Numbered(wire \o t)
    BY <1>1, <2>1, NumberedGoesOn
  <2> QED
    BY <2>2 DEF Sock!Numbered
<1>6. Outward'
  BY <1>1, <1>4, <1>5 DEF Outward
<1>7. write_told + (call.total + m) = Len(wire) + m
  BY <1>1, <1>2, SMTT(30)
<1>8. Calls'
  BY <1>1, <1>3, <1>4, <1>7 DEF Calls
<1> QED
  BY <1>6, <1>8, DirectionsKept DEF SockInv

LEMMA WriteTryKeeps == SockInv /\ Sock!WriteTry => SockInv'
<1> SUFFICES ASSUME SockInv, Sock!WriteTry PROVE SockInv'
  OBVIOUS
<1>1. /\ call.op = "write" /\ call.retry > 0
      /\ UNCHANGED <<buffer, pos, received, read, read_told, write_told, arrived>>
  BY DEF Sock!WriteTry, Sock!rxVars, Sock!readVars
<1>2. /\ call \in WriteCalls /\ wire \in Seq(Nat) /\ call.total <= call.size
      /\ write_told + call.total = Len(wire) /\ call.from = write_told
  BY <1>1, CallKinds DEF SockInv, Calls, Outward
<1>3. call.total \in Nat /\ call.size \in Nat /\ call.from \in Nat /\ call.retry \in Nat
      /\ call.retry - 1 \in Nat
  <2>1. call.total \in Nat /\ call.size \in Nat /\ call.from \in Nat /\ call.retry \in Nat
    BY <1>2 DEF WriteCalls
  <2> QED
    BY <1>1, <2>1
\* Nothing was sent: the same as a piece of no bytes.
<1>4. ASSUME NEW r \in Nat, call' = [call EXCEPT !.retry = r], UNCHANGED wire PROVE SockInv'
  <2>1. PICK m \in Nat, t \in Seq(Nat) : m = 0 /\ t = <<>>
    BY 0 \in Nat, EmptySeq
  <2>2. call.total + m = call.total /\ call.total + m <= call.size
    BY <1>2, <1>3, <2>1
  <2>3. call' = [call EXCEPT !.total = call.total + m, !.retry = r]
    BY <1>2, <1>4, <2>2 DEF WriteCalls
  <2>4. Len(t) = m /\ wire' = wire \o t /\ \A i \in 1 .. m : t[i] = call.from + call.total + i
    BY <1>2, <1>4, <2>1, ConcatEmptySeq
  <2> QED
    BY <1>1, <2>2, <2>3, <2>4, WriteGoesOn
<1>5. CASE call' = [call EXCEPT !.retry = call.retry - 1] /\ wire' = wire
  BY <1>3, <1>4, <1>5
<1>6. CASE call' = [call EXCEPT !.retry = 0] /\ wire' = wire
  BY <1>4, <1>6
<1>7. ASSUME NEW m \in 1 .. call.size - call.total, Sock!Send(m) PROVE SockInv'
  <2>1. m \in Nat /\ call.total + m <= call.size /\ call.from + call.total \in Nat
    BY <1>3
  <2>2. PICK r : r = IF call.total + m >= call.size THEN 0 ELSE call.retry - 1
    OBVIOUS
  <2>3. r \in Nat
    BY <1>3, <2>2
  <2>4. call' = [call EXCEPT !.total = call.total + m, !.retry = r]
    BY <1>7, <2>2 DEF Sock!Send
  <2>5. PICK t : t = Sock!Piece(call.from + call.total, m)
    OBVIOUS
  <2>6. t \in Seq(Nat) /\ Len(t) = m /\ \A i \in 1 .. m : t[i] = call.from + call.total + i
    BY <2>1, <2>5, Piece DEF Sock!Piece
  <2>7. wire' = wire \o t
    BY <1>7, <2>5 DEF Sock!Send
  <2> QED
    BY <1>1, <2>1, <2>3, <2>4, <2>6, <2>7, WriteGoesOn
<1> QED
  BY <1>5, <1>6, <1>7 DEF Sock!WriteTry

LEMMA WriteReturnsKeeps == SockInv /\ Sock!WriteReturns => SockInv'
<1> SUFFICES ASSUME SockInv, Sock!WriteReturns PROVE SockInv'
  OBVIOUS
<1>1. /\ call.op = "write" /\ write_told' = write_told + call.total /\ call' = Sock!Idle
      /\ UNCHANGED <<buffer, pos, received, read, read_told, wire, arrived>>
  BY DEF Sock!WriteReturns, Sock!rxVars, Sock!readVars
<1>2. /\ write_told + call.total = Len(wire) /\ read_told = Len(read) /\ arrived \in Nat
      /\ read_told \in Nat /\ wire \in Seq(Nat) /\ Sock!Numbered(wire) /\ Len(wire) \in Nat
  BY <1>1, LenProperties DEF SockInv, Calls, Outward
<1>3. Outward'
  BY <1>1, <1>2 DEF Outward, Sock!Numbered
<1>4. Calls'
  BY <1>1, <1>2 DEF Calls, Sock!Idle
<1> QED
  BY <1>1, <1>3, <1>4, DirectionsKept DEF SockInv

\* The test, the stop and the peer leave the bytes and the calls alone.
LEMMA OthersKeep ==
  ASSUME SockInv, arrived' \in Nat, UNCHANGED <<buffer, pos, received, read, read_told>>,
         UNCHANGED <<wire, write_told, call>>
  PROVE  SockInv'
<1>1. Calls'
  BY DEF SockInv, Calls
<1> QED
  BY <1>1, DirectionsKept DEF SockInv

LEMMA ClientKeepsInv == SockInv /\ Sock!ClientNext => SockInv'
<1> SUFFICES ASSUME SockInv, Sock!ClientNext PROVE SockInv'
  OBVIOUS
<1>1. arrived \in Nat /\ arrived + 1 \in Nat
  BY LengthsAreNat
<1>2. CASE Sock!OpenSocket \/ Sock!ReadGone
  BY <1>2, AnewKeeps DEF Sock!OpenSocket, Sock!ReadGone
<1>3. CASE Sock!ReadStep
  BY <1>3, ReadFirstKeeps, ReadSecondKeeps, ReadRestKeeps DEF Sock!ReadStep
<1>4. CASE Sock!WriteStep
  BY <1>4, WriteTryKeeps, WriteReturnsKeeps DEF Sock!WriteStep
<1>5. CASE Sock!Connected \/ Sock!StopCall \/ Sock!Arrives \/ Sock!Lost
  BY <1>1, <1>5, OthersKeep
     DEF Sock!Connected, Sock!StopCall, Sock!Arrives, Sock!Lost, Sock!rxVars, Sock!readVars,
         Sock!writeVars
<1> QED
  BY <1>2, <1>3, <1>4, <1>5, ReadCallKeeps, WriteCallKeeps DEF Sock!ClientNext

LEMMA StreamsFollow == SockInv => Sock!StreamsKept
<1> SUFFICES ASSUME SockInv PROVE Sock!StreamsKept
  OBVIOUS
<1>1. /\ Sock!Numbered(read) /\ Sock!Numbered(wire)
      /\ received = Len(read) + (Len(buffer) - pos) /\ pos <= Len(buffer) /\ Len(buffer) <= RxSize
  BY DEF SockInv, Inward, Outward
<1>2. call = Sock!Idle => read_told = Len(read) /\ write_told = Len(wire)
  BY CallKinds DEF SockInv, Calls
<1> QED
  BY <1>1, <1>2 DEF Sock!StreamsKept, Sock!Unread

-----------------------------------------------------------------------------
(* The deadlines (Hardware): any modulus of the clock and any periods that *)
(* leave room on it.                                                       *)

\* a was n ticks before b, on the clock.
Before(a, n, b) == a = b - n \/ a = b - n + Rollover

TimeTypes ==
  /\ {ticks, now, restart_timeout, last_keepalive} \subseteq 0 .. Rollover - 1
  /\ hw_at \in {"setup", "io", "rest", "watchdog", "second", "restart"}
  /\ late \in 0 .. Slow /\ asked \in Int /\ silent \in Nat

\* The pass's time is as old as the pass.
PassIsLate == hw_at \in {"watchdog", "second", "restart"} => Before(now, late, ticks)

\* As long as the request counts, its deadline is REBOOT_TIMEOUT after it.
DeadlineStands ==
  /\ asked >= -1
  /\ asked = -1 => restart_timeout = 0
  /\ asked \in 0 .. REBOOT_TIMEOUT => Before(ticks, REBOOT_TIMEOUT - asked, restart_timeout)

\* The same for the last keep-alive; the watchdog of a pass is after its start.
SilenceCounts ==
  /\ silent <= KEEPALIVE_PERIOD => Before(last_keepalive, silent, ticks)
  /\ hw_at = "watchdog" => silent >= late \/ silent > KEEPALIVE_PERIOD

AtStart == hw_at = "setup" => last_keepalive = 0 /\ asked = -1

HwInv == TimeTypes /\ PassIsLate /\ DeadlineStands /\ SilenceCounts /\ AtStart

LEMMA Modulo ==
  ASSUME NEW R \in Nat \ {0}, NEW y \in Int
  PROVE  /\ y % R \in 0 .. R - 1
         /\ y \in 0 .. R - 1 => y % R = y
         /\ y \in R .. 2 * R - 1 => y % R = y - R
         /\ -R <= y /\ y < 0 => y % R = y + R
<1>1. y % R \in 0 .. R - 1
  OBVIOUS
<1>2. y \in 0 .. R - 1 => y % R = y
  OBVIOUS
<1>3. y \in R .. 2 * R - 1 => y % R = y - R
  OBVIOUS
<1>4. -R <= y /\ y < 0 => y % R = y + R
  OBVIOUS
<1> QED
  BY <1>1, <1>2, <1>3, <1>4

\* A time some ticks later, and how much one time is behind another.
LEMMA LaterIs ==
  ASSUME NEW t \in 0 .. Rollover - 1, NEW n \in 0 .. Rollover
  PROVE  /\ Hw!Later(t, n) \in 0 .. Rollover - 1
         /\ Hw!Later(t, n) = IF t + n < Rollover THEN t + n ELSE t + n - Rollover
<1>1. Rollover \in Nat \ {0}
  BY TimesAssumption
<1>2. PICK y \in Int : y = t + n
  BY <1>1
<1>3. Hw!Later(t, n) = y % Rollover /\ y % Rollover \in 0 .. Rollover - 1
  BY <1>1, <1>2, Modulo DEF Hw!Later
<1>4. CASE y < Rollover
  <2>1. y \in 0 .. Rollover - 1
    BY <1>1, <1>2, <1>4
  <2>2. y % Rollover = y
    BY <1>1, <2>1, Modulo
  <2> QED
    BY <1>2, <1>3, <1>4, <2>2
<1>5. CASE ~(y < Rollover)
  <2>1. y \in Rollover .. 2 * Rollover - 1
    BY <1>1, <1>2, <1>5
  <2>2. y % Rollover = y - Rollover
    BY <1>1, <2>1, Modulo
  <2> QED
    BY <1>1, <1>2, <1>3, <1>5, <2>2
<1> QED
  BY <1>4, <1>5

LEMMA BehindIs ==
  ASSUME NEW c \in 0 .. Rollover - 1, NEW t \in 0 .. Rollover - 1
  PROVE  (c - t) % Rollover = IF t <= c THEN c - t ELSE c - t + Rollover
<1>1. Rollover \in Nat \ {0}
  BY TimesAssumption
<1>2. PICK y \in Int : y = c - t
  BY <1>1
<1>3. CASE t <= c
  <2>1. y \in 0 .. Rollover - 1
    BY <1>1, <1>2, <1>3
  <2>2. y % Rollover = y
    BY <1>1, <2>1, Modulo
  <2> QED
    BY <1>2, <1>3, <2>2
<1>4. CASE ~(t <= c)
  <2>1. -Rollover <= y /\ y < 0
    BY <1>1, <1>2, <1>4
  <2>2. y % Rollover = y + Rollover
    BY <1>1, <2>1, Modulo
  <2> QED
    BY <1>2, <1>4, <2>2
<1> QED
  BY <1>3, <1>4

LEMMA TimesStart == Hw!HardwareInit => HwInv
<1> SUFFICES ASSUME Hw!HardwareInit PROVE HwInv
  OBVIOUS
<1>1. Rollover \in Nat \ {0} /\ KEEPALIVE_PERIOD \in Nat /\ Slow \in Nat
  BY TimesAssumption
<1>2. /\ ticks = 0 /\ now = 0 /\ hw_at = "setup" /\ restart_timeout = 0 /\ last_keepalive = 0
      /\ late = 0 /\ asked = -1 /\ silent = 0
  BY DEF Hw!HardwareInit, Hw!NotAsked
<1>3. TimeTypes
  BY <1>1, <1>2 DEF TimeTypes
<1>4. PassIsLate /\ DeadlineStands /\ SilenceCounts /\ AtStart
  BY <1>1, <1>2 DEF PassIsLate, DeadlineStands, SilenceCounts, AtStart, Before
<1> QED
  BY <1>3, <1>4 DEF HwInv

LEMMA TickKeepsTimes == HwInv /\ Hw!Tick => HwInv'
<1> SUFFICES ASSUME HwInv, Hw!Tick PROVE HwInv'
  OBVIOUS
<1>1. /\ Rollover \in Nat \ {0} /\ KEEPALIVE_PERIOD \in Nat /\ Slow \in Nat /\ REBOOT_TIMEOUT \in Nat
      /\ KEEPALIVE_PERIOD < Rollover /\ REBOOT_TIMEOUT < Rollover /\ Slow < Rollover
  BY TimesAssumption
<1>2. /\ ticks \in 0 .. Rollover - 1 /\ now \in 0 .. Rollover - 1 /\ late \in 0 .. Slow
      /\ restart_timeout \in 0 .. Rollover - 1 /\ last_keepalive \in 0 .. Rollover - 1
      /\ asked \in Int /\ silent \in Nat /\ asked >= -1
  BY DEF HwInv, TimeTypes, DeadlineStands
<1>3. /\ hw_at # "setup" /\ late < Slow /\ late' = late + 1 /\ ticks' = Hw!Later(ticks, 1)
      /\ asked' = (IF asked = -1 THEN -1 ELSE IF asked > REBOOT_TIMEOUT THEN asked ELSE asked + 1)
      /\ silent' = IF silent > KEEPALIVE_PERIOD THEN silent ELSE silent + 1
      /\ UNCHANGED <<now, hw_at, restart_timeout, last_keepalive>>
  BY DEF Hw!Tick, Hw!NotAsked, Hw!Older, Hw!deadlines
<1>4. /\ ticks' \in 0 .. Rollover - 1
      /\ ticks' = IF ticks + 1 < Rollover THEN ticks + 1 ELSE ticks + 1 - Rollover
  <2>1. 1 \in 0 .. Rollover
    BY <1>1
  <2> QED
    BY <1>2, <1>3, <2>1, LaterIs
<1>5. TimeTypes'
  <2>1. late' \in 0 .. Slow
    BY <1>1, <1>2, <1>3
  <2>2. asked' \in Int
    BY <1>2, <1>3
  <2>3. silent' \in Nat
    BY <1>2, <1>3
  <2> QED
    BY <1>2, <1>3, <1>4, <2>1, <2>2, <2>3 DEF HwInv, TimeTypes
<1>6. PassIsLate'
  <2>1. Before(now, late, ticks) => Before(now, late + 1, ticks')
    BY <1>1, <1>2, <1>3, <1>4 DEF Before
  <2> QED
    BY <1>3, <2>1 DEF HwInv, PassIsLate, Before
<1>7. DeadlineStands'
  <2>1. asked' >= -1 /\ (asked' = -1 => asked = -1)
    BY <1>1, <1>2, <1>3
  <2>2. ASSUME asked' \in 0 .. REBOOT_TIMEOUT
        PROVE  Before(ticks', REBOOT_TIMEOUT - asked', restart_timeout)
    <3>1. asked' = asked + 1 /\ asked \in 0 .. REBOOT_TIMEOUT
      BY <1>1, <1>2, <1>3, <2>2
    <3>2. PICK left \in 0 .. REBOOT_TIMEOUT : left = REBOOT_TIMEOUT - asked
      BY <1>1, <3>1
    <3>3. REBOOT_TIMEOUT - asked' = left - 1 /\ left >= 1
      BY <1>1, <2>2, <3>1, <3>2
    <3>4. Before(ticks, left, restart_timeout)
      BY <3>1, <3>2 DEF HwInv, DeadlineStands
    <3>5. Before(ticks', left - 1, restart_timeout)
      BY <1>1, <1>2, <1>4, <3>3, <3>4 DEF Before
    <3> QED
      BY <3>3, <3>5
  <2> QED
    BY <1>3, <2>1, <2>2 DEF HwInv, DeadlineStands, Before
<1>8. SilenceCounts'
  <2>1. ASSUME silent' <= KEEPALIVE_PERIOD PROVE Before(last_keepalive, silent', ticks')
    <3>1. silent' = silent + 1 /\ silent <= KEEPALIVE_PERIOD
      BY <1>1, <1>2, <1>3, <2>1
    <3>2. Before(last_keepalive, silent, ticks)
      BY <3>1 DEF HwInv, SilenceCounts
    <3> QED
      BY <1>1, <1>2, <1>4, <3>1, <3>2 DEF Before
  <2>2. hw_at = "watchdog" => silent' >= late' \/ silent' > KEEPALIVE_PERIOD
    <3>1. silent >= late \/ silent > KEEPALIVE_PERIOD => silent' >= late' \/ silent' > KEEPALIVE_PERIOD
      BY <1>1, <1>2, <1>3
    <3> QED
      BY <3>1 DEF HwInv, SilenceCounts
  <2> QED
    BY <1>3, <2>1, <2>2 DEF SilenceCounts, Before
<1>9. AtStart'
  BY <1>3 DEF AtStart
<1> QED
  BY <1>5, <1>6, <1>7, <1>8, <1>9 DEF HwInv

LEMMA SetupKeepsTimes == HwInv /\ (Hw!SetupHardware \/ Hw!SetupIo \/ Hw!Restart) => HwInv'
<1> SUFFICES ASSUME HwInv, Hw!SetupHardware \/ Hw!SetupIo \/ Hw!Restart PROVE HwInv'
  OBVIOUS
<1>1. /\ Rollover \in Nat \ {0} /\ KEEPALIVE_PERIOD \in Nat /\ Slow \in Nat /\ REBOOT_TIMEOUT \in Nat
      /\ START_DELAY \in Nat
  BY TimesAssumption
<1>2. CASE Hw!SetupHardware
  <2>1. /\ hw_at = "setup" /\ hw_at' = "io" /\ ticks' = START_DELAY % Rollover /\ silent' = ticks'
        /\ UNCHANGED <<now, restart_timeout, last_keepalive, late, asked>>
    BY <1>2 DEF Hw!SetupHardware
  <2>2. ticks' \in 0 .. Rollover - 1 /\ ticks' \in Nat
    <3>1. START_DELAY % Rollover \in 0 .. Rollover - 1
      BY <1>1, Modulo
    <3> QED
      BY <1>1, <2>1, <3>1
  <2>3. last_keepalive = 0 /\ asked = -1
    BY <2>1 DEF HwInv, AtStart
  <2>4. TimeTypes'
    BY <2>1, <2>2 DEF HwInv, TimeTypes
  <2>5. PassIsLate' /\ AtStart'
    BY <2>1 DEF PassIsLate, AtStart
  <2>6. DeadlineStands'
    BY <2>1, <2>3 DEF HwInv, DeadlineStands
  <2>7. SilenceCounts'
    BY <2>1, <2>2, <2>3 DEF SilenceCounts, Before
  <2> QED
    BY <2>4, <2>5, <2>6, <2>7 DEF HwInv
<1>3. CASE Hw!SetupIo
  <2>1. /\ hw_at' = "rest"
        /\ UNCHANGED <<ticks, now, restart_timeout, last_keepalive, late, asked, silent>>
    BY <1>3 DEF Hw!SetupIo, Hw!deadlines, Hw!ages
  <2> QED
    BY <2>1 DEF HwInv, TimeTypes, PassIsLate, DeadlineStands, SilenceCounts, AtStart, Before
<1>4. CASE Hw!Restart
  <2>1. /\ ticks' = 0 /\ now' = 0 /\ hw_at' = "setup" /\ restart_timeout' = 0 /\ last_keepalive' = 0
        /\ late' = 0 /\ asked' = -1 /\ silent' = 0
    BY <1>4 DEF Hw!Restart, Hw!NotAsked
  <2>2. TimeTypes'
    BY <1>1, <2>1 DEF TimeTypes
  <2>3. PassIsLate' /\ DeadlineStands' /\ SilenceCounts' /\ AtStart'
    BY <1>1, <2>1 DEF PassIsLate, DeadlineStands, SilenceCounts, AtStart, Before
  <2> QED
    BY <2>2, <2>3 DEF HwInv
<1> QED
  BY <1>2, <1>3, <1>4

LEMMA PassKeepsTimes ==
  HwInv /\ (Hw!StartPass \/ Hw!Watchdog \/ Hw!Second \/ Hw!EndPass) => HwInv'
<1> SUFFICES ASSUME HwInv, Hw!StartPass \/ Hw!Watchdog \/ Hw!Second \/ Hw!EndPass PROVE HwInv'
  OBVIOUS
<1>1. /\ Rollover \in Nat \ {0} /\ KEEPALIVE_PERIOD \in Nat /\ Slow \in Nat
  BY TimesAssumption
<1>2. /\ ticks \in 0 .. Rollover - 1 /\ silent \in Nat /\ late \in 0 .. Slow
      /\ UNCHANGED <<ticks, restart_timeout, asked>> /\ DeadlineStands'
  <2>1. UNCHANGED <<ticks, restart_timeout, asked>>
    BY DEF Hw!StartPass, Hw!Watchdog, Hw!Second, Hw!EndPass, Hw!deadlines, Hw!ages
  <2> QED
    BY <2>1 DEF HwInv, TimeTypes, DeadlineStands, Before
<1>3. CASE Hw!StartPass
  <2>1. /\ hw_at' = "watchdog" /\ late' = 0 /\ now' = ticks
        /\ UNCHANGED <<last_keepalive, silent>>
    BY <1>3 DEF Hw!StartPass, Hw!deadlines, Hw!ages
  <2>2. TimeTypes'
    BY <1>1, <1>2, <2>1 DEF HwInv, TimeTypes
  <2>3. PassIsLate' /\ SilenceCounts' /\ AtStart'
    BY <1>1, <1>2, <2>1 DEF HwInv, PassIsLate, SilenceCounts, AtStart, Before
  <2> QED
    BY <1>2, <2>2, <2>3 DEF HwInv
<1>4. CASE Hw!Watchdog
  <2>1. /\ hw_at = "watchdog" /\ hw_at' = "second" /\ UNCHANGED <<now, late>>
        /\ \/ last_keepalive' = ticks /\ silent' = 0
           \/ UNCHANGED <<last_keepalive, silent>>
    BY <1>4 DEF Hw!Watchdog
  <2>2. TimeTypes'
    BY <1>2, <2>1 DEF HwInv, TimeTypes
  <2>3. PassIsLate' /\ AtStart'
    BY <1>2, <2>1 DEF HwInv, PassIsLate, AtStart, Before
  <2>4. SilenceCounts'
    BY <1>1, <1>2, <2>1 DEF HwInv, SilenceCounts, Before
  <2> QED
    BY <1>2, <2>2, <2>3, <2>4 DEF HwInv
<1>5. CASE Hw!Second \/ Hw!EndPass
  <2>1. /\ hw_at' \in {"restart", "rest"} /\ (hw_at' = "restart" => hw_at = "second")
        /\ UNCHANGED <<now, late, last_keepalive, silent>>
    BY <1>5 DEF Hw!Second, Hw!EndPass, Hw!ages
  <2> QED
    BY <1>2, <2>1 DEF HwInv, TimeTypes, PassIsLate, SilenceCounts, AtStart, Before
<1> QED
  BY <1>3, <1>4, <1>5

LEMMA RequestKeepsTimes == HwInv /\ Hw!RequestRestart => HwInv'
<1> SUFFICES ASSUME HwInv, Hw!RequestRestart PROVE HwInv'
  OBVIOUS
<1>1. /\ Rollover \in Nat \ {0} /\ REBOOT_TIMEOUT \in 0 .. Rollover
  BY TimesAssumption
<1>2. /\ restart_timeout' = Hw!Later(ticks, REBOOT_TIMEOUT) /\ asked' = 0 /\ hw_at # "setup"
      /\ UNCHANGED <<ticks, now, hw_at, last_keepalive, late, silent>>
  BY DEF Hw!RequestRestart
<1>3. ticks \in 0 .. Rollover - 1
  BY DEF HwInv, TimeTypes
<1>4. /\ restart_timeout' \in 0 .. Rollover - 1
      /\ restart_timeout' = IF ticks + REBOOT_TIMEOUT < Rollover THEN ticks + REBOOT_TIMEOUT
                            ELSE ticks + REBOOT_TIMEOUT - Rollover
  BY <1>1, <1>2, <1>3, LaterIs
<1>5. TimeTypes'
  BY <1>2, <1>4 DEF HwInv, TimeTypes
<1>6. DeadlineStands'
  BY <1>1, <1>2, <1>3, <1>4 DEF DeadlineStands, Before
<1>7. PassIsLate' /\ SilenceCounts' /\ AtStart'
  BY <1>2 DEF HwInv, PassIsLate, SilenceCounts, AtStart, Before
<1> QED
  BY <1>5, <1>6, <1>7 DEF HwInv

LEMMA HardwareKeepsInv == HwInv /\ Hw!HardwareNext => HwInv'
BY TickKeepsTimes, SetupKeepsTimes, PassKeepsTimes, RequestKeepsTimes
   DEF Hw!HardwareNext, Hw!LoopStep

LEMMA NothingIsEarly == HwInv => Hw!NothingEarly
<1> SUFFICES ASSUME HwInv PROVE Hw!NothingEarly
  OBVIOUS
<1>1. /\ Rollover \in Nat \ {0} /\ KEEPALIVE_PERIOD \in Nat /\ Slow \in Nat /\ REBOOT_TIMEOUT \in Nat
      /\ Rollover \div 2 \in Nat /\ 2 * (Rollover \div 2) <= Rollover
      /\ REBOOT_TIMEOUT + Slow <= Rollover \div 2 /\ KEEPALIVE_PERIOD < Rollover
  BY TimesAssumption
<1>2. /\ ticks \in 0 .. Rollover - 1 /\ now \in 0 .. Rollover - 1 /\ late \in 0 .. Slow
      /\ restart_timeout \in 0 .. Rollover - 1 /\ last_keepalive \in 0 .. Rollover - 1
      /\ asked \in Int /\ silent \in Nat /\ asked >= -1
  BY DEF HwInv, TimeTypes, DeadlineStands
<1>3. ASSUME hw_at = "restart", Hw!check_timeout(restart_timeout, now)
      PROVE  asked >= REBOOT_TIMEOUT
  <2>1. restart_timeout # 0 /\ (now - restart_timeout) % Rollover \in 1 .. Rollover \div 2 - 1
    BY <1>3 DEF Hw!check_timeout
  <2>2. (now - restart_timeout) % Rollover =
          IF restart_timeout <= now THEN now - restart_timeout ELSE now - restart_timeout + Rollover
    BY <1>2, BehindIs
  <2>3. Before(now, late, ticks) /\ asked # -1
    BY <1>3, <2>1 DEF HwInv, PassIsLate, DeadlineStands
  <2> SUFFICES ASSUME asked < REBOOT_TIMEOUT PROVE FALSE
    BY <1>1, <1>2
  <2>4. asked \in 0 .. REBOOT_TIMEOUT
    BY <1>1, <1>2, <2>3
  <2>5. Before(ticks, REBOOT_TIMEOUT - asked, restart_timeout)
    BY <2>4 DEF HwInv, DeadlineStands
  <2>6. PICK gap \in Int : gap = (now - restart_timeout) % Rollover
    BY <1>1, <2>1
  <2> QED
    BY <1>1, <1>2, <2>1, <2>2, <2>3, <2>4, <2>5, <2>6 DEF Before
<1>4. ASSUME hw_at = "watchdog", (now - last_keepalive) % Rollover > KEEPALIVE_PERIOD
      PROVE  silent > KEEPALIVE_PERIOD
  <2>1. (now - last_keepalive) % Rollover =
          IF last_keepalive <= now THEN now - last_keepalive ELSE now - last_keepalive + Rollover
    BY <1>2, BehindIs
  <2> SUFFICES ASSUME silent <= KEEPALIVE_PERIOD PROVE FALSE
    BY <1>1, <1>2
  <2>2. Before(now, late, ticks) /\ Before(last_keepalive, silent, ticks) /\ silent >= late
    BY <1>1, <1>2, <1>4 DEF HwInv, PassIsLate, SilenceCounts
  <2> QED
    BY <1>1, <1>2, <1>4, <2>1, <2>2 DEF Before
<1> QED
  BY <1>3, <1>4 DEF Hw!NothingEarly

-----------------------------------------------------------------------------
(* Which output a command drives (PortNames): any names of the ports.      *)

\* Every set of numbers has a least one: what there is of induction here.
LEMMA Least ==
  ASSUME NEW T, T \subseteq Nat, T # {}
  PROVE  \E m \in T : \A k \in T : m <= k
<1>1. PICK R : R = OpToRel(<, Nat)
  OBVIOUS
<1>2. IsWellFoundedOn(R, Nat)
  BY <1>1, NatLessThanWellFounded
<1>3. PICK m \in T : \A k \in T : ~(<<k, m>> \in R)
  BY <1>2, WFMin
<1>4. \A k \in Nat : k < m => <<k, m>> \in R
  BY <1>1, <1>3 DEF OpToRel
<1>5. ASSUME NEW k \in T PROVE m <= k
  <2>1. k \in Nat /\ m \in Nat /\ ~(k < m)
    BY <1>3, <1>4
  <2> QED
    BY <2>1
<1> QED
  BY <1>5

\* One step of Matching, from what it has kept before.
KeptStep(messages, n, before) ==
  IF messages[n].topic.root THEN Append(before, messages[n]) ELSE before

Keeps(messages, n, kept) ==
  kept = [k \in 0 .. n |-> IF k = 0 THEN <<>> ELSE KeptStep(messages, k, kept[k - 1])]

\* The recursion is defined for every length: there is no shortest one where it is not.
LEMMA KeptExists ==
  ASSUME NEW messages, NEW n \in Nat
  PROVE  \E kept : Keeps(messages, n, kept)
<1> SUFFICES ASSUME ~\E kept : Keeps(messages, n, kept) PROVE FALSE
  OBVIOUS
<1>1. PICK missing : missing = {m \in Nat : ~\E kept : Keeps(messages, m, kept)}
  OBVIOUS
<1>2. n \in missing /\ missing \subseteq Nat
  BY <1>1
<1>3. PICK m \in missing : \A k \in missing : m <= k
  <2>1. missing # {}
    BY <1>2
  <2>2. \E m \in missing : \A k \in missing : m <= k
    BY <1>2, <2>1, Least
  <2> QED
    BY <2>2
<1>4. m \in Nat /\ ~\E kept : Keeps(messages, m, kept)
  BY <1>1
<1>5. CASE m = 0
  <2>1. PICK none : none = [k \in 0 .. 0 |-> <<>>]
    OBVIOUS
  <2>2. none = [k \in 0 .. 0 |-> IF k = 0 THEN <<>> ELSE KeptStep(messages, k, none[k - 1])]
    BY <2>1
  <2> QED
    BY <1>4, <1>5, <2>2 DEF Keeps
<1>6. CASE m # 0
  <2>1. m - 1 \in Nat /\ m - 1 \notin missing
    BY <1>3, <1>4, <1>6
  <2>2. PICK g : Keeps(messages, m - 1, g)
    BY <1>1, <2>1
  <2>3. PICK newest : newest = KeptStep(messages, m, g[m - 1])
    OBVIOUS
  <2>4. PICK f : f = [k \in 0 .. m |-> IF k = m THEN newest ELSE g[k]]
    OBVIOUS
  <2>5. ASSUME NEW k \in 0 .. m
        PROVE  f[k] = IF k = 0 THEN <<>> ELSE KeptStep(messages, k, f[k - 1])
    <3>1. CASE k = m
      <4>1. m - 1 \in 0 .. m /\ m - 1 # m /\ m \in 0 .. m
        BY <1>4, <2>1
      <4>2. f[m] = newest /\ f[m - 1] = g[m - 1]
        BY <2>4, <4>1
      <4> QED
        BY <1>6, <2>3, <3>1, <4>2
    <3>2. CASE k # m
      <4>1. k \in 0 .. m - 1 /\ (k # 0 => k - 1 \in 0 .. m /\ k - 1 # m)
        BY <1>4, <3>2
      <4>2. f[k] = g[k] /\ (k # 0 => f[k - 1] = g[k - 1])
        BY <2>4, <3>2, <4>1
      <4>3. g[k] = IF k = 0 THEN <<>> ELSE KeptStep(messages, k, g[k - 1])
        BY <2>2, <4>1 DEF Keeps
      <4> QED
        BY <4>2, <4>3
    <3> QED
      BY <3>1, <3>2
  <2>6. Keeps(messages, m, f)
    <3>1. f = [k \in 0 .. m |-> f[k]]
      BY <2>4
    <3> QED
      BY <2>5, <3>1 DEF Keeps
  <2> QED
    BY <1>4, <2>6
<1> QED
  BY <1>5, <1>6

\* What is kept is all below the root, and nothing else is new.
LEMMA MatchingIs ==
  ASSUME NEW S, NEW messages \in Seq(S)
  PROVE  Ported!Matching(messages) \in Seq({m \in S : m.topic.root})
<1>1. Len(messages) \in Nat
  BY LenProperties
<1>2. PICK kept : /\ Keeps(messages, Len(messages), kept)
                  /\ Ported!Matching(messages) = kept[Len(messages)]
  <2>1. \E kept : Keeps(messages, Len(messages), kept)
    BY <1>1, KeptExists
  <2> QED
    BY <2>1 DEF Ported!Matching, Keeps, KeptStep
<1>3. PICK Below : Below = {m \in S : m.topic.root}
  OBVIOUS
<1>4. PICK bad : bad = {n \in 0 .. Len(messages) : kept[n] \notin Seq(Below)}
  OBVIOUS
<1>5. bad = {}
  <2> SUFFICES ASSUME bad # {} PROVE FALSE
    OBVIOUS
  <2>1. bad \subseteq Nat
    BY <1>1, <1>4
  <2>2. \E n \in bad : \A k \in bad : n <= k
    BY <2>1, Least
  <2>3. PICK n \in bad : \A k \in bad : n <= k
    BY <2>2
  <2>4. n \in 0 .. Len(messages) /\ kept[n] \notin Seq(Below)
    BY <1>4
  <2>5. kept[n] = IF n = 0 THEN <<>> ELSE KeptStep(messages, n, kept[n - 1])
    BY <1>2, <2>4 DEF Keeps
  <2>6. n # 0
    BY <2>4, <2>5
  <2>7. n - 1 \in 0 .. Len(messages) /\ n - 1 \notin bad /\ n \in 1 .. Len(messages)
    BY <1>1, <2>3, <2>4, <2>6
  <2>8. kept[n - 1] \in Seq(Below)
    BY <1>4, <2>7
  <2>9. messages[n] \in S
    BY <2>7, ElementOfSeq
  <2>10. KeptStep(messages, n, kept[n - 1]) \in Seq(Below)
    BY <1>3, <2>8, <2>9 DEF KeptStep
  <2> QED
    BY <2>4, <2>5, <2>6, <2>10
<1> QED
  BY <1>1, <1>2, <1>3, <1>4, <1>5

-----------------------------------------------------------------------------
\* What comes back to the node of its own is about its inputs.
Messages == [topic : Ported!Topics, payload : Ported!Texts, own : BOOLEAN]
Harmless == {m \in Messages : m.own /\ m.topic.root => m.topic.name \notin Ported!Outs}
Heard == {m \in Harmless : m.topic.root}

NamesInv ==
  /\ next_output = commanded
  /\ next_output \in [Ported!Outs -> 0 .. 1] /\ output_state \in [Ported!Outs -> 0 .. 1]
  /\ deliveries \in Seq(Heard)

LEMMA SentIsHeard ==
  ASSUME NamesInv, NEW messages \in Seq(Harmless), Ported!Send(messages)
  PROVE  deliveries' \in Seq(Heard)
<1>1. Ported!Matching(messages) \in Seq(Heard)
  BY MatchingIs DEF Heard
<1> QED
  BY <1>1, ConcatProperties DEF NamesInv, Ported!Send

LEMMA OneIsSeq == ASSUME NEW S, NEW x \in S PROVE <<x>> \in Seq(S)
OBVIOUS

\* What the node publishes.
LEMMA OwnMessages ==
  ASSUME NEW v
  PROVE  /\ \A i \in Ported!Ins : Ported!InputMessage(i, v) \in Harmless
         /\ \A o \in Ported!Outs : Ported!OutputMessage(o, v) \in Harmless
<1>1. Ported!Text(v) \in Ported!Texts
  BY DEF Ported!Text, Ported!Texts
<1>2. ASSUME NEW i \in Ported!Ins PROVE Ported!InputMessage(i, v) \in Harmless
  <2>1. [root |-> TRUE, name |-> i] \in Ported!Topics /\ i \notin Ported!Outs
    BY <1>2, NamesAssumption DEF Ported!Topics, Ported!Names
  <2> QED
    BY <1>1, <2>1 DEF Ported!InputMessage, Messages, Harmless
<1>3. ASSUME NEW o \in Ported!Outs PROVE Ported!OutputMessage(o, v) \in Harmless
  <2>1. [root |-> FALSE, name |-> o] \in Ported!Topics
    BY <1>3 DEF Ported!Topics, Ported!Names
  <2> QED
    BY <1>1, <2>1 DEF Ported!OutputMessage, Messages, Harmless
<1> QED
  BY <1>2, <1>3

\* Publishing drives nothing.
LEMMA PublishKeeps ==
  ASSUME NamesInv, NEW messages \in Seq(Harmless), Ported!Send(messages),
         UNCHANGED <<next_output, commanded>>, output_state' \in [Ported!Outs -> 0 .. 1]
  PROVE  NamesInv'
BY SentIsHeard DEF NamesInv

LEMMA PinChangesKeeps ==
  ASSUME NamesInv, NEW i \in Ported!Ins, NEW v \in 0 .. 1, Ported!PinChanges(i, v)
  PROVE  NamesInv'
<1>1. <<Ported!InputMessage(i, v)>> \in Seq(Harmless)
  BY OwnMessages, OneIsSeq
<1> QED
  BY <1>1, PublishKeeps DEF Ported!PinChanges, NamesInv

LEMMA DriveOutputKeeps ==
  ASSUME NamesInv, NEW o \in Ported!Outs, Ported!DriveOutput(o)
  PROVE  NamesInv'
<1>1. <<Ported!OutputMessage(o, next_output[o])>> \in Seq(Harmless)
  BY OwnMessages, OneIsSeq
<1>2. output_state' \in [Ported!Outs -> 0 .. 1]
  BY DEF Ported!DriveOutput, NamesInv
<1> QED
  BY <1>1, <1>2, PublishKeeps DEF Ported!DriveOutput

LEMMA SendCurrentKeeps == NamesInv /\ Ported!SendCurrent => NamesInv'
<1> SUFFICES ASSUME NamesInv, Ported!SendCurrent PROVE NamesInv'
  OBVIOUS
<1>1. PICK ins, outs :
        /\ ins = [n \in 1 .. Len(InputNames) |->
                    Ported!InputMessage(InputNames[n], input_state[InputNames[n]])]
        /\ outs = [n \in 1 .. Len(OutputNames) |->
                    Ported!OutputMessage(OutputNames[n], output_state[OutputNames[n]])]
  OBVIOUS
<1>2. Ported!Send(ins \o outs) /\ UNCHANGED <<output_state, next_output, commanded>>
  BY <1>1 DEF Ported!SendCurrent
<1>3. Len(InputNames) \in Nat /\ Len(OutputNames) \in Nat
  BY NamesAssumption
<1>4. ins \in Seq(Harmless)
  <2>1. \A n \in 1 .. Len(InputNames) : ins[n] \in Harmless
    BY <1>1, OwnMessages DEF Ported!Ins
  <2>2. ins \in [1 .. Len(InputNames) -> Harmless]
    BY <1>1, <2>1
  <2> QED
    BY <1>3, <2>2
<1>5. outs \in Seq(Harmless)
  <2>1. \A n \in 1 .. Len(OutputNames) : outs[n] \in Harmless
    BY <1>1, OwnMessages DEF Ported!Outs
  <2>2. outs \in [1 .. Len(OutputNames) -> Harmless]
    BY <1>1, <2>1
  <2> QED
    BY <1>3, <2>2
<1>6. ins \o outs \in Seq(Harmless)
  BY <1>4, <1>5, ConcatProperties
<1> QED
  BY <1>2, <1>6, PublishKeeps DEF NamesInv

LEMMA OthersPublishKeeps ==
  ASSUME NamesInv, NEW topic \in Ported!Topics, NEW text \in Ported!Texts,
         Ported!OthersPublish(topic, text)
  PROVE  NamesInv'
<1>1. [topic |-> topic, payload |-> text, own |-> FALSE] \in Harmless
  BY DEF Messages, Harmless
<1>2. <<[topic |-> topic, payload |-> text, own |-> FALSE]>> \in Seq(Harmless)
  BY <1>1, OneIsSeq
<1> QED
  BY <1>2, PublishKeeps DEF Ported!OthersPublish, NamesInv

\* A command that names an output, or none.
LEMMA MeantIs ==
  ASSUME NamesInv, NEW name, NEW v \in 0 .. 1
  PROVE  /\ Ported!Meant(name, v) \in [Ported!Outs -> 0 .. 1]
         /\ name \in Ported!Outs => Ported!Meant(name, v) = [next_output EXCEPT ![name] = v]
         /\ name \notin Ported!Outs => Ported!Meant(name, v) = next_output
BY DEF NamesInv, Ported!Meant

LEMMA HighIsBit == \A text : Ported!High(text) \in 0 .. 1
BY DEF Ported!High

LEMMA DeliveredKeeps == NamesInv /\ Ported!Delivered => NamesInv'
<1> SUFFICES ASSUME NamesInv, Ported!Delivered PROVE NamesInv'
  OBVIOUS
<1>1. PICK m : /\ m = Head(deliveries)
               /\ next_output' = Ported!check_message(m.topic, m.payload)
               /\ commanded' = IF m.own \/ m.payload = "" THEN commanded
                               ELSE Ported!Meant(m.topic.name, Ported!High(m.payload))
  BY DEF Ported!Delivered
<1>2. deliveries # <<>> /\ deliveries' = Tail(deliveries) /\ UNCHANGED output_state
  BY DEF Ported!Delivered
<1>3. m \in Heard /\ deliveries' \in Seq(Heard)
  BY <1>1, <1>2, HeadTailProperties DEF NamesInv
<1>4. m.topic.root /\ m.topic \in Ported!Topics /\ (m.own => m.topic.name \notin Ported!Outs)
  BY <1>3 DEF Heard, Harmless, Messages
<1>5. m.topic = [root |-> TRUE, name |-> m.topic.name]
  BY <1>4 DEF Ported!Topics
<1>6. PICK takes : takes = {n \in 1 .. Len(OutputNames) :
                              Ported!check_msg(OutputNames[n], m.topic, m.payload)}
  OBVIOUS
<1>7. next_output' =
        IF takes = {} THEN next_output
        ELSE [next_output EXCEPT
                ![OutputNames[CHOOSE n \in takes : \A k \in takes : n <= k]] = Ported!High(m.payload)]
  BY <1>1, <1>6 DEF Ported!check_message
<1>8. \A n \in takes : OutputNames[n] = m.topic.name /\ OutputNames[n] \in Ported!Outs /\ m.payload # ""
  <2> SUFFICES ASSUME NEW n \in takes
               PROVE  OutputNames[n] = m.topic.name /\ OutputNames[n] \in Ported!Outs /\ m.payload # ""
    OBVIOUS
  <2>1. n \in 1 .. Len(OutputNames) /\ m.topic = [root |-> TRUE, name |-> OutputNames[n]] /\ m.payload # ""
    BY <1>6 DEF Ported!check_msg
  <2>2. OutputNames[n] = m.topic.name
    <3>1. PICK x : x = OutputNames[n]
      OBVIOUS
    <3>2. m.topic = [root |-> TRUE, name |-> x]
      BY <2>1, <3>1
    <3>3. m.topic.name = x
      BY <3>2
    <3> QED
      BY <3>1, <3>3
  <2> QED
    BY <2>1, <2>2 DEF Ported!Outs
<1>9. CASE takes = {}
  <2>1. m.payload = "" \/ m.topic.name \notin Ported!Outs
    BY <1>5, <1>6, <1>9 DEF Ported!check_msg, Ported!Outs
  <2>2. commanded' = next_output
    BY <1>1, <2>1, MeantIs, HighIsBit DEF NamesInv
  <2> QED
    BY <1>2, <1>3, <1>7, <1>9, <2>2 DEF NamesInv
<1>10. CASE takes # {}
  <2>1. takes \subseteq Nat
    <3>1. Len(OutputNames) \in Nat
      BY NamesAssumption
    <3> QED
      BY <1>6, <3>1
  <2>2. \E n \in takes : \A k \in takes : n <= k
    BY <1>10, <2>1, Least
  <2>3. PICK n \in takes : n = CHOOSE c \in takes : \A k \in takes : c <= k
    BY <2>2
  <2>4. next_output' = [next_output EXCEPT ![m.topic.name] = Ported!High(m.payload)]
    BY <1>7, <1>8, <1>10, <2>3
  <2>5. m.topic.name \in Ported!Outs /\ m.payload # "" /\ ~m.own
    BY <1>4, <1>8, <2>3
  <2>6. commanded' = next_output' /\ commanded' \in [Ported!Outs -> 0 .. 1]
    BY <1>1, <2>4, <2>5, MeantIs, HighIsBit
  <2> QED
    BY <1>2, <1>3, <2>6 DEF NamesInv
<1> QED
  BY <1>9, <1>10

LEMMA SetByNameKeeps ==
  ASSUME NamesInv, NEW name, NEW text, Ported!SetByName(name, text)
  PROVE  NamesInv'
<1>1. /\ next_output' = IF name = "" \/ text = "" THEN next_output
                        ELSE [o \in Ported!Outs |-> IF o = name THEN Ported!High(text) ELSE next_output[o]]
      /\ commanded' = IF text = "" THEN commanded ELSE Ported!Meant(name, Ported!High(text))
      /\ UNCHANGED <<output_state, deliveries>>
  BY DEF Ported!SetByName
<1>2. next_output' = commanded' /\ commanded' \in [Ported!Outs -> 0 .. 1]
  <2>1. CASE text = ""
    BY <1>1, <2>1 DEF NamesInv
  <2>2. CASE text # "" /\ name = ""
    BY <1>1, <2>2, MeantIs, HighIsBit, NamesAssumption
  <2>3. CASE text # "" /\ name # ""
    BY <1>1, <2>3, MeantIs, HighIsBit DEF NamesInv, Ported!Meant
  <2> QED
    BY <2>1, <2>2, <2>3
<1> QED
  BY <1>1, <1>2 DEF NamesInv

LEMMA SetByIndexKeeps ==
  ASSUME NamesInv, NEW index \in 0 .. Len(OutputNames), NEW v \in 0 .. 1, Ported!SetByIndex(index, v)
  PROVE  NamesInv'
<1>1. UNCHANGED <<output_state, deliveries>>
  BY DEF Ported!SetByIndex
<1>2. CASE index >= Len(OutputNames)
  BY <1>1, <1>2 DEF Ported!SetByIndex, NamesInv
<1>3. CASE ~(index >= Len(OutputNames))
  <2>1. /\ next_output' = [next_output EXCEPT ![OutputNames[index + 1]] = v]
        /\ commanded' = Ported!Meant(OutputNames[index + 1], v)
    BY <1>3 DEF Ported!SetByIndex
  <2>2. OutputNames[index + 1] \in Ported!Outs
    <3>1. Len(OutputNames) \in Nat
      BY NamesAssumption
    <3>2. index + 1 \in 1 .. Len(OutputNames)
      BY <1>3, <3>1
    <3> QED
      BY <3>2 DEF Ported!Outs
  <2>3. next_output' = commanded' /\ commanded' \in [Ported!Outs -> 0 .. 1]
    BY <2>1, <2>2, MeantIs
  <2> QED
    BY <1>1, <2>3 DEF NamesInv
<1> QED
  BY <1>2, <1>3

LEMMA NamesKeepInv == NamesInv /\ Ported!NamesNext => NamesInv'
BY PinChangesKeeps, DriveOutputKeeps, SendCurrentKeeps, DeliveredKeeps, SetByNameKeeps,
   SetByIndexKeeps, OthersPublishKeeps DEF Ported!NamesNext

LEMMA NamesStart == Ported!NamesInit => NamesInv
BY EmptySeq DEF Ported!NamesInit, NamesInv

-----------------------------------------------------------------------------
(* The board: each part keeps its invariant, and what another part does    *)
(* leaves it alone.                                                        *)

BoardInv == SockInv /\ HwInv /\ NamesInv

LEMMA OthersLeaveAlone ==
  /\ SockInv /\ UNCHANGED sockVars => SockInv'
  /\ HwInv /\ UNCHANGED hardwareVars => HwInv'
  /\ NamesInv /\ UNCHANGED namesVars => NamesInv'
<1>1. SockInv /\ UNCHANGED sockVars => SockInv'
  BY OthersKeep, LengthsAreNat DEF sockVars
<1>2. HwInv /\ UNCHANGED hardwareVars => HwInv'
  BY DEF hardwareVars, HwInv, TimeTypes, PassIsLate, DeadlineStands, SilenceCounts, AtStart, Before
<1>3. NamesInv /\ UNCHANGED namesVars => NamesInv'
  BY DEF namesVars, NamesInv
<1> QED
  BY <1>1, <1>2, <1>3

LEMMA BoardKeepsInv == BoardInv /\ [BoardNext]_boardVars => BoardInv'
<1> SUFFICES ASSUME BoardInv, [BoardNext]_boardVars PROVE BoardInv'
  OBVIOUS
<1>1. CASE Sock!ClientNext /\ UNCHANGED <<hardwareVars, namesVars>>
  BY <1>1, ClientKeepsInv, OthersLeaveAlone DEF BoardInv
<1>2. CASE Hw!HardwareNext /\ UNCHANGED <<sockVars, namesVars>>
  BY <1>2, HardwareKeepsInv, OthersLeaveAlone DEF BoardInv
<1>3. CASE Ported!NamesNext /\ UNCHANGED <<sockVars, hardwareVars>>
  BY <1>3, NamesKeepInv, OthersLeaveAlone DEF BoardInv
<1>4. CASE UNCHANGED <<sockVars, hardwareVars, namesVars>>
  BY <1>4, OthersLeaveAlone DEF BoardInv
<1> QED
  BY <1>1, <1>2, <1>3, <1>4 DEF BoardNext, boardVars

(* For any sizes of buffers, calls and pieces both directions of a socket  *)
(* keep every byte in its order (WiFiClient.cpp); for any periods that     *)
(* leave room on the clock no restart and no keep-alive comes early        *)
(* (Hardware.cpp, Watchdog.cpp); for any names of the ports an output is   *)
(* where the last command that named it sent it (IO.cpp).                  *)
THEOREM BoardIsKept == BoardSpec => []BoardIsSound
<1>1. BoardInit => BoardInv
  BY SocketStart, TimesStart, NamesStart DEF BoardInit, BoardInv
<1>2. BoardInv => BoardIsSound
  BY StreamsFollow, NothingIsEarly DEF BoardInv, BoardIsSound, NamesInv, Ported!CommandsKept
<1> QED
  BY <1>1, <1>2, BoardKeepsInv, PTL DEF BoardSpec
=============================================================================

---------------------------- MODULE Queues_proofs ----------------------------
(***************************************************************************)
(* Proofs about the parts of the composition MCQueues.  First the node's   *)
(* two clients, alone and in one loop(): the composition implements each   *)
(* of them, as taking turns adds no behaviour to either, so what is proved *)
(* of a client alone holds in the node.  Then the libraries under them,    *)
(* AsyncTcp, TcpClient and MqttSession: for any number of addresses,       *)
(* connections, events, packets and messages, and every length of the      *)
(* queue and the buffers.                                                  *)
(***************************************************************************)
EXTENDS MCQueues, TLAPS

-----------------------------------------------------------------------------
(* The MQTT client alone.                                                  *)

\* After the second half of NMQTT::update an open session is one it has seen.
OpenIsSeen == at # "client" /\ client => last_client_connected

\* A session update has seen, and has not just found, is set up: what is left
\* to do for a new one is done in the same pass.
Settled == client /\ last_client_connected /\ ~replaced /\ at # "stored"
SettledListens == Settled => subscribed
SettledIsCurrent == Settled /\ ~state_changed => retained = state

IInv == MqttTypeOK /\ OpenIsSeen /\ SettledListens /\ SettledIsCurrent

-----------------------------------------------------------------------------

LEMMA InvInit == MqttInit => IInv
<1>1. 0 \in Bits
  BY DEF Bits
<1> QED
  BY <1>1, Zenon DEF MqttInit, IInv, MqttTypeOK, OpenIsSeen, Settled, SettledListens,
                     SettledIsCurrent

\* The loop: NewSession marks a session it replaces, ClientEdge leads a new one
\* to NewConnection, and that one subscribes, publishes, or finds it over.
LEMMA LoopKeepsInv == IInv /\ MqttLoop => IInv'
<1> SUFFICES ASSUME IInv, MqttLoop PROVE IInv'
  OBVIOUS
<1> USE DEF IInv, MqttTypeOK, OpenIsSeen, Settled, SettledListens, SettledIsCurrent,
            lasts, input, session
<1>1. CASE NetworkUpdate
  BY <1>1 DEF NetworkUpdate
<1>2. CASE NetworkEdge
  BY <1>2 DEF NetworkEdge, NewSession
<1>3. CASE ClientEdge
  BY <1>3 DEF ClientEdge
<1>4. CASE NewConnection
  <2>1. CASE ~client /\ UNCHANGED <<session, retained>>
    BY <1>4, <2>1 DEF NewConnection
  <2>2. CASE /\ client /\ subscribed' = TRUE /\ retained' = state
             /\ UNCHANGED <<client, replaced>>
    BY <1>4, <2>2 DEF NewConnection
  <2>3. CASE /\ client /\ SessionOver
             /\ retained' \in IF network THEN {retained, state} ELSE {retained}
    BY <1>4, <2>3 DEF NewConnection, SessionOver
  <2> QED
    BY <1>4, <2>1, <2>2, <2>3 DEF NewConnection
<1>5. CASE Service
  <2>1. CASE UNCHANGED session
    BY <1>5, <2>1 DEF Service
  <2>2. CASE SessionOver
    BY <1>5, <2>2 DEF Service, SessionOver
  <2> QED
    BY <1>5, <2>1, <2>2 DEF Service
<1>6. CASE IoUpdate
  BY <1>6 DEF IoUpdate, Publish, SessionOver
<1> QED
  BY <1>1, <1>2, <1>3, <1>4, <1>5, <1>6 DEF MqttLoop

\* The world: the end of a session ends what is claimed of it, and a change of
\* the input is marked.
LEMMA WorldKeepsInv == IInv /\ (SessionEnds \/ InputChanges) => IInv'
<1> SUFFICES ASSUME IInv, SessionEnds \/ InputChanges PROVE IInv'
  OBVIOUS
<1> USE DEF IInv, MqttTypeOK, OpenIsSeen, Settled, SettledListens, SettledIsCurrent,
            Bits, lasts, input, session
<1>1. CASE SessionEnds
  BY <1>1 DEF SessionEnds, SessionOver
<1>2. CASE InputChanges
  BY <1>2 DEF InputChanges
<1> QED
  BY <1>1, <1>2

LEMMA Invariance == MqttSpec => []IInv
<1>1. IInv /\ UNCHANGED mqttVars => IInv'
  BY DEF IInv, MqttTypeOK, OpenIsSeen, Settled, SettledListens, SettledIsCurrent,
         mqttVars, lasts, input, session
<1>2. IInv /\ [MqttNext]_mqttVars => IInv'
  BY <1>1, LoopKeepsInv, WorldKeepsInv DEF MqttNext
<1> QED
  BY InvInit, <1>2, PTL DEF MqttSpec

(* When the loop has gone through an open session (NMQTT.cpp:99-113), and  *)
(* did not replace one whose end it had not seen, the node is subscribed,  *)
(* and the broker holds the input's value once nothing is left to send.    *)
THEOREM SessionServed == MqttSpec => []SessionIsServed
<1>1. IInv => SessionIsServed
  BY DEF IInv, OpenIsSeen, Settled, SettledListens, SettledIsCurrent,
         SessionIsServed, ListensWhenConnected, RetainedIsCurrent
<1> QED
  BY <1>1, Invariance, PTL

-----------------------------------------------------------------------------
(* The connection to a peer alone.                                         *)

\* A check that has passed the second test found no attempt; only the store
\* after connect() sets the flag, and that is the check's own.
TestHolds == peer_at = "connect" => ~connecting

\* An attempt under way, and a failure of one not yet told, keep the flag up --
\* or connect() has just returned and the flag is about to be stored.
Pending == attempt \/ (pcb = "none" /\ event = "error")
PendingIsFlagged == Pending => connecting \/ peer_at = "returned"

\* A queued error is the end of what the client held or tried: with it no
\* attempt is out and no connection is open.
ErrorIsTheEnd == event = "error" => ~attempt /\ pcb # "open"

PeerInv ==
  /\ P!TypeOK /\ P!ConnectedIsHeld
  /\ TestHolds /\ PendingIsFlagged /\ ErrorIsTheEnd

LEMMA PeerStarts == P!Init => PeerInv
BY DEF P!Init, PeerInv, P!TypeOK, P!ConnectedIsHeld, TestHolds, Pending, PendingIsFlagged,
       ErrorIsTheEnd

LEMMA AttemptsDoNotMeet == PeerInv => P!OneAttempt
BY DEF PeerInv, TestHolds, Pending, PendingIsFlagged, P!OneAttempt

\* The loop: the test of connecting is the one that matters, and the call
\* itself relies on OneAttempt.
LEMMA LoopKeepsPeerInv == PeerInv /\ P!Loop => PeerInv'
<1> SUFFICES ASSUME PeerInv, P!Loop PROVE PeerInv'
  OBVIOUS
<1> USE DEF PeerInv, P!TypeOK, P!ConnectedIsHeld, TestHolds, Pending, PendingIsFlagged,
            ErrorIsTheEnd, P!flags, P!client
<1>1. CASE P!TestConnected
  BY <1>1 DEF P!TestConnected
<1>2. CASE P!TestConnecting
  BY <1>2 DEF P!TestConnecting
<1>3. CASE P!CallConnect
  BY <1>3, AttemptsDoNotMeet DEF P!CallConnect, P!Connect, P!TcpConnect, P!OneAttempt
<1>4. CASE P!SetConnecting
  BY <1>4 DEF P!SetConnecting
<1> QED
  BY <1>1, <1>2, <1>3, <1>4 DEF P!Loop

\* The callbacks: an error clears connecting only when no attempt is out, and
\* a close takes connected with the connection.
LEMMA CallbacksKeepInv == PeerInv /\ (P!Callbacks \/ P!RxTimeout \/ P!AckTimeout) => PeerInv'
<1> SUFFICES ASSUME PeerInv, P!Callbacks \/ P!RxTimeout \/ P!AckTimeout PROVE PeerInv'
  OBVIOUS
<1> USE DEF PeerInv, P!TypeOK, P!ConnectedIsHeld, TestHolds, Pending, PendingIsFlagged,
            ErrorIsTheEnd, P!flags, P!client
<1>1. CASE P!HandleError
  BY <1>1 DEF P!HandleError, P!OnError, P!Overtaken
<1>2. CASE P!HandleClear
  BY <1>2 DEF P!HandleClear
<1>3. CASE P!HandleFin
  BY <1>3 DEF P!HandleFin, P!Close, P!OnDisconnect
<1>4. CASE P!PollCloses
  BY <1>4 DEF P!PollCloses, P!Close, P!OnDisconnect
<1>5. CASE P!RxTimeout
  BY <1>5 DEF P!RxTimeout, P!Close, P!OnDisconnect
<1>6. CASE P!AckTimeout
  BY <1>6 DEF P!AckTimeout, P!OnTimeout
<1> QED
  BY <1>1, <1>2, <1>3, <1>4, <1>5, <1>6 DEF P!Callbacks

\* lwIP: an attempt ends in a connection or in one error.
LEMMA NetworkKeepsPeerInv ==
  PeerInv /\ (P!NetworkChanges \/ P!Established \/ P!Refused \/ P!Reset \/ P!PeerCloses) => PeerInv'
<1> SUFFICES ASSUME PeerInv,
                    P!NetworkChanges \/ P!Established \/ P!Refused \/ P!Reset \/ P!PeerCloses
             PROVE  PeerInv'
  OBVIOUS
<1> USE DEF PeerInv, P!TypeOK, P!ConnectedIsHeld, TestHolds, Pending, PendingIsFlagged,
            ErrorIsTheEnd, P!flags, P!client
<1>1. CASE P!NetworkChanges
  BY <1>1 DEF P!NetworkChanges
<1>2. CASE P!Established
  BY <1>2 DEF P!Established, P!OnConnect, P!Overtaken, P!CanQueue
<1>3. CASE P!Refused
  BY <1>3 DEF P!Refused, P!CanQueue
<1>4. CASE P!Reset
  BY <1>4 DEF P!Reset, P!CanQueue
<1>5. CASE P!PeerCloses
  BY <1>5 DEF P!PeerCloses, P!CanQueue
<1> QED
  BY <1>1, <1>2, <1>3, <1>4, <1>5

LEMMA PeerInvariance == P!Spec => []PeerInv
<1>1. PeerInv /\ UNCHANGED P!vars => PeerInv'
  BY DEF PeerInv, P!TypeOK, P!ConnectedIsHeld, TestHolds, Pending, PendingIsFlagged,
         ErrorIsTheEnd, P!vars, P!flags, P!client
<1>2. PeerInv /\ [P!Next]_(P!vars) => PeerInv'
  BY <1>1, LoopKeepsPeerInv, CallbacksKeepInv, NetworkKeepsPeerInv DEF P!Next
<1> QED
  BY PeerStarts, <1>2, PTL DEF P!Spec

(* A connection the flag announces is one the client holds: http_request    *)
(* (System.cpp:76) never writes through a client without a control block.   *)
THEOREM WritesAreHeld == P!Spec => []P!ConnectedIsHeld
<1>1. PeerInv => P!ConnectedIsHeld
  BY DEF PeerInv
<1> QED
  BY <1>1, PeerInvariance, PTL

(* The two tests of check_connection (System.cpp:134) keep attempts apart,  *)
(* although the flag is stored only after connect() has returned.           *)
THEOREM AttemptsAreApart == P!Spec => []P!OneAttempt
BY AttemptsDoNotMeet, PeerInvariance, PTL

-----------------------------------------------------------------------------
(* The composition.                                                        *)

\* A step of the node is a step of the MQTT client or leaves it alone.
LEMMA MqttStep == [NodeNext]_nodeVars => [MqttNext]_mqttVars
<1> SUFFICES ASSUME [NodeNext]_nodeVars PROVE [MqttNext]_mqttVars
  OBVIOUS
<1>1. CASE NodeLoop
  BY <1>1 DEF NodeLoop, MqttTurn, CheckConnection, NotDue, IoTurn, MqttNext, MqttLoop
<1>2. CASE Library
  BY <1>2 DEF Library
<1>3. CASE World
  BY <1>3 DEF World, MqttNext
<1>4. CASE UNCHANGED nodeVars
  BY <1>4 DEF nodeVars
<1> QED
  BY <1>1, <1>2, <1>3, <1>4 DEF NodeNext

\* While the peer rests, the MQTT client's part of a pass changes nothing of it
\* but the network both look at, and that only between two Booleans.
LEMMA NetworkStep ==
  ASSUME MqttTypeOK, MqttTypeOK', UNCHANGED peerVars PROVE [P!Next]_(P!vars)
<1>1. CASE network' = network
  BY <1>1 DEF peerVars, P!vars, P!flags, P!client
<1>2. CASE network' # network
  <2>1. network' = ~network
    BY <1>2 DEF MqttTypeOK
  <2> QED
    BY <2>1 DEF P!Next, P!NetworkChanges, peerVars, P!flags, P!client
<1> QED
  BY <1>1, <1>2

\* A step of the node is a step of the peer's connection or leaves it alone.
LEMMA PeerStep == MqttTypeOK /\ MqttTypeOK' /\ [NodeNext]_nodeVars => [P!Next]_(P!vars)
<1> SUFFICES ASSUME MqttTypeOK, MqttTypeOK', [NodeNext]_nodeVars PROVE [P!Next]_(P!vars)
  OBVIOUS
<1>1. CASE MqttTurn \/ NotDue \/ IoTurn \/ World \/ UNCHANGED nodeVars
  BY <1>1, NetworkStep DEF MqttTurn, NotDue, IoTurn, World, nodeVars
<1>2. CASE CheckConnection
  BY <1>2 DEF CheckConnection, P!Next
<1>3. CASE Library
  BY <1>3 DEF Library, P!Next
<1> QED
  BY <1>1, <1>2, <1>3 DEF NodeNext, NodeLoop

-----------------------------------------------------------------------------

(* The MQTT client in the node's loop() behaves as MqttClient says.        *)
THEOREM MqttInNode == NodeSpec => MqttSpec
BY MqttStep, PTL DEF NodeSpec, NodeInit, MqttSpec

(* The connection to a peer in the node's loop() behaves as Peer says.     *)
THEOREM PeerInNode == NodeSpec => P!Spec
<1>1. NodeInit => P!Init
  BY DEF NodeInit
<1>2. MqttSpec => []MqttTypeOK
  <2>1. IInv => MqttTypeOK
    BY DEF IInv
  <2> QED
    BY <2>1, Invariance, PTL
<1> QED
  BY <1>1, <1>2, MqttInNode, PeerStep, PTL DEF NodeSpec, P!Spec

(* In the node, too, an open session the loop has gone through is          *)
(* subscribed and its values are at the broker (NMQTT.cpp:99-113).         *)
THEOREM SessionServedInNode == NodeSpec => []SessionIsServed
BY MqttInNode, SessionServed, PTL

(* In the node, too, nothing is written to a connection that is gone, and  *)
(* no attempt is made over another (System.cpp:76, :134).                  *)
THEOREM PeerSoundInNode == NodeSpec => []PeerConnectionSound
BY PeerInNode, WritesAreHeld, AttemptsAreApart, PTL DEF PeerConnectionSound

-----------------------------------------------------------------------------
(* The queue of events (AsyncTcp).                                         *)

EventSet == [kind : Tcp!Kinds, arg : Addresses, conn : Nat, n : Nat]

\* All but the CLEAR.
Plain(e) == e.kind # "clear"

Turning == task.at \in {"first", "keep_first", "turn", "keep"}
Carrying == task.at \in {"keep_first", "keep"}

\* The events that are somewhere: queued, in the task's or in lwIP's hand.
Queued == {queue[i] : i \in 1 .. Len(queue)}
Carried == IF Carrying THEN {task.packet} ELSE {}
InHand == IF hand = Tcp!Nothing THEN {} ELSE {hand}
Played == Queued \cup Carried \cup InHand

TaskSet ==
  [at : {"closing", "clearing", "first", "keep_first", "turn", "keep"}, arg : Addresses,
   first : EventSet \cup {Tcp!Nothing}, packet : EventSet \cup {Tcp!Nothing}]

TcpTypes ==
  /\ attached \in [Addresses -> Nat] /\ alive \in [Addresses -> Nat]
  /\ events \in Nat /\ accepted \in Nat
  /\ queue \in Seq(EventSet) /\ hand \in EventSet \cup {Tcp!Nothing}
  /\ task \in TaskSet \cup {Tcp!Idle}
  /\ Carrying => task.packet \in EventSet

\* Nobody speaks of an event or a connection to come.
Numbered ==
  \A x \in Played : x.n <= events /\ x.conn <= accepted /\ (Plain(x) => x.conn > 0)

\* A CLEAR is in front, and is the next that the task takes.
ClearInFront ==
  /\ \A i \in 1 .. Len(queue) : ~Plain(queue[i]) => i = 1 /\ task = Tcp!Idle
  /\ \A x \in Carried \cup InHand : Plain(x)

\* No event is there twice, and the one in lwIP's hand is the newest.
Apart ==
  /\ \A i, j \in 1 .. Len(queue) :
       i # j /\ Plain(queue[i]) /\ Plain(queue[j]) => queue[i].n # queue[j].n
  /\ Carrying => \A i \in 1 .. Len(queue) : queue[i].n # task.packet.n
  /\ hand # Tcp!Nothing =>
       hand.n = events /\ events > 0 /\ \A x \in Queued \cup Carried : x.n < events

\* After the error of a connection lwIP has nothing more to tell of it.
ErrorIsLast ==
  \A x \in Played : x.kind = "error" =>
    /\ attached[x.arg] # x.conn
    /\ \A y \in Played : Plain(y) /\ y.arg = x.arg /\ y.conn = x.conn => y.n <= x.n

\* lwIP calls back the client that is there; one that is closing it does not.
Attachments ==
  /\ \A a \in Addresses : attached[a] \in {0, alive[a]} /\ alive[a] <= accepted
  /\ task.at \in {"closing", "clearing"} => attached[task.arg] = 0 /\ alive[task.arg] # 0

TcpBase == TcpTypes /\ Numbered /\ ClearInFront /\ Apart /\ ErrorIsLast /\ Attachments

\* The client an event is for is there.
Good(e) == alive[e.arg] = e.conn

\* What is to be cleared is of a client that is gone.
ClearIsDead ==
  ~reused =>
    /\ \A i \in 1 .. Len(queue) : ~Plain(queue[i]) => alive[queue[i].arg] = 0
    /\ Turning => alive[task.arg] = 0
    /\ ~lost

\* The queue as events are put at its end and taken from its front.
InOrder ==
  \A i, j \in 1 .. Len(queue) : i < j /\ Plain(queue[i]) => queue[i].n < queue[j].n

\* What comes too late is removed by the CLEAR in front.
Arrives ==
  \A i \in 1 .. Len(queue) : Plain(queue[i]) =>
    Good(queue[i]) \/ (~Plain(queue[1]) /\ queue[1].arg = queue[i].arg)

\* Where the turn has come to: from f on are the events that were looked at.
SplitAt(f) ==
  /\ queue[f] = task.first
  /\ \A i, j \in 1 .. Len(queue) :
       i < j => IF i < f /\ f <= j THEN queue[i].n > queue[j].n ELSE queue[i].n < queue[j].n
  /\ \A i \in 1 .. Len(queue) : Good(queue[i]) \/ (i < f /\ queue[i].arg = task.arg)

KeptAt(f) ==
  \A i \in 1 .. Len(queue) :
    IF i < f THEN queue[i].n > task.packet.n ELSE queue[i].n < task.packet.n

InHandIsGood == hand # Tcp!Nothing => Good(hand) /\ (task.at = "clearing" => hand.arg # task.arg)

\* While lwIP waits for the turn to end, the queue is in order around it, and
\* every event is for its client or is about to be removed.
Orderly ==
  /\ ~stale /\ InHandIsGood
  /\ Carrying => Good(task.packet)
  /\ ~Turning => InOrder /\ Arrives
  /\ task.at \in {"first", "keep_first"} =>
       InOrder /\ \A i \in 1 .. Len(queue) : Good(queue[i]) \/ queue[i].arg = task.arg
  /\ task.at = "keep_first" => \A i \in 1 .. Len(queue) : task.packet.n < queue[i].n
  /\ task.at \in {"turn", "keep"} =>
       \E f \in 1 .. Len(queue) : SplitAt(f) /\ (task.at = "keep" => KeptAt(f))

LEMMA Nothing ==
  /\ Tcp!Nothing \notin EventSet
  /\ Tcp!Idle \notin TaskSet /\ Tcp!Idle.at = "idle"
BY DEF Tcp!Nothing, Tcp!Idle, EventSet, TaskSet, Tcp!Kinds

LEMMA PlayedAreEvents ==
  ASSUME TcpTypes
  PROVE  /\ \A x \in Played : x \in EventSet /\ x.n \in Nat /\ x.conn \in Nat /\ x.arg \in Addresses
         /\ \A i \in 1 .. Len(queue) : queue[i] \in Queued /\ queue[i] \in Played
         /\ Len(queue) \in Nat /\ Queued \subseteq EventSet
<1>1. /\ Len(queue) \in Nat /\ \A i \in 1 .. Len(queue) : queue[i] \in EventSet
      /\ Carried \subseteq EventSet /\ InHand \subseteq EventSet
  BY DEF TcpTypes, Carried, InHand
<1>2. \A x \in EventSet : x.n \in Nat /\ x.conn \in Nat /\ x.arg \in Addresses
  BY DEF EventSet
<1>3. \A i \in 1 .. Len(queue) : queue[i] \in Queued /\ queue[i] \in Played
  BY DEF Played, Queued
<1>4. Queued \subseteq EventSet
  BY <1>1 DEF Queued
<1>5. Played \subseteq EventSet
  BY <1>1, <1>4 DEF Played
<1> QED
  BY <1>1, <1>2, <1>3, <1>4, <1>5

\* What holds of all events, of fewer of them: nothing new happened.
LEMMA FewerEvents ==
  ASSUME TcpBase, Played' \subseteq Played, UNCHANGED <<events, accepted>>,
         \A a \in Addresses : attached'[a] \in {0, attached[a]}
  PROVE  Numbered' /\ ErrorIsLast'
<1>1. Numbered'
  BY PlayedAreEvents DEF TcpBase, Numbered, Plain
<1>2. \A x \in Played : x.kind = "error" => attached'[x.arg] # x.conn
  BY PlayedAreEvents DEF TcpBase, ErrorIsLast, Numbered, Plain
<1>3. ErrorIsLast'
  BY <1>2 DEF TcpBase, ErrorIsLast, Plain
<1> QED
  BY <1>1, <1>3

LEMMA AcceptKeepsBase ==
  ASSUME TcpBase, NEW a \in Addresses, Tcp!Accept(a)
  PROVE  TcpBase'
<1>1. /\ hand = Tcp!Nothing /\ alive[a] = 0 /\ accepted' = accepted + 1
      /\ task.at \in {"closing", "clearing"} => task.arg # a
      /\ attached' = [attached EXCEPT ![a] = accepted'] /\ alive' = [alive EXCEPT ![a] = accepted']
      /\ UNCHANGED <<queue, hand, task, events>>
      /\ Played' = Played /\ Queued' = Queued /\ Carried' = Carried /\ InHand' = InHand
  BY DEF Tcp!Accept, Played, Queued, Carried, InHand, Carrying
<1>2. TcpTypes'
  BY <1>1 DEF TcpBase, TcpTypes, Carrying
<1>3. Numbered'
  BY <1>1, PlayedAreEvents DEF TcpBase, TcpTypes, Numbered, Plain
<1>4. ClearInFront' /\ Apart'
  BY <1>1 DEF TcpBase, ClearInFront, Apart, Plain, Carrying
<1>5. ErrorIsLast'
  <2>1. \A x \in Played : x.kind = "error" => attached'[x.arg] # x.conn
    BY <1>1, PlayedAreEvents DEF TcpBase, TcpTypes, ErrorIsLast, Numbered
  <2> QED
    BY <1>1, <2>1 DEF TcpBase, ErrorIsLast, Plain
<1>6. Attachments'
  <2>1. task \in TaskSet \cup {Tcp!Idle} /\ attached \in [Addresses -> Nat] /\ alive \in [Addresses -> Nat]
    BY DEF TcpBase, TcpTypes
  <2>2. \A b \in Addresses : attached'[b] \in {0, alive'[b]} /\ alive'[b] <= accepted'
    BY <1>1, <2>1 DEF TcpBase, TcpTypes, Attachments
  <2>3. task.at \in {"closing", "clearing"} => task.arg \in Addresses /\ task.arg # a
    BY <1>1, <2>1 DEF TaskSet, Tcp!Idle
  <2>4. task.at \in {"closing", "clearing"} => attached'[task.arg] = 0 /\ alive'[task.arg] # 0
    BY <1>1, <2>1, <2>3 DEF TcpBase, Attachments
  <2> QED
    BY <1>1, <2>2, <2>4 DEF Attachments
<1> QED
  BY <1>2, <1>3, <1>4, <1>5, <1>6 DEF TcpBase

LEMMA HappensKeepsBase ==
  ASSUME TcpBase, NEW a \in Addresses, Tcp!Happens(a)
  PROVE  TcpBase'
<1>1. PICK kind \in {"recv", "fin", "poll", "error"} :
        /\ hand' = Tcp!Event(kind, a, attached[a], events')
        /\ attached' = IF kind = "error" THEN [attached EXCEPT ![a] = 0] ELSE attached
  BY DEF Tcp!Happens
<1>2. /\ hand = Tcp!Nothing /\ attached[a] # 0 /\ events' = events + 1
      /\ UNCHANGED <<alive, queue, task, accepted>>
  BY DEF Tcp!Happens
<1>3. /\ hand' \in EventSet /\ Plain(hand') /\ hand' # Tcp!Nothing
      /\ hand'.kind = kind /\ hand'.arg = a /\ hand'.conn = attached[a] /\ hand'.n = events + 1
      /\ attached[a] \in Nat
  <2>1. attached[a] \in Nat /\ events + 1 \in Nat
    BY DEF TcpBase, TcpTypes
  <2>2. hand' = [kind |-> kind, arg |-> a, conn |-> attached[a], n |-> events + 1]
    BY <1>1, <1>2 DEF Tcp!Event
  <2>3. hand' \in EventSet /\ Plain(hand')
    BY <2>1, <2>2 DEF EventSet, Tcp!Kinds, Plain
  <2> QED
    BY <2>1, <2>2, <2>3, Nothing
<1>4. /\ Queued' = Queued /\ Carried' = Carried
      /\ Played = Queued \cup Carried /\ Played' = Played \cup {hand'}
  BY <1>2, <1>3 DEF Played, Queued, Carried, InHand, Carrying
<1>5. TcpTypes'
  BY <1>1, <1>2, <1>3 DEF TcpBase, TcpTypes, Carrying
<1>6. Numbered'
  <2>1. attached[a] <= accepted
    BY <1>3 DEF TcpBase, TcpTypes, Attachments
  <2> QED
    BY <1>2, <1>3, <1>4, <2>1, PlayedAreEvents DEF TcpBase, TcpTypes, Numbered, Plain
<1>7. ClearInFront'
  BY <1>2, <1>3, <1>4 DEF TcpBase, ClearInFront, InHand, Plain
<1>8. Apart'
  BY <1>2, <1>3, <1>4, PlayedAreEvents DEF TcpBase, TcpTypes, Numbered, Apart, Plain, Carrying
<1>9. ErrorIsLast'
  <2> SUFFICES ASSUME NEW x \in Played', x.kind = "error"
               PROVE  /\ attached'[x.arg] # x.conn
                      /\ \A y \in Played' : Plain(y) /\ y.arg = x.arg /\ y.conn = x.conn
                           => y.n <= x.n
    BY DEF ErrorIsLast, Plain
  <2>1. CASE x = hand'
    <3>1. attached'[x.arg] # x.conn
      BY <1>1, <1>2, <1>3, <2>1 DEF TcpBase, TcpTypes
    <3>2. \A y \in Played' : y.n <= events + 1
      BY <1>3, <1>4, PlayedAreEvents DEF TcpBase, TcpTypes, Numbered
    <3> QED
      BY <1>3, <2>1, <3>1, <3>2
  <2>2. CASE x # hand'
    <3>1. x \in Played /\ attached[x.arg] # x.conn
      BY <1>4, <2>2 DEF TcpBase, ErrorIsLast
    <3>2. attached'[x.arg] # x.conn
      <4>1. x.conn # 0 /\ x.arg \in Addresses
        BY <3>1, PlayedAreEvents DEF TcpBase, Numbered, Plain
      <4> QED
        BY <1>1, <3>1, <4>1 DEF TcpBase, TcpTypes
    <3>3. \A y \in Played : Plain(y) /\ y.arg = x.arg /\ y.conn = x.conn => y.n <= x.n
      BY <3>1 DEF TcpBase, ErrorIsLast
    <3> QED
      BY <1>3, <1>4, <3>1, <3>2, <3>3
  <2> QED
    BY <2>1, <2>2
<1>10. Attachments'
  <2>1. task \in TaskSet \cup {Tcp!Idle} /\ attached \in [Addresses -> Nat]
    BY DEF TcpBase, TcpTypes
  <2> QED
    BY <1>1, <1>2, <2>1 DEF TcpBase, Attachments, TaskSet, Tcp!Idle
<1> QED
  BY <1>5, <1>6, <1>7, <1>8, <1>9, <1>10 DEF TcpBase

LEMMA SendKeepsBase ==
  ASSUME TcpBase, Tcp!SendAsyncEvent
  PROVE  TcpBase'
<1>1. /\ hand # Tcp!Nothing /\ queue' = Append(queue, hand) /\ hand' = Tcp!Nothing
      /\ UNCHANGED <<attached, alive, task, events, accepted>>
  BY DEF Tcp!SendAsyncEvent
<1>2. hand \in EventSet /\ Plain(hand) /\ hand.n = events /\ Len(queue) \in Nat
  BY <1>1, PlayedAreEvents DEF TcpBase, TcpTypes, ClearInFront, Apart, InHand
<1>3. /\ Len(queue') = Len(queue) + 1 /\ queue'[Len(queue) + 1] = hand
      /\ \A i \in 1 .. Len(queue) : queue'[i] = queue[i]
  BY <1>1, <1>2 DEF TcpBase, TcpTypes
<1>4. Queued' = Queued \cup {hand} /\ Carried' = Carried /\ InHand' = {} /\ Played' = Played
  <2>1. Queued' = Queued \cup {hand}
    BY <1>2, <1>3 DEF Queued
  <2> QED
    BY <1>1, <2>1 DEF Played, Carried, InHand, Carrying
<1>5. TcpTypes'
  BY <1>1, <1>2 DEF TcpBase, TcpTypes, Carrying
<1>6. Numbered' /\ ErrorIsLast'
  BY <1>1, <1>4, FewerEvents DEF TcpBase, TcpTypes
<1>7. ClearInFront'
  BY <1>1, <1>2, <1>3, <1>4 DEF TcpBase, ClearInFront, Plain
<1>8. Apart'
  <2>1. \A i \in 1 .. Len(queue) : queue[i].n < events
    BY <1>1, PlayedAreEvents DEF TcpBase, Apart
  <2>2. Carrying => task.packet.n < events
    BY <1>1 DEF TcpBase, Apart, Carried
  <2>3. \A i, j \in 1 .. Len(queue') :
          i # j /\ Plain(queue'[i]) /\ Plain(queue'[j]) => queue'[i].n # queue'[j].n
    BY <1>2, <1>3, <2>1, PlayedAreEvents, SMTT(30) DEF TcpBase, TcpTypes, Apart
  <2>4. Carrying => \A i \in 1 .. Len(queue') : queue'[i].n # task.packet.n
    <3>1. Carrying => task.packet.n \in Nat
      BY DEF TcpBase, TcpTypes, EventSet
    <3> QED
      BY <1>2, <1>3, <2>2, <3>1, PlayedAreEvents, SMTT(30) DEF TcpBase, TcpTypes, Apart
  <2> QED
    BY <1>1, <2>3, <2>4 DEF Apart, Carrying, Plain
<1>9. Attachments'
  BY <1>1 DEF TcpBase, Attachments
<1> QED
  BY <1>5, <1>6, <1>7, <1>8, <1>9 DEF TcpBase
\* The task takes the event in front.
TakesPlain(e) ==
  /\ Plain(e) /\ stale' = (stale \/ ~Good(e))
  /\ \/ task' = Tcp!Idle /\ UNCHANGED <<attached, alive>>
     \/ /\ Good(e) /\ e.kind = "error" /\ task' = Tcp!Idle
        /\ alive' = [alive EXCEPT ![e.arg] = 0] /\ UNCHANGED attached
     \/ /\ Good(e) /\ task' = Tcp!Task("closing", e.arg, Tcp!Nothing, Tcp!Nothing)
        /\ attached' = [attached EXCEPT ![e.arg] = 0] /\ UNCHANGED alive

TakesClear(e) ==
  /\ ~Plain(e) /\ task' = Tcp!Task("first", e.arg, Tcp!Nothing, Tcp!Nothing)
  /\ UNCHANGED <<attached, alive, stale>>

LEMMA TakeDoes ==
  ASSUME TcpTypes, Tcp!Take
  PROVE  /\ task = Tcp!Idle /\ Len(queue) > 0 /\ queue[1] \in EventSet
         /\ queue' = Tail(queue)
         /\ Len(queue') = Len(queue) - 1
         /\ \A i \in 1 .. Len(queue') : queue'[i] = queue[i + 1]
         /\ UNCHANGED <<hand, events, accepted, lost, mixed, reused>>
         /\ TakesPlain(queue[1]) \/ TakesClear(queue[1])
<1>1. /\ task = Tcp!Idle /\ queue # <<>> /\ queue' = Tail(queue)
      /\ UNCHANGED <<hand, events, accepted, lost, mixed, reused>>
  BY DEF Tcp!Take
<1>2. /\ Len(queue) > 0 /\ queue[1] \in EventSet /\ Head(queue) = queue[1]
      /\ Len(queue') = Len(queue) - 1
      /\ \A i \in 1 .. Len(queue') : queue'[i] = queue[i + 1]
  BY <1>1 DEF TcpTypes
<1> DEFINE e == queue[1]
<1>3. IF e.kind = "clear" THEN Tcp!HandleClear(e)
      ELSE /\ stale' = (stale \/ alive[e.arg] # e.conn)
           /\ \/ alive[e.arg] # e.conn /\ UNCHANGED <<attached, alive, task>>
              \/ /\ alive[e.arg] = e.conn
                 /\ \/ e.kind = "error" /\ Tcp!HandleError(e)
                    \/ e.kind = "fin" /\ Tcp!HandleFin(e)
                    \/ e.kind \in {"recv", "poll"} /\ Tcp!HandleOther(e)
  BY <1>2 DEF Tcp!Take
<1> HIDE DEF e
<1>4. e.kind = "clear" => TakesClear(e)
  BY <1>3 DEF Tcp!HandleClear, TakesClear, Plain
<1>5. e.kind # "clear" => TakesPlain(e)
  <2> SUFFICES ASSUME e.kind # "clear" PROVE TakesPlain(e)
    OBVIOUS
  <2>1. Plain(e) /\ stale' = (stale \/ ~Good(e))
    BY <1>3 DEF Good, Plain
  <2>2. \/ task' = task /\ UNCHANGED <<attached, alive>>
        \/ Good(e) /\ e.kind = "error" /\ Tcp!HandleError(e)
        \/ Good(e) /\ Tcp!HandleFin(e)
        \/ Good(e) /\ Tcp!HandleOther(e)
    BY <1>3 DEF Good
  <2> QED
    BY <1>1, <2>1, <2>2
    DEF Tcp!HandleError, Tcp!HandleFin, Tcp!HandleOther, Tcp!Delete, TakesPlain
<1> QED
  BY <1>1, <1>2, <1>4, <1>5 DEF e

LEMMA TakeKeepsBase ==
  ASSUME TcpBase, Tcp!Take
  PROVE  TcpBase'
<1> DEFINE e == queue[1]
<1>0. TcpTypes /\ e \in EventSet /\ e.arg \in Addresses /\ e \in Played
  BY TakeDoes, PlayedAreEvents DEF TcpBase
<1>1. /\ task = Tcp!Idle /\ Len(queue) > 0 /\ Len(queue) \in Nat /\ queue' = Tail(queue)
      /\ Len(queue') = Len(queue) - 1
      /\ \A i \in 1 .. Len(queue') : queue'[i] = queue[i + 1]
      /\ UNCHANGED <<hand, events, accepted>>
      /\ TakesPlain(e) \/ TakesClear(e)
  BY <1>0, TakeDoes, PlayedAreEvents
<1>2. /\ task' = Tcp!Idle \/ task' = Tcp!Task("closing", e.arg, Tcp!Nothing, Tcp!Nothing)
         \/ task' = Tcp!Task("first", e.arg, Tcp!Nothing, Tcp!Nothing)
      /\ ~Carrying /\ ~Carrying'
  BY <1>1 DEF TakesPlain, TakesClear, Tcp!Task, Tcp!Idle, Carrying
<1>3. Queued' \subseteq Queued /\ Carried' = {} /\ Carried = {} /\ InHand' = InHand
      /\ Played' \subseteq Played
  <2>1. Queued' \subseteq Queued
    BY <1>1 DEF Queued
  <2> QED
    BY <1>1, <1>2, <2>1 DEF Played, Carried, InHand
<1>4. TcpTypes'
  <2>1. task' \in TaskSet \cup {Tcp!Idle}
    BY <1>0, <1>2 DEF TaskSet, Tcp!Task
  <2>2. queue' \in Seq(EventSet)
    BY <1>0, <1>1 DEF TcpTypes
  <2>3. attached' \in [Addresses -> Nat] /\ alive' \in [Addresses -> Nat]
    <3>1. \/ UNCHANGED <<attached, alive>>
          \/ alive' = [alive EXCEPT ![e.arg] = 0] /\ UNCHANGED attached
          \/ attached' = [attached EXCEPT ![e.arg] = 0] /\ UNCHANGED alive
      BY <1>1 DEF TakesPlain, TakesClear
    <3>2. /\ [alive EXCEPT ![e.arg] = 0] \in [Addresses -> Nat]
          /\ [attached EXCEPT ![e.arg] = 0] \in [Addresses -> Nat]
      BY <1>0 DEF TcpTypes
    <3> QED
      BY <1>0, <3>1, <3>2 DEF TcpTypes
  <2> QED
    BY <1>0, <1>1, <1>2, <2>1, <2>2, <2>3 DEF TcpTypes
<1>5. Numbered' /\ ErrorIsLast'
  <2>1. \A a \in Addresses : attached'[a] \in {0, attached[a]}
    BY <1>0, <1>1 DEF TcpTypes, TakesPlain, TakesClear
  <2> QED
    BY <1>1, <1>3, <2>1, FewerEvents
<1>6. ClearInFront'
  BY <1>1, <1>3 DEF TcpBase, ClearInFront, Plain
<1>7. Apart'
  BY <1>1, <1>2, <1>3 DEF TcpBase, Apart, Plain
<1>8. Attachments'
  <2>1. \A a \in Addresses : attached[a] \in {0, alive[a]} /\ alive[a] <= accepted
    BY DEF TcpBase, Attachments
  <2>2. Plain(e) => e.conn # 0 /\ (e.kind = "error" => attached[e.arg] # e.conn)
    BY <1>0 DEF TcpBase, Numbered, ErrorIsLast
  <2>3. \A a \in Addresses : attached'[a] \in {0, alive'[a]} /\ alive'[a] <= accepted'
    BY <1>0, <1>1, <2>1, <2>2, SMTT(30) DEF TcpTypes, TakesPlain, TakesClear, Good
  <2>4. task'.at \in {"closing", "clearing"} => attached'[task'.arg] = 0 /\ alive'[task'.arg] # 0
    <3>1. CASE task' = Tcp!Idle
      BY <3>1 DEF Tcp!Idle
    <3>2. CASE TakesClear(e)
      BY <3>2 DEF TakesClear, Tcp!Task
    <3>3. CASE TakesPlain(e) /\ task' # Tcp!Idle
      <4>1. /\ Good(e) /\ task'.arg = e.arg
            /\ attached' = [attached EXCEPT ![e.arg] = 0] /\ UNCHANGED alive
        BY <3>3 DEF TakesPlain, Tcp!Task
      <4> QED
        BY <1>0, <2>2, <3>3, <4>1 DEF TakesPlain, TcpTypes, Good
    <3> QED
      BY <1>1, <3>1, <3>2, <3>3
  <2> QED
    BY <2>3, <2>4 DEF Attachments
<1> QED
  BY <1>4, <1>5, <1>6, <1>7, <1>8 DEF TcpBase

LEMMA CloseKeepsBase ==
  ASSUME TcpBase, Tcp!TcpClose
  PROVE  TcpBase'
<1>1. /\ task.at = "closing" /\ hand = Tcp!Nothing
      /\ task' = [task EXCEPT !.at = "clearing"]
      /\ UNCHANGED <<attached, hand, events, accepted, alive, queue>>
  BY DEF Tcp!TcpClose, Tcp!lwipVars
<1>2. task \in TaskSet
  BY <1>1 DEF TcpBase, TcpTypes, Tcp!Idle
<1>3. task' \in TaskSet /\ task'.at = "clearing" /\ task'.arg = task.arg /\ ~Carrying /\ ~Carrying'
  BY <1>1, <1>2 DEF TaskSet, Carrying
<1>4. Played' = Played /\ Queued' = Queued /\ Carried' = {} /\ Carried = {} /\ InHand' = InHand
  BY <1>1, <1>3 DEF Played, Queued, Carried, InHand
<1>5. TcpTypes'
  BY <1>1, <1>3 DEF TcpBase, TcpTypes
<1>6. Numbered' /\ ErrorIsLast'
  BY <1>1, <1>4, FewerEvents DEF TcpBase, TcpTypes
<1>7. ClearInFront' /\ Apart'
  BY <1>1, <1>2, <1>3, <1>4, Nothing DEF TcpBase, ClearInFront, Apart, Plain
<1>8. Attachments'
  BY <1>1, <1>3 DEF TcpBase, Attachments
<1> QED
  BY <1>5, <1>6, <1>7, <1>8 DEF TcpBase

LEMMA ClearKeepsBase ==
  ASSUME TcpBase, Tcp!ClearEvents
  PROVE  TcpBase'
<1> DEFINE c == Tcp!Event("clear", task.arg, 0, 0)
<1>1. /\ task.at = "clearing" /\ queue' = <<c>> \o queue
      /\ alive' = [alive EXCEPT ![task.arg] = 0] /\ task' = Tcp!Idle
      /\ UNCHANGED <<attached, hand, events, accepted>>
  BY DEF Tcp!ClearEvents, Tcp!Prepend, Tcp!Delete, Tcp!lwipVars
<1>2. /\ task.arg \in Addresses /\ task # Tcp!Idle /\ ~Carrying /\ ~Carrying'
      /\ c \in EventSet /\ ~Plain(c) /\ c.n = 0 /\ c.conn = 0 /\ c.kind = "clear"
  <2>1. task \in TaskSet
    BY <1>1 DEF TcpBase, TcpTypes, Tcp!Idle
  <2>2. task.arg \in Addresses
    BY <2>1 DEF TaskSet
  <2>3. c \in EventSet /\ ~Plain(c) /\ c.n = 0 /\ c.conn = 0 /\ c.kind = "clear"
    BY <2>2 DEF Tcp!Event, EventSet, Tcp!Kinds, Plain
  <2>4. ~Carrying /\ ~Carrying'
    BY <1>1 DEF Carrying, Tcp!Idle
  <2> QED
    BY <2>1, <2>2, <2>3, <2>4, Nothing
<1> HIDE DEF c
<1>3. /\ Len(queue) \in Nat /\ Len(queue') = Len(queue) + 1 /\ queue'[1] = c
      /\ \A i \in 2 .. Len(queue') : queue'[i] = queue[i - 1]
      /\ queue' \in Seq(EventSet)
  BY <1>1, <1>2 DEF TcpBase, TcpTypes
<1>4. /\ Queued' \subseteq Queued \cup {c} /\ Carried' = {} /\ Carried = {} /\ InHand' = InHand
      /\ Played' \subseteq Played \cup {c}
  <2>1. Queued' \subseteq Queued \cup {c}
    BY <1>3 DEF Queued
  <2> QED
    BY <1>1, <1>2, <2>1 DEF Played, Carried, InHand
<1>5. TcpTypes'
  BY <1>1, <1>2, <1>3 DEF TcpBase, TcpTypes
<1>6. Numbered'
  BY <1>1, <1>2, <1>4, PlayedAreEvents DEF TcpBase, TcpTypes, Numbered, Plain
<1>7. ErrorIsLast'
  BY <1>1, <1>2, <1>4 DEF TcpBase, ErrorIsLast, Plain
<1>8. \A i \in 1 .. Len(queue) : Plain(queue[i])
  BY <1>2 DEF TcpBase, ClearInFront
<1>9. ClearInFront'
  BY <1>1, <1>3, <1>4, <1>8 DEF TcpBase, ClearInFront, Plain
<1>10. Apart'
  <2>1. hand' # Tcp!Nothing => hand'.n = events' /\ events' > 0 /\ \A x \in Queued' \cup Carried' : x.n < events'
    <3> SUFFICES ASSUME hand # Tcp!Nothing
                 PROVE  hand.n = events /\ events > 0 /\ \A x \in Queued' : x.n < events
      BY <1>1, <1>4
    <3>1. hand.n = events /\ \A x \in Queued : x.n < events
      BY DEF TcpBase, Apart
    <3>2. events > 0
      BY DEF TcpBase, Apart
    <3> QED
      BY <1>2, <1>4, <3>1, <3>2
  <2>2. \A i, j \in 1 .. Len(queue') :
          i # j /\ Plain(queue'[i]) /\ Plain(queue'[j]) => queue'[i].n # queue'[j].n
    <3> SUFFICES ASSUME NEW i \in 1 .. Len(queue'), NEW j \in 1 .. Len(queue'), i # j,
                        Plain(queue'[i]), Plain(queue'[j])
                 PROVE  queue'[i].n # queue'[j].n
      OBVIOUS
    <3>1. i # 1 /\ j # 1
      BY <1>2, <1>3
    <3>2. i - 1 \in 1 .. Len(queue) /\ j - 1 \in 1 .. Len(queue) /\ i - 1 # j - 1
          /\ queue'[i] = queue[i - 1] /\ queue'[j] = queue[j - 1]
      BY <1>3, <3>1
    <3> QED
      BY <3>2 DEF TcpBase, Apart
  <2> QED
    BY <1>2, <2>1, <2>2 DEF Apart, Plain
<1>11. Attachments'
  BY <1>1, <1>2 DEF TcpBase, TcpTypes, Attachments, Tcp!Idle
<1> QED
  BY <1>5, <1>6, <1>7, <1>9, <1>10, <1>11 DEF TcpBase

\* The task's steps around the queue.
Stops ==
  task.at \in {"first", "turn"} /\ Tcp!Turned /\ task' = Tcp!Idle /\ UNCHANGED <<queue, lost>>

Drops ==
  /\ task.at \in {"first", "turn"} /\ ~Tcp!Turned /\ Len(queue) > 0
  /\ queue[1].arg = task.arg
  /\ queue' = Tail(queue) /\ UNCHANGED task
  /\ lost' = (lost \/ (Plain(queue[1]) /\ Good(queue[1])))

Keeps ==
  /\ task.at \in {"first", "turn"} /\ ~Tcp!Turned /\ Len(queue) > 0
  /\ queue[1].arg # task.arg
  /\ queue' = Tail(queue) /\ UNCHANGED lost
  /\ task' = Tcp!Task(IF task.at = "first" THEN "keep_first" ELSE "keep",
                      task.arg, task.first, queue[1])

Returns ==
  /\ Carrying /\ queue' = Append(queue, task.packet) /\ UNCHANGED lost
  /\ task' = Tcp!Task("turn", task.arg,
                      IF task.at = "keep_first" THEN task.packet ELSE task.first, Tcp!Nothing)

LEMMA RemoveDoes ==
  ASSUME TcpTypes, Tcp!RemoveEvents
  PROVE  /\ UNCHANGED <<attached, alive, hand, events, accepted, stale, mixed, reused>>
         /\ task \in TaskSet /\ Turning
         /\ Stops \/ Drops \/ Keeps \/ Returns
<1>1. /\ UNCHANGED <<attached, alive, hand, events, accepted, stale, mixed, reused>>
      /\ Turning
  BY DEF Tcp!RemoveEvents, Tcp!lwipVars, Turning
<1>2. task \in TaskSet
  BY <1>1, Nothing DEF TcpTypes, Turning
<1>3. ASSUME NEW keep, Tcp!Receive(keep), task.at \in {"first", "turn"}, ~Tcp!Turned,
             keep = IF task.at = "first" THEN "keep_first" ELSE "keep"
      PROVE  Drops \/ Keeps
  <2>1. queue # <<>>
    BY <1>3 DEF Tcp!Turned
  <2>2. Len(queue) > 0 /\ Head(queue) = queue[1]
    BY <2>1 DEF TcpTypes
  <2>3. queue' = Tail(queue)
    BY <1>3 DEF Tcp!Receive
  <2>4. CASE queue[1].arg = task.arg
    <3>1. lost' = (lost \/ (Plain(queue[1]) /\ Good(queue[1]))) /\ UNCHANGED task
      BY <1>3, <2>2, <2>4 DEF Tcp!Receive, Tcp!Matches, Plain, Good
    <3> QED
      BY <1>3, <2>2, <2>3, <2>4, <3>1 DEF Drops
  <2>5. CASE queue[1].arg # task.arg
    <3>1. task' = [task EXCEPT !.at = keep, !.packet = queue[1]] /\ UNCHANGED lost
      BY <1>3, <2>2, <2>5 DEF Tcp!Receive, Tcp!Matches
    <3>2. task' = Tcp!Task(keep, task.arg, task.first, queue[1])
      BY <1>2, <3>1 DEF Tcp!Task, TaskSet
    <3> QED
      BY <1>3, <2>2, <2>3, <2>5, <3>1, <3>2 DEF Keeps
  <2> QED
    BY <2>4, <2>5
<1>4. ASSUME NEW first, Tcp!SendBack(first), Carrying,
             first = IF task.at = "keep_first" THEN task.packet ELSE task.first
      PROVE  Returns
  BY <1>4 DEF Tcp!SendBack, Returns
<1>5. \/ Stops
      \/ task.at = "first" /\ ~Tcp!Turned /\ Tcp!Receive("keep_first")
      \/ task.at = "keep_first" /\ Tcp!SendBack(task.packet)
      \/ task.at = "turn" /\ ~Tcp!Turned /\ Tcp!Receive("keep")
      \/ task.at = "keep" /\ Tcp!SendBack(task.first)
  BY DEF Tcp!RemoveEvents, Stops
<1>6. CASE task.at = "first" /\ ~Tcp!Turned /\ Tcp!Receive("keep_first")
  BY <1>1, <1>2, <1>3, <1>6
<1>7. CASE task.at = "keep_first" /\ Tcp!SendBack(task.packet)
  BY <1>1, <1>2, <1>4, <1>7 DEF Carrying
<1>8. CASE task.at = "turn" /\ ~Tcp!Turned /\ Tcp!Receive("keep")
  BY <1>1, <1>2, <1>3, <1>8
<1>9. CASE task.at = "keep" /\ Tcp!SendBack(task.first)
  BY <1>1, <1>2, <1>4, <1>9 DEF Carrying
<1> QED
  BY <1>1, <1>2, <1>5, <1>6, <1>7, <1>8, <1>9

LEMMA RemoveKeepsBase ==
  ASSUME TcpBase, Tcp!RemoveEvents
  PROVE  TcpBase'
<1>1. /\ UNCHANGED <<attached, alive, hand, events, accepted>>
      /\ task \in TaskSet /\ Turning /\ task # Tcp!Idle
      /\ Stops \/ Drops \/ Keeps \/ Returns
      /\ Len(queue) \in Nat /\ \A i \in 1 .. Len(queue) : queue[i] \in EventSet /\ Plain(queue[i])
  BY RemoveDoes, Nothing, PlayedAreEvents DEF TcpBase, ClearInFront, TcpTypes
<1>2. Drops \/ Keeps => /\ Len(queue) > 0 /\ Len(queue') = Len(queue) - 1 /\ queue' \in Seq(EventSet)
                       /\ \A i \in 1 .. Len(queue') : queue'[i] = queue[i + 1]
  <2>1. Drops \/ Keeps => Len(queue) > 0 /\ queue' = Tail(queue)
    BY DEF Drops, Keeps
  <2> SUFFICES ASSUME Drops \/ Keeps
               PROVE  /\ Len(queue) > 0 /\ Len(queue') = Len(queue) - 1 /\ queue' \in Seq(EventSet)
                      /\ \A i \in 1 .. Len(queue') : queue'[i] = queue[i + 1]
    OBVIOUS
  <2>2. queue \in Seq(EventSet) /\ queue' = Tail(queue) /\ Len(queue) > 0
    BY <2>1 DEF TcpBase, TcpTypes
  <2> QED
    BY <2>2
<1>3. Returns => /\ task.packet \in EventSet /\ Plain(task.packet)
                 /\ Len(queue') = Len(queue) + 1 /\ queue' \in Seq(EventSet)
                 /\ queue'[Len(queue) + 1] = task.packet
                 /\ \A i \in 1 .. Len(queue) : queue'[i] = queue[i]
  BY <1>1 DEF Returns, TcpBase, TcpTypes, ClearInFront, Carried
<1>4. /\ task'.at \in {"idle", "first", "turn", "keep_first", "keep"}
      /\ task' \in TaskSet \cup {Tcp!Idle}
  <2>1. CASE Stops
    BY <2>1 DEF Stops, Tcp!Idle
  <2>2. CASE Drops
    BY <1>1, <2>2 DEF Drops
  <2>3. CASE Keeps
    <3>1. queue[1] \in EventSet
      BY <1>1, <2>3 DEF Keeps
    <3> QED
      BY <1>1, <2>3, <3>1 DEF Keeps, TaskSet, Tcp!Task
  <2>4. CASE Returns
    BY <1>1, <1>3, <2>4 DEF Returns, TaskSet, Tcp!Task
  <2> QED
    BY <1>1, <2>1, <2>2, <2>3, <2>4
<1>5. /\ Stops => ~Carrying' /\ ~Carrying
      /\ Drops => ~Carrying' /\ ~Carrying
      /\ Keeps => ~Carrying /\ Carrying' /\ task'.packet = queue[1]
      /\ Returns => ~Carrying' /\ Carrying
  <2>1. Stops => ~Carrying' /\ ~Carrying
    BY <1>1 DEF Stops, Carrying, Tcp!Idle
  <2>2. Drops => ~Carrying' /\ ~Carrying
    BY <1>1 DEF Drops, Carrying
  <2>3. Keeps => ~Carrying /\ Carrying' /\ task'.packet = queue[1]
    BY <1>1 DEF Keeps, Carrying, Tcp!Task
  <2>4. Returns => ~Carrying' /\ Carrying
    BY <1>1 DEF Returns, Carrying, Tcp!Task
  <2> QED
    BY <2>1, <2>2, <2>3, <2>4
<1>6. Carried \subseteq EventSet /\ InHand' = InHand /\ Queued' \cup Carried' \subseteq Queued \cup Carried
  <2>1. Carried \subseteq EventSet /\ InHand' = InHand
    BY <1>1 DEF InHand, Carried, TcpBase, TcpTypes
  <2>2. Stops => Queued' = Queued /\ Carried' = {}
    BY <1>5 DEF Stops, Queued, Carried
  <2>3. Drops \/ Keeps => Queued' \subseteq Queued
    BY <1>1, <1>2 DEF Queued
  <2>4. Drops => Carried' = {}
    BY <1>5 DEF Carried
  <2>5. Keeps => Carried' \subseteq Queued
    BY <1>1, <1>2, <1>5 DEF Carried, Queued
  <2>6. Returns => Queued' \subseteq Queued \cup Carried /\ Carried' = {}
    BY <1>1, <1>3, <1>5 DEF Carried, Queued
  <2> QED
    BY <1>1, <2>1, <2>2, <2>3, <2>4, <2>5, <2>6
<1>7. Played' \subseteq Played
  BY <1>6 DEF Played
<1>8. TcpTypes'
  <2>1. Carrying' => task'.packet \in EventSet
    BY <1>1, <1>2, <1>5
  <2>2. queue' \in Seq(EventSet)
    BY <1>1, <1>2, <1>3 DEF Stops, TcpBase, TcpTypes
  <2> QED
    BY <1>1, <1>4, <2>1, <2>2 DEF TcpBase, TcpTypes
<1>9. Numbered' /\ ErrorIsLast'
  BY <1>1, <1>7, FewerEvents DEF TcpBase, TcpTypes
<1>10. \A x \in Carried \cup InHand : Plain(x)
  BY DEF TcpBase, ClearInFront
<1>11. \A x \in Queued \cup Carried : Plain(x)
  BY <1>1, <1>10 DEF Queued
<1>12. ClearInFront'
  <2>1. \A x \in Queued' \cup Carried' \cup InHand' : Plain(x)
    BY <1>6, <1>10, <1>11
  <2> QED
    BY <2>1 DEF ClearInFront, Queued, Plain
<1>13. Apart'
  <2>1. hand' # Tcp!Nothing =>
          hand'.n = events' /\ events' > 0 /\ \A x \in Queued' \cup Carried' : x.n < events'
    BY <1>1, <1>6 DEF TcpBase, Apart
  <2>2. \A i, j \in 1 .. Len(queue) : i # j => queue[i].n # queue[j].n
    BY <1>1 DEF TcpBase, Apart
  <2>3. \A i, j \in 1 .. Len(queue') : i # j => queue'[i].n # queue'[j].n
    <3>1. CASE Stops
      BY <2>2, <3>1 DEF Stops
    <3>2. CASE Drops \/ Keeps
      <4> SUFFICES ASSUME NEW i \in 1 .. Len(queue'), NEW j \in 1 .. Len(queue'), i # j
                   PROVE  queue'[i].n # queue'[j].n
        OBVIOUS
      <4>1. /\ i + 1 \in 1 .. Len(queue) /\ j + 1 \in 1 .. Len(queue) /\ i + 1 # j + 1
            /\ queue'[i] = queue[i + 1] /\ queue'[j] = queue[j + 1]
        BY <1>1, <1>2, <3>2
      <4> QED
        BY <2>2, <4>1
    <3>3. CASE Returns
      BY <1>1, <1>3, <1>5, <2>2, <3>3 DEF TcpBase, Apart
    <3> QED
      BY <1>1, <3>1, <3>2, <3>3
  <2>4. Carrying' => \A i \in 1 .. Len(queue') : queue'[i].n # task'.packet.n
    BY <1>1, <1>2, <1>5, <2>2, SMTT(30)
  <2> QED
    BY <2>1, <2>3, <2>4 DEF Apart
<1>14. Attachments'
  BY <1>1, <1>4 DEF TcpBase, Attachments
<1> QED
  BY <1>8, <1>9, <1>12, <1>13, <1>14 DEF TcpBase

LEMMA TcpKeepsBase ==
  ASSUME TcpBase, Tcp!Next
  PROVE  TcpBase'
BY AcceptKeepsBase, HappensKeepsBase, SendKeepsBase, TakeKeepsBase, CloseKeepsBase,
   ClearKeepsBase, RemoveKeepsBase DEF Tcp!Next, Tcp!Lwip, Tcp!AsyncTask

-----------------------------------------------------------------------------
(* What is cleared is dead.                                                *)

LEMMA LwipKeepsDead ==
  ASSUME TcpBase, ClearIsDead, Tcp!Lwip
  PROVE  ClearIsDead'
<1>1. ASSUME Tcp!SendAsyncEvent PROVE ClearIsDead'
  <2>1. /\ queue' = Append(queue, hand) /\ hand \in EventSet /\ Plain(hand)
        /\ UNCHANGED <<alive, task, reused, lost>> /\ Len(queue) \in Nat
    BY <1>1, PlayedAreEvents DEF Tcp!SendAsyncEvent, TcpBase, TcpTypes, ClearInFront, InHand
  <2>2. /\ Len(queue') = Len(queue) + 1 /\ queue'[Len(queue) + 1] = hand
        /\ \A i \in 1 .. Len(queue) : queue'[i] = queue[i]
    BY <2>1 DEF TcpBase, TcpTypes
  <2> QED
    BY <2>1, <2>2 DEF ClearIsDead, Plain, Turning
<1>2. ASSUME NEW a \in Addresses, Tcp!Happens(a) PROVE ClearIsDead'
  BY <1>2 DEF Tcp!Happens, ClearIsDead, Plain, Turning
<1>3. ASSUME NEW a \in Addresses, Tcp!Accept(a) PROVE ClearIsDead'
  <2>1. /\ UNCHANGED <<queue, task, lost>> /\ reused' = (reused \/ Tcp!ToClear(a))
        /\ alive' = [alive EXCEPT ![a] = accepted']
    BY <1>3 DEF Tcp!Accept
  <2> SUFFICES ASSUME ~reused' PROVE ClearIsDead'
    BY DEF ClearIsDead
  <2>2. ~reused /\ ~Tcp!ToClear(a)
    BY <2>1
  <2>3. \A i \in 1 .. Len(queue) : ~Plain(queue[i]) => queue[i].arg # a
    BY <2>2 DEF Tcp!ToClear, Plain, TcpBase, TcpTypes
  <2>4. Turning => task.arg # a
    BY <2>2 DEF Tcp!ToClear, Turning
  <2>5. \A b : b # a /\ alive[b] = 0 /\ b \in Addresses => alive'[b] = 0
    BY <2>1 DEF TcpBase, TcpTypes
  <2>6. Turning => task.arg \in Addresses
    BY DEF Turning, TcpBase, TcpTypes, TaskSet, Tcp!Idle
  <2>7. \A i \in 1 .. Len(queue) : queue[i].arg \in Addresses
    BY PlayedAreEvents DEF TcpBase
  <2> QED
    BY <2>1, <2>2, <2>3, <2>4, <2>5, <2>6, <2>7 DEF ClearIsDead, Turning, Plain
<1> QED
  BY <1>1, <1>2, <1>3 DEF Tcp!Lwip

LEMMA TakeKeepsDead ==
  ASSUME TcpBase, ClearIsDead, Tcp!Take
  PROVE  ClearIsDead'
<1> DEFINE e == queue[1]
<1>1. /\ task = Tcp!Idle /\ Len(queue) > 0 /\ Len(queue) \in Nat
      /\ Len(queue') = Len(queue) - 1
      /\ \A i \in 1 .. Len(queue') : queue'[i] = queue[i + 1]
      /\ lost' = lost /\ reused' = reused /\ (TakesPlain(e) \/ TakesClear(e))
  BY TakeDoes, PlayedAreEvents DEF TcpBase
<1>2. \A i \in 1 .. Len(queue') : Plain(queue'[i])
  BY <1>1 DEF TcpBase, ClearInFront
<1>5. ~reused' => ~lost'
  <2>1. lost' = lost /\ reused' = reused
    BY <1>1
  <2>2. ~reused => ~lost
    BY DEF ClearIsDead
  <2> QED
    BY <2>1, <2>2
<1>3. CASE TakesPlain(e)
  <2>1. ~Turning'
    BY <1>3 DEF TakesPlain, Turning, Tcp!Idle, Tcp!Task
  <2> QED
    BY <1>2, <1>5, <2>1 DEF ClearIsDead, Plain
<1>4. CASE TakesClear(e)
  <2>1. task'.arg = e.arg /\ UNCHANGED alive /\ ~Plain(e)
    BY <1>4 DEF TakesClear, Tcp!Task
  <2>2. ~reused' => alive'[task'.arg] = 0
    <3>1. reused' = reused /\ Len(queue) > 0 /\ Len(queue) \in Nat
      BY <1>1
    <3>2. ~reused => alive[e.arg] = 0
      BY <2>1, <3>1 DEF ClearIsDead
    <3> QED
      BY <2>1, <3>1, <3>2
  <2> QED
    BY <1>2, <1>5, <2>2 DEF ClearIsDead, Plain
<1> QED
  BY <1>1, <1>3, <1>4

LEMMA ClosesKeepDead ==
  ASSUME TcpBase, ClearIsDead, Tcp!TcpClose \/ Tcp!ClearEvents
  PROVE  ClearIsDead'
<1>1. CASE Tcp!TcpClose
  <2>1. /\ UNCHANGED <<queue, alive, reused, lost>> /\ task # Tcp!Idle
        /\ task' = [task EXCEPT !.at = "clearing"]
    BY <1>1 DEF Tcp!TcpClose, Tcp!lwipVars, Tcp!Idle
  <2>2. ~Turning'
    BY <2>1 DEF Turning, TcpBase, TcpTypes, TaskSet
  <2> QED
    BY <2>1, <2>2 DEF ClearIsDead, Plain
<1>2. CASE Tcp!ClearEvents
  <2>1. /\ queue' = <<Tcp!Event("clear", task.arg, 0, 0)>> \o queue
        /\ alive' = [alive EXCEPT ![task.arg] = 0] /\ task' = Tcp!Idle
        /\ task.at = "clearing" /\ UNCHANGED <<reused, lost>>
    BY <1>2 DEF Tcp!ClearEvents, Tcp!Prepend, Tcp!Delete, Tcp!lwipVars
  <2>2. /\ task \in TaskSet /\ task.arg \in Addresses /\ task # Tcp!Idle
    BY <2>1 DEF Tcp!Idle, TcpBase, TcpTypes, TaskSet
  <2>3. \A i \in 1 .. Len(queue) : Plain(queue[i])
    BY <2>2 DEF TcpBase, ClearInFront
  <2>4. /\ Len(queue) \in Nat /\ Len(queue') = Len(queue) + 1
        /\ queue'[1].arg = task.arg
        /\ \A i \in 2 .. Len(queue') : queue'[i] = queue[i - 1]
    BY <2>1 DEF TcpBase, TcpTypes, Tcp!Event
  <2>5. ~Turning' /\ alive'[task.arg] = 0
    BY <2>1, <2>2 DEF Turning, Tcp!Idle, TcpBase, TcpTypes
  <2>6. \A i \in 1 .. Len(queue') : i # 1 => Plain(queue'[i])
    BY <2>3, <2>4
  <2> QED
    BY <2>1, <2>4, <2>5, <2>6 DEF ClearIsDead, Plain
<1> QED
  BY <1>1, <1>2

LEMMA RemoveKeepsDead ==
  ASSUME TcpBase, ClearIsDead, Tcp!RemoveEvents
  PROVE  ClearIsDead'
<1>1. /\ UNCHANGED <<alive, reused>> /\ task \in TaskSet /\ Turning
      /\ Stops \/ Drops \/ Keeps \/ Returns
  BY RemoveDoes DEF TcpBase
<1>2. TcpBase'
  BY RemoveKeepsBase
<1>3. Turning' => task'.arg = task.arg
  BY <1>1 DEF Stops, Drops, Keeps, Returns, Turning, Tcp!Idle, Tcp!Task
<1>4. \A i \in 1 .. Len(queue') : ~Plain(queue'[i]) => ~Turning' /\ i = 1
  BY <1>2 DEF TcpBase, ClearInFront, Turning, Plain, Tcp!Idle
<1>5. ~Turning' => UNCHANGED queue
  BY <1>1 DEF Stops, Drops, Keeps, Returns, Turning, Tcp!Task
<1>6. ~reused /\ lost' => lost
  <2> SUFFICES ASSUME ~reused, Drops, Plain(queue[1]), Good(queue[1]) PROVE FALSE
    BY <1>1 DEF Stops, Drops, Keeps, Returns
  <2>1. alive[queue[1].arg] = 0
    BY <1>1 DEF Drops, ClearIsDead
  <2>2. queue[1].conn > 0
    BY PlayedAreEvents DEF Drops, TcpBase, Numbered
  <2> QED
    BY <2>1, <2>2 DEF Good
<1> QED
  BY <1>1, <1>3, <1>4, <1>5, <1>6 DEF ClearIsDead, Plain

LEMMA TcpKeepsDead ==
  ASSUME TcpBase, ClearIsDead, Tcp!Next
  PROVE  ClearIsDead'
BY LwipKeepsDead, TakeKeepsDead, ClosesKeepDead, RemoveKeepsDead DEF Tcp!Next, Tcp!AsyncTask

-----------------------------------------------------------------------------
(* As long as lwIP queues nothing while the task turns the queue, all is   *)
(* in order.                                                               *)

\* It is still there after the step.
GoodNext(e) == alive'[e.arg] = e.conn

\* The same events, and no client gone: the same order.
LEMMA SameOrder ==
  ASSUME TcpBase, Orderly, stale' = stale, queue' = queue, task' = task,
         \A x \in Played : Good(x) => GoodNext(x), InHandIsGood'
  PROVE  Orderly'
<1>1. \A i \in 1 .. Len(queue) : Good(queue[i]) => GoodNext(queue[i])
  BY PlayedAreEvents DEF TcpBase
<1>2. Carrying => GoodNext(task.packet)
  BY DEF Orderly, Played, Carried
<1>3. Turning' = Turning /\ Carrying' = Carrying
  BY DEF Turning, Carrying
<1>4. (InOrder => InOrder') /\ (Arrives => Arrives')
  BY <1>1 DEF InOrder, Arrives, Plain, Good, GoodNext
<1>5. \A f : (SplitAt(f) => SplitAt(f)') /\ (KeptAt(f) => KeptAt(f)')
  BY <1>1 DEF SplitAt, KeptAt, Good, GoodNext
<1>6. task.at \in {"first", "keep_first"} =>
        \A i \in 1 .. Len(queue) : GoodNext(queue[i]) \/ queue[i].arg = task.arg
  BY <1>1 DEF Orderly
<1> QED
  BY <1>2, <1>3, <1>4, <1>5, <1>6 DEF Orderly, Good, GoodNext

LEMMA AcceptKeepsOrder ==
  ASSUME TcpBase, Orderly, NEW a \in Addresses, Tcp!Accept(a)
  PROVE  Orderly'
<1>1. /\ hand = Tcp!Nothing /\ hand' = hand /\ alive[a] = 0
      /\ alive' = [alive EXCEPT ![a] = accepted']
      /\ stale' = stale /\ queue' = queue /\ task' = task
  BY DEF Tcp!Accept
<1>2. \A x \in Played : Plain(x) /\ Good(x) => GoodNext(x)
  BY <1>1, PlayedAreEvents DEF TcpBase, TcpTypes, Numbered, Good, GoodNext
<1>3. \A i \in 1 .. Len(queue) : ~Plain(queue[i]) => task = Tcp!Idle
  BY DEF TcpBase, ClearInFront
<1>4. \A i \in 1 .. Len(queue) : Plain(queue[i]) /\ Good(queue[i]) => GoodNext(queue[i])
  BY <1>2, PlayedAreEvents DEF TcpBase
<1>5. Carrying => GoodNext(task.packet)
  BY <1>2 DEF Orderly, Played, Carried, TcpBase, ClearInFront
<1>6. Turning' = Turning /\ Carrying' = Carrying /\ (Turning => task # Tcp!Idle)
  BY <1>1 DEF Turning, Carrying, Tcp!Idle
<1>7. (InOrder => InOrder') /\ (Arrives => Arrives')
  BY <1>1, <1>4 DEF InOrder, Arrives, Plain, Good, GoodNext
<1>8. Turning => \A f : (SplitAt(f) => SplitAt(f)') /\ (KeptAt(f) => KeptAt(f)')
  BY <1>1, <1>3, <1>4, <1>6 DEF SplitAt, KeptAt, Good, GoodNext
<1>9. task.at \in {"first", "keep_first"} =>
        \A i \in 1 .. Len(queue) : GoodNext(queue[i]) \/ queue[i].arg = task.arg
  BY <1>3, <1>4, <1>6 DEF Orderly, Turning
<1>10. InHandIsGood'
  BY <1>1 DEF InHandIsGood
<1> QED
  BY <1>1, <1>5, <1>6, <1>7, <1>8, <1>9, <1>10 DEF Orderly, Turning, Good, GoodNext

LEMMA HappensKeepsOrder ==
  ASSUME TcpBase, Orderly, NEW a \in Addresses, Tcp!Happens(a)
  PROVE  Orderly'
<1>1. PICK kind \in {"recv", "fin", "poll", "error"} : hand' = Tcp!Event(kind, a, attached[a], events')
  BY DEF Tcp!Happens
<1>2. attached[a] # 0 /\ alive' = alive /\ queue' = queue /\ task' = task /\ stale' = stale
  BY DEF Tcp!Happens
<1>3. hand'.arg = a /\ hand'.conn = attached[a]
  BY <1>1 DEF Tcp!Event
<1>4. alive[a] = attached[a] /\ (task.at = "clearing" => task.arg # a)
  BY <1>2 DEF TcpBase, Attachments
<1>5. InHandIsGood'
  BY <1>2, <1>3, <1>4 DEF InHandIsGood, Good, GoodNext
<1>6. \A x \in Played : Good(x) => GoodNext(x)
  BY <1>2 DEF Good, GoodNext
<1> QED
  BY <1>2, <1>5, <1>6, SameOrder

LEMMA SendKeepsOrder ==
  ASSUME TcpBase, Orderly, Tcp!SendAsyncEvent, ~mixed'
  PROVE  Orderly'
<1>1. /\ hand # Tcp!Nothing /\ queue' = Append(queue, hand) /\ hand' = Tcp!Nothing
      /\ alive' = alive /\ task' = task /\ stale' = stale
      /\ mixed' = (mixed \/ task.at \in {"first", "keep_first", "turn", "keep"})
  BY DEF Tcp!SendAsyncEvent
<1>2. ~Turning /\ ~Turning' /\ ~Carrying'
  BY <1>1 DEF Turning, Carrying
<1>3. /\ Len(queue) \in Nat /\ Len(queue') = Len(queue) + 1 /\ queue'[Len(queue) + 1] = hand
      /\ \A i \in 1 .. Len(queue) : queue'[i] = queue[i]
  BY <1>1, PlayedAreEvents DEF TcpBase, TcpTypes
<1>4. \A i \in 1 .. Len(queue) : queue[i].n < hand.n
  BY <1>1, PlayedAreEvents DEF TcpBase, Apart
<1>5. InOrder /\ Arrives /\ Good(hand) /\ Plain(hand)
  BY <1>1, <1>2 DEF Orderly, InHandIsGood, TcpBase, ClearInFront, InHand
<1>6. InOrder'
  <2> SUFFICES ASSUME NEW i \in 1 .. Len(queue'), NEW j \in 1 .. Len(queue'), i < j, Plain(queue'[i])
               PROVE  queue'[i].n < queue'[j].n
    BY DEF InOrder, Plain
  <2>1. i \in 1 .. Len(queue) /\ queue'[i] = queue[i]
    BY <1>3
  <2>2. CASE j = Len(queue) + 1
    BY <1>3, <1>4, <2>1, <2>2
  <2>3. CASE j # Len(queue) + 1
    BY <1>3, <1>5, <2>1, <2>3 DEF InOrder
  <2> QED
    BY <2>2, <2>3
<1>7. Arrives'
  <2> SUFFICES ASSUME NEW i \in 1 .. Len(queue'), Plain(queue'[i])
               PROVE  Good(queue'[i]) \/ (~Plain(queue'[1]) /\ queue'[1].arg = queue'[i].arg)
    BY <1>1 DEF Arrives, Plain, Good, GoodNext
  <2>1. CASE i = Len(queue) + 1
    BY <1>3, <1>5, <2>1
  <2>2. CASE i # Len(queue) + 1
    BY <1>3, <1>5, <2>2 DEF Arrives
  <2> QED
    BY <2>1, <2>2
<1> QED
  BY <1>1, <1>2, <1>6, <1>7 DEF Orderly, InHandIsGood, Turning

\* After the error of a connection there is nothing of it left.
LEMMA TakeKeepsOrder ==
  ASSUME TcpBase, Orderly, Tcp!Take
  PROVE  Orderly'
<1> DEFINE e == queue[1]
<1>1. /\ task = Tcp!Idle /\ Len(queue) > 0 /\ Len(queue) \in Nat /\ e \in Played
      /\ e \in EventSet
      /\ Len(queue') = Len(queue) - 1
      /\ \A i \in 1 .. Len(queue') : queue'[i] = queue[i + 1]
      /\ hand' = hand
      /\ TakesPlain(e) \/ TakesClear(e)
  BY TakeDoes, PlayedAreEvents DEF TcpBase
<1>2. ~Turning /\ InOrder /\ Arrives /\ ~stale /\ InHandIsGood
  BY <1>1 DEF Orderly, Turning, Tcp!Idle
<1>3. \A i \in 1 .. Len(queue) : i # 1 => Plain(queue[i])
  BY DEF TcpBase, ClearInFront
<1>4. InOrder'
  <2> SUFFICES ASSUME NEW i \in 1 .. Len(queue'), NEW j \in 1 .. Len(queue'), i < j
               PROVE  queue'[i].n < queue'[j].n
    BY DEF InOrder, Plain
  <2>1. /\ i + 1 \in 1 .. Len(queue) /\ j + 1 \in 1 .. Len(queue) /\ i + 1 < j + 1 /\ i + 1 # 1
        /\ queue'[i] = queue[i + 1] /\ queue'[j] = queue[j + 1]
    BY <1>1
  <2> QED
    BY <1>2, <1>3, <2>1 DEF InOrder
<1>5. CASE TakesClear(e)
  <2>1. /\ ~Plain(e) /\ task' = Tcp!Task("first", e.arg, Tcp!Nothing, Tcp!Nothing)
        /\ alive' = alive /\ stale' = stale
    BY <1>5 DEF TakesClear
  <2>2. task'.at = "first" /\ task'.arg = e.arg
    BY <2>1 DEF Tcp!Task
  <2>3. \A i \in 1 .. Len(queue') : GoodNext(queue'[i]) \/ queue'[i].arg = task'.arg
    <3> SUFFICES ASSUME NEW i \in 1 .. Len(queue')
                 PROVE  Good(queue[i + 1]) \/ queue[i + 1].arg = e.arg
      BY <1>1, <2>1, <2>2 DEF Good, GoodNext
    <3>1. i + 1 \in 1 .. Len(queue) /\ Plain(queue[i + 1])
      BY <1>1, <1>3
    <3> QED
      BY <1>2, <3>1 DEF Arrives
  <2>4. InHandIsGood'
    BY <1>1, <1>2, <2>1, <2>2 DEF InHandIsGood, Good, GoodNext
  <2> QED
    BY <1>2, <1>4, <2>1, <2>2, <2>3, <2>4 DEF Orderly, Turning, Carrying, Good, GoodNext
<1>6. CASE TakesPlain(e)
  <2>1. Plain(e) /\ stale' = (stale \/ ~Good(e))
    BY <1>6 DEF TakesPlain
  <2>2. \A i \in 1 .. Len(queue) : Good(queue[i])
    BY <1>1, <1>2, <1>3, <2>1 DEF Arrives
  <2>3. \A y \in Played : Plain(y) /\ Good(y) /\ y.n > e.n => GoodNext(y)
    <3>1. CASE alive' = alive
      BY <3>1 DEF Good, GoodNext
    <3>2. CASE alive' # alive
      <4>1. e.kind = "error" /\ Good(e) /\ alive' = [alive EXCEPT ![e.arg] = 0]
        BY <1>6, <3>2 DEF TakesPlain
      <4>2. \A y \in Played : Plain(y) /\ y.arg = e.arg /\ y.conn = e.conn => y.n <= e.n
        BY <1>1, <4>1 DEF TcpBase, ErrorIsLast
      <4> SUFFICES ASSUME NEW y \in Played, Plain(y), Good(y), y.n > e.n PROVE GoodNext(y)
        OBVIOUS
      <4>3. y.n \in Nat /\ e.n \in Nat /\ y.arg \in Addresses
        BY <1>1, PlayedAreEvents DEF TcpBase
      <4>4. y.arg # e.arg
        BY <4>1, <4>2, <4>3 DEF Good, GoodNext
      <4> QED
        BY <4>1, <4>3, <4>4 DEF Good, GoodNext, TcpBase, TcpTypes
    <3> QED
      BY <3>1, <3>2
  <2>4. \A i \in 1 .. Len(queue') : GoodNext(queue'[i]) /\ Plain(queue'[i])
    <3> SUFFICES ASSUME NEW i \in 1 .. Len(queue') PROVE GoodNext(queue[i + 1]) /\ Plain(queue[i + 1])
      BY <1>1 DEF Good, GoodNext
    <3>1. i + 1 \in 1 .. Len(queue) /\ Plain(queue[i + 1]) /\ 1 < i + 1
      BY <1>1, <1>3
    <3>2. queue[i + 1].n > e.n
      <4>1. e.n < queue[i + 1].n
        BY <1>1, <1>2, <2>1, <3>1 DEF InOrder
      <4> QED
        BY <3>1, <4>1, PlayedAreEvents DEF TcpBase
    <3> QED
      BY <2>2, <2>3, <3>1, <3>2, PlayedAreEvents DEF TcpBase
  <2>5. Arrives'
    BY <2>4 DEF Arrives, Plain, Good, GoodNext
  <2>6. task' = Tcp!Idle \/ task' = Tcp!Task("closing", e.arg, Tcp!Nothing, Tcp!Nothing)
    BY <1>6 DEF TakesPlain
  <2>7. ~Turning' /\ ~Carrying' /\ task'.at # "clearing"
    BY <2>6 DEF Turning, Carrying, Tcp!Idle, Tcp!Task
  <2>8. InHandIsGood'
    <3> SUFFICES ASSUME hand # Tcp!Nothing PROVE GoodNext(hand)
      BY <1>1, <2>7 DEF InHandIsGood, Good, GoodNext
    <3>1. hand \in Played /\ Plain(hand) /\ Good(hand)
      BY <1>2 DEF InHandIsGood, Played, InHand, TcpBase, ClearInFront
    <3>2. e \in Queued
      BY <1>1 DEF Queued
    <3>3. hand.n > e.n
      BY <1>1, <3>1, <3>2, PlayedAreEvents DEF TcpBase, Apart
    <3> QED
      BY <2>3, <3>1, <3>3
  <2>9. ~stale'
    <3>1. Good(e)
      BY <1>1, <2>2
    <3> QED
      BY <1>2, <2>1, <3>1
  <2> QED
    BY <1>4, <2>5, <2>7, <2>8, <2>9 DEF Orderly, Turning
<1> QED
  BY <1>1, <1>5, <1>6

LEMMA ClosesKeepOrder ==
  ASSUME TcpBase, Orderly, Tcp!TcpClose \/ Tcp!ClearEvents
  PROVE  Orderly'
<1>0. /\ task \in TaskSet /\ task # Tcp!Idle /\ ~Turning /\ task.at \in {"closing", "clearing"}
      /\ InOrder /\ Arrives /\ ~stale /\ InHandIsGood
      /\ \A i \in 1 .. Len(queue) : Plain(queue[i])
  <2>1. task # Tcp!Idle /\ ~Turning /\ task.at \in {"closing", "clearing"}
    BY DEF Tcp!TcpClose, Tcp!ClearEvents, Tcp!Idle, Turning
  <2> QED
    BY <2>1 DEF TcpBase, TcpTypes, ClearInFront, Orderly
<1>1. CASE Tcp!TcpClose
  <2>1. /\ hand = Tcp!Nothing /\ hand' = hand /\ task' = [task EXCEPT !.at = "clearing"]
        /\ queue' = queue /\ alive' = alive /\ stale' = stale
    BY <1>1 DEF Tcp!TcpClose, Tcp!lwipVars
  <2>2. task'.at = "clearing"
    BY <1>0, <2>1 DEF TaskSet
  <2>3. InOrder' /\ Arrives' /\ InHandIsGood'
    BY <1>0, <2>1 DEF InOrder, Arrives, Plain, Good, InHandIsGood
  <2> QED
    BY <1>0, <2>1, <2>2, <2>3 DEF Orderly, Turning, Carrying
<1>2. CASE Tcp!ClearEvents
  <2> DEFINE c == Tcp!Event("clear", task.arg, 0, 0)
  <2>1. /\ queue' = <<c>> \o queue /\ task.at = "clearing"
        /\ alive' = [alive EXCEPT ![task.arg] = 0] /\ task' = Tcp!Idle
        /\ stale' = stale /\ hand' = hand
    BY <1>2 DEF Tcp!ClearEvents, Tcp!Prepend, Tcp!Delete, Tcp!lwipVars
  <2>2. ~Plain(c) /\ c.arg = task.arg
    BY DEF Plain, Tcp!Event
  <2> HIDE DEF c
  <2>3. /\ Len(queue) \in Nat /\ Len(queue') = Len(queue) + 1 /\ queue'[1] = c
        /\ \A i \in 2 .. Len(queue') : queue'[i] = queue[i - 1]
    BY <2>1 DEF TcpBase, TcpTypes
  <2>4. \A y \in Played : y.arg # task.arg /\ Good(y) => GoodNext(y)
    BY <2>1, PlayedAreEvents DEF TcpBase, TcpTypes, Good, GoodNext
  <2>5. InHandIsGood'
    <3>1. hand # Tcp!Nothing => hand \in Played
      BY DEF Played, InHand
    <3> QED
      BY <1>0, <2>1, <2>4, <3>1 DEF InHandIsGood, Good, GoodNext, Tcp!Idle
  <2>6. InOrder'
    <3> SUFFICES ASSUME NEW i \in 1 .. Len(queue'), NEW j \in 1 .. Len(queue'), i < j, Plain(queue'[i])
                 PROVE  queue'[i].n < queue'[j].n
      BY DEF InOrder, Plain
    <3>1. i # 1
      BY <2>2, <2>3
    <3>2. /\ i - 1 \in 1 .. Len(queue) /\ j - 1 \in 1 .. Len(queue) /\ i - 1 < j - 1
          /\ queue'[i] = queue[i - 1] /\ queue'[j] = queue[j - 1]
      BY <2>3, <3>1
    <3> QED
      BY <1>0, <3>2 DEF InOrder
  <2>7. Arrives'
    <3> SUFFICES ASSUME NEW i \in 1 .. Len(queue'), Plain(queue'[i])
                 PROVE  GoodNext(queue'[i]) \/ (~Plain(queue'[1]) /\ queue'[1].arg = queue'[i].arg)
      BY DEF Arrives, Plain, Good, GoodNext
    <3>1. i # 1
      BY <2>2, <2>3
    <3>2. i - 1 \in 1 .. Len(queue) /\ queue'[i] = queue[i - 1] /\ 1 \in 1 .. Len(queue)
      BY <2>3, <3>1
    <3>3. Good(queue[i - 1]) /\ queue[i - 1] \in Played
      BY <1>0, <3>2, PlayedAreEvents DEF Arrives, TcpBase
    <3> QED
      BY <2>2, <2>3, <2>4, <3>2, <3>3
  <2> QED
    BY <1>0, <2>1, <2>5, <2>6, <2>7 DEF Orderly, Turning, Carrying, Tcp!Idle
<1> QED
  BY <1>1, <1>2

\* The turn ends where it began: the queue is in order again.
LEMMA StopsInOrder ==
  ASSUME TcpBase, Orderly, Turning, Stops
  PROVE  InOrder /\ Arrives
<1>1. CASE queue = <<>>
  BY <1>1 DEF InOrder, Arrives
<1>2. CASE queue # <<>>
  <2>1. task.at = "turn" /\ Head(queue) = task.first
    BY <1>2 DEF Stops, Tcp!Turned
  <2>2. PICK f \in 1 .. Len(queue) : SplitAt(f)
    BY <2>1 DEF Orderly
  <2>3. queue[1] = queue[f] /\ 1 \in 1 .. Len(queue) /\ Len(queue) \in Nat
    BY <2>1, <2>2, PlayedAreEvents DEF SplitAt, TcpBase
  <2>4. f = 1
    <3> SUFFICES ASSUME f # 1 PROVE FALSE
      OBVIOUS
    <3>1. queue[1].n > queue[f].n /\ queue[1].n \in Nat
      BY <2>2, <2>3, PlayedAreEvents DEF SplitAt, TcpBase
    <3> QED
      BY <2>3, <3>1
  <2>5. InOrder
    BY <2>2, <2>3, <2>4 DEF SplitAt, InOrder
  <2>6. Arrives
    BY <2>2, <2>3, <2>4 DEF SplitAt, Arrives
  <2> QED
    BY <2>5, <2>6
<1> QED
  BY <1>1, <1>2

\* The queue without the event in front.
LEMMA TailInOrder ==
  ASSUME TcpBase, Turning, Drops \/ Keeps, alive' = alive
  PROVE  /\ Len(queue) \in Nat /\ Len(queue) > 0 /\ Len(queue') = Len(queue) - 1
         /\ \A i \in 1 .. Len(queue') : i + 1 \in 1 .. Len(queue) /\ queue'[i] = queue[i + 1]
         /\ \A i \in 1 .. Len(queue) : Plain(queue[i])
         /\ InOrder => InOrder'
<1>1. queue' = Tail(queue) /\ Len(queue) > 0
  BY DEF Drops, Keeps
<1>2. /\ Len(queue) \in Nat /\ Len(queue) > 0 /\ Len(queue') = Len(queue) - 1
      /\ \A i \in 1 .. Len(queue') : i + 1 \in 1 .. Len(queue) /\ queue'[i] = queue[i + 1]
  <2>1. queue \in Seq(EventSet) /\ Len(queue) \in Nat
    BY PlayedAreEvents DEF TcpBase, TcpTypes
  <2> QED
    BY <1>1, <2>1
<1>3. \A i \in 1 .. Len(queue) : Plain(queue[i])
  BY DEF TcpBase, ClearInFront, Turning, Tcp!Idle
<1>4. ASSUME InOrder PROVE InOrder'
  <2> SUFFICES ASSUME NEW i \in 1 .. Len(queue'), NEW j \in 1 .. Len(queue'), i < j
               PROVE  queue'[i].n < queue'[j].n
    BY DEF InOrder, Plain
  <2>1. /\ i + 1 \in 1 .. Len(queue) /\ j + 1 \in 1 .. Len(queue) /\ i + 1 < j + 1
        /\ queue'[i] = queue[i + 1] /\ queue'[j] = queue[j + 1]
    BY <1>2
  <2> QED
    BY <1>3, <1>4, <2>1 DEF InOrder
<1> QED
  BY <1>2, <1>3, <1>4

\* ... and the place where the turn has come to moves with it.
LEMMA TailSplits ==
  ASSUME TcpBase, Turning, Drops \/ Keeps, alive' = alive,
         ~Tcp!Turned, task.at = "turn", task'.first = task.first, task'.arg = task.arg,
         NEW f \in 1 .. Len(queue), SplitAt(f)
  PROVE  f - 1 \in 1 .. Len(queue') /\ SplitAt(f - 1)'
<1>1. queue' = Tail(queue) /\ Len(queue) > 0
  BY DEF Drops, Keeps
<1>2. /\ Len(queue) \in Nat /\ Len(queue) > 0 /\ Len(queue') = Len(queue) - 1
      /\ \A i \in 1 .. Len(queue') : i + 1 \in 1 .. Len(queue) /\ queue'[i] = queue[i + 1]
  BY TailInOrder
<1>3. queue[1] # task.first
  BY <1>1, <1>2 DEF Tcp!Turned
<1>4. f # 1 /\ f - 1 \in 1 .. Len(queue') /\ queue'[f - 1] = queue[f]
  BY <1>2, <1>3 DEF SplitAt
<1>5. queue'[f - 1] = task'.first
  BY <1>4 DEF SplitAt
<1>6. ASSUME NEW i \in 1 .. Len(queue'), NEW j \in 1 .. Len(queue'), i < j
      PROVE  IF i < f - 1 /\ f - 1 <= j THEN queue'[i].n > queue'[j].n
             ELSE queue'[i].n < queue'[j].n
  <2>1. /\ i + 1 \in 1 .. Len(queue) /\ j + 1 \in 1 .. Len(queue) /\ i + 1 < j + 1
        /\ queue'[i] = queue[i + 1] /\ queue'[j] = queue[j + 1]
        /\ (i < f - 1 /\ f - 1 <= j) <=> (i + 1 < f /\ f <= j + 1)
    BY <1>2, <1>6
  <2>2. IF i + 1 < f /\ f <= j + 1 THEN queue[i + 1].n > queue[j + 1].n
        ELSE queue[i + 1].n < queue[j + 1].n
    BY <2>1 DEF SplitAt
  <2> QED
    BY <2>1, <2>2
<1>7. ASSUME NEW i \in 1 .. Len(queue')
      PROVE  Good(queue[i + 1]) \/ (i < f - 1 /\ queue[i + 1].arg = task'.arg)
  <2>1. i + 1 \in 1 .. Len(queue) /\ (i < f - 1 <=> i + 1 < f)
    BY <1>2
  <2> QED
    BY <2>1 DEF SplitAt
<1>8. \A i \in 1 .. Len(queue') : Good(queue[i + 1]) = (alive'[queue'[i].arg] = queue'[i].conn)
  BY <1>2 DEF Good
<1> QED
  BY <1>2, <1>4, <1>5, <1>6, <1>7, <1>8 DEF SplitAt, Good

LEMMA DropsInOrder ==
  ASSUME TcpBase, Orderly, Turning, Drops, alive' = alive, stale' = stale, hand' = hand
  PROVE  Orderly'
<1>1. task' = task /\ task.at \in {"first", "turn"} /\ ~Tcp!Turned /\ ~Carrying' /\ Turning'
  BY DEF Drops, Carrying, Turning
<1>2. InHandIsGood' /\ ~stale'
  BY <1>1 DEF Orderly, InHandIsGood, Good
<1>3. CASE task.at = "first"
  <2>1. InOrder /\ \A i \in 1 .. Len(queue) : Good(queue[i]) \/ queue[i].arg = task.arg
    BY <1>3 DEF Orderly
  <2>2. InOrder'
    BY <2>1, TailInOrder
  <2>3. \A i \in 1 .. Len(queue') : Good(queue'[i]) \/ queue'[i].arg = task.arg
    BY <2>1, TailInOrder
  <2> QED
    BY <1>1, <1>2, <1>3, <2>2, <2>3 DEF Orderly, Good
<1>4. CASE task.at = "turn"
  <2>1. PICK f \in 1 .. Len(queue) : SplitAt(f)
    BY <1>4 DEF Orderly
  <2>2. f - 1 \in 1 .. Len(queue') /\ SplitAt(f - 1)'
    BY <1>1, <1>4, <2>1, TailSplits
  <2> QED
    BY <1>1, <1>2, <1>4, <2>2 DEF Orderly
<1> QED
  BY <1>1, <1>3, <1>4

LEMMA KeepsInOrder ==
  ASSUME TcpBase, Orderly, Turning, Keeps, alive' = alive, stale' = stale, hand' = hand
  PROVE  Orderly'
<1>1. /\ task.at \in {"first", "turn"} /\ ~Tcp!Turned /\ queue[1].arg # task.arg
      /\ task'.at = IF task.at = "first" THEN "keep_first" ELSE "keep"
      /\ task'.arg = task.arg /\ task'.first = task.first /\ task'.packet = queue[1]
      /\ 1 \in 1 .. Len(queue)
  BY TailInOrder DEF Keeps, Tcp!Task
<1>2. InHandIsGood' /\ ~stale' /\ Turning'
  BY <1>1 DEF Orderly, InHandIsGood, Good, Turning
<1>3. CASE task.at = "first"
  <2>1. InOrder /\ \A i \in 1 .. Len(queue) : Good(queue[i]) \/ queue[i].arg = task.arg
    BY <1>3 DEF Orderly
  <2>2. InOrder'
    BY <2>1, TailInOrder
  <2>3. \A i \in 1 .. Len(queue') : Good(queue'[i]) \/ queue'[i].arg = task'.arg
    BY <1>1, <2>1, TailInOrder
  <2>4. Good(queue[1])
    BY <1>1, <2>1
  <2>5. \A i \in 1 .. Len(queue') : queue[1].n < queue'[i].n
    <3> SUFFICES ASSUME NEW i \in 1 .. Len(queue') PROVE queue[1].n < queue[i + 1].n
      BY TailInOrder
    <3>1. 1 < i + 1 /\ i + 1 \in 1 .. Len(queue) /\ Plain(queue[1])
      BY <1>1, TailInOrder
    <3> QED
      BY <1>1, <2>1, <3>1 DEF InOrder
  <2>6. task'.at = "keep_first"
    BY <1>1, <1>3
  <2> QED
    BY <1>1, <1>2, <2>2, <2>3, <2>4, <2>5, <2>6 DEF Orderly, Good
<1>4. CASE task.at = "turn"
  <2>1. PICK f \in 1 .. Len(queue) : SplitAt(f)
    BY <1>4 DEF Orderly
  <2>2. f - 1 \in 1 .. Len(queue') /\ SplitAt(f - 1)'
    BY <1>1, <1>4, <2>1, TailSplits
  <2>3. Good(queue[1])
    BY <1>1, <2>1 DEF SplitAt
  <2>4. KeptAt(f - 1)'
    <3> SUFFICES ASSUME NEW i \in 1 .. Len(queue')
                 PROVE  IF i < f - 1 THEN queue[i + 1].n > queue[1].n ELSE queue[i + 1].n < queue[1].n
      BY <1>1, TailInOrder DEF KeptAt
    <3>1. 1 < i + 1 /\ i + 1 \in 1 .. Len(queue)
      BY <1>1, TailInOrder
    <3>2. IF 1 < f /\ f <= i + 1 THEN queue[1].n > queue[i + 1].n ELSE queue[1].n < queue[i + 1].n
      BY <1>1, <2>1, <3>1 DEF SplitAt
    <3>3. 1 < f
      BY <2>2
    <3>4. queue[1].n \in Nat /\ queue[i + 1].n \in Nat
      BY <1>1, <3>1, PlayedAreEvents DEF TcpBase
    <3> QED
      BY <3>2, <3>3, <3>4
  <2>5. task'.at = "keep"
    BY <1>1, <1>4
  <2> QED
    BY <1>1, <1>2, <2>2, <2>3, <2>4, <2>5 DEF Orderly, Good
<1> QED
  BY <1>1, <1>3, <1>4

LEMMA ReturnsInOrder ==
  ASSUME TcpBase, Orderly, Turning, Returns, alive' = alive, stale' = stale, hand' = hand
  PROVE  Orderly'
<1>1. /\ Carrying /\ queue' = Append(queue, task.packet)
      /\ task'.at = "turn" /\ task'.arg = task.arg
      /\ task'.first = IF task.at = "keep_first" THEN task.packet ELSE task.first
      /\ Good(task.packet) /\ task.packet \in EventSet /\ task.packet.n \in Nat
  BY PlayedAreEvents DEF Returns, Tcp!Task, Orderly, TcpBase, TcpTypes, EventSet
<1>2. /\ Len(queue) \in Nat /\ Len(queue') = Len(queue) + 1
      /\ queue'[Len(queue) + 1] = task.packet
      /\ \A i \in 1 .. Len(queue) : queue'[i] = queue[i] /\ queue[i].n \in Nat
  <2>1. queue \in Seq(EventSet) /\ Len(queue) \in Nat
        /\ \A i \in 1 .. Len(queue) : queue[i].n \in Nat
    BY PlayedAreEvents DEF TcpBase, TcpTypes
  <2> QED
    BY <1>1, <2>1
<1>3. InHandIsGood' /\ ~stale' /\ Turning' /\ ~Carrying'
  BY <1>1 DEF Orderly, InHandIsGood, Good, Turning, Carrying
<1>4. \A i \in 1 .. Len(queue) : Plain(queue[i])
  BY DEF TcpBase, ClearInFront, Turning, Tcp!Idle
<1>5. ASSUME NEW f \in 1 .. Len(queue'), queue'[f] = task'.first,
             \A i, j \in 1 .. Len(queue) :
               i < j => IF i < f /\ f <= j THEN queue[i].n > queue[j].n ELSE queue[i].n < queue[j].n,
             \A i \in 1 .. Len(queue) :
               IF i < f THEN queue[i].n > task.packet.n ELSE queue[i].n < task.packet.n,
             \A i \in 1 .. Len(queue) : Good(queue[i]) \/ (i < f /\ queue[i].arg = task.arg)
      PROVE  SplitAt(f)'
  <2>1. ASSUME NEW i \in 1 .. Len(queue'), NEW j \in 1 .. Len(queue'), i < j
        PROVE  IF i < f /\ f <= j THEN queue'[i].n > queue'[j].n ELSE queue'[i].n < queue'[j].n
    <3>1. i \in 1 .. Len(queue) /\ queue'[i] = queue[i]
      BY <1>2, <2>1
    <3>2. CASE j = Len(queue) + 1
      <4>1. f <= j /\ queue'[j] = task.packet
        BY <1>2, <3>2
      <4> QED
        BY <1>5, <3>1, <4>1
    <3>3. CASE j # Len(queue) + 1
      <4>1. j \in 1 .. Len(queue) /\ queue'[j] = queue[j]
        BY <1>2, <3>3
      <4> QED
        BY <1>5, <2>1, <3>1, <4>1
    <3> QED
      BY <3>2, <3>3
  <2>2. ASSUME NEW i \in 1 .. Len(queue')
        PROVE  Good(queue'[i]) \/ (i < f /\ queue'[i].arg = task'.arg)
    <3>1. CASE i = Len(queue) + 1
      BY <1>1, <1>2, <3>1
    <3>2. CASE i # Len(queue) + 1
      BY <1>1, <1>2, <1>5, <3>2
    <3> QED
      BY <3>1, <3>2
  <2> QED
    BY <1>5, <2>1, <2>2 DEF SplitAt, Good
<1>6. CASE task.at = "keep_first"
  <2> PICK f \in Nat : f = Len(queue) + 1
    BY <1>2
  <2>1. /\ InOrder /\ \A i \in 1 .. Len(queue) : Good(queue[i]) \/ queue[i].arg = task.arg
        /\ \A i \in 1 .. Len(queue) : task.packet.n < queue[i].n
    BY <1>6 DEF Orderly
  <2>2. f \in 1 .. Len(queue') /\ queue'[f] = task'.first
    BY <1>1, <1>2, <1>6
  <2>3. \A i, j \in 1 .. Len(queue) :
          i < j => IF i < f /\ f <= j THEN queue[i].n > queue[j].n ELSE queue[i].n < queue[j].n
    BY <1>2, <1>4, <2>1 DEF InOrder
  <2>4. \A i \in 1 .. Len(queue) :
          IF i < f THEN queue[i].n > task.packet.n ELSE queue[i].n < task.packet.n
    BY <1>1, <1>2, <2>1
  <2>5. \A i \in 1 .. Len(queue) : Good(queue[i]) \/ (i < f /\ queue[i].arg = task.arg)
    BY <1>2, <2>1
  <2>6. SplitAt(f)'
    BY <1>5, <2>2, <2>3, <2>4, <2>5
  <2> QED
    BY <1>1, <1>3, <2>2, <2>6 DEF Orderly
<1>7. CASE task.at = "keep"
  <2>1. PICK f \in 1 .. Len(queue) : SplitAt(f) /\ KeptAt(f)
    BY <1>7 DEF Orderly
  <2>2. f \in 1 .. Len(queue') /\ queue'[f] = task'.first
    BY <1>1, <1>2, <1>7, <2>1 DEF SplitAt
  <2>3. SplitAt(f)'
    BY <1>5, <2>1, <2>2 DEF SplitAt, KeptAt
  <2> QED
    BY <1>1, <1>3, <2>2, <2>3 DEF Orderly
<1> QED
  BY <1>1, <1>6, <1>7 DEF Carrying

LEMMA RemoveKeepsOrder ==
  ASSUME TcpBase, Orderly, Tcp!RemoveEvents
  PROVE  Orderly'
<1>1. /\ alive' = alive /\ stale' = stale /\ hand' = hand /\ Turning
      /\ Stops \/ Drops \/ Keeps \/ Returns
  BY RemoveDoes DEF TcpBase
<1>2. CASE Stops
  <2>1. InOrder /\ Arrives /\ UNCHANGED queue /\ task' = Tcp!Idle /\ task'.at = "idle"
    BY <1>1, <1>2, StopsInOrder DEF Stops, Tcp!Idle
  <2>2. InOrder' /\ Arrives'
    BY <1>1, <2>1 DEF InOrder, Arrives, Plain, Good
  <2>3. InHandIsGood' /\ ~stale'
    BY <1>1, <2>1 DEF Orderly, InHandIsGood, Good
  <2> QED
    BY <2>1, <2>2, <2>3 DEF Orderly, Turning, Carrying
<1> QED
  BY <1>1, <1>2, DropsInOrder, KeepsInOrder, ReturnsInOrder

LEMMA TcpKeepsOrder ==
  ASSUME TcpBase, Orderly, Tcp!Next, ~mixed'
  PROVE  Orderly'
BY AcceptKeepsOrder, HappensKeepsOrder, SendKeepsOrder, TakeKeepsOrder, ClosesKeepOrder,
   RemoveKeepsOrder DEF Tcp!Next, Tcp!Lwip, Tcp!AsyncTask

-----------------------------------------------------------------------------
(* One connection as its users see it (TcpClient).                         *)

Signals == {"sent", "recv", "fin", "error", "poll"}

ConnTypes ==
  /\ fields \in [pcb : BOOLEAN, busy : BOOLEAN, close : BOOLEAN]
  /\ unacked \in Nat /\ waiting \in Seq(Signals)
  /\ writing \in [Conn!Tasks -> {"no", "add", "send", "mark"}]

\* write() has handed something to lwIP, and may still set _pcb_busy.
Writing == \E t \in Conn!Tasks : writing[t] \in {"send", "mark"}

SentWaits == \E i \in 1 .. Len(waiting) : waiting[i] = "sent"

\* What was sent is held, or its acknowledgement waits, from tcp_write on.
AckIsOut ==
  (fields.busy \/ Writing) /\ Conn!Held /\ ~overtaken => unacked > 0 \/ SentWaits

ConnInv == ConnTypes /\ AckIsOut

LEMMA TrafficKeepsAck ==
  ASSUME ConnInv, Conn!Traffic
  PROVE  ConnInv'
<1>1. PICK kind \in Signals :
        /\ waiting' = Append(waiting, kind)
        /\ kind = "sent" \/ unacked' = unacked
        /\ Conn!Held' => Conn!Held
        /\ unacked' \in Nat
  <2>1. CASE Conn!Acknowledged
    <3>1. unacked' \in Nat
      BY <2>1 DEF Conn!Acknowledged, ConnInv, ConnTypes
    <3> QED
      BY <2>1, <3>1 DEF Conn!Acknowledged, Conn!Send, Conn!Held, Signals
  <2>2. unacked \in Nat
    BY DEF ConnInv, ConnTypes
  <2>3. CASE Conn!Received \/ Conn!PeerEnds \/ Conn!PeerResets \/ Conn!Polled
    BY <2>2, <2>3 DEF Conn!Received, Conn!PeerEnds, Conn!PeerResets, Conn!Polled,
                      Conn!Send, Conn!Held, Conn!lwip, Signals
  <2> QED
    BY <2>1, <2>3 DEF Conn!Traffic
<1>2. fields' = fields /\ writing' = writing /\ overtaken' = overtaken
  BY DEF Conn!Traffic, Conn!Acknowledged, Conn!Received, Conn!PeerEnds, Conn!PeerResets,
         Conn!Polled, Conn!Send, Conn!history
<1>3. /\ Len(waiting) \in Nat /\ Len(waiting') = Len(waiting) + 1 /\ waiting' \in Seq(Signals)
      /\ waiting'[Len(waiting) + 1] = kind
      /\ \A i \in 1 .. Len(waiting) : waiting'[i] = waiting[i]
  <2>1. kind \in Signals
    BY <1>1
  <2>2. waiting \in Seq(Signals)
    BY DEF ConnInv, ConnTypes
  <2> QED
    BY <1>1, <2>1, <2>2
<1>4. ConnTypes'
  BY <1>1, <1>2, <1>3 DEF ConnInv, ConnTypes
<1>5. SentWaits \/ kind = "sent" => SentWaits'
  BY <1>3 DEF SentWaits
<1>6. Writing' = Writing
  BY <1>2 DEF Writing
<1> QED
  BY <1>1, <1>2, <1>4, <1>5, <1>6 DEF ConnInv, AckIsOut

LEMMA WritesKeepAck ==
  ASSUME ConnInv, Conn!Write \/ \E t \in Conn!Tasks : Conn!Writes(t)
  PROVE  ConnInv'
<1>1. CASE Conn!Write
  <2>1. /\ writing' = [writing EXCEPT !["loop"] = "add"]
        /\ UNCHANGED <<fields, unacked, socket, waiting, overtaken>>
    BY <1>1 DEF Conn!Write, Conn!lwip, Conn!history
  <2>2. Writing' => Writing
    BY <2>1 DEF Writing, ConnInv, ConnTypes, Conn!Tasks
  <2>3. ConnTypes'
    BY <2>1 DEF ConnInv, ConnTypes, Conn!Tasks
  <2> QED
    BY <2>1, <2>2, <2>3 DEF ConnInv, AckIsOut, Conn!Held, SentWaits
<1>2. CASE \E t \in Conn!Tasks : Conn!Writes(t)
  <2>1. PICK t \in Conn!Tasks : Conn!Writes(t)
    BY <1>2
  <2>2. CASE Conn!TcpWrite(t)
    <3>1. UNCHANGED <<fields, socket, waiting, overtaken>>
      BY <2>2 DEF Conn!TcpWrite, Conn!history
    <3>2. \/ unacked' = unacked + 1 /\ writing' = [writing EXCEPT ![t] = "send"]
          \/ unacked' = unacked /\ writing' = [writing EXCEPT ![t] = "no"]
      BY <2>2 DEF Conn!TcpWrite
    <3>3. ConnTypes'
      BY <3>1, <3>2 DEF ConnInv, ConnTypes
    <3>4. unacked' > 0 \/ (unacked' = unacked /\ (Writing' => Writing))
      BY <3>2 DEF Writing, ConnInv, ConnTypes
    <3> QED
      BY <3>1, <3>3, <3>4 DEF ConnInv, AckIsOut, Conn!Held, SentWaits
  <2>3. CASE Conn!TcpOutput(t)
    <3>1. /\ UNCHANGED <<fields, unacked, socket, waiting, overtaken>> /\ writing[t] = "send"
          /\ \/ writing' = [writing EXCEPT ![t] = "mark"]
             \/ writing' = [writing EXCEPT ![t] = "no"]
             \/ writing' = writing
      BY <2>3 DEF Conn!TcpOutput, Conn!lwip, Conn!history
    <3>2. ConnTypes' /\ Writing
      BY <3>1 DEF ConnInv, ConnTypes, Writing
    <3> QED
      BY <3>1, <3>2 DEF ConnInv, AckIsOut, Conn!Held, SentWaits
  <2>4. CASE Conn!Sent(t)
    <3>1. /\ UNCHANGED <<unacked, socket, waiting, overtaken>> /\ writing[t] = "mark"
          /\ fields' = [fields EXCEPT !.busy = TRUE] /\ writing' = [writing EXCEPT ![t] = "no"]
      BY <2>4 DEF Conn!Sent, Conn!lwip
    <3>2. ConnTypes' /\ Writing
      BY <3>1 DEF ConnInv, ConnTypes, Writing
    <3> QED
      BY <3>1, <3>2 DEF ConnInv, AckIsOut, Conn!Held, SentWaits
  <2> QED
    BY <2>1, <2>2, <2>3, <2>4 DEF Conn!Writes
<1> QED
  BY <1>1, <1>2

\* A callback of an event that acknowledges nothing.
LEMMA OthersKeepAck ==
  ASSUME ConnInv, waiting # <<>>, Head(waiting) # "sent", waiting' = Tail(waiting),
         fields' \in [pcb : BOOLEAN, busy : BOOLEAN, close : BOOLEAN],
         fields'.busy => fields.busy,
         writing' = writing \/ writing' = [writing EXCEPT !["async_tcp"] = "add"],
         UNCHANGED <<unacked, socket, overtaken>>
  PROVE  ConnInv'
<1>1. ConnTypes'
  BY DEF ConnInv, ConnTypes, Conn!Tasks
<1>2. SentWaits => SentWaits'
  <2> SUFFICES ASSUME NEW i \in 1 .. Len(waiting), waiting[i] = "sent" PROVE SentWaits'
    BY DEF SentWaits
  <2>1. waiting \in Seq(Signals) /\ i # 1
    BY DEF ConnInv, ConnTypes
  <2>2. i - 1 \in 1 .. Len(Tail(waiting)) /\ Tail(waiting)[i - 1] = waiting[i]
    BY <2>1
  <2> QED
    BY <2>2 DEF SentWaits
<1>3. Writing' => Writing
  BY DEF Writing, ConnInv, ConnTypes, Conn!Tasks
<1> QED
  BY <1>1, <1>2, <1>3 DEF ConnInv, AckIsOut, Conn!Held

LEMMA HandleKeepsAck ==
  ASSUME ConnInv, Conn!Handle
  PROVE  ConnInv'
<1>0. /\ writing["async_tcp"] = "no" /\ waiting # <<>> /\ waiting \in Seq(Signals)
      /\ fields \in [pcb : BOOLEAN, busy : BOOLEAN, close : BOOLEAN]
  BY DEF Conn!Handle, ConnInv, ConnTypes
<1>1. ASSUME Conn!Close PROVE ConnInv'
  <2>1. /\ fields' = [fields EXCEPT !.pcb = FALSE, !.close = FALSE] /\ socket' = "gone"
        /\ waiting' = <<>> /\ UNCHANGED <<unacked, writing>>
    BY <1>1 DEF Conn!Close
  <2>2. fields' \in [pcb : BOOLEAN, busy : BOOLEAN, close : BOOLEAN]
    BY <1>0, <2>1
  <2>3. ConnTypes'
    BY <2>1, <2>2 DEF ConnInv, ConnTypes
  <2>4. ~Conn!Held'
    BY <2>1 DEF Conn!Held
  <2> QED
    BY <2>3, <2>4 DEF ConnInv, AckIsOut
<1>2. ASSUME NEW now \in [pcb : BOOLEAN, busy : BOOLEAN, close : BOOLEAN], Conn!Callback(now)
      PROVE  /\ waiting' = Tail(waiting) /\ unacked' = unacked /\ socket' = socket
             /\ fields' \in [pcb : BOOLEAN, busy : BOOLEAN, close : BOOLEAN]
             /\ fields'.busy = now.busy
             /\ writing' = writing \/ writing' = [writing EXCEPT !["async_tcp"] = "add"]
  <2>1. fields' = now \/ fields' = [now EXCEPT !.close = TRUE]
    BY <1>2 DEF Conn!Callback, Conn!CloseRequested
  <2>2. /\ fields' \in [pcb : BOOLEAN, busy : BOOLEAN, close : BOOLEAN]
        /\ fields'.busy = now.busy
    BY <2>1
  <2> QED
    BY <1>2, <2>2 DEF Conn!Callback, Conn!lwip
<1>3. CASE Head(waiting) = "poll" /\ Conn!HandlePoll
  <2>1. CASE Conn!Close
    BY <1>1, <2>1
  <2>2. CASE /\ fields' = [fields EXCEPT !.busy = FALSE, !.close = TRUE]
             /\ waiting' = Tail(waiting) /\ owed' = FALSE
             /\ UNCHANGED <<heard_age, Conn!lwip, writing, overtaken>>
    <3>1. /\ fields' \in [pcb : BOOLEAN, busy : BOOLEAN, close : BOOLEAN] /\ fields'.busy = FALSE
      BY <1>0, <2>2
    <3> QED
      BY <1>0, <1>3, <2>2, <3>1, OthersKeepAck DEF Conn!lwip
  <2>3. CASE Conn!Callback(fields) /\ UNCHANGED <<heard_age, Conn!history>>
    BY <1>0, <1>2, <1>3, <2>3, OthersKeepAck DEF Conn!history
  <2> QED
    BY <1>3, <2>1, <2>2, <2>3 DEF Conn!HandlePoll
<1>4. CASE Head(waiting) = "recv" /\ Conn!HandleRecv
  BY <1>0, <1>2, <1>4, OthersKeepAck DEF Conn!HandleRecv, Conn!history
<1>5. CASE Head(waiting) = "sent" /\ Conn!HandleSent
  <2> DEFINE now == [fields EXCEPT !.busy = FALSE]
  <2>1. now \in [pcb : BOOLEAN, busy : BOOLEAN, close : BOOLEAN] /\ now.busy = FALSE
    BY <1>0
  <2>2. Conn!Callback(now) /\ overtaken' = (overtaken \/ writing["loop"] \in {"send", "mark"})
    BY <1>5 DEF Conn!HandleSent, Conn!Overtakes
  <2> HIDE DEF now
  <2>3. /\ waiting' = Tail(waiting) /\ unacked' = unacked
        /\ fields' \in [pcb : BOOLEAN, busy : BOOLEAN, close : BOOLEAN]
        /\ fields'.busy = FALSE
        /\ writing' = writing \/ writing' = [writing EXCEPT !["async_tcp"] = "add"]
    BY <1>2, <2>1, <2>2
  <2>4. ConnTypes'
    BY <1>0, <2>3 DEF ConnInv, ConnTypes, Conn!Tasks
  <2>5. ~overtaken' => ~Writing'
    BY <1>0, <2>2, <2>3 DEF Writing, ConnInv, ConnTypes, Conn!Tasks
  <2> QED
    BY <2>3, <2>4, <2>5 DEF ConnInv, AckIsOut
<1> QED
  BY <1>1, <1>3, <1>4, <1>5 DEF Conn!Handle

LEMMA ConnKeepsAck ==
  ASSUME ConnInv, Conn!ClientNext
  PROVE  ConnInv'
<1>1. CASE Conn!Tick
  <2>1. UNCHANGED <<fields, unacked, socket, waiting, writing, overtaken>>
    BY <1>1 DEF Conn!Tick, Conn!lwip, Conn!history
  <2> QED
    BY <2>1 DEF ConnInv, ConnTypes, AckIsOut, Writing, SentWaits, Conn!Held
<1> QED
  BY <1>1, TrafficKeepsAck, WritesKeepAck, HandleKeepsAck DEF Conn!ClientNext

-----------------------------------------------------------------------------
(* The composition.                                                        *)

TcpInv == TcpBase /\ ClearIsDead /\ (~mixed => Orderly)

LEMMA QueuesStart == QueuesInit => TcpInv /\ ConnInv
<1> SUFFICES ASSUME QueuesInit PROVE TcpInv /\ ConnInv
  OBVIOUS
<1>1. /\ attached = [a \in Addresses |-> 0] /\ alive = [a \in Addresses |-> 0]
      /\ queue = <<>> /\ hand = Tcp!Nothing /\ task = Tcp!Idle /\ events = 0 /\ accepted = 0
      /\ ~stale /\ ~lost
  BY DEF QueuesInit, Tcp!Init
<1>2. task.at = "idle" /\ ~Turning /\ ~Carrying /\ Len(queue) = 0
  BY <1>1 DEF Tcp!Idle, Turning, Carrying
<1>3. Played = {} /\ Carried = {} /\ InHand = {}
  BY <1>1, <1>2 DEF Played, Queued, Carried, InHand
<1>4. TcpTypes
  BY <1>1, <1>2 DEF TcpTypes
<1>5. Numbered /\ ClearInFront /\ Apart /\ ErrorIsLast
  BY <1>1, <1>2, <1>3 DEF Numbered, ClearInFront, Apart, ErrorIsLast
<1>6. Attachments
  BY <1>1, <1>2 DEF Attachments
<1>7. ClearIsDead /\ Orderly
  BY <1>1, <1>2 DEF ClearIsDead, Orderly, InHandIsGood, InOrder, Arrives
<1>8. /\ fields = [pcb |-> TRUE, busy |-> FALSE, close |-> FALSE]
      /\ unacked = 0 /\ waiting = <<>> /\ writing = [t \in Conn!Tasks |-> "no"]
  BY DEF QueuesInit, Conn!ClientInit
<1>9. ConnInv
  BY <1>8 DEF ConnInv, ConnTypes, AckIsOut, Writing
<1> QED
  BY <1>4, <1>5, <1>6, <1>7, <1>9 DEF TcpInv, TcpBase

LEMMA TcpStep ==
  ASSUME TcpInv, Tcp!Next \/ UNCHANGED tcpVars
  PROVE  TcpInv'
<1>1. CASE Tcp!Next
  <2>1. ~mixed' => ~mixed
    <3>1. mixed' = mixed \/ mixed' = (mixed \/ task.at \in {"first", "keep_first", "turn", "keep"})
      BY <1>1 DEF Tcp!Next, Tcp!Lwip, Tcp!AsyncTask, Tcp!SendAsyncEvent, Tcp!Accept, Tcp!Happens,
                  Tcp!Take, Tcp!TcpClose, Tcp!ClearEvents, Tcp!RemoveEvents
    <3> QED
      BY <3>1
  <2> QED
    BY <1>1, <2>1, TcpKeepsBase, TcpKeepsDead, TcpKeepsOrder DEF TcpInv
<1>2. CASE UNCHANGED tcpVars
  <2>1. /\ UNCHANGED <<attached, alive, queue, hand, task, events, accepted>>
        /\ stale' = stale /\ lost' = lost /\ mixed' = mixed /\ reused' = reused
    BY <1>2 DEF tcpVars
  <2>2. /\ Turning' = Turning /\ Carrying' = Carrying /\ Carried' = Carried /\ InHand' = InHand
        /\ Queued' = Queued /\ Played' = Played
    BY <2>1 DEF Turning, Carrying, Carried, InHand, Queued, Played
  <2>3. TcpBase'
    BY <2>1, <2>2 DEF TcpInv, TcpBase, TcpTypes, Numbered, ClearInFront, Apart, ErrorIsLast,
                      Attachments, Plain
  <2>4. ClearIsDead'
    BY <2>1, <2>2 DEF TcpInv, ClearIsDead, Plain
  <2>5. Orderly => Orderly'
    <3> SUFFICES ASSUME Orderly PROVE Orderly'
      OBVIOUS
    <3>1. InHandIsGood'
      BY <2>1 DEF Orderly, InHandIsGood, Good
    <3>2. \A x \in Played : Good(x) => GoodNext(x)
      BY <2>1 DEF Good, GoodNext
    <3> QED
      BY <2>1, <3>1, <3>2, SameOrder DEF TcpInv
  <2> QED
    BY <2>1, <2>3, <2>4, <2>5 DEF TcpInv
<1> QED
  BY <1>1, <1>2

LEMMA ConnStep ==
  ASSUME ConnInv, Conn!ClientNext \/ UNCHANGED connVars
  PROVE  ConnInv'
<1>1. CASE UNCHANGED connVars
  BY <1>1 DEF connVars, ConnInv, ConnTypes, AckIsOut, Writing, SentWaits, Conn!Held
<1> QED
  BY <1>1, ConnKeepsAck

(* What is queued for a client of the web server arrives as long as there   *)
(* is a client for it to arrive at, and no longer, and a connection waits   *)
(* for an acknowledgement only while one is due: for any number of clients, *)
(* events and lengths of the queue.                                         *)
THEOREM EventsArriveInTime == QueuesSpec => []TcpIsSound
<1>1. QueuesInit => TcpInv /\ ConnInv
  BY QueuesStart
<1>2. TcpInv /\ ConnInv /\ [QueuesNext]_<<part, vars, tcpVars, connVars, nodeVars, sessionVars, packetVars>>
        => TcpInv' /\ ConnInv'
  <2> SUFFICES ASSUME TcpInv, ConnInv,
                      [QueuesNext]_<<part, vars, tcpVars, connVars, nodeVars, sessionVars, packetVars>>
               PROVE  TcpInv' /\ ConnInv'
    OBVIOUS
  <2>1. Tcp!Next \/ UNCHANGED tcpVars
    BY DEF QueuesNext
  <2>2. Conn!ClientNext \/ UNCHANGED connVars
    BY DEF QueuesNext
  <2> QED
    BY <2>1, <2>2, TcpStep, ConnStep
<1>3. TcpInv /\ ConnInv => TcpIsSound
  <2> SUFFICES ASSUME TcpInv, ConnInv PROVE TcpIsSound
    OBVIOUS
  <2>1. Tcp!EventsArrive
    BY DEF TcpInv, Orderly, ClearIsDead, Tcp!EventsArrive, Tcp!NoStaleEvent, Tcp!NoneLost
  <2>2. Conn!AckIsDue
    BY DEF ConnInv, AckIsOut, Conn!AckIsDue, Conn!Contains, SentWaits
  <2> QED
    BY <2>1, <2>2 DEF TcpIsSound
<1> QED
  BY <1>1, <1>2, <1>3, PTL DEF QueuesSpec
-----------------------------------------------------------------------------
(* The session with the broker (MqttSession): any numbers of packets and   *)
(* of messages.                                                            *)

PacketSet ==
  [type : Session!Waiting \cup {"CONNECT", "SUBSCRIBE", "UNSUBSCRIBE", "PUBLISH", "PUBREC",
                                "PUBREL", "PINGREQ", "PINGRESP"},
   id : Nat, qos : 0 .. 3, msg : Nat]

SessionTypes ==
  /\ up \in Seq(PacketSet) /\ down \in Seq(PacketSet) /\ stored \in Seq(Nat)
  /\ counts \in Nat \X Nat /\ last_packet_id \in Nat /\ granted \in 0 .. 3
  /\ doing \in Session!Waiting \cup {"rest", "yield", "alive"}

\* A packet on its way to the broker is part of the command that waits so.
Asks(p, command) ==
  \/ p.type = "CONNECT" /\ command = "CONNACK"
  \/ p.type = "SUBSCRIBE" /\ command = "SUBACK"
  \/ p.type = "UNSUBSCRIBE" /\ command = "UNSUBACK"
  \/ p.type = "PUBLISH" /\ p.qos = 1 /\ command = "PUBACK"
  \/ p.type = "PUBLISH" /\ p.qos = 2 /\ command = "PUBCOMP"
  \/ p.type = "PUBREL" /\ command = "PUBCOMP"

\* The same of one on its way back.
Answers(p, command) ==
  \/ p.type = command /\ command \in Session!Waiting
  \/ p.type = "PUBREC" /\ command = "PUBCOMP"

Asking(p) ==
  p.type \in {"CONNECT", "SUBSCRIBE", "UNSUBSCRIBE", "PUBREL"} \/ (p.type = "PUBLISH" /\ p.qos # 0)
Answering(p) == p.type \in Session!Waiting \cup {"PUBREC"}

\* One packet at most is part of a command, and of the one that waits.
OneExchange ==
  /\ \A i \in 1 .. Len(up) : Asking(up[i]) =>
       /\ Asks(up[i], doing)
       /\ \A j \in 1 .. Len(up) : Asking(up[j]) => i = j
       /\ \A j \in 1 .. Len(down) : ~Answering(down[j])
  /\ \A i \in 1 .. Len(down) : Answering(down[i]) =>
       /\ Answers(down[i], doing)
       /\ \A j \in 1 .. Len(down) : Answering(down[j]) => i = j

\* What a publish waits with is the message it sent, and behind the broker's
\* first answer the broker has taken it.
Taken == doing \in {"PUBACK", "PUBCOMP"} => needed \in Session!ToSet(stored)
AnswerIsTrue ==
  /\ \A i \in 1 .. Len(up) : up[i].type = "PUBLISH" /\ up[i].qos # 0 => up[i].msg = needed
  /\ \A i \in 1 .. Len(up) : up[i].type = "PUBREL" => Taken
  /\ \A i \in 1 .. Len(down) : Answering(down[i]) => Taken

\* No message is sent twice, or again when the broker has it.
Fresh ==
  /\ \A i \in 1 .. Len(up) : up[i].type = "PUBLISH" =>
       /\ up[i].msg \notin Session!ToSet(stored) /\ up[i].msg <= counts[1]
       /\ \A j \in 1 .. Len(up) : up[j].type = "PUBLISH" /\ up[j].msg = up[i].msg => i = j
  /\ \A m \in Session!ToSet(stored) : m <= counts[1]

\* Half of a handshake: its next packet is on the way.
Halves ==
  /\ \A id \in received :
       \/ \E i \in 1 .. Len(down) : down[i].type = "PUBREC" /\ down[i].id = id
       \/ \E i \in 1 .. Len(up) : up[i].type = "PUBREL" /\ up[i].id = id
  /\ \A id \in outgoing :
       \/ \E i \in 1 .. Len(down) :
            /\ down[i].type = "PUBREL" \/ (down[i].type = "PUBLISH" /\ down[i].qos \in {1, 2})
            /\ down[i].id = id
       \/ \E i \in 1 .. Len(up) : up[i].type \in {"PUBACK", "PUBREC", "PUBCOMP"} /\ up[i].id = id

SessInv ==
  SessionTypes /\ OneExchange /\ AnswerIsTrue /\ Fresh /\ Halves /\ Session!PublishTrusted

LEMMA Taking ==
  ASSUME NEW S, NEW s \in Seq(S), s # <<>>
  PROVE  /\ Tail(s) \in Seq(S) /\ Head(s) \in S /\ Head(s) = s[1] /\ 1 \in 1 .. Len(s)
         /\ \A i \in 1 .. Len(Tail(s)) : i + 1 \in 1 .. Len(s) /\ Tail(s)[i] = s[i + 1]
         /\ \A i \in 1 .. Len(s) : i # 1 => i - 1 \in 1 .. Len(Tail(s)) /\ Tail(s)[i - 1] = s[i]
OBVIOUS

LEMMA Adding ==
  ASSUME NEW S, NEW s \in Seq(S), NEW e \in S
  PROVE  /\ s \o <<e>> \in Seq(S) /\ Len(s) + 1 \in 1 .. Len(s \o <<e>>)
         /\ (s \o <<e>>)[Len(s) + 1] = e
         /\ \A i \in 1 .. Len(s \o <<e>>) :
              \/ i = Len(s) + 1 
              \/ i \in 1 .. Len(s) /\ (s \o <<e>>)[i] = s[i]
         /\ \A i \in 1 .. Len(s) : i \in 1 .. Len(s \o <<e>>) /\ (s \o <<e>>)[i] = s[i]
OBVIOUS

LEMMA AddingNone == ASSUME NEW S, NEW s \in Seq(S) PROVE s \o <<>> = s
OBVIOUS

LEMMA SessionStart == Session!SessionInit => SessInv
<1> SUFFICES ASSUME Session!SessionInit PROVE SessInv
  OBVIOUS
<1>1. SessionTypes
  BY DEF Session!SessionInit, SessionTypes, Session!NoQos
<1>2. up = <<>> /\ down = <<>> /\ stored = <<>> /\ received = {} /\ outgoing = {} /\ confirmed = {}
  BY DEF Session!SessionInit
<1> QED
  BY <1>1, <1>2 DEF SessInv, OneExchange, AnswerIsTrue, Fresh, Halves, Session!PublishTrusted,
       Session!IsInjective, Session!ToSet

\* With nothing on the connection there is little to say.
LEMMA EmptyKeeps ==
  ASSUME SessInv, up' = <<>>, down' = <<>>, received' = {}, outgoing' = {},
         UNCHANGED <<stored, confirmed, counts>>, SessionTypes'
  PROVE  SessInv'
BY DEF SessInv, OneExchange, AnswerIsTrue, Fresh, Halves, Session!PublishTrusted,
     Session!IsInjective, Session!ToSet

LEMMA FailKeeps == SessInv /\ Session!Fail => SessInv'
<1> SUFFICES ASSUME SessInv, Session!Fail PROVE SessInv'
  OBVIOUS
<1>1. /\ up' = <<>> /\ down' = <<>> /\ received' = {} /\ outgoing' = {}
      /\ UNCHANGED <<stored, confirmed, counts, last_packet_id>> /\ doing' = "rest" /\ granted' = 3
  BY DEF Session!Fail, Session!Close, Session!ConnectionEnds, Session!NoQos
<1>2. SessionTypes'
  BY <1>1 DEF SessInv, SessionTypes
<1> QED
  BY <1>1, <1>2, EmptyKeeps

\* Nothing of the exchanges changes.
LEMMA ElsewhereKeeps ==
  ASSUME SessInv, UNCHANGED <<up, down, stored, received, outgoing, granted, confirmed, counts, needed,
                              last_packet_id>>,
         doing' = doing \/ (doing \notin Session!Waiting /\ doing' \in {"rest", "yield", "alive"})
  PROVE  SessInv'
<1>1. SessionTypes'
  BY DEF SessInv, SessionTypes
<1>2. OneExchange'
  BY DEF SessInv, OneExchange, Asks, Answers, Session!Waiting, Asking, Answering
<1>3. AnswerIsTrue'
  BY DEF SessInv, AnswerIsTrue, Taken, OneExchange, Asks, Answers, Session!Waiting, Asking, Answering
<1> QED
  BY <1>1, <1>2, <1>3 DEF SessInv, Fresh, Halves, Session!PublishTrusted,
       Session!IsInjective, Session!ToSet

\* At rest nothing that belongs to a command is on the connection.
LEMMA RestIsFree ==
  ASSUME SessInv, doing \notin Session!Waiting
  PROVE  /\ \A i \in 1 .. Len(up) : ~Asking(up[i])
         /\ \A i \in 1 .. Len(down) : ~Answering(down[i])
BY DEF SessInv, OneExchange, Asks, Answers, Session!Waiting, Asking, Answering

LEMMA ConnectKeeps == SessInv /\ Session!Connect => SessInv'
<1> SUFFICES ASSUME SessInv, Session!Connect PROVE SessInv'
  OBVIOUS
<1>1. /\ down' = <<>> /\ received' = {} /\ outgoing' = {} /\ granted' = 3 /\ last_packet_id' = 1
      /\ UNCHANGED <<stored, confirmed, counts>>
  BY DEF Session!Connect, Session!NoQos
<1>2. CASE up' = <<>> /\ doing' = "rest"
  <2>1. SessionTypes'
    BY <1>1, <1>2 DEF SessInv, SessionTypes
  <2> QED
    BY <1>1, <1>2, <2>1, EmptyKeeps
<1>3. CASE up' = <<Session!Packet("CONNECT", 0)>> /\ doing' = "CONNACK"
  <2>1. PICK p \in PacketSet : p = Session!Packet("CONNECT", 0)
    <3>1. Session!Packet("CONNECT", 0) \in PacketSet
      BY DEF PacketSet, Session!Packet
    <3> QED
      BY <3>1
  <2>2. p.type = "CONNECT" /\ Asking(p) /\ Asks(p, "CONNACK")
    BY <2>1 DEF Session!Packet, Asking, Asks
  <2>3. up' = <<p>> /\ up' \in Seq(PacketSet) /\ \A i \in 1 .. Len(up') : i = 1 /\ up'[i] = p
    BY <1>3, <2>1
  <2>4. SessionTypes'
    BY <1>1, <1>3, <2>3 DEF SessInv, SessionTypes, Session!Waiting
  <2>5. OneExchange'
    BY <1>1, <1>3, <2>2, <2>3 DEF OneExchange
  <2>6. AnswerIsTrue' /\ Fresh' /\ Halves'
    BY <1>1, <2>2, <2>3 DEF SessInv, AnswerIsTrue, Fresh, Halves, Session!ToSet
  <2> QED
    BY <1>1, <2>4, <2>5, <2>6 DEF SessInv, Session!PublishTrusted, Session!IsInjective, Session!ToSet
<1> QED
  BY <1>2, <1>3 DEF Session!Connect

\* A command, or a publish without an answer, goes out at rest.
LEMMA CommandKeeps ==
  ASSUME SessInv, doing \notin Session!Waiting, NEW p \in PacketSet, up' = up \o <<p>>,
         UNCHANGED <<down, stored, received, outgoing, granted, confirmed>>,
         SessionTypes',
         Asking(p) => Asks(p, doing') /\ p.type # "PUBREL",
         \/ p.type # "PUBLISH" /\ counts' = counts
         \/ /\ p.type = "PUBLISH" /\ counts' = [counts EXCEPT ![1] = @ + 1] /\ p.msg = counts[1] + 1
            /\ p.qos # 0 => needed' = p.msg
  PROVE  SessInv'
<1>1. /\ Len(up) + 1 \in 1 .. Len(up') /\ up'[Len(up) + 1] = p
      /\ \A i \in 1 .. Len(up') : i = Len(up) + 1 \/ (i \in 1 .. Len(up) /\ up'[i] = up[i])
      /\ \A i \in 1 .. Len(up) : i \in 1 .. Len(up') /\ up'[i] = up[i]
  BY Adding, SMTT(30) DEF SessInv, SessionTypes
<1>2. /\ \A i \in 1 .. Len(up) : ~Asking(up[i])
      /\ \A i \in 1 .. Len(down) : ~Answering(down[i])
  BY RestIsFree
<1>3. OneExchange'
  BY <1>1, <1>2 DEF OneExchange
<1>4. AnswerIsTrue'
  BY <1>1, <1>2 DEF AnswerIsTrue, Asking
<1>5. Halves'
  BY <1>1 DEF SessInv, Halves
<1>6. Fresh'
  <2>1. counts[1] \in Nat /\ counts'[1] \in Nat /\ counts[1] <= counts'[1] 
    BY SMTT(30) DEF SessInv, SessionTypes
  <2>2. p.type = "PUBLISH" => p.msg = counts[1] + 1 /\ counts'[1] = counts[1] + 1
    BY DEF SessInv, SessionTypes
  <2>3. p.msg \in Nat /\ (\A i \in 1 .. Len(up) : up[i].msg \in Nat) /\ Session!ToSet(stored) \subseteq Nat
    <3>1. up \in Seq(PacketSet) /\ \A q \in PacketSet : q.msg \in Nat
      BY DEF SessInv, SessionTypes, PacketSet
    <3>2. \A i \in 1 .. Len(up) : up[i] \in PacketSet
      BY <3>1
    <3>3. stored \in Seq(Nat)
      BY DEF SessInv, SessionTypes
    <3>4. \A i \in DOMAIN stored : stored[i] \in Nat
      BY <3>3
    <3> QED
      BY <3>1, <3>2, <3>4 DEF Session!ToSet
  <2>4. \A m \in Session!ToSet(stored') : m <= counts'[1]
    BY <2>1, <2>3 DEF SessInv, Fresh
  <2>5. ASSUME NEW i \in 1 .. Len(up'), up'[i].type = "PUBLISH"
        PROVE  /\ up'[i].msg \notin Session!ToSet(stored') /\ up'[i].msg <= counts'[1]
               /\ \A j \in 1 .. Len(up') : up'[j].type = "PUBLISH" /\ up'[j].msg = up'[i].msg => i = j
    <3>1. CASE i = Len(up) + 1
      <4>1. up'[i].msg = counts[1] + 1 /\ counts'[1] = counts[1] + 1
        BY <1>1, <2>2, <2>5, <3>1
      <4>2. \A j \in 1 .. Len(up) : up[j].type = "PUBLISH" => up[j].msg <= counts[1]
        BY DEF SessInv, Fresh
      <4>3. \A m \in Session!ToSet(stored) : m <= counts[1]
        BY DEF SessInv, Fresh
      <4> QED
        BY <1>1, <2>1, <2>3, <3>1, <4>1, <4>2, <4>3
    <3>2. CASE i \in 1 .. Len(up) /\ up'[i] = up[i]
      <4>1. /\ up[i].msg \notin Session!ToSet(stored) /\ up[i].msg <= counts[1]
            /\ \A j \in 1 .. Len(up) : up[j].type = "PUBLISH" /\ up[j].msg = up[i].msg => i = j
        BY <2>5, <3>2 DEF SessInv, Fresh
      <4>2. up[i].msg \in Nat
        BY <2>3, <3>2
      <4> QED
        BY <1>1, <2>1, <2>2, <3>2, <4>1, <4>2, SMTT(30)
    <3> QED
      BY <1>1, <3>1, <3>2
  <2> QED
    BY <2>4, <2>5 DEF Fresh
<1> QED
  BY <1>3, <1>4, <1>5, <1>6 DEF SessInv, Session!PublishTrusted, Session!IsInjective, Session!ToSet

LEMMA NextIdIs == SessInv => Session!NextId \in Nat
BY DEF SessInv, SessionTypes, Session!NextId

LEMMA SubscribeKeeps == SessInv /\ Session!Subscribe => SessInv'
<1> SUFFICES ASSUME SessInv, Session!Subscribe PROVE SessInv'
  OBVIOUS
<1>1. PICK p \in PacketSet, command \in {"SUBACK", "UNSUBACK"} :
        /\ up' = up \o <<p>> /\ doing' = command /\ Asks(p, command)
        /\ p.type \in {"SUBSCRIBE", "UNSUBSCRIBE"}
  <2>1. CASE \E qos \in Session!Qos :
               /\ Session!Await("SUBACK", Session!NextId)
               /\ Session!Send(<<[Session!Packet("SUBSCRIBE", Session!NextId) EXCEPT !.qos = qos]>>)
    <3>1. PICK qos \in 0 .. 2 :
             /\ up' = up \o <<[Session!Packet("SUBSCRIBE", Session!NextId) EXCEPT !.qos = qos]>>
             /\ doing' = "SUBACK"
      BY <2>1 DEF Session!Qos, Session!Await, Session!Send
    <3>2. PICK p : p = [Session!Packet("SUBSCRIBE", Session!NextId) EXCEPT !.qos = qos]
      OBVIOUS
    <3>3. p \in PacketSet /\ p.type = "SUBSCRIBE"
      BY <3>2, NextIdIs DEF PacketSet, Session!Packet
    <3> QED
      BY <3>1, <3>2, <3>3 DEF Asks
  <2>2. CASE /\ Session!Await("UNSUBACK", Session!NextId)
             /\ Session!Send(<<Session!Packet("UNSUBSCRIBE", Session!NextId)>>)
    <3>1. PICK p : p = Session!Packet("UNSUBSCRIBE", Session!NextId)
      OBVIOUS
    <3>2. p \in PacketSet /\ p.type = "UNSUBSCRIBE"
      BY <3>1, NextIdIs DEF PacketSet, Session!Packet
    <3> QED
      BY <2>2, <3>1, <3>2 DEF Asks, Session!Await, Session!Send
  <2> QED
    BY <2>1, <2>2 DEF Session!Subscribe
<1>2. /\ doing = "rest" /\ last_packet_id' = Session!NextId
      /\ UNCHANGED <<down, stored, received, outgoing, granted, confirmed, counts>>
  BY DEF Session!Subscribe, Session!brokerVars
<1>3. SessionTypes'
  BY <1>1, <1>2, NextIdIs, Adding DEF SessInv, SessionTypes, Session!Waiting
<1>4. doing \notin Session!Waiting
  BY <1>2 DEF Session!Waiting
<1> QED
  BY <1>1, <1>2, <1>3, <1>4, CommandKeeps

\* A packet of its own, or one with a number.
LEMMA IsPacket ==
  ASSUME NEW n \in Nat
  PROVE  /\ \A k \in Session!Waiting \cup {"CONNECT", "SUBSCRIBE", "UNSUBSCRIBE", "PUBLISH", "PUBREC",
                                           "PUBREL", "PINGREQ", "PINGRESP"} :
              Session!Packet(k, n) \in PacketSet /\ Session!Packet(k, n).type = k
                /\ Session!Packet(k, n).id = n /\ Session!Packet(k, n).qos = 0
         /\ \A q \in 0 .. 3, m \in Nat :
              /\ Session!Message(q, n, m) \in PacketSet /\ Session!Message(q, n, m).type = "PUBLISH"
              /\ Session!Message(q, n, m).qos = q /\ Session!Message(q, n, m).msg = m
              /\ Session!Message(q, n, m).id = n
BY DEF PacketSet, Session!Packet, Session!Message

LEMMA PublishKeeps == SessInv /\ Session!Publish => SessInv'
<1> SUFFICES ASSUME SessInv, Session!Publish PROVE SessInv'
  OBVIOUS
<1>1. /\ doing = "rest" /\ counts' = [counts EXCEPT ![1] = @ + 1]
      /\ UNCHANGED <<down, stored, received, outgoing, granted, confirmed>>
  BY DEF Session!Publish, Session!brokerVars
<1>2. counts \in Nat \X Nat /\ counts[1] + 1 \in Nat /\ counts' \in Nat \X Nat
  BY <1>1 DEF SessInv, SessionTypes
<1>3. PICK m \in Nat : m = counts[1] + 1
  BY <1>2
<1>4. doing \notin Session!Waiting
  BY <1>1 DEF Session!Waiting
<1>5. CASE /\ Session!Send(<<Session!Message(0, 0, counts[1] + 1)>>)
           /\ UNCHANGED <<doing, needed, last_packet_id>>
  <2>1. PICK p : p = Session!Message(0, 0, m)
    OBVIOUS
  <2>2. p \in PacketSet /\ p.type = "PUBLISH" /\ p.qos = 0 /\ p.msg = m
    BY <2>1, IsPacket
  <2>3. up' = up \o <<p>>
    BY <1>3, <1>5, <2>1 DEF Session!Send
  <2>4. SessionTypes'
    BY <1>1, <1>2, <1>5, <2>2, <2>3, Adding DEF SessInv, SessionTypes
  <2>5. ~Asking(p)
    BY <2>2 DEF Asking
  <2> QED
    BY <1>1, <1>3, <1>4, <2>2, <2>3, <2>4, <2>5, CommandKeeps
<1>6. ASSUME NEW qos \in {1, 2}, last_packet_id' = Session!NextId,
             Session!Send(<<Session!Message(qos, Session!NextId, counts[1] + 1)>>),
             Session!Await((IF qos = 1 THEN "PUBACK" ELSE "PUBCOMP"), counts[1] + 1)
      PROVE  SessInv'
  <2>1. PICK p : p = Session!Message(qos, Session!NextId, m)
    OBVIOUS
  <2>2. p \in PacketSet /\ p.type = "PUBLISH" /\ p.qos = qos /\ p.msg = m
    BY <2>1, IsPacket, NextIdIs
  <2>3. /\ up' = up \o <<p>> /\ needed' = m
        /\ doing' = IF qos = 1 THEN "PUBACK" ELSE "PUBCOMP"
    BY <1>3, <1>6, <2>1 DEF Session!Send, Session!Await
  <2>4. SessionTypes'
    BY <1>1, <1>2, <1>6, <2>2, <2>3, NextIdIs, Adding DEF SessInv, SessionTypes, Session!Waiting
  <2>5. Asks(p, doing')
    BY <2>2, <2>3 DEF Asks
  <2> QED
    BY <1>1, <1>3, <1>4, <2>2, <2>3, <2>4, <2>5, CommandKeeps
<1> QED
  BY <1>5, <1>6 DEF Session!Publish

LEMMA KeepAliveKeeps == SessInv /\ Session!KeepAlive => SessInv'
<1> SUFFICES ASSUME SessInv, Session!KeepAlive, ~Session!Fail PROVE SessInv'
  BY FailKeeps
<1>1. /\ doing = "alive" /\ doing' = "rest"
      /\ UNCHANGED <<down, stored, received, outgoing, granted, confirmed, counts, needed, last_packet_id>>
      /\ up' = up \o (IF ping_due THEN <<Session!Packet("PINGREQ", 0)>> ELSE <<>>)
  BY DEF Session!KeepAlive, Session!Send, Session!brokerVars
<1>2. doing \notin Session!Waiting
  BY <1>1 DEF Session!Waiting
<1>3. CASE ping_due
  <2>1. PICK p : p = Session!Packet("PINGREQ", 0)
    OBVIOUS
  <2>2. p \in PacketSet /\ p.type = "PINGREQ"
    BY <2>1, IsPacket
  <2>3. up' = up \o <<p>>
    BY <1>1, <1>3, <2>1
  <2>4. SessionTypes'
    BY <1>1, <2>2, <2>3, Adding DEF SessInv, SessionTypes
  <2>5. ~Asking(p)
    BY <2>2 DEF Asking
  <2> QED
    BY <1>1, <1>2, <2>2, <2>3, <2>4, <2>5, CommandKeeps
<1>4. CASE ~ping_due
  <2>1. up' = up
    BY <1>1, <1>4, AddingNone DEF SessInv, SessionTypes
  <2> QED
    BY <1>1, <1>2, <2>1, ElsewhereKeeps
<1> QED
  BY <1>3, <1>4

\* The halves stay where the packets of handshakes stay.
LEMMA HalvesStay ==
  ASSUME SessInv, UNCHANGED <<up, received, outgoing>>,
         \A i \in 1 .. Len(down) :
           down[i].type \in {"PUBREC", "PUBREL"} \/ (down[i].type = "PUBLISH" /\ down[i].qos \in {1, 2})
             => \E k \in 1 .. Len(down') : down'[k] = down[i]
  PROVE  Halves'
<1>1. ASSUME NEW id \in received'
      PROVE  \/ \E i \in 1 .. Len(down') : down'[i].type = "PUBREC" /\ down'[i].id = id
             \/ \E i \in 1 .. Len(up') : up'[i].type = "PUBREL" /\ up'[i].id = id
  <2> SUFFICES ASSUME NEW i \in 1 .. Len(down), down[i].type = "PUBREC", down[i].id = id
               PROVE  \E k \in 1 .. Len(down') : down'[k].type = "PUBREC" /\ down'[k].id = id
    BY <1>1 DEF SessInv, Halves
  <2>1. PICK k \in 1 .. Len(down') : down'[k] = down[i]
    OBVIOUS
  <2> QED
    BY <2>1
<1>2. ASSUME NEW id \in outgoing'
      PROVE  \/ \E i \in 1 .. Len(down') :
                  /\ \/ down'[i].type = "PUBREL"
                     \/ down'[i].type = "PUBLISH" /\ down'[i].qos \in {1, 2}
                  /\ down'[i].id = id
             \/ \E i \in 1 .. Len(up') :
                  up'[i].type \in {"PUBACK", "PUBREC", "PUBCOMP"} /\ up'[i].id = id
  <2> SUFFICES ASSUME NEW i \in 1 .. Len(down), down[i].id = id,
                      down[i].type = "PUBREL" \/ (down[i].type = "PUBLISH" /\ down[i].qos \in {1, 2})
               PROVE  \E k \in 1 .. Len(down') :
                        /\ down'[k].type = "PUBREL" \/ (down'[k].type = "PUBLISH" /\ down'[k].qos \in {1, 2})
                        /\ down'[k].id = id
    BY <1>2 DEF SessInv, Halves
  <2>1. PICK k \in 1 .. Len(down') : down'[k] = down[i]
    OBVIOUS
  <2> QED
    BY <2>1
<1> QED
  BY <1>1, <1>2 DEF Halves

\* The packet a command waits for: the command is over.
LEMMA FinishKeeps == SessInv /\ down # <<>> /\ Session!Finish(Head(down)) => SessInv'
<1> SUFFICES ASSUME SessInv, down # <<>>, Session!Finish(Head(down)) PROVE SessInv'
  OBVIOUS
<1>1. down \in Seq(PacketSet)
  BY DEF SessInv, SessionTypes
<1>2. /\ Tail(down) \in Seq(PacketSet) /\ Head(down) \in PacketSet /\ Head(down) = down[1] /\ 1 \in 1 .. Len(down)
      /\ \A i \in 1 .. Len(Tail(down)) : i + 1 \in 1 .. Len(down) /\ Tail(down)[i] = down[i + 1]
      /\ \A i \in 1 .. Len(down) : i # 1 => i - 1 \in 1 .. Len(Tail(down)) /\ Tail(down)[i - 1] = down[i]
  BY <1>1, Taking
<1>3. CASE Head(down).qos = Session!NoQos
  <2>1. /\ up' = <<>> /\ down' = <<>> /\ received' = {} /\ outgoing' = {}
        /\ UNCHANGED <<stored, confirmed, counts, last_packet_id>> /\ doing' = "rest" /\ granted' = 3
    BY <1>3 DEF Session!Finish, Session!Close, Session!ConnectionEnds, Session!NoQos
  <2>2. SessionTypes'
    BY <2>1 DEF SessInv, SessionTypes
  <2> QED
    BY <2>1, <2>2, EmptyKeeps
<1>4. CASE Head(down).qos # Session!NoQos
  <2>1. /\ down[1].type = doing /\ doing' = "rest" /\ down' = Tail(down)
        /\ confirmed' = confirmed \cup (IF doing \in {"PUBACK", "PUBCOMP"} THEN {needed} ELSE {})
        /\ UNCHANGED <<up, stored, received, outgoing, granted, last_packet_id, counts>>
    BY <1>2, <1>4 DEF Session!Finish, Session!brokerVars
  <2>2. down[1].type \in Session!Waiting
    <3>1. doing \in Session!Waiting \cup {"rest", "yield", "alive"}
      BY DEF SessInv, SessionTypes
    <3>2. down[1].type \notin {"rest", "yield", "alive"}
      BY <1>2 DEF PacketSet, Session!Waiting
    <3> QED
      BY <2>1, <3>1, <3>2
  <2>3. Answering(down[1])
    BY <2>2 DEF Answering
  <2>4. /\ \A i \in 1 .. Len(up) : ~Asking(up[i])
        /\ \A i \in 1 .. Len(down) : Answering(down[i]) => i = 1
    BY <1>2, <2>3 DEF SessInv, OneExchange
  <2>5. OneExchange'
    BY <1>2, <2>1, <2>4 DEF OneExchange
  <2>6. AnswerIsTrue'
    BY <1>2, <2>1, <2>4 DEF AnswerIsTrue, Asking
  <2>7. Halves'
    <3>1. down[1].type \notin {"PUBREC", "PUBREL", "PUBLISH"}
      BY <2>2 DEF Session!Waiting
    <3>2. \A i \in 1 .. Len(down) : down[i].type \in {"PUBREC", "PUBREL", "PUBLISH"}
            => i - 1 \in 1 .. Len(down') /\ down'[i - 1] = down[i]
      BY <1>2, <2>1, <3>1
    <3>3. \A i \in 1 .. Len(down) : down[i].type \in {"PUBREC", "PUBREL", "PUBLISH"}
            => \E k \in 1 .. Len(down') : down'[k] = down[i]
      BY <3>2
    <3> QED
      BY <2>1, <3>3, HalvesStay
  <2>8. Session!PublishTrusted'
    <3>1. Taken
      BY <1>2, <2>3 DEF SessInv, AnswerIsTrue
    <3> QED
      BY <2>1, <3>1 DEF SessInv, Taken, Session!PublishTrusted, Session!IsInjective, Session!ToSet
  <2>9. SessionTypes'
    BY <1>2, <2>1 DEF SessInv, SessionTypes
  <2> QED
    BY <2>1, <2>5, <2>6, <2>7, <2>8, <2>9 DEF SessInv, Fresh, Session!ToSet
<1> QED
  BY <1>3, <1>4

\* What a packet that is handled is answered with.
LEMMA AnswerIs ==
  ASSUME NEW p \in PacketSet
  PROVE  \/ /\ Session!Answer(p) = <<>>
            /\ p.type \notin {"PUBREC", "PUBREL"} /\ ~(p.type = "PUBLISH" /\ p.qos \in {1, 2})
         \/ \E a \in PacketSet :
              /\ Session!Answer(p) = <<a>> /\ a.id = p.id
              /\ \/ p.type = "PUBLISH" /\ p.qos = 1 /\ a.type = "PUBACK"
                 \/ p.type = "PUBLISH" /\ p.qos = 2 /\ a.type = "PUBREC"
                 \/ p.type = "PUBREC" /\ a.type = "PUBREL"
                 \/ p.type = "PUBREL" /\ a.type = "PUBCOMP"
<1>1. p.id \in Nat
  BY DEF PacketSet
<1>2. CASE p.type = "PUBLISH" /\ p.qos = 1
  <2>1. Session!Answer(p) = <<Session!Packet("PUBACK", p.id)>>
    BY <1>2 DEF Session!Answer
  <2> QED
    BY <1>1, <1>2, <2>1, IsPacket DEF Session!Waiting
<1>3. CASE p.type = "PUBLISH" /\ p.qos = 2
  <2>1. Session!Answer(p) = <<Session!Packet("PUBREC", p.id)>>
    BY <1>3 DEF Session!Answer
  <2> QED
    BY <1>1, <1>3, <2>1, IsPacket
<1>4. CASE p.type = "PUBREC"
  <2>1. Session!Answer(p) = <<Session!Packet("PUBREL", p.id)>>
    BY <1>4 DEF Session!Answer
  <2> QED
    BY <1>1, <1>4, <2>1, IsPacket
<1>5. CASE p.type = "PUBREL"
  <2>1. Session!Answer(p) = <<Session!Packet("PUBCOMP", p.id)>>
    BY <1>5 DEF Session!Answer
  <2> QED
    BY <1>1, <1>5, <2>1, IsPacket DEF Session!Waiting
<1>6. CASE p.type \notin {"PUBREC", "PUBREL"} /\ ~(p.type = "PUBLISH" /\ p.qos \in {1, 2})
  BY <1>6 DEF Session!Answer
<1> QED
  BY <1>2, <1>3, <1>4, <1>5, <1>6

\* Another packet: its answer takes its place in every exchange.
LEMMA HandleKeeps == SessInv /\ down # <<>> /\ Session!Handle(Head(down)) => SessInv'
<1> SUFFICES ASSUME SessInv, down # <<>>, Session!Handle(Head(down)) PROVE SessInv'
  OBVIOUS
<1>1. down \in Seq(PacketSet) /\ up \in Seq(PacketSet)
  BY DEF SessInv, SessionTypes
<1>2. /\ Tail(down) \in Seq(PacketSet) /\ Head(down) \in PacketSet /\ Head(down) = down[1] /\ 1 \in 1 .. Len(down)
      /\ \A i \in 1 .. Len(Tail(down)) : i + 1 \in 1 .. Len(down) /\ Tail(down)[i] = down[i + 1]
      /\ \A i \in 1 .. Len(down) : i # 1 => i - 1 \in 1 .. Len(Tail(down)) /\ Tail(down)[i - 1] = down[i]
  BY <1>1, Taking
<1>3. PICK p \in PacketSet : p = Head(down) /\ p = down[1]
  BY <1>2
<1>4. /\ p.type # doing /\ down' = Tail(down) /\ up' = up \o Session!Answer(p)
      /\ UNCHANGED <<stored, received, outgoing, granted, confirmed, counts, needed, last_packet_id>>
      /\ doing' = IF doing = "yield" /\ available = 1 THEN "alive" ELSE doing
  BY <1>3 DEF Session!Handle, Session!Send, Session!brokerVars
<1>5. /\ doing \in Session!Waiting => doing' = doing
      /\ doing' \in Session!Waiting => doing' = doing
      /\ doing' \in Session!Waiting \cup {"rest", "yield", "alive"}
  BY <1>4 DEF Session!Waiting, SessInv, SessionTypes
<1>6. Answering(p) => p.type = "PUBREC" /\ doing = "PUBCOMP"
  BY <1>2, <1>3, <1>4 DEF SessInv, OneExchange, Answers
<1>7. CASE /\ Session!Answer(p) = <<>>
           /\ p.type \notin {"PUBREC", "PUBREL"} /\ ~(p.type = "PUBLISH" /\ p.qos \in {1, 2})
  <2>1. up' = up
    BY <1>1, <1>4, <1>7, AddingNone
  <2>2. SessionTypes'
    BY <1>2, <1>4, <1>5, <2>1 DEF SessInv, SessionTypes
  <2>3. OneExchange'
    BY <1>2, <1>4, <1>5, <2>1 DEF SessInv, OneExchange, Asks, Answers, Session!Waiting
  <2>4. AnswerIsTrue'
    BY <1>2, <1>4, <1>5, <2>1 DEF SessInv, AnswerIsTrue, Taken, Session!Waiting, Session!ToSet
  <2>5. Halves'
    <3>1. \A i \in 1 .. Len(down) :
            down[i].type \in {"PUBREC", "PUBREL"} \/ (down[i].type = "PUBLISH" /\ down[i].qos \in {1, 2})
              => i - 1 \in 1 .. Len(down') /\ down'[i - 1] = down[i]
      BY <1>2, <1>3, <1>4, <1>7
    <3>2. \A i \in 1 .. Len(down) :
            down[i].type \in {"PUBREC", "PUBREL"} \/ (down[i].type = "PUBLISH" /\ down[i].qos \in {1, 2})
              => \E k \in 1 .. Len(down') : down'[k] = down[i]
      BY <3>1
    <3> QED
      BY <1>4, <2>1, <3>2, HalvesStay
  <2>6. Fresh' /\ Session!PublishTrusted'
    BY <1>4, <2>1 DEF SessInv, Fresh, Session!PublishTrusted, Session!IsInjective, Session!ToSet
  <2> QED
    BY <2>2, <2>3, <2>4, <2>5, <2>6 DEF SessInv
<1>8. ASSUME NEW a \in PacketSet, Session!Answer(p) = <<a>>, a.id = p.id,
             \/ p.type = "PUBLISH" /\ p.qos = 1 /\ a.type = "PUBACK"
             \/ p.type = "PUBLISH" /\ p.qos = 2 /\ a.type = "PUBREC"
             \/ p.type = "PUBREC" /\ a.type = "PUBREL"
             \/ p.type = "PUBREL" /\ a.type = "PUBCOMP"
      PROVE  SessInv'
  <2>1. up' = up \o <<a>>
    BY <1>4, <1>8
  <2>2. /\ up' \in Seq(PacketSet)
        /\ Len(up) + 1 \in 1 .. Len(up') /\ up'[Len(up) + 1] = a
        /\ \A i \in 1 .. Len(up') : i = Len(up) + 1 \/ (i \in 1 .. Len(up) /\ up'[i] = up[i])
        /\ \A i \in 1 .. Len(up) : i \in 1 .. Len(up') /\ up'[i] = up[i]
    BY <1>1, <2>1, Adding
  <2>3. SessionTypes'
    BY <1>2, <1>4, <1>5, <2>2 DEF SessInv, SessionTypes
  <2>4. Asking(a) <=> p.type = "PUBREC"
    BY <1>8 DEF Asking
  <2>5. p.type = "PUBREC" => Answering(p) /\ a.type = "PUBREL" /\ Asks(a, doing) /\ doing' = doing
    BY <1>5, <1>6, <1>8 DEF Answering, Asks, Session!Waiting
  <2>6. Answering(p) => /\ p.type = "PUBREC" /\ \A i \in 1 .. Len(up) : ~Asking(up[i])
                        /\ \A i \in 1 .. Len(down') : ~Answering(down'[i])
    <3> SUFFICES ASSUME Answering(p)
                 PROVE  /\ p.type = "PUBREC" /\ \A i \in 1 .. Len(up) : ~Asking(up[i])
                        /\ \A i \in 1 .. Len(down') : ~Answering(down'[i])
      OBVIOUS
    <3>1. /\ \A i \in 1 .. Len(up) : ~Asking(up[i])
          /\ \A i \in 1 .. Len(down) : Answering(down[i]) => i = 1
      BY <1>2, <1>3 DEF SessInv, OneExchange
    <3>2. \A i \in 1 .. Len(down') : i \in Nat /\ i + 1 \in 1 .. Len(down) /\ down'[i] = down[i + 1] /\ i + 1 # 1
      BY <1>2, <1>4
    <3> QED
      BY <1>6, <3>1, <3>2
  <2>7. OneExchange'
    <3>1. CASE p.type = "PUBREC"
      BY <2>2, <2>4, <2>5, <2>6, <3>1 DEF OneExchange
    <3>2. CASE p.type # "PUBREC"
      <4>1. ~Asking(a) /\ ~Answering(p)
        BY <2>4, <2>6, <3>2
      <4>2. ASSUME NEW i \in 1 .. Len(up'), Asking(up'[i])
            PROVE  /\ Asks(up'[i], doing')
                   /\ \A j \in 1 .. Len(up') : Asking(up'[j]) => i = j
                   /\ \A j \in 1 .. Len(down') : ~Answering(down'[j])
        <5>1. i \in 1 .. Len(up) /\ up'[i] = up[i] /\ Asking(up[i])
          BY <2>2, <4>1, <4>2
        <5>2. /\ Asks(up[i], doing)
              /\ \A j \in 1 .. Len(up) : Asking(up[j]) => i = j
              /\ \A j \in 1 .. Len(down) : ~Answering(down[j])
          BY <5>1 DEF SessInv, OneExchange
        <5>3. doing' = doing
          BY <1>5, <5>2 DEF Asks, Session!Waiting
        <5> QED
          BY <1>2, <1>4, <2>2, <4>1, <5>1, <5>2, <5>3
      <4>3. ASSUME NEW i \in 1 .. Len(down'), Answering(down'[i])
            PROVE  /\ Answers(down'[i], doing')
                   /\ \A j \in 1 .. Len(down') : Answering(down'[j]) => i = j
        <5>1. i + 1 \in 1 .. Len(down) /\ down'[i] = down[i + 1] /\ i \in Nat
          BY <1>2, <1>4
        <5>2. /\ Answers(down[i + 1], doing)
              /\ \A j \in 1 .. Len(down) : Answering(down[j]) => i + 1 = j
          BY <4>3, <5>1 DEF SessInv, OneExchange
        <5>3. doing' = doing
          BY <1>5, <5>2 DEF Answers, Session!Waiting
        <5>4. \A j \in 1 .. Len(down') : j + 1 \in 1 .. Len(down) /\ down'[j] = down[j + 1] /\ j \in Nat
          BY <1>2, <1>4
        <5> QED
          BY <5>1, <5>2, <5>3, <5>4
      <4> QED
        BY <4>2, <4>3 DEF OneExchange
    <3> QED
      BY <3>1, <3>2
  <2>8. AnswerIsTrue'
    <3>1. CASE p.type = "PUBREC"
      <4>1. Taken /\ Taken'
        BY <1>2, <1>3, <1>4, <2>5, <3>1 DEF SessInv, AnswerIsTrue, Taken, Session!ToSet
      <4> QED
        BY <1>4, <1>8, <2>2, <3>1, <4>1 DEF SessInv, AnswerIsTrue
    <3>2. CASE p.type # "PUBREC"
      <4>1. a.type \notin {"PUBREL", "PUBLISH"}
        BY <1>8, <3>2
      <4>2. Taken => Taken'
        BY <1>4, <1>5 DEF Taken, Session!ToSet, Session!Waiting
      <4> QED
        BY <1>2, <1>4, <2>2, <4>1, <4>2 DEF SessInv, AnswerIsTrue
    <3> QED
      BY <3>1, <3>2
  <2>9. Halves'
    <3>1. \A i \in 1 .. Len(down) : i # 1 => i - 1 \in 1 .. Len(down') /\ down'[i - 1] = down[i]
      BY <1>2, <1>4
    <3>2. ASSUME NEW id \in received'
          PROVE  \/ \E i \in 1 .. Len(down') : down'[i].type = "PUBREC" /\ down'[i].id = id
                 \/ \E i \in 1 .. Len(up') : up'[i].type = "PUBREL" /\ up'[i].id = id
      <4>1. CASE \E i \in 1 .. Len(up) : up[i].type = "PUBREL" /\ up[i].id = id
        BY <2>2, <4>1
      <4>2. CASE \E i \in 1 .. Len(down) : down[i].type = "PUBREC" /\ down[i].id = id
        <5>1. PICK i \in 1 .. Len(down) : down[i].type = "PUBREC" /\ down[i].id = id
          BY <4>2
        <5>2. CASE i # 1
          BY <3>1, <5>1, <5>2
        <5>3. CASE i = 1
          BY <1>3, <1>8, <2>2, <5>1, <5>3
        <5> QED
          BY <5>2, <5>3
      <4> QED
        BY <1>4, <4>1, <4>2 DEF SessInv, Halves
    <3>3. ASSUME NEW id \in outgoing'
          PROVE  \/ \E i \in 1 .. Len(down') :
                      /\ \/ down'[i].type = "PUBREL"
                         \/ down'[i].type = "PUBLISH" /\ down'[i].qos \in {1, 2}
                      /\ down'[i].id = id
                 \/ \E i \in 1 .. Len(up') :
                      up'[i].type \in {"PUBACK", "PUBREC", "PUBCOMP"} /\ up'[i].id = id
      <4>1. CASE \E i \in 1 .. Len(up) : up[i].type \in {"PUBACK", "PUBREC", "PUBCOMP"} /\ up[i].id = id
        BY <2>2, <4>1
      <4>2. CASE \E i \in 1 .. Len(down) :
                   /\ down[i].type = "PUBREL" \/ (down[i].type = "PUBLISH" /\ down[i].qos \in {1, 2})
                   /\ down[i].id = id
        <5>1. PICK i \in 1 .. Len(down) :
                     /\ down[i].type = "PUBREL" \/ (down[i].type = "PUBLISH" /\ down[i].qos \in {1, 2})
                     /\ down[i].id = id
          BY <4>2
        <5>2. CASE i # 1
          BY <3>1, <5>1, <5>2
        <5>3. CASE i = 1
          <6>1. a.type \in {"PUBACK", "PUBREC", "PUBCOMP"} /\ a.id = id
            BY <1>3, <1>8, <5>1, <5>3
          <6> QED
            BY <2>2, <6>1
        <5> QED
          BY <5>2, <5>3
      <4> QED
        BY <1>4, <4>1, <4>2 DEF SessInv, Halves
    <3> QED
      BY <3>2, <3>3 DEF Halves
  <2>10. Fresh'
    <3>1. a.type # "PUBLISH"
      BY <1>8
    <3> QED
      BY <1>4, <2>2, <3>1, SMTT(30) DEF SessInv, Fresh
  <2> QED
    BY <1>4, <2>3, <2>7, <2>8, <2>9, <2>10 DEF SessInv, Session!PublishTrusted, Session!IsInjective, Session!ToSet
<1> QED
  BY <1>7, <1>8, AnswerIs

\* The broker takes p: what it answers takes p's place in every exchange.
AnsweredBy(p, r) ==
  /\ down' = down \o <<r>>
  /\ Answering(r) <=> Asking(p)
  /\ Asking(p) => Answers(r, doing)
  /\ p.type = "PUBREC" => r.type = "PUBREL" /\ r.id = p.id
  /\ \A id \in received' : id \in received \/ (r.type = "PUBREC" /\ r.id = id)
Unanswered(p) == down' = down /\ ~Asking(p) /\ p.type # "PUBREC" /\ received' \subseteq received

LEMMA BrokerKeeps ==
  ASSUME SessInv, up # <<>>, NEW p \in PacketSet, p = Head(up), up' = Tail(up),
         UNCHANGED <<doing, needed, counts, confirmed>>, SessionTypes',
         Unanswered(p) \/ \E r \in PacketSet : AnsweredBy(p, r),
         p.type = "PUBREL" => p.id \notin received',
         outgoing' \subseteq outgoing, p.type \in {"PUBACK", "PUBCOMP"} => p.id \notin outgoing',
         Asking(p) => Taken',
         \/ p.type # "PUBLISH" /\ stored' = stored
         \/ p.type = "PUBLISH" /\ stored' = Append(stored, p.msg)
  PROVE  SessInv'
<1>1. up \in Seq(PacketSet) /\ down \in Seq(PacketSet) /\ stored \in Seq(Nat)
  BY DEF SessInv, SessionTypes
<1>2. /\ p = up[1] /\ 1 \in 1 .. Len(up)
      /\ \A i \in 1 .. Len(up') : i \in Nat /\ i + 1 \in 1 .. Len(up) /\ up'[i] = up[i + 1]
      /\ \A i \in 1 .. Len(up) : i # 1 => i - 1 \in 1 .. Len(up') /\ up'[i - 1] = up[i]
  BY <1>1, Taking
<1>3. /\ \A i \in 1 .. Len(down) : i \in 1 .. Len(down') /\ down'[i] = down[i]
      /\ \A i \in 1 .. Len(down') :
           \/ i \in 1 .. Len(down) /\ down'[i] = down[i]
           \/ i = Len(down) + 1 /\ (Answering(down'[i]) => Asking(p) /\ Answers(down'[i], doing))
  <2>1. CASE Unanswered(p)
    BY <2>1 DEF Unanswered
  <2>2. ASSUME NEW r \in PacketSet, AnsweredBy(p, r)
        PROVE  /\ \A i \in 1 .. Len(down) : i \in 1 .. Len(down') /\ down'[i] = down[i]
               /\ \A i \in 1 .. Len(down') :
                    \/ i \in 1 .. Len(down) /\ down'[i] = down[i]
                    \/ i = Len(down) + 1 /\ down'[i] = r
    <3>1. down' = down \o <<r>>
      BY <2>2 DEF AnsweredBy
    <3> QED
      BY <1>1, <3>1, Adding, SMTT(30)
  <2> QED
    BY <2>1, <2>2 DEF AnsweredBy
<1>4. Asking(p) => /\ \A i \in 1 .. Len(up') : ~Asking(up'[i])
                   /\ \A i \in 1 .. Len(down) : ~Answering(down[i])
  <2> SUFFICES ASSUME Asking(p)
               PROVE  /\ \A i \in 1 .. Len(up') : ~Asking(up'[i])
                      /\ \A i \in 1 .. Len(down) : ~Answering(down[i])
    OBVIOUS
  <2>1. /\ \A j \in 1 .. Len(up) : Asking(up[j]) => 1 = j
        /\ \A j \in 1 .. Len(down) : ~Answering(down[j])
    BY <1>2 DEF SessInv, OneExchange
  <2>2. \A i \in 1 .. Len(up') : i + 1 # 1
    BY <1>2
  <2> QED
    BY <1>2, <2>1, <2>2
<1>5. OneExchange'
  <2>1. ASSUME NEW i \in 1 .. Len(up'), Asking(up'[i])
        PROVE  /\ Asks(up'[i], doing')
               /\ \A j \in 1 .. Len(up') : Asking(up'[j]) => i = j
               /\ \A j \in 1 .. Len(down') : ~Answering(down'[j])
    <3>1. ~Asking(p)
      BY <1>4, <2>1
    <3>2. /\ Asks(up[i + 1], doing)
          /\ \A j \in 1 .. Len(up) : Asking(up[j]) => i + 1 = j
          /\ \A j \in 1 .. Len(down) : ~Answering(down[j])
      BY <1>2, <2>1 DEF SessInv, OneExchange
    <3>3. \A j \in 1 .. Len(up') : Asking(up'[j]) => i + 1 = j + 1
      BY <1>2, <3>2
    <3> QED
      BY <1>2, <1>3, <3>1, <3>2, <3>3
  <2>2. ASSUME NEW i \in 1 .. Len(down'), Answering(down'[i])
        PROVE  /\ Answers(down'[i], doing')
               /\ \A j \in 1 .. Len(down') : Answering(down'[j]) => i = j
    <3>1. CASE i \in 1 .. Len(down) /\ down'[i] = down[i]
      <4>1. /\ Answers(down[i], doing)
            /\ \A j \in 1 .. Len(down) : Answering(down[j]) => i = j
        BY <2>2, <3>1 DEF SessInv, OneExchange
      <4>2. ~Asking(p)
        BY <1>4, <2>2, <3>1
      <4> QED
        BY <1>3, <3>1, <4>1, <4>2
    <3>2. CASE i = Len(down) + 1 /\ Asking(p) /\ Answers(down'[i], doing)
      BY <1>3, <1>4, <3>2
    <3> QED
      BY <1>3, <2>2, <3>1, <3>2
  <2> QED
    BY <2>1, <2>2 DEF OneExchange
<1>6. Session!ToSet(stored) \subseteq Session!ToSet(stored')
  <2>1. CASE stored' = stored
    BY <2>1, SMTT(30)
  <2>2. CASE stored' = Append(stored, p.msg)
    <3>1. \A i \in 1 .. Len(stored) : i \in 1 .. Len(stored') /\ stored'[i] = stored[i]
      BY <1>1, <2>2
    <3>2. DOMAIN stored = 1 .. Len(stored) /\ DOMAIN stored' = 1 .. Len(stored')
      BY <1>1, <2>2
    <3> QED
      BY <3>1, <3>2 DEF Session!ToSet
  <2> QED
    BY <2>1, <2>2
<1>7. AnswerIsTrue'
  <2>1. Taken => Taken'
    BY <1>6 DEF Taken
  <2>2. \A i \in 1 .. Len(down') : Answering(down'[i]) => Taken'
    BY <1>3, <2>1 DEF SessInv, AnswerIsTrue
  <2> QED
    BY <1>2, <2>1, <2>2 DEF SessInv, AnswerIsTrue
<1>8. Fresh' /\ Session!PublishTrusted'
  <2>1. \A i \in 1 .. Len(up') : up'[i].type = "PUBLISH" =>
          /\ up'[i].msg \notin Session!ToSet(stored) /\ up'[i].msg <= counts[1]
          /\ p.type = "PUBLISH" => up'[i].msg # p.msg
          /\ \A j \in 1 .. Len(up') : up'[j].type = "PUBLISH" /\ up'[j].msg = up'[i].msg => i = j
    <3> SUFFICES ASSUME NEW i \in 1 .. Len(up'), up'[i].type = "PUBLISH"
                 PROVE  /\ up'[i].msg \notin Session!ToSet(stored) /\ up'[i].msg <= counts[1]
                        /\ p.type = "PUBLISH" => up'[i].msg # p.msg
                        /\ \A j \in 1 .. Len(up') : up'[j].type = "PUBLISH" /\ up'[j].msg = up'[i].msg => i = j
      OBVIOUS
    <3>1. /\ up[i + 1].msg \notin Session!ToSet(stored) /\ up[i + 1].msg <= counts[1]
          /\ \A j \in 1 .. Len(up) : up[j].type = "PUBLISH" /\ up[j].msg = up[i + 1].msg => i + 1 = j
      BY <1>2 DEF SessInv, Fresh
    <3>2. i \in Nat /\ i + 1 # 1 /\ \A j \in 1 .. Len(up') : j \in Nat
      BY <1>2
    <3>3. \A j \in 1 .. Len(up') : up'[j].type = "PUBLISH" /\ up'[j].msg = up'[i].msg => i + 1 = j + 1
      BY <1>2, <3>1
    <3>4. \A j \in 1 .. Len(up') : up'[j].type = "PUBLISH" /\ up'[j].msg = up'[i].msg => i = j
      BY <3>2, <3>3
    <3> QED
      BY <1>2, <3>1, <3>2, <3>4
  <2>2. CASE stored' = stored /\ p.type # "PUBLISH"
    BY <2>1, <2>2 DEF SessInv, Fresh, Session!PublishTrusted, Session!IsInjective, Session!ToSet
  <2>3. CASE p.type = "PUBLISH" /\ stored' = Append(stored, p.msg)
    <3>1. /\ DOMAIN stored = 1 .. Len(stored) /\ DOMAIN stored' = 1 .. Len(stored')
          /\ Len(stored') = Len(stored) + 1 /\ Len(stored) \in Nat
          /\ \A i \in 1 .. Len(stored) : stored'[i] = stored[i]
          /\ stored'[Len(stored) + 1] = p.msg
      BY <1>1, <2>3, SMTT(30) DEF PacketSet
    <3>2. Session!ToSet(stored') = Session!ToSet(stored) \cup {p.msg}
      BY <3>1, SMTT(30) DEF Session!ToSet
    <3>3. p.msg \notin Session!ToSet(stored) /\ p.msg <= counts[1]
      BY <1>2, <2>3 DEF SessInv, Fresh
    <3>4. Fresh'
      BY <2>1, <2>3, <3>2, <3>3 DEF SessInv, Fresh
    <3>5. Session!IsInjective(stored')
      <4> SUFFICES ASSUME NEW i \in 1 .. Len(stored'), NEW j \in 1 .. Len(stored'), stored'[i] = stored'[j]
                   PROVE  i = j
        BY <3>1 DEF Session!IsInjective
      <4>1. \A k \in 1 .. Len(stored) : stored[k] # p.msg
        BY <3>1, <3>3 DEF Session!ToSet
      <4>2. \A a, b \in 1 .. Len(stored) : stored[a] = stored[b] => a = b
        BY <3>1 DEF SessInv, Session!PublishTrusted, Session!IsInjective
      <4> QED
        BY <3>1, <4>1, <4>2
    <3> QED
      BY <3>2, <3>4, <3>5 DEF SessInv, Session!PublishTrusted
  <2> QED
    BY <2>2, <2>3
<1>9. ASSUME NEW id \in received'
      PROVE  \/ \E i \in 1 .. Len(down') : down'[i].type = "PUBREC" /\ down'[i].id = id
             \/ \E i \in 1 .. Len(up') : up'[i].type = "PUBREL" /\ up'[i].id = id
  <2>1. CASE id \notin received
    <3>1. PICK r \in PacketSet : AnsweredBy(p, r) /\ r.type = "PUBREC" /\ r.id = id
      BY <1>9, <2>1 DEF Unanswered, AnsweredBy
    <3>2. Len(down) + 1 \in 1 .. Len(down') /\ down'[Len(down) + 1] = r
      BY <1>1, <3>1, Adding DEF AnsweredBy
    <3> QED
      BY <3>1, <3>2
  <2>2. CASE \E i \in 1 .. Len(down) : down[i].type = "PUBREC" /\ down[i].id = id
    BY <1>3, <2>2
  <2>3. CASE \E i \in 1 .. Len(up) : up[i].type = "PUBREL" /\ up[i].id = id
    <3>1. PICK i \in 1 .. Len(up) : up[i].type = "PUBREL" /\ up[i].id = id
      BY <2>3
    <3>2. i # 1
      BY <1>2, <1>9, <3>1
    <3> QED
      BY <1>2, <3>1, <3>2
  <2> QED
    BY <2>1, <2>2, <2>3 DEF SessInv, Halves
<1>10. ASSUME NEW id \in outgoing'
       PROVE  \/ \E i \in 1 .. Len(down') :
                   /\ \/ down'[i].type = "PUBREL"
                      \/ down'[i].type = "PUBLISH" /\ down'[i].qos \in {1, 2}
                   /\ down'[i].id = id
              \/ \E i \in 1 .. Len(up') :
                   up'[i].type \in {"PUBACK", "PUBREC", "PUBCOMP"} /\ up'[i].id = id
  <2>1. id \in outgoing
    BY <1>10
  <2>2. ASSUME NEW i \in 1 .. Len(down), down[i].id = id,
               down[i].type = "PUBREL" \/ (down[i].type = "PUBLISH" /\ down[i].qos \in {1, 2})
        PROVE  \E k \in 1 .. Len(down') :
                 /\ down'[k].type = "PUBREL" \/ (down'[k].type = "PUBLISH" /\ down'[k].qos \in {1, 2})
                 /\ down'[k].id = id
    <3>1. i \in 1 .. Len(down') /\ down'[i] = down[i]
      BY <1>3
    <3> QED
      BY <2>2, <3>1
  <2>3. ASSUME NEW i \in 1 .. Len(up), up[i].type \in {"PUBACK", "PUBREC", "PUBCOMP"}, up[i].id = id
        PROVE  \/ \E k \in 1 .. Len(down') : down'[k].type = "PUBREL" /\ down'[k].id = id
               \/ \E k \in 1 .. Len(up') :
                    up'[k].type \in {"PUBACK", "PUBREC", "PUBCOMP"} /\ up'[k].id = id
    <3>1. CASE i # 1
      <4>1. i - 1 \in 1 .. Len(up') /\ up'[i - 1] = up[i]
        BY <1>2, <3>1
      <4> QED
        BY <2>3, <4>1
    <3>2. CASE i = 1
      <4>1. p.type = "PUBREC" /\ p.id = id
        BY <1>2, <1>10, <2>3, <3>2
      <4>2. PICK r \in PacketSet : AnsweredBy(p, r) /\ r.type = "PUBREL" /\ r.id = id
        BY <4>1 DEF Unanswered, AnsweredBy
      <4>3. Len(down) + 1 \in 1 .. Len(down') /\ down'[Len(down) + 1] = r
        BY <1>1, <4>2, Adding DEF AnsweredBy
      <4> QED
        BY <4>2, <4>3
    <3> QED
      BY <3>1, <3>2
  <2> QED
    BY <2>1, <2>2, <2>3 DEF SessInv, Halves
<1> QED
  BY <1>5, <1>7, <1>8, <1>9, <1>10 DEF SessInv, Halves

LEMMA AppendIs == ASSUME NEW S, NEW s \in Seq(S), NEW e PROVE s \o <<e>> = Append(s, e)
OBVIOUS

LEMMA Replies ==
  ASSUME SessInv, NEW r \in PacketSet, Session!Reply(<<r>>)
  PROVE  down' = down \o <<r>> /\ down' \in Seq(PacketSet)
BY Adding DEF Session!Reply, SessInv, SessionTypes

LEMMA RepliesNot == SessInv /\ Session!Reply(<<>>) => down' = down
BY AddingNone DEF Session!Reply, SessInv, SessionTypes

LEMMA BrokerStepKeeps == SessInv /\ Session!BrokerStep => SessInv'
<1> SUFFICES ASSUME SessInv, Session!BrokerStep PROVE SessInv'
  OBVIOUS
<1>1. /\ up # <<>> /\ up' = Tail(up) /\ Session!BrokerTakes(Head(up))
      /\ UNCHANGED <<doing, needed, last_packet_id, confirmed, counts>>
  BY DEF Session!BrokerStep, Session!stateVars
<1>2. up \in Seq(PacketSet) /\ down \in Seq(PacketSet) /\ stored \in Seq(Nat) /\ granted \in 0 .. 3
  BY DEF SessInv, SessionTypes
<1>3. /\ Tail(up) \in Seq(PacketSet) /\ Head(up) \in PacketSet /\ Head(up) = up[1] /\ 1 \in 1 .. Len(up)
  BY <1>1, <1>2, Taking
<1>4. PICK p \in PacketSet : p = Head(up) /\ p = up[1]
  BY <1>3
<1>5. Session!BrokerTakes(p) /\ p.id \in Nat /\ p.qos \in 0 .. 3 /\ p.msg \in Nat
  BY <1>1, <1>4 DEF PacketSet
<1>6. Asking(p) => Asks(p, doing)
  BY <1>3, <1>4 DEF SessInv, OneExchange
<1>7. ASSUME granted' \in 0 .. 3, down' \in Seq(PacketSet), stored' \in Seq(Nat)
      PROVE  SessionTypes'
  BY <1>1, <1>3, <1>7 DEF SessInv, SessionTypes
<1>8. ASSUME NEW code \in 0 .. 3, NEW k \in {"CONNACK", "SUBACK", "UNSUBACK"},
             p.type = (CASE k = "CONNACK" -> "CONNECT" [] k = "SUBACK" -> "SUBSCRIBE"
                       [] OTHER -> "UNSUBSCRIBE"),
             NEW r, r.type = k, r \in PacketSet, Session!Reply(<<r>>), granted' \in 0 .. 3,
             UNCHANGED <<received, outgoing, stored>>
      PROVE  SessInv'
  <2>1. down' = down \o <<r>> /\ down' \in Seq(PacketSet)
    BY <1>8, Replies
  <2>2. Asking(p) /\ Answering(r) /\ p.type \in {"CONNECT", "SUBSCRIBE", "UNSUBSCRIBE"}
    BY <1>8 DEF Asking, Answering, Session!Waiting
  <2>3. doing = k /\ Answers(r, doing)
    BY <1>6, <1>8, <2>2 DEF Asks, Answers, Session!Waiting
  <2>4. Taken'
    BY <1>1, <2>3 DEF Taken
  <2>5. AnsweredBy(p, r)
    BY <1>8, <2>1, <2>2, <2>3 DEF AnsweredBy
  <2>6. SessionTypes'
    BY <1>2, <1>7, <1>8, <2>1
  <2> QED
    BY <1>1, <1>4, <1>8, <2>2, <2>4, <2>5, <2>6, BrokerKeeps
<1>9. CASE p.type = "CONNECT"
  <2>1. PICK code \in {0, 3} : Session!Reply(<<[Session!Packet("CONNACK", 0) EXCEPT !.qos = code]>>)
    BY <1>5, <1>9 DEF Session!BrokerTakes, Session!NoQos
  <2>2. PICK r : r = [Session!Packet("CONNACK", 0) EXCEPT !.qos = code]
    OBVIOUS
  <2>3. r \in PacketSet /\ r.type = "CONNACK"
    BY <2>2 DEF PacketSet, Session!Packet, Session!Waiting
  <2>4. UNCHANGED <<granted, received, outgoing, stored>>
    BY <1>5, <1>9 DEF Session!BrokerTakes
  <2> QED
    BY <1>2, <1>8, <1>9, <2>1, <2>2, <2>3, <2>4
<1>10. CASE p.type = "SUBSCRIBE"
  <2>1. PICK qos \in {p.qos, 3} :
          granted' = qos /\ Session!Reply(<<[Session!Packet("SUBACK", p.id) EXCEPT !.qos = qos]>>)
    BY <1>5, <1>10 DEF Session!BrokerTakes, Session!NoQos
  <2>2. PICK r : r = [Session!Packet("SUBACK", p.id) EXCEPT !.qos = qos]
    OBVIOUS
  <2>3. r \in PacketSet /\ r.type = "SUBACK"
    BY <1>5, <2>2 DEF PacketSet, Session!Packet, Session!Waiting
  <2>4. UNCHANGED <<received, outgoing, stored>> /\ granted' \in 0 .. 3
    BY <1>5, <1>10, <2>1 DEF Session!BrokerTakes
  <2> QED
    BY <1>8, <1>10, <2>1, <2>2, <2>3, <2>4
<1>11. CASE p.type = "UNSUBSCRIBE"
  <2>1. granted' = 3 /\ Session!Reply(<<Session!Packet("UNSUBACK", p.id)>>) /\ UNCHANGED <<received, outgoing, stored>>
    BY <1>5, <1>11 DEF Session!BrokerTakes, Session!NoQos
  <2>2. PICK r : r = Session!Packet("UNSUBACK", p.id)
    OBVIOUS
  <2>3. r \in PacketSet /\ r.type = "UNSUBACK"
    BY <1>5, <2>2, IsPacket, SMTT(30) DEF Session!Waiting
  <2> QED
    BY <1>8, <1>11, <2>1, <2>2, <2>3
<1>12. CASE p.type = "PUBLISH"
  <2>1. /\ stored' = IF p.qos = 2 /\ p.id \in received THEN stored ELSE Append(stored, p.msg)
        /\ received' = IF p.qos = 2 THEN received \cup {p.id} ELSE received
        /\ Session!Reply(IF p.qos = 0 THEN <<>>
             ELSE <<Session!Packet((IF p.qos = 1 THEN "PUBACK" ELSE "PUBREC"), p.id)>>)
        /\ UNCHANGED <<granted, outgoing>>
    BY <1>5, <1>12 DEF Session!BrokerTakes
  <2>2. p.qos # 0 => Asking(p) /\ Asks(p, doing) /\ p.msg = needed
    BY <1>3, <1>4, <1>6, <1>12 DEF Asking, SessInv, AnswerIsTrue
  <2>3. p.qos = 2 => received = {}
    <3> SUFFICES ASSUME p.qos = 2 PROVE received = {}
      OBVIOUS
    <3>1. \A i \in 1 .. Len(up) : Asking(up[i]) => i = 1
      BY <1>3, <1>4, <2>2 DEF SessInv, OneExchange
    <3>2. \A i \in 1 .. Len(down) : down[i].type # "PUBREC"
      BY <1>3, <1>4, <2>2 DEF SessInv, OneExchange, Answering
    <3>3. \A i \in 1 .. Len(up) : up[i].type # "PUBREL"
      BY <1>4, <1>12, <3>1 DEF Asking
    <3> QED
      BY <3>2, <3>3 DEF SessInv, Halves
  <2>4. stored' = Append(stored, p.msg) /\ stored' \in Seq(Nat)
    BY <1>2, <1>5, <2>1, <2>3
  <2>5. Asking(p) => Taken'
    <3>1. Asking(p) => p.msg = needed /\ p.qos # 0
      BY <1>12, <2>2 DEF Asking
    <3>2. /\ DOMAIN stored' = 1 .. Len(stored') /\ Len(stored) + 1 \in 1 .. Len(stored')
          /\ stored'[Len(stored) + 1] = p.msg
      BY <1>2, <1>5, <2>4
    <3>3. p.msg \in Session!ToSet(stored')
      BY <3>2 DEF Session!ToSet
    <3> QED
      BY <1>1, <3>1, <3>3 DEF Taken
  <2>6. CASE p.qos = 0
    <3>1. down' = down
      BY <2>1, <2>6, RepliesNot
    <3>2. Unanswered(p)
      BY <1>12, <2>1, <2>6, <3>1 DEF Unanswered, Asking
    <3>3. SessionTypes'
      BY <1>2, <1>7, <2>1, <2>4, <3>1
    <3> QED
      BY <1>1, <1>4, <1>12, <2>1, <2>4, <2>5, <3>2, <3>3, BrokerKeeps
  <2>7. CASE p.qos # 0
    <3>1. PICK r : r = Session!Packet((IF p.qos = 1 THEN "PUBACK" ELSE "PUBREC"), p.id)
      OBVIOUS
    <3>2. r \in PacketSet /\ r.type = (IF p.qos = 1 THEN "PUBACK" ELSE "PUBREC") /\ r.id = p.id
      BY <1>5, <3>1, IsPacket, SMTT(30) DEF Session!Waiting
    <3>3. down' = down \o <<r>> /\ down' \in Seq(PacketSet)
      BY <2>1, <2>7, <3>1, <3>2, Replies
    <3>4. Asking(p) /\ Answering(r) /\ Answers(r, doing)
      BY <1>12, <2>2, <2>7, <3>2 DEF Answering, Answers, Asks, Session!Waiting
    <3>5. \A id \in received' : id \in received \/ (r.type = "PUBREC" /\ r.id = id)
      BY <2>1, <3>2
    <3>6. AnsweredBy(p, r)
      BY <1>12, <3>3, <3>4, <3>5 DEF AnsweredBy
    <3>7. SessionTypes'
      BY <1>2, <1>7, <2>1, <2>4, <3>3
    <3> QED
      BY <1>1, <1>4, <1>12, <2>1, <2>4, <2>5, <3>2, <3>6, <3>7, BrokerKeeps
  <2> QED
    BY <2>6, <2>7
<1>13. CASE p.type = "PUBREL"
  <2>1. /\ received' = received \ {p.id} /\ Session!Reply(<<Session!Packet("PUBCOMP", p.id)>>)
        /\ UNCHANGED <<granted, outgoing, stored>>
    BY <1>5, <1>13 DEF Session!BrokerTakes
  <2>2. PICK r : r = Session!Packet("PUBCOMP", p.id)
    OBVIOUS
  <2>3. r \in PacketSet /\ r.type = "PUBCOMP"
    BY <1>5, <2>2, IsPacket, SMTT(30) DEF Session!Waiting
  <2>4. down' = down \o <<r>> /\ down' \in Seq(PacketSet)
    BY <2>1, <2>2, <2>3, Replies
  <2>5. Asking(p) /\ Answering(r) /\ Answers(r, doing)
    BY <1>6, <1>13, <2>3 DEF Asking, Asks, Answering, Answers, Session!Waiting
  <2>6. Taken'
    <3>1. Taken
      BY <1>3, <1>4, <1>13 DEF SessInv, AnswerIsTrue
    <3> QED
      BY <1>1, <2>1, <3>1 DEF Taken
  <2>7. AnsweredBy(p, r)
    BY <1>13, <2>1, <2>4, <2>5 DEF AnsweredBy
  <2>8. SessionTypes'
    BY <1>2, <1>7, <2>1, <2>4
  <2> QED
    BY <1>1, <1>4, <1>13, <2>1, <2>3, <2>6, <2>7, <2>8, BrokerKeeps
<1>14. ASSUME NEW r \in PacketSet, r.type \in {"PUBREL", "PINGRESP"}, Session!Reply(<<r>>), r.id \in Nat,
              \/ p.type = "PUBREC" /\ r.type = "PUBREL" /\ r.id = p.id
              \/ p.type = "PINGREQ",
              UNCHANGED <<granted, received, outgoing, stored>>
       PROVE  SessInv'
  <2>1. down' = down \o <<r>> /\ down' \in Seq(PacketSet)
    BY <1>14, Replies
  <2>2. ~Asking(p) /\ ~Answering(r) /\ p.type \notin {"PUBLISH", "PUBREL", "PUBACK", "PUBCOMP"}
    BY <1>14 DEF Asking, Answering, Session!Waiting
  <2>3. AnsweredBy(p, r)
    BY <1>14, <2>1, <2>2 DEF AnsweredBy
  <2>4. SessionTypes'
    BY <1>2, <1>7, <1>14, <2>1
  <2> QED
    BY <1>1, <1>4, <1>14, <2>2, <2>3, <2>4, BrokerKeeps
<1>15. CASE p.type = "PUBREC"
  <2>1. PICK r : r = Session!Packet("PUBREL", p.id)
    OBVIOUS
  <2>2. r \in PacketSet /\ r.type = "PUBREL" /\ r.id = p.id
    BY <1>5, <2>1, IsPacket
  <2>3. Session!Reply(<<r>>) /\ UNCHANGED <<granted, received, outgoing, stored>>
    BY <1>5, <1>15, <2>1 DEF Session!BrokerTakes
  <2> QED
    BY <1>5, <1>14, <1>15, <2>2, <2>3
<1>16. CASE p.type = "PINGREQ"
  <2>1. PICK r : r = Session!Packet("PINGRESP", 0)
    OBVIOUS
  <2>2. r \in PacketSet /\ r.type = "PINGRESP" /\ r.id = 0
    BY <2>1, IsPacket
  <2>3. Session!Reply(<<r>>) /\ UNCHANGED <<granted, received, outgoing, stored>>
    BY <1>5, <1>16, <2>1 DEF Session!BrokerTakes
  <2> QED
    BY <1>5, <1>14, <1>16, <2>2, <2>3
<1>17. CASE p.type \in {"PUBACK", "PUBCOMP"}
  <2>1. outgoing' = outgoing \ {p.id} /\ down' = down /\ UNCHANGED <<granted, received, stored>>
    BY <1>5, <1>17, RepliesNot DEF Session!BrokerTakes
  <2>2. ~Asking(p)
    BY <1>17 DEF Asking
  <2>3. Unanswered(p)
    BY <1>17, <2>1, <2>2 DEF Unanswered
  <2>4. SessionTypes'
    BY <1>2, <1>7, <2>1
  <2> QED
    BY <1>1, <1>4, <1>17, <2>1, <2>2, <2>3, <2>4, BrokerKeeps
<1> QED
  BY <1>5, <1>9, <1>10, <1>11, <1>12, <1>13, <1>15, <1>16, <1>17 DEF Session!BrokerTakes

\* A message of the broker begins a handshake of its own.
LEMMA BrokerPublishKeeps == SessInv /\ Session!BrokerPublishes => SessInv'
<1> SUFFICES ASSUME SessInv, Session!BrokerPublishes PROVE SessInv'
  OBVIOUS
<1>1. PICK id : id = (counts[2] % LastPacketId) + 1
  OBVIOUS
<1>2. PICK r : r = Session!Message(granted, (IF granted = 0 THEN 0 ELSE id), 0)
  OBVIOUS
<1>3. /\ granted \in 0 .. 2 /\ Session!Reply(<<r>>)
      /\ outgoing' = IF granted = 0 THEN outgoing ELSE outgoing \cup {id}
      /\ counts' = [counts EXCEPT ![2] = @ + 1]
      /\ UNCHANGED <<up, stored, received, granted, confirmed, doing, needed, last_packet_id>>
  BY <1>1, <1>2 DEF Session!BrokerPublishes, Session!stateVars, Session!NoQos, SessInv, SessionTypes
<1>4. counts' \in Nat \X Nat /\ counts'[1] = counts[1] /\ id \in Nat
  <2>1. counts \in Nat \X Nat
    BY DEF SessInv, SessionTypes
  <2>2. counts[2] \in Nat /\ counts[1] \in Nat
    BY <2>1
  <2> QED
    BY <1>1, <1>3, <2>1, <2>2, LastIdAssumption
<1>5. r \in PacketSet /\ r.type = "PUBLISH" /\ r.qos = granted /\ (granted # 0 => r.id = id)
  BY <1>2, <1>3, <1>4, IsPacket, SMTT(30)
<1>6. down' = down \o <<r>> /\ down' \in Seq(PacketSet)
  BY <1>3, <1>5, Replies
<1>7. /\ Len(down) + 1 \in 1 .. Len(down') /\ down'[Len(down) + 1] = r
      /\ \A i \in 1 .. Len(down') : i = Len(down) + 1 \/ (i \in 1 .. Len(down) /\ down'[i] = down[i])
      /\ \A i \in 1 .. Len(down) : i \in 1 .. Len(down') /\ down'[i] = down[i]
  BY <1>5, <1>6, Adding DEF SessInv, SessionTypes
<1>8. ~Answering(r)
  BY <1>5 DEF Answering, Session!Waiting
<1>9. SessionTypes'
  BY <1>3, <1>4, <1>6 DEF SessInv, SessionTypes
<1>10. OneExchange'
  BY <1>3, <1>7, <1>8 DEF SessInv, OneExchange
<1>11. AnswerIsTrue'
  BY <1>3, <1>7, <1>8 DEF SessInv, AnswerIsTrue, Taken
<1>12. Fresh' /\ Session!PublishTrusted'
  BY <1>3, <1>4 DEF SessInv, Fresh, Session!PublishTrusted, Session!IsInjective, Session!ToSet
<1>13. ASSUME NEW x \in received'
       PROVE  \/ \E i \in 1 .. Len(down') : down'[i].type = "PUBREC" /\ down'[i].id = x
              \/ \E i \in 1 .. Len(up') : up'[i].type = "PUBREL" /\ up'[i].id = x
  BY <1>3, <1>7 DEF SessInv, Halves
<1>14. ASSUME NEW x \in outgoing'
       PROVE  \/ \E i \in 1 .. Len(down') :
                   /\ \/ down'[i].type = "PUBREL"
                      \/ down'[i].type = "PUBLISH" /\ down'[i].qos \in {1, 2}
                   /\ down'[i].id = x
              \/ \E i \in 1 .. Len(up') :
                   up'[i].type \in {"PUBACK", "PUBREC", "PUBCOMP"} /\ up'[i].id = x
  <2>1. CASE x \in outgoing
    BY <1>3, <1>7, <2>1 DEF SessInv, Halves
  <2>2. CASE x \notin outgoing
    <3>1. granted \in {1, 2} /\ x = id
      BY <1>3, <1>14, <2>2
    <3>2. r.type = "PUBLISH" /\ r.qos \in {1, 2} /\ r.id = x
      BY <1>5, <3>1
    <3> QED
      BY <1>7, <3>2
  <2> QED
    BY <2>1, <2>2
<1> QED
  BY <1>9, <1>10, <1>11, <1>12, <1>13, <1>14 DEF SessInv, Halves

LEMMA SessionKeepsInv == SessInv /\ Session!SessionNext => SessInv'
<1> SUFFICES ASSUME SessInv, Session!SessionNext PROVE SessInv'
  OBVIOUS
<1>1. CASE Session!Disconnect
  BY <1>1, FailKeeps DEF Session!Disconnect
<1>2. CASE Session!Service
  <2>1. /\ doing = "rest" /\ doing' \in {"yield", "alive"}
        /\ UNCHANGED <<up, down, stored, received, outgoing, granted, confirmed, counts, needed, last_packet_id>>
    BY <1>2 DEF Session!Service, Session!wireVars, Session!brokerVars
  <2> QED
    BY <2>1, ElsewhereKeeps DEF Session!Waiting
<1>3. CASE Session!Read
  BY <1>3, FinishKeeps, HandleKeeps DEF Session!Read
<1>4. CASE Session!TimedOut
  <2>1. CASE Session!Fail
    BY <2>1, FailKeeps
  <2>2. CASE ~Session!Fail
    <3>1. /\ doing = "yield" /\ doing' = "alive"
          /\ UNCHANGED <<up, down, stored, received, outgoing, granted, confirmed, counts, needed, last_packet_id>>
      BY <1>4, <2>2 DEF Session!TimedOut, Session!wireVars, Session!brokerVars
    <3> QED
      BY <3>1, ElsewhereKeeps DEF Session!Waiting
  <2> QED
    BY <2>1, <2>2
<1>5. CASE Session!PingDue \/ Session!GoesMute
  <2>1. UNCHANGED <<up, down, stored, received, outgoing, granted, confirmed, counts, needed, last_packet_id, doing>>
    BY <1>5 DEF Session!PingDue, Session!GoesMute, Session!wireVars, Session!brokerVars, Session!stateVars
  <2> QED
    BY <2>1, ElsewhereKeeps
<1>6. CASE Session!Breaks
  <2>1. /\ up' = <<>> /\ down' = <<>> /\ received' = {} /\ outgoing' = {} /\ granted' = 3
        /\ UNCHANGED <<stored, confirmed, counts, last_packet_id, doing>>
    BY <1>6 DEF Session!Breaks, Session!ConnectionEnds, Session!NoQos
  <2>2. SessionTypes'
    BY <2>1 DEF SessInv, SessionTypes
  <2> QED
    BY <2>1, <2>2, EmptyKeeps
<1> QED
  BY <1>1, <1>2, <1>3, <1>4, <1>5, <1>6, ConnectKeeps, SubscribeKeeps, PublishKeeps, KeepAliveKeeps,
     BrokerStepKeeps, BrokerPublishKeeps
     DEF Session!SessionNext, Session!Library, Session!SessionWorld

\* In a quiet line no half of a handshake has a place.
LEMMA QuietIsSettled == SessInv => Session!MqttExchangesSound
<1> SUFFICES ASSUME SessInv PROVE Session!MqttExchangesSound
  OBVIOUS
<1>1. Session!QuietMeansSettled
  <2> SUFFICES ASSUME up = <<>>, down = <<>> PROVE received = {} /\ outgoing = {}
    BY DEF Session!QuietMeansSettled
  <2>1. 1 .. Len(up) = {} /\ 1 .. Len(down) = {}
    OBVIOUS
  <2> QED
    BY <2>1 DEF SessInv, Halves
<1> QED
  BY <1>1 DEF SessInv, Session!MqttExchangesSound

(* For any numbers of packets and messages, whatever the broker and the    *)
(* connection do: a publish that returned true was taken by the broker,    *)
(* none was taken twice, and a quiet open session has no handshake half    *)
(* done, in either direction (lwmqtt/client.c).                            *)
THEOREM ExchangesAreSound == QueuesSpec => []MqttExchangesSound
<1>1. QueuesInit => SessInv
  BY SessionStart DEF QueuesInit
<1>2. SessInv /\ [QueuesNext]_<<part, vars, tcpVars, connVars, nodeVars, sessionVars, packetVars>>
        => SessInv'
  <2> SUFFICES ASSUME SessInv,
                      [QueuesNext]_<<part, vars, tcpVars, connVars, nodeVars, sessionVars, packetVars>>
               PROVE  SessInv'
    OBVIOUS
  <2>1. Session!SessionNext \/ UNCHANGED sessionVars
    BY DEF QueuesNext
  <2>2. ASSUME UNCHANGED sessionVars PROVE SessInv'
    <3>1. /\ doing' = doing
          /\ UNCHANGED <<up, down, stored, received, outgoing, granted, confirmed, counts, needed,
                         last_packet_id>>
      BY <2>2 DEF sessionVars
    <3> QED
      BY <3>1, ElsewhereKeeps
  <2> QED
    BY <2>1, <2>2, SessionKeepsInv
<1>3. SessInv => MqttExchangesSound
  BY QuietIsSettled DEF MqttExchangesSound
<1> QED
  BY <1>1, <1>2, <1>3, PTL DEF QueuesSpec
=============================================================================

---------------------------- MODULE NodeClients -----------------------------
(***************************************************************************)
(* The two clients the node runs in one loop(): the MQTT client and the    *)
(* connection to another node.  They look at the same get_connected(),     *)
(* which network.update changes once a pass, and take turns; callbacks of  *)
(* the TCP library come between any two of their steps.                    *)
(***************************************************************************)
EXTENDS MqttClient

VARIABLES
  turn,             \* what loop() runs: "mqtt", "systems" or "io"
  connected, connecting, cur_client, peer_at,
  pcb, attempt, event, clearing, close_request, peer_lost

peerVars == <<connected, connecting, cur_client, peer_at,
              pcb, attempt, event, clearing, close_request, peer_lost>>
nodeVars == <<mqttVars, turn, peerVars>>

P == INSTANCE Peer WITH at <- peer_at, lost <- peer_lost

NodeInit == MqttInit /\ P!Init /\ turn = "mqtt"

\* network.update and mqtt.update.
MqttTurn ==
  /\ turn = "mqtt" /\ at # "io"
  /\ MqttLoop
  /\ turn' = IF at' = "io" THEN "systems" ELSE "mqtt"
  /\ UNCHANGED peerVars

\* systems.update, when 100 ms have passed ...
CheckConnection ==
  /\ turn = "systems"
  /\ P!Loop
  /\ turn' = IF peer_at' = "rest" THEN "io" ELSE "systems"
  /\ UNCHANGED mqttVars

\* ... or when they have not, or there is nothing to do.
NotDue ==
  /\ turn = "systems" /\ peer_at = "rest"
  /\ turn' = "io"
  /\ UNCHANGED <<mqttVars, peerVars>>

IoTurn ==
  /\ turn = "io"
  /\ IoUpdate
  /\ turn' = "mqtt"
  /\ UNCHANGED peerVars

NodeLoop == MqttTurn \/ CheckConnection \/ NotDue \/ IoTurn

\* The library's task and the other ends of the connections.
Library ==
  /\ \/ P!Callbacks \/ P!Established \/ P!Refused
     \/ P!Reset \/ P!PeerCloses \/ P!RxTimeout \/ P!AckTimeout
  /\ UNCHANGED <<mqttVars, turn>>

\* The steps of the library that it does not put off for ever.
ErrorHandled == Library /\ P!HandleError
FinHandled == Library /\ P!HandleFin
PollHandled == Library /\ P!PollCloses
ClearHandled == Library /\ P!HandleClear
AttemptEnds == Library /\ (P!Established \/ P!Refused)

World ==
  /\ SessionEnds \/ (turn = "io" /\ InputChanges)
  /\ UNCHANGED <<turn, peerVars>>

NodeNext == NodeLoop \/ Library \/ World

NodeSpec == NodeInit /\ [][NodeNext]_nodeVars

\* loop() runs forever and finds the 100 ms passed again and again; the
\* library's fairness is Peer's.
FairNodeSpec ==
  /\ NodeSpec
  /\ WF_nodeVars(NodeLoop) /\ SF_nodeVars(CheckConnection)
  /\ WF_nodeVars(ErrorHandled) /\ WF_nodeVars(FinHandled) /\ WF_nodeVars(PollHandled)
  /\ WF_nodeVars(ClearHandled) /\ WF_nodeVars(AttemptEnds)

-----------------------------------------------------------------------------
(* Types of both clients; the peer's check runs only in its turn.          *)
NodeTypeOK ==
  /\ MqttTypeOK /\ P!TypeOK
  /\ turn \in {"mqtt", "systems", "io"}
  /\ (turn = "mqtt") = (at # "io")
  /\ peer_at # "rest" => turn = "systems"

(* The properties of Peer, now with the network state changing only        *)
(* between two passes: what http_request writes to is held, and attempts   *)
(* do not overlap.                                                         *)
PeerConnectionSound == P!ConnectedIsHeld /\ P!OneAttempt

=============================================================================

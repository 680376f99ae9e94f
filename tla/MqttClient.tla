----------------------------- MODULE MqttClient -----------------------------
(***************************************************************************)
(* The MQTT client of the node, one pass of loop() a round: network.update *)
(* (here only what it does to get_connected(), see Network), mqtt.update,  *)
(* and io.update with one input that publishes.  The client library and    *)
(* the broker are external; a session is clean, so it starts with no       *)
(* subscription, and the broker retains the last value published.          *)
(***************************************************************************)
EXTENDS Integers

VARIABLES
  network,                \* network.get_connected()
  last_net_connected, last_client_connected,
  at,                     \* where the loop is
  client,                 \* client.connected()
  subscribed,             \* the session's subscription, at the broker
  replaced,               \* the session was opened while last_client_connected
  state, state_changed,   \* the input
  retained                \* its value, at the broker

lasts == <<last_net_connected, last_client_connected>>
input == <<state, state_changed>>
session == <<client, subscribed, replaced>>
mqttVars == <<network, lasts, at, session, input, retained>>

Bits == 0 .. 1

MqttTypeOK ==
  /\ {network, last_net_connected, last_client_connected} \subseteq BOOLEAN
  /\ {client, subscribed, replaced, state_changed} \subseteq BOOLEAN
  /\ at \in {"network", "mqtt", "client", "stored", "service", "io"}
  /\ state \in Bits /\ retained \in Bits
  /\ subscribed \/ replaced => client     \* both are a session's

MqttInit ==
  /\ network = FALSE /\ last_net_connected = FALSE
  /\ last_client_connected = FALSE
  /\ at = "network" /\ client = FALSE /\ subscribed = FALSE /\ replaced = FALSE
  /\ state = 0 /\ state_changed = FALSE /\ retained \in Bits

SessionOver == client' = FALSE /\ subscribed' = FALSE /\ replaced' = FALSE

\* Publishing with QoS 2: refused when not connected; else the broker has the
\* value, or the acknowledgement fails and the library closes the session,
\* whether or not the broker got the value.
Publish ==
  \/ ~client /\ UNCHANGED <<session, retained>>
  \/ client /\ network /\ retained' = state /\ UNCHANGED session
  \/ /\ client /\ SessionOver
     /\ retained' \in IF network THEN {retained, state} ELSE {retained}

-----------------------------------------------------------------------------
(* The loop.                                                               *)

\* network.update.
NetworkUpdate ==
  /\ at = "network" /\ at' = "mqtt"
  /\ network' \in BOOLEAN
  /\ UNCHANGED <<lasts, session, input, retained>>

\* connect() closes a session that is still open and starts a clean one, if
\* the broker takes it.
NewSession ==
  /\ client' \in BOOLEAN /\ subscribed' = FALSE
  /\ replaced' = (client' /\ last_client_connected)

\* The first half of NMQTT::update.
NetworkEdge ==
  /\ at = "mqtt" /\ at' = "client"
  /\ last_net_connected' = network
  /\ IF network /\ ~last_net_connected
     THEN NewSession
     ELSE UNCHANGED session
  /\ UNCHANGED <<network, last_client_connected, input, retained>>

\* The second half stores the new state, and then tests it once more.
ClientEdge ==
  /\ at = "client"
  /\ IF client # last_client_connected
     THEN at' = "stored" /\ last_client_connected' = client
     ELSE at' = "service" /\ UNCHANGED last_client_connected
  /\ UNCHANGED <<network, last_net_connected, session, input, retained>>

\* Faulty variants of NewConnection: the subscription is taken to outlive the
\* session, ...
NewConnectionDeaf ==
  /\ at = "stored" /\ at' = "service"
  /\ \/ ~client /\ UNCHANGED <<session, retained>>
     \/ client /\ network /\ retained' = state /\ UNCHANGED session
     \/ client /\ SessionOver /\ UNCHANGED retained
  /\ UNCHANGED <<network, lasts, input>>

\* ... and the values are not sent.
NewConnectionSilent ==
  /\ at = "stored" /\ at' = "service"
  /\ subscribed' = client
  /\ UNCHANGED replaced
  /\ UNCHANGED <<network, lasts, client, input, retained>>

\* subscribe, then send_current; each may find the session broken.
NewConnection ==
  /\ at = "stored" /\ at' = "service"
  /\ \/ ~client /\ UNCHANGED <<session, retained>>
     \/ /\ client /\ network
        /\ subscribed' = TRUE /\ retained' = state /\ UNCHANGED <<client, replaced>>
     \/ /\ client /\ SessionOver
        /\ retained' \in IF network THEN {retained, state} ELSE {retained}
  /\ UNCHANGED <<network, lasts, input>>

\* client.loop(): the keep-alive of a silent session may fail.
Service ==
  /\ at = "service" /\ at' = "io"
  /\ \/ UNCHANGED session
     \/ client /\ SessionOver
  /\ UNCHANGED <<network, lasts, input, retained>>

\* io.update, once the rate limit lets it.
IoUpdate ==
  /\ at = "io" /\ at' = "network"
  /\ IF state_changed
     THEN \/ Publish /\ state_changed' = FALSE /\ UNCHANGED state
          \/ UNCHANGED <<input, session, retained>>
     ELSE UNCHANGED <<input, session, retained>>
  /\ UNCHANGED <<network, lasts>>

MqttLoop ==
  \/ NetworkUpdate \/ NetworkEdge \/ ClientEdge \/ NewConnection
  \/ Service \/ IoUpdate

-----------------------------------------------------------------------------
(* The world.                                                              *)

\* The broker, or TCP, ends the session.
SessionEnds ==
  /\ client /\ SessionOver
  /\ UNCHANGED <<network, lasts, at, input, retained>>

\* Sampled by io.update, which marks it and publishes it sooner or later.
InputChanges ==
  /\ at = "io"
  /\ state' = 1 - state /\ state_changed' = TRUE
  /\ UNCHANGED <<network, lasts, at, session, retained>>

MqttNext == MqttLoop \/ SessionEnds \/ InputChanges

MqttSpec == MqttInit /\ [][MqttNext]_mqttVars

-----------------------------------------------------------------------------
(* "New connection" (NMQTT.cpp:103): a session the loop has gone through   *)
(* is one the node listens on, so a command published to it arrives --     *)
(* unless connect() replaced a session whose end the loop had not seen.    *)
ListensWhenConnected == at = "io" /\ client /\ ~replaced => subscribed

(* The broker holds the input's value when the loop has gone through an    *)
(* open session and nothing is left to send: what publish drops while the  *)
(* session is down, send_current makes up for.                             *)
RetainedIsCurrent ==
  at = "network" /\ client /\ ~replaced /\ ~state_changed => retained = state

(* Both: an open session the loop has gone through hears and is heard.     *)
SessionIsServed == ListensWhenConnected /\ RetainedIsCurrent

=============================================================================

---------------------------- MODULE WifiStation -----------------------------
(***************************************************************************)
(* The WiFi library under the network supervisor (WiFiGeneric.cpp and      *)
(* WiFiSTA.cpp): the event task that keeps the status and connects again   *)
(* by itself, and the loop task's connect_wifi, which does the same after  *)
(* its timeout.  The library queues pointers to events, and the driver     *)
(* uses one event again for the next, so an event that waits becomes the   *)
(* latest one.  The driver below is external.                              *)
(*                                                                         *)
(* A handler is not interrupted by the loop task between a flag and the    *)
(* driver call next to it (it has the higher priority on the same core,    *)
(* and the driver serves calls one by one); it is between two calls.       *)
(***************************************************************************)
EXTENDS Naturals

CONSTANTS
  MaxWaiting,    \* bound: events waiting when the driver adds one
  MaxOutages,    \* bound: times the access point goes away
  LostBy         \* the reasons for which a connection with an address is lost

VARIABLES
  esp_wifi_started, sta_status,
  handler, loop,     \* where the event task and connect_wifi are
  waiting, event,    \* how many events wait, and the driver's event
  driver,            \* "stopped", "idle", "connecting", "associated", "address"
  configured,        \* the driver has the network's name
  knows,             \* Network::connected, from the callback
  access_point, outages

librarySta == <<esp_wifi_started, sta_status>>
queueSta == <<waiting, event>>
driverSta == <<driver, configured>>
worldSta == <<access_point, outages>>
stationVars == <<librarySta, handler, loop, queueSta, driverSta, knows, worldSta>>

\* Why the driver gave a connection up: those the code tells apart.
Reasons == {"AUTH_EXPIRE", "BEACON_TIMEOUT", "NO_AP_FOUND", "AUTH_FAIL", "ASSOC_FAIL",
            "HANDSHAKE_TIMEOUT", "other"}

\* After the one reason that is left out the status would stay "CONNECTED".
ASSUME LostByAssumption == LostBy \subseteq Reasons \ {"AUTH_EXPIRE"}

Happenings == Reasons \cup {"START", "STOP", "CONNECTED", "GOT_IP"}
Statuses == {"NO_SHIELD", "IDLE", "DISCONNECTED", "CONNECTED", "NO_SSID_AVAIL",
             "CONNECT_FAILED", "CONNECTION_LOST"}

StationTypeOK ==
  /\ {esp_wifi_started, configured, knows, access_point} \subseteq BOOLEAN
  /\ sta_status \in Statuses
  /\ handler \in {"take", "chain", "stop", "start", "begin", "callbacks"}
  /\ loop \in {"rest", "started", "begin", "connect"}
  /\ waiting \in 0 .. MaxWaiting + 3 /\ event \in Happenings \cup {"none"}
  /\ driver \in {"stopped", "idle", "connecting", "associated", "address"}

StationInit ==
  /\ esp_wifi_started = FALSE /\ sta_status = "NO_SHIELD"
  /\ handler = "take" /\ loop = "rest"
  /\ waiting = 0 /\ event = "none"
  /\ driver = "stopped" /\ configured = FALSE /\ knows = FALSE
  /\ access_point = TRUE /\ outages = 0

\* _network_event_cb, n times: what all waiting entries show is the last one.
Post(n, e) == waiting' = waiting + n /\ event' = e

Up == driver \in {"associated", "address"}

-----------------------------------------------------------------------------
(* The driver calls.                                                       *)

\* Stopping ends a connection first.
DriverStops ==
  /\ driver' = "stopped"
  /\ IF driver = "stopped" THEN UNCHANGED queueSta ELSE Post((IF Up THEN 2 ELSE 1), "STOP")

DriverStarts ==
  IF driver = "stopped" THEN driver' = "idle" /\ Post(1, "START") ELSE UNCHANGED <<driver, queueSta>>

\* Refused when stopped; a connection or an attempt that is there stays.
DriverConnects ==
  driver' = IF driver = "idle" /\ configured THEN "connecting" ELSE driver

-----------------------------------------------------------------------------
(* The event task.                                                         *)

TakeEvent ==
  /\ handler = "take" /\ waiting > 0
  /\ handler' = "chain" /\ waiting' = waiting - 1
  /\ UNCHANGED <<librarySta, loop, event, driverSta, knows, worldSta>>

\* Faulty variant of StatusAfter: a lost beacon is not recorded either.
StatusAfterFew(e, s) ==
  CASE e = "START" -> "DISCONNECTED"
    [] e = "CONNECTED" -> "IDLE"
    [] e = "GOT_IP" -> "CONNECTED"
    [] OTHER -> s

\* The chain of _eventCallback; an expired authentication leaves the status.
StatusAfter(e, s) ==
  CASE e = "START" -> "DISCONNECTED"
    [] e = "STOP" -> "NO_SHIELD"
    [] e = "CONNECTED" -> "IDLE"
    [] e = "GOT_IP" -> "CONNECTED"
    [] e = "NO_AP_FOUND" -> "NO_SSID_AVAIL"
    [] e \in {"AUTH_FAIL", "ASSOC_FAIL"} -> "CONNECT_FAILED"
    [] e \in {"BEACON_TIMEOUT", "HANDSHAKE_TIMEOUT"} -> "CONNECTION_LOST"
    [] e = "AUTH_EXPIRE" -> s
    [] OTHER -> "DISCONNECTED"

\* The reasons after which the library connects again by itself.
Reconnects(e) == e \in Reasons \ {"AUTH_FAIL", "other"}

Chain ==
  /\ handler = "chain"
  /\ sta_status' = StatusAfter(event, sta_status)
  /\ handler' = IF Reconnects(event) THEN "stop" ELSE "callbacks"
  /\ UNCHANGED <<esp_wifi_started, loop, queueSta, driverSta, knows, worldSta>>

\* WiFi.enableSTA(false): espWiFiStop.
StopStation ==
  /\ handler = "stop" /\ handler' = "start"
  /\ IF esp_wifi_started
     THEN esp_wifi_started' = FALSE /\ DriverStops
     ELSE UNCHANGED <<esp_wifi_started, driver, queueSta>>
  /\ UNCHANGED <<sta_status, loop, configured, knows, worldSta>>

\* WiFi.enableSTA(true): espWiFiStart.
StartStation ==
  /\ handler = "start" /\ handler' = "begin"
  /\ IF esp_wifi_started
     THEN UNCHANGED <<esp_wifi_started, driver, queueSta>>
     ELSE esp_wifi_started' = TRUE /\ DriverStarts
  /\ UNCHANGED <<sta_status, loop, configured, knows, worldSta>>

\* WiFi.begin() of the stored network.
BeginStored ==
  /\ handler = "begin" /\ handler' = "callbacks"
  /\ IF sta_status = "CONNECTED" THEN UNCHANGED driver ELSE DriverConnects
  /\ UNCHANGED <<librarySta, loop, queueSta, configured, knows, worldSta>>

\* The callbacks are given the event by its pointer, once more; what the
\* supervisor makes of it is Network's.
Callbacks ==
  /\ handler = "callbacks" /\ handler' = "take"
  /\ knows' = (event = "GOT_IP" \/ (knows /\ event \in {"START", "CONNECTED"}))
  /\ UNCHANGED <<librarySta, loop, queueSta, driverSta, worldSta>>

EventTask == TakeEvent \/ Chain \/ StopStation \/ StartStation \/ BeginStored \/ Callbacks

-----------------------------------------------------------------------------
(* The loop task: connect_wifi, when the node has been without network for *)
(* its timeout.                                                            *)

\* WiFi.mode(WIFI_STA): the flag is stored when the driver has started.
SetMode ==
  /\ loop = "rest" /\ ~knows
  /\ IF esp_wifi_started
     THEN loop' = "begin" /\ UNCHANGED <<driver, queueSta>>
     ELSE loop' = "started" /\ DriverStarts
  /\ UNCHANGED <<librarySta, handler, configured, knows, worldSta>>

ModeSet ==
  /\ loop = "started" /\ loop' = "begin" /\ esp_wifi_started' = TRUE
  /\ UNCHANGED <<sta_status, handler, queueSta, driverSta, knows, worldSta>>

\* Faulty variant of BeginNamed: a network that is stored is taken for connected.
BeginNamedOnce ==
  /\ loop = "begin"
  /\ IF ~esp_wifi_started
     THEN loop' = "started" /\ DriverStarts /\ UNCHANGED configured
     ELSE /\ configured' = TRUE /\ UNCHANGED queueSta
          /\ loop' = IF configured THEN "rest" ELSE "connect"
          /\ UNCHANGED driver
  /\ UNCHANGED <<librarySta, handler, knows, worldSta>>

\* WiFi.begin(wifi_ssid, wifi_pass), first enableSTA(true): a new name ends the
\* old connection; with the same one a connected status is taken for an answer.
BeginNamed ==
  /\ loop = "begin"
  /\ IF ~esp_wifi_started
     THEN loop' = "started" /\ DriverStarts /\ UNCHANGED configured
     ELSE /\ configured' = TRUE /\ UNCHANGED queueSta
          /\ loop' = IF configured /\ sta_status = "CONNECTED" THEN "rest" ELSE "connect"
          /\ UNCHANGED driver
  /\ UNCHANGED <<librarySta, handler, knows, worldSta>>

ConnectNamed ==
  /\ loop = "connect" /\ loop' = "rest"
  /\ DriverConnects
  /\ UNCHANGED <<librarySta, handler, queueSta, configured, knows, worldSta>>

ConnectWifi == SetMode \/ ModeSet \/ BeginNamed \/ ConnectNamed

-----------------------------------------------------------------------------
(* The driver and the radio.                                               *)

\* The radio is slow against the few instructions between the driver's start
\* and the flag, and between the test of the status and a connect.
Tell(e) == waiting < MaxWaiting /\ loop \notin {"started", "connect"} /\ Post(1, e)

\* The access point answers, and gives an address.
Answered ==
  /\ access_point
  /\ \/ driver = "connecting" /\ driver' = "associated" /\ Tell("CONNECTED")
     \/ driver = "associated" /\ driver' = "address" /\ Tell("GOT_IP")
  /\ UNCHANGED <<librarySta, handler, loop, configured, knows, worldSta>>

\* It does not, or is lost, for any reason.
GivenUp ==
  /\ ~access_point /\ driver \in {"connecting", "associated", "address"}
  /\ driver' = "idle"
  /\ \E reason \in IF driver = "address" THEN LostBy ELSE Reasons : Tell(reason)
  /\ UNCHANGED <<librarySta, handler, loop, configured, knows, worldSta>>

GoesAway ==
  /\ access_point /\ outages < MaxOutages
  /\ access_point' = FALSE /\ outages' = outages + 1
  /\ UNCHANGED <<librarySta, handler, loop, queueSta, driverSta, knows>>

ComesBack ==
  /\ ~access_point /\ access_point' = TRUE
  /\ UNCHANGED <<librarySta, handler, loop, queueSta, driverSta, knows, outages>>

\* A pass of the loop that finds the node connected.
LoopRests == loop = "rest" /\ knows /\ UNCHANGED stationVars

StationNext == EventTask \/ ConnectWifi \/ LoopRests \/ Answered \/ GivenUp \/ GoesAway \/ ComesBack

\* Both tasks run, the supervisor's timeout passes again and again, and an
\* access point that stays answers.
StationFairness ==
  /\ WF_stationVars(EventTask) /\ WF_stationVars(ConnectWifi) /\ SF_stationVars(Answered)

StationSpec == StationInit /\ [][StationNext]_stationVars /\ StationFairness

-----------------------------------------------------------------------------
(* With no event on the way the status tells the truth: connected means    *)
(* that the station has its address, and a node that believes so has a     *)
(* driver that connects, whichever events were taken for others.           *)
StatusSettles ==
  waiting = 0 /\ handler = "take" =>
    /\ sta_status = "CONNECTED" => driver = "address"
    /\ knows => driver \notin {"stopped", "idle"}

(* When the access point is there to stay, the station gets its address    *)
(* and the node learns of it, for every reason a connection was lost and   *)
(* however the library's own attempts and connect_wifi meet.               *)
StationReturns ==
  <>[]access_point => <>[](driver = "address" /\ knows /\ sta_status = "CONNECTED")

=============================================================================

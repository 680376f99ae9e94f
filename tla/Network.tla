------------------------------ MODULE Network -------------------------------
(***************************************************************************)
(* The network supervisor of Network.cpp.  The WiFi event task offers      *)
(* events to the bounded buffer (EventQueue, which FIFO implements); the   *)
(* loop task drains it, keeps `connected` and `network_type`, and starts   *)
(* the interface again when it stays disconnected for NETWORK_TIMEOUT.     *)
(*                                                                         *)
(* The interface itself (link, started) belongs to the ESP32 stack and is  *)
(* modelled from how Network.cpp drives it: an address comes and goes at   *)
(* any time, a "down" event may be repeated, other events are noise.       *)
(***************************************************************************)
EXTENDS EventQueue

CONSTANT EthernetUp, WifiUp, EthernetDown, WifiDown, LostIP, Noise

ASSUME EventsAssumption ==
  Events = {EthernetUp, WifiUp, LostIP} \cup EthernetDown \cup WifiDown \cup Noise
ASSUME UpEventsAssumption ==
  /\ EthernetUp # WifiUp
  /\ {EthernetUp, WifiUp} \cap ({LostIP} \cup EthernetDown \cup WifiDown \cup Noise) = {}
ASSUME NoiseAssumption ==
  Noise \cap ({LostIP} \cup EthernetDown \cup WifiDown) = {}
ASSUME CapacityAssumption == Capacity \in Nat \ {0}

VARIABLES
  connected,     \* Network::connected
  network_type,  \* Network::network_type, the interface get_ip asks
  eth_enabled, wifi_enabled, bootmode,
  expired,       \* check_timeout would answer true
  step,          \* where the loop task is
  link,          \* the interface that has an address now
  started,       \* the interface connect() started last
  missed         \* the stack's latest link event was refused by the buffer

configVars == <<eth_enabled, wifi_enabled, bootmode>>
stackVars == <<link, started, missed>>
stateVars == <<connected, network_type, expired>>
netVars == <<qvars, configVars, stackVars, stateVars, step>>

Types == {"none", "eth", "wifi"}
LinkEvents == Events \ Noise

NetTypeOK ==
  /\ queue \in Seq(Events) /\ Len(queue) <= Capacity
  /\ accepted \in BOOLEAN /\ delivered \in Events \cup {NoEvent}
  /\ connected \in BOOLEAN /\ expired \in BOOLEAN /\ missed \in BOOLEAN
  /\ {network_type, link, started} \subseteq Types
  /\ {eth_enabled, wifi_enabled, bootmode} \subseteq BOOLEAN
  /\ step \in {"init", "events", "timer", "rest"}
  /\ step # "init" => ~ (eth_enabled /\ wifi_enabled)

NetInit ==
  /\ QueueInit
  /\ connected = FALSE /\ network_type = "none" /\ expired = FALSE
  /\ eth_enabled \in BOOLEAN /\ wifi_enabled \in BOOLEAN /\ bootmode \in BOOLEAN
  /\ step = "init"
  /\ link = "none" /\ started = "none" /\ missed = FALSE

-----------------------------------------------------------------------------
(* The WiFi event task.                                                    *)

\* Network::event: a refused event is only logged ("Very Bad").
Event(e) ==
  /\ \/ Accept(e) /\ missed' = (missed /\ e \in Noise)
     \/ Refuse /\ missed' = (missed \/ e \in LinkEvents)

GotIP ==
  /\ link = "none" /\ started # "none"
  /\ link' = started
  /\ Event(IF started = "eth" THEN EthernetUp ELSE WifiUp)
  /\ UNCHANGED <<configVars, stateVars, step, started>>

LinkLost(e) ==
  /\ started # "none"
  /\ e \in (IF started = "eth" THEN EthernetDown ELSE WifiDown \cup {LostIP})
  /\ link' = "none"
  /\ Event(e)
  /\ UNCHANGED <<configVars, stateVars, step, started>>

OtherEvent(e) ==
  /\ e \in Noise
  /\ Event(e)
  /\ UNCHANGED <<configVars, stateVars, step, link, started>>

Stack == GotIP \/ \E e \in Events : LinkLost(e) \/ OtherEvent(e)

-----------------------------------------------------------------------------
(* The loop task.                                                          *)

\* The two flags of connect(), given w = wifi_enabled on entry: the boot
\* switch overrides the configuration with Ethernet.
Eth == bootmode \/ eth_enabled
Wifi(w) == ~bootmode /\ w
Chosen(w) == IF Wifi(w) THEN "wifi" ELSE "eth"

\* Faulty variant of Connect: Ethernet is started without the PHY reset.
ConnectKeepingPHY(w) ==
  /\ eth_enabled' = Eth /\ wifi_enabled' = Wifi(w)
  /\ IF Eth \/ Wifi(w)
     THEN /\ network_type' = Chosen(w) /\ started' = Chosen(w)
          /\ UNCHANGED <<qvars, link, missed>>
     ELSE UNCHANGED <<qvars, stackVars, network_type>>

\* Faulty variant of Connect: the boot switch leaves wifi_enabled as it is.
ConnectBoth(w) ==
  /\ eth_enabled' = Eth /\ wifi_enabled' = w
  /\ IF Eth \/ Wifi(w)
     THEN network_type' = Chosen(w) /\ started' = Chosen(w)
     ELSE UNCHANGED <<network_type, started>>
  /\ UNCHANGED <<qvars, link, missed>>

\* Network::connect.  connect_ethernet resets the PHY, which takes a live
\* link down; WiFi.begin leaves an association it finds alone.
Connect(w) ==
  /\ eth_enabled' = Eth /\ wifi_enabled' = Wifi(w)
  /\ IF Eth \/ Wifi(w)
     THEN /\ network_type' = Chosen(w) /\ started' = Chosen(w)
          /\ IF Chosen(w) = "eth" /\ link # "none"
             THEN link' = "none" /\ \E e \in EthernetDown : Event(e)
             ELSE UNCHANGED <<qvars, link, missed>>
     ELSE UNCHANGED <<qvars, stackVars, network_type>>

\* Network::init: with both interfaces configured, Ethernet wins.
Initialize ==
  /\ step = "init" /\ step' = "events"
  /\ Connect(wifi_enabled /\ ~eth_enabled)
  /\ UNCHANGED <<bootmode, connected, expired>>

\* What the switch of process_events makes of event e, given c = connected
\* and t = network_type.
\* Faulty variants: a lost address leaves `connected` set; the address
\* event does not record which interface has it.
HandledLostIPKept(e, c, t) ==
  CASE e = EthernetUp -> <<TRUE, "eth">>
    [] e = WifiUp -> <<TRUE, "wifi">>
    [] e \in EthernetDown \cup WifiDown -> <<FALSE, t>>
    [] e = LostIP -> <<c, "none">>
    [] OTHER -> <<c, t>>

Handled(e, c, t) ==
  CASE e = EthernetUp -> <<TRUE, "eth">>
    [] e = WifiUp -> <<TRUE, "wifi">>
    [] e \in EthernetDown \cup WifiDown -> <<FALSE, t>>
    [] e = LostIP -> <<FALSE, "none">>
    [] OTHER -> <<c, t>>

ProcessEvent ==
  /\ step = "events"
  /\ Deliver
  /\ LET h == Handled(Head(queue), connected, network_type)
     IN  connected' = h[1] /\ network_type' = h[2]
  /\ UNCHANGED <<configVars, stackVars, step, expired>>

EventsDone ==
  /\ step = "events" /\ queue = <<>>
  /\ step' = "timer"
  /\ UNCHANGED <<qvars, configVars, stackVars, stateVars>>

\* Faulty variant: the deadline is moved before it is tested.
WaitForever ==
  /\ step = "timer" /\ step' = "rest"
  /\ expired' = FALSE
  /\ UNCHANGED <<qvars, configVars, stackVars, connected, network_type>>

\* The rest of Network::update while the network is up or the time not over.
Wait ==
  /\ step = "timer" /\ (connected \/ ~expired)
  /\ step' = "rest"
  /\ expired' = (expired /\ ~connected)
  /\ UNCHANGED <<qvars, configVars, stackVars, connected, network_type>>

\* The deadline passed: reset it and start the interface again.
Reconnect ==
  /\ step = "timer" /\ ~connected /\ expired
  /\ step' = "rest"
  /\ expired' = FALSE
  /\ Connect(wifi_enabled)
  /\ UNCHANGED <<bootmode, connected>>

\* The other modules' updates, up to the next network.update.
RestOfLoop ==
  /\ step = "rest" /\ step' = "events"
  /\ UNCHANGED <<qvars, configVars, stackVars, stateVars>>

LoopTask == Initialize \/ ProcessEvent \/ EventsDone \/ Wait \/ Reconnect

\* NETWORK_TIMEOUT milliseconds passed since the deadline was last moved.
Expire ==
  /\ ~expired /\ expired' = TRUE
  /\ UNCHANGED <<qvars, configVars, stackVars, connected, network_type, step>>

NetNext == Stack \/ LoopTask \/ RestOfLoop \/ Expire

NetSpec == NetInit /\ [][NetNext]_netVars

\* loop() runs forever and time passes.  process_events returns only if the
\* stack lets the buffer run empty: StackPauses says that it does, again and
\* again, as it produces a few events per change of the link.
StackPauses == []<>(queue = <<>>)

NetFairness ==
  /\ WF_netVars(LoopTask \/ RestOfLoop)
  /\ SF_netVars(EventsDone)
  /\ SF_netVars(Expire)
  /\ StackPauses

FairNetSpec == NetSpec /\ NetFairness

-----------------------------------------------------------------------------
\* No link event waits behind place i.
LastLinkEvent(i) == \A j \in i + 1 .. Len(queue) : queue[j] \in Noise

\* Event e tells what the link is.
Truthful(e) ==
  IF link = "none" THEN e \notin {EthernetUp, WifiUp}
                   ELSE e = (IF link = "eth" THEN EthernetUp ELSE WifiUp)

Waiting ==
  \E i \in 1 .. Len(queue) :
    queue[i] \in LinkEvents /\ LastLinkEvent(i) /\ Truthful(queue[i])

(* Unless the buffer refused the latest link event, the truth about the    *)
(* interface is known or on its way: it is the last link event that waits, *)
(* or none waits, `connected` is right and get_ip asks the interface that  *)
(* has the address.  No handler of the switch and no restart of the        *)
(* interface, which writes network_type too, leaves the two stale.         *)
SettlesTrue ==
  ~missed =>
    \/ Waiting
    \/ /\ LastLinkEvent(0)
       /\ connected = (link # "none")
       /\ link # "none" => network_type = link

(* A configured node never gives up: it is connected again and again, or   *)
(* it starts the interface again and again.                                *)
KeepsTrying ==
  \/ []<>(connected \/ ~ (eth_enabled \/ wifi_enabled))
  \/ []<><<Reconnect>>_netVars

(* Even when the address event was refused by the full buffer, Ethernet    *)
(* does not stay up unseen: the restart after the timeout resets the PHY,  *)
(* and the stack reports the link anew.                                    *)
EthernetSeen == (link = "eth") ~> (connected \/ link # "eth")

=============================================================================

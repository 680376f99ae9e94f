------------------------------ MODULE MCBoard -------------------------------
(***************************************************************************)
(* The parts of the loop that serve the board itself.  A behaviour is that *)
(* of one of them, which its initial state chooses:                        *)
(*   "ports"    one input and one output, a clock that rolls over after    *)
(*              five ticks, a rate limit of three: announcements before,   *)
(*              at and after a roll-over (IOPorts);                        *)
(*   "network"  the supervisor with an event buffer of two: every          *)
(*              configuration of the interfaces and the boot switch; the   *)
(*              buffer fills with link events and noise while the loop     *)
(*              task is elsewhere (Network);                               *)
(*   "aws"      the client of the AWS broker (AwsClient);                  *)
(*   "wifi"     the WiFi library and connect_wifi, two outages of the      *)
(*              access point, two events waiting (WifiStation);            *)
(*   "socket"   the socket of the MQTT session, with a receive buffer of   *)
(*              three bytes and two attempts to write (WifiClient);        *)
(*   "hardware" the deadlines and the keep-alive, a counter of three bits, *)
(*              a pass of at most one tick, two requests for a restart     *)
(*              (Hardware);                                                *)
(*   "names"    one input and two outputs at a broker that is at most two  *)
(*              messages behind (PortNames).                               *)
(***************************************************************************)
EXTENDS IOPorts, Network, AwsClient, WifiStation

VARIABLES
  part,
  buffer, pos, client_connected, open, call, read, read_told, errno,
  arrived, received, wire, write_told, peer_link, sockets,
  ticks, now, hw_at, input_pins, led, second_timeout, restart_timeout, last_keepalive,
  late, requests, asked, silent,
  input_state, output_state, next_output, deliveries, commanded

CONSTANTS
  RxSize, WriteRetries, Inbound, Outbound, MaxSockets,
  Rollover, START_DELAY, SECOND_PERIOD, REBOOT_TIMEOUT, KEEPALIVE_PERIOD, Slow, MaxRequests,
  InputNames, OutputNames, Backlog

ASSUME SocketAssumption ==
  RxSize \in Nat /\ WriteRetries \in Nat /\ Inbound \in Nat /\ Outbound \in Nat

\* The clock has room for a period and for a pass, before and after a deadline.
ASSUME TimesAssumption ==
  /\ Rollover \in Nat \ {0} /\ START_DELAY \in Nat /\ SECOND_PERIOD \in Nat
  /\ REBOOT_TIMEOUT \in Nat /\ KEEPALIVE_PERIOD \in Nat /\ Slow \in Nat /\ MaxRequests \in Nat
  /\ REBOOT_TIMEOUT + Slow <= Rollover \div 2 /\ KEEPALIVE_PERIOD < Rollover

Sock == INSTANCE WifiClient
Hw == INSTANCE Hardware
Ported == INSTANCE PortNames

\* Input1 and so on, Output1 and so on (IO::init).
ASSUME NamesAssumption ==
  /\ Len(InputNames) \in Nat /\ Len(OutputNames) \in Nat
  /\ Ported!Ins \cap Ported!Outs = {} /\ "" \notin Ported!Outs

sockVars == <<buffer, pos, client_connected, open, call, read, read_told, errno,
              arrived, received, wire, write_told, peer_link, sockets>>
hardwareVars == <<ticks, now, hw_at, input_pins, led, second_timeout, restart_timeout,
                  last_keepalive, late, requests, asked, silent>>
namesVars == <<input_state, output_state, next_output, deliveries, commanded>>

MCEvents == {"ETH_GOT_IP", "STA_GOT_IP", "LOST_IP", "ETH_DOWN", "STA_DOWN", "OTHER"}
MCEthernetDown == {"ETH_DOWN"}
MCWifiDown == {"STA_DOWN"}
MCInputNames == <<"Input1">>
MCOutputNames == <<"Output1", "Output2">>
MCNoise == {"OTHER"}

\* An established connection is lost for any reason but AUTH_EXPIRE.
MCLostBy == {"BEACON_TIMEOUT", "AUTH_FAIL", "ASSOC_FAIL", "HANDSHAKE_TIMEOUT", "other"}

\* The other part has one of its initial states.
BoardInit ==
  /\ part \in {"ports", "network", "aws", "wifi", "socket", "hardware", "names"}
  /\ Init /\ NetInit /\ AwsInit /\ StationInit /\ Sock!WifiClientInit /\ Hw!HardwareInit
  /\ Ported!NamesInit
  /\ part = "ports" \/ \A i \in Inputs : level[i] = 0 /\ ~state_changed[i]
  /\ part = "network" \/ ~ (eth_enabled \/ wifi_enabled \/ bootmode)

BoardNext ==
  \/ /\ part = "ports" /\ Next
     /\ UNCHANGED <<part, netVars, awsVars, stationVars, sockVars, hardwareVars, namesVars>>
  \/ /\ part = "network" /\ NetNext
     /\ UNCHANGED <<part, vars, awsVars, stationVars, sockVars, hardwareVars, namesVars>>
  \/ /\ part = "aws" /\ AwsNext
     /\ UNCHANGED <<part, vars, netVars, stationVars, sockVars, hardwareVars, namesVars>>
  \/ /\ part = "wifi" /\ StationNext
     /\ UNCHANGED <<part, vars, netVars, awsVars, sockVars, hardwareVars, namesVars>>
  \/ /\ part = "socket" /\ Sock!ClientNext
     /\ UNCHANGED <<part, vars, netVars, awsVars, stationVars, hardwareVars, namesVars>>
  \/ /\ part = "hardware" /\ Hw!HardwareNext
     /\ UNCHANGED <<part, vars, netVars, awsVars, stationVars, sockVars, namesVars>>
  \/ /\ part = "names" /\ Ported!NamesNext
     /\ UNCHANGED <<part, vars, netVars, awsVars, stationVars, sockVars, hardwareVars>>

\* The fairness of each part.
BoardFairness ==
  /\ WF_vars(part = "ports" /\ Loop)
  /\ WF_netVars(part = "network" /\ (LoopTask \/ RestOfLoop))
  /\ SF_netVars(part = "network" /\ EventsDone)
  /\ SF_netVars(part = "network" /\ Expire)
  /\ StackPauses
  /\ WF_awsVars(part = "aws" /\ AwsLoop)
  /\ WF_awsVars(part = "aws" /\ EventEnds)
  /\ SF_awsVars(part = "aws" /\ AwsTimePasses)
  /\ WF_stationVars(part = "wifi" /\ EventTask)
  /\ WF_stationVars(part = "wifi" /\ ConnectWifi)
  /\ SF_stationVars(part = "wifi" /\ Answered)
  /\ WF_sockVars(part = "socket" /\ Sock!ReadStep)
  /\ WF_sockVars(part = "socket" /\ Sock!WriteStep)
  /\ SF_sockVars(part = "socket" /\ \E n \in 1 .. Inbound : Sock!ReadCall(n))
  /\ SF_sockVars(part = "socket" /\ Sock!Connected)
  /\ WF_hardwareVars(part = "hardware" /\ Hw!LoopStep)
  /\ SF_hardwareVars(part = "hardware" /\ Hw!Tick)

boardVars == <<part, vars, netVars, awsVars, stationVars, sockVars, hardwareVars, namesVars>>

BoardSpec == BoardInit /\ [][BoardNext]_boardVars /\ BoardFairness

\* What each part promises holds of the behaviours that are its own.
BoardServes ==
  /\ part = "ports" => ChangesAreTold /\ CommandsArrive
  /\ part = "hardware" => Hw!TimersRun
NetKeepsTrying == part = "network" => KeepsTrying
AwsServes == part = "aws" => AwsLastCommandWins /\ AwsKeepsTrying
WifiReturns == part = "wifi" => StationReturns
BoardIsSound == Sock!StreamsKept /\ Hw!NothingEarly /\ Ported!CommandsKept
StreamsMove == part = "socket" => Sock!StreamsMove
=============================================================================

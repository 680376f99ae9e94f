----------------------------- MODULE AwsClient ------------------------------
(***************************************************************************)
(* The client of the AWS message broker (AWS.cpp).  A message is left in a *)
(* mailbox, one topic, one payload and a flag, by the callback of the      *)
(* client library, in a task of the library's; the loop task empties it    *)
(* and drives the pin.  The library is external: it opens a session or     *)
(* not, loses it and finds it again, and may call back at any time.  The   *)
(* client is enabled; a disabled one does nothing.                         *)
(***************************************************************************)
EXTENDS Naturals

VARIABLES
  aws_mode,     \* "none", "connecting", "connected"
  msgReceived,  \* the flag of the mailbox
  rcvdPayload,  \* the text in it
  network_up,   \* network.get_connected()
  network_due,  \* check_timeout(network_timeout)
  pulse_due,    \* check_timeout(pulse_timeout)
  session,      \* the library's: "none", "open", "subscribed"
  apc,          \* the loop task in AWS::update, and in connect
  delivering,   \* the payload the callback is given, or Nothing
  last,         \* the last payload that the callback copied in full
  aws_pin       \* the level of DOUTPUT_1

awsTimers == <<network_due, pulse_due>>
mailbox == <<msgReceived, rcvdPayload>>
callbackVars == <<delivering, last>>
awsVars == <<aws_mode, mailbox, network_up, awsTimers, session, apc, callbackVars, aws_pin>>

Payloads == {"on", "off", "other"}
Nothing == "nothing"

AwsTypeOK ==
  /\ aws_mode \in {"none", "connecting", "connected"}
  /\ msgReceived \in BOOLEAN /\ rcvdPayload \in Payloads \cup {Nothing}
  /\ {network_up, network_due, pulse_due} \subseteq BOOLEAN
  /\ session \in {"none", "open", "subscribed"}
  /\ apc \in {"rest", "update", "read", "timer", "open", "subscribe", "pulse"}
  /\ delivering \in Payloads \cup {Nothing} /\ last \in Payloads \cup {Nothing}
  /\ aws_pin \in 0 .. 1

\* AWS::init calls connect, before the network has an address.
AwsInit ==
  /\ aws_mode = "connecting" /\ msgReceived = FALSE /\ rcvdPayload = Nothing
  /\ network_up = FALSE /\ network_due = FALSE /\ pulse_due = FALSE
  /\ session = "none" /\ apc = "rest"
  /\ delivering = Nothing /\ last = Nothing /\ aws_pin = 0

-----------------------------------------------------------------------------
(* The loop task: AWS::update.                                             *)

\* process_messages: the flag goes down before the text is read.
TakeMessage ==
  /\ apc = "update"
  /\ apc' = (IF msgReceived THEN "read" ELSE "timer") /\ msgReceived' = FALSE
  /\ UNCHANGED <<aws_mode, rcvdPayload, network_up, awsTimers, session, callbackVars, aws_pin>>

\* A text read while the callback writes it is the old one, the new one or a mixture.
Text == IF delivering = Nothing THEN {rcvdPayload} ELSE {rcvdPayload, delivering, "other"}

Drive(payload) ==
  aws_pin' = CASE payload = "on" -> 1 [] payload = "off" -> 0 [] OTHER -> aws_pin

ReadMessage ==
  /\ apc = "read" /\ apc' = "timer"
  /\ \E payload \in Text : Drive(payload)
  /\ UNCHANGED <<aws_mode, mailbox, network_up, awsTimers, session, callbackVars>>

\* Faulty variant of Wanted: only a client that never tried does.
WantedOnce == aws_mode = "none"

Wanted == aws_mode # "connected"

\* A connected client moves the timeout on; another one tries when it is due.
Timer ==
  /\ apc = "timer"
  /\ network_due' = (network_due /\ aws_mode # "connected")
  /\ IF network_due' /\ Wanted THEN apc' = "open" /\ aws_mode' = "connecting"
     ELSE apc' = "pulse" /\ UNCHANGED aws_mode
  /\ UNCHANGED <<mailbox, network_up, pulse_due, session, callbackVars, aws_pin>>

\* AWS::connect up to the client's connect.
Open ==
  /\ apc = "open" /\ network_due' = FALSE
  /\ \/ /\ network_up /\ session' = "open"
        /\ aws_mode' = "connected" /\ apc' = "subscribe"
     \/ aws_mode' = "connecting" /\ apc' = "pulse" /\ session' = "none"
  /\ UNCHANGED <<mailbox, network_up, pulse_due, callbackVars, aws_pin>>

\* A second later; a failure is printed and that is all.
Subscribe ==
  /\ apc = "subscribe" /\ apc' = "pulse"
  /\ session' \in (IF session = "open" THEN {"open", "subscribed"} ELSE {session})
  /\ UNCHANGED <<aws_mode, mailbox, network_up, awsTimers, callbackVars, aws_pin>>

\* publish_value of the pulse; nothing looks at its answer.
Pulse ==
  /\ apc = "pulse" /\ apc' = "rest"
  /\ pulse_due' = (pulse_due /\ aws_mode # "connected")
  /\ UNCHANGED <<aws_mode, mailbox, network_up, network_due, session, callbackVars, aws_pin>>

NextPass ==
  /\ apc = "rest" /\ apc' = "update"
  /\ UNCHANGED <<aws_mode, mailbox, network_up, awsTimers, session, callbackVars, aws_pin>>

AwsLoop ==
  \/ TakeMessage \/ ReadMessage \/ Timer \/ Open \/ Subscribe \/ Pulse \/ NextPass

-----------------------------------------------------------------------------
(* The library's task.                                                     *)

\* AWS::event: payload_recv copies the text and then raises the flag.
EventBegins(payload) ==
  /\ session = "subscribed" /\ delivering = Nothing
  /\ delivering' = payload
  /\ UNCHANGED <<aws_mode, mailbox, network_up, awsTimers, session, apc, last, aws_pin>>

EventEnds ==
  /\ delivering # Nothing
  /\ rcvdPayload' = delivering /\ last' = delivering /\ delivering' = Nothing
  /\ msgReceived' = TRUE
  /\ UNCHANGED <<aws_mode, network_up, awsTimers, session, apc, aws_pin>>

AwsEvent == EventEnds \/ \E payload \in Payloads : EventBegins(payload)

\* The session is lost, and the mode stays; or the library finds it again.
SessionChanges ==
  /\ aws_mode = "connected"
  /\ session' \in {"none", "open", "subscribed"} \ {session}
  /\ UNCHANGED <<aws_mode, mailbox, network_up, awsTimers, apc, callbackVars, aws_pin>>

\* The interface comes and goes, and the timeouts expire.
AwsWorld ==
  /\ \/ network_up' = ~network_up /\ UNCHANGED awsTimers
     \/ ~network_due /\ network_due' = TRUE /\ UNCHANGED <<network_up, pulse_due>>
     \/ ~pulse_due /\ pulse_due' = TRUE /\ UNCHANGED <<network_up, network_due>>
  /\ UNCHANGED <<aws_mode, mailbox, session, apc, callbackVars, aws_pin>>

AwsNext == AwsLoop \/ AwsEvent \/ SessionChanges \/ AwsWorld

\* loop() runs forever, time passes, and a callback that began ends.
AwsTimePasses == ~network_due /\ AwsWorld /\ network_due'
AwsFairness ==
  /\ WF_awsVars(AwsLoop) /\ WF_awsVars(EventEnds) /\ SF_awsVars(AwsTimePasses)

AwsSpec == AwsInit /\ [][AwsNext]_awsVars /\ AwsFairness

-----------------------------------------------------------------------------
(* The last command decides: when no more come, the pin has the level of   *)
(* the last message that was delivered, also when it came while the loop   *)
(* task was reading the one before.                                        *)
AwsLastCommandWins ==
  \A v \in 0 .. 1 :
    <>[](last = (IF v = 1 THEN "on" ELSE "off") /\ delivering = Nothing) => <>[](aws_pin = v)

(* The client is connected for good or tries again and again.              *)
AwsKeepsTrying == <>[](aws_mode = "connected") \/ []<><<Open>>_awsVars

=============================================================================

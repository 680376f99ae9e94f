----------------------------- MODULE OnlineMode -----------------------------
(***************************************************************************)
(* Online mode: a page of the web interface shows the variables of the     *)
(* running program.  Project.js asks for them (getvars) when its update    *)
(* timer fires and counts the questions that are still open; the async_tcp *)
(* task of the node only sets a flag, and IOT::update answers between two  *)
(* scans, to every open web socket.  Websockets.js replaces a socket that  *)
(* went quiet; the close event of the one it replaced comes later.         *)
(***************************************************************************)
EXTENDS Integers

CONSTANTS
  Pages,      \* the browsers
  Faults,     \* what a socket may suffer: "refused", "closed", "silent"
  MaxFlight,  \* bound: messages in one direction of a socket
  MaxDrift    \* bound: how far getvars_pending is followed below 0

ASSUME FaultsAssumption == Faults \subseteq {"refused", "closed", "silent"}
ASSUME BoundsAssumption == MaxFlight \in Nat \ {0} /\ MaxDrift \in Nat

VARIABLES
  loading,      \* a request for project.txt is out
  online,       \* logic_mode = MODE_ONLINE
  pending,      \* getvars_pending (kept 0 offline, where nothing reads it)
  connected,    \* Websockets.js: connected
  socket,       \* its current socket
  closing,      \* the close event of the socket before is still to come
  questions,    \* getvars on the way to the node
  answers,      \* replies on the way to the page
  dropped,      \* a question counted since set_online will have no answer
  getvars_flag, \* IOT::getvars_flag
  npc           \* IOT::update: "idle", "sending", "sent"

pageVars == <<loading, online, pending>>
socketVars == <<connected, socket, closing>>
wireVars == <<questions, answers>>
nodeVars == <<getvars_flag, npc>>
vars == <<pageVars, socketVars, wireVars, dropped, nodeVars>>

TypeOK ==
  /\ {loading, online, connected, closing, dropped} \subseteq [Pages -> BOOLEAN]
  /\ pending \in [Pages -> -MaxDrift .. 1]
  /\ socket \in [Pages -> {"none", "connecting", "open", "silent"}]
  /\ questions \in [Pages -> 0 .. MaxFlight] /\ answers \in [Pages -> 0 .. MaxFlight]
  /\ getvars_flag \in BOOLEAN /\ npc \in {"idle", "sending", "sent"}

\* The page after init_modules: the socket and the project are requested.
Init ==
  /\ loading = [p \in Pages |-> TRUE] /\ online = [p \in Pages |-> FALSE]
  /\ pending = [p \in Pages |-> 0] /\ connected = [p \in Pages |-> FALSE]
  /\ socket = [p \in Pages |-> "connecting"] /\ closing = [p \in Pages |-> FALSE]
  /\ questions = [p \in Pages |-> 0] /\ answers = [p \in Pages |-> 0]
  /\ dropped = [p \in Pages |-> FALSE]
  /\ getvars_flag = FALSE /\ npc = "idle"

-----------------------------------------------------------------------------
(* The mode of the page.                                                   *)

SetOnline(p) ==
  /\ online' = [online EXCEPT ![p] = TRUE]
  /\ pending' = [pending EXCEPT ![p] = 0]
  /\ dropped' = [dropped EXCEPT ![p] = FALSE]

SetOffline(p) ==
  /\ online' = [online EXCEPT ![p] = FALSE]
  /\ pending' = [pending EXCEPT ![p] = 0]
  /\ UNCHANGED dropped

LoadProject(p) ==
  /\ ~loading[p] /\ loading' = [loading EXCEPT ![p] = TRUE]
  /\ SetOffline(p)
  /\ UNCHANGED <<socketVars, wireVars, nodeVars>>

\* The project arrives: the page goes online, connected or not.
ProjectLoaded(p) ==
  /\ loading[p] /\ loading' = [loading EXCEPT ![p] = FALSE]
  /\ SetOnline(p)
  /\ UNCHANGED <<socketVars, wireVars, nodeVars>>

\* It does not: the default project is loaded instead.
LoadFails(p) ==
  /\ loading[p] /\ loading' = [loading EXCEPT ![p] = FALSE]
  /\ SetOffline(p)
  /\ UNCHANGED <<socketVars, wireVars, nodeVars>>

\* The menu item.
GoOnline(p) ==
  /\ connected[p]
  /\ SetOnline(p)
  /\ UNCHANGED <<loading, socketVars, wireVars, nodeVars>>

\* The menu item, an edit of the project, or an AJAX error.
GoOffline(p) ==
  /\ online[p] /\ SetOffline(p)
  /\ UNCHANGED <<loading, socketVars, wireVars, nodeVars>>

\* Faulty variant of Update: an open question does not hold back the next.
UpdateUnthrottled(p) ==
  /\ online[p] /\ questions[p] < MaxFlight
  /\ pending' = [pending EXCEPT ![p] = @ + 1]
  /\ IF connected[p] /\ socket[p] = "open"
     THEN questions' = [questions EXCEPT ![p] = @ + 1] /\ UNCHANGED dropped
     ELSE dropped' = [dropped EXCEPT ![p] = TRUE] /\ UNCHANGED questions
  /\ UNCHANGED <<loading, online, socketVars, answers, nodeVars>>

\* The update timer: the question is counted before send() looks whether it
\* can be sent at all.
Update(p) ==
  /\ online[p] /\ pending[p] <= 0 /\ questions[p] < MaxFlight
  /\ pending' = [pending EXCEPT ![p] = @ + 1]
  /\ IF connected[p] /\ socket[p] = "open"
     THEN questions' = [questions EXCEPT ![p] = @ + 1] /\ UNCHANGED dropped
     ELSE dropped' = [dropped EXCEPT ![p] = TRUE] /\ UNCHANGED questions
  /\ UNCHANGED <<loading, online, socketVars, answers, nodeVars>>

\* Faulty variant of Receive: the answer is not counted.
ReceiveUncounted(p) ==
  /\ socket[p] = "open" /\ answers[p] > 0
  /\ answers' = [answers EXCEPT ![p] = @ - 1]
  /\ UNCHANGED <<pageVars, socketVars, questions, dropped, nodeVars>>

\* ws_getvars_command, for an answer to this page or to another one.
Receive(p) ==
  /\ socket[p] = "open" /\ answers[p] > 0
  /\ answers' = [answers EXCEPT ![p] = @ - 1]
  /\ pending' = [pending EXCEPT ![p] =
                   IF online[p] /\ @ > -MaxDrift THEN @ - 1 ELSE @]
  /\ UNCHANGED <<loading, online, socketVars, questions, dropped, nodeVars>>

-----------------------------------------------------------------------------
(* The sockets.                                                            *)

\* What is under way on p's socket is lost.
Cut(p) ==
  /\ dropped' = [dropped EXCEPT ![p] = @ \/ questions[p] + answers[p] > 0 \/ pending[p] > 0]
  /\ questions' = [questions EXCEPT ![p] = 0]
  /\ answers' = [answers EXCEPT ![p] = 0]

\* connect(): the old socket is closed, a new one opened.
Connect(p) ==
  /\ connected' = [connected EXCEPT ![p] = FALSE]
  /\ closing' = [closing EXCEPT ![p] = socket[p] # "none"]
  /\ socket' = [socket EXCEPT ![p] = "connecting"]
  /\ Cut(p)

\* Faulty variant of KeepaliveExpires: an open socket is trusted.
KeepaliveTrustsOpen(p) ==
  /\ socket[p] # "open" /\ ~closing[p]
  /\ Connect(p)
  /\ UNCHANGED <<pageVars, nodeVars>>

\* check_keepalive: KEEPALIVE_TIMEOUT seconds without a ping reply.  An open,
\* connected socket has one every PING_TIMEOUT seconds.  (The close event of
\* a socket comes before the next timeout.)
KeepaliveExpires(p) ==
  /\ ~ (socket[p] = "open" /\ connected[p]) /\ ~closing[p]
  /\ Connect(p)
  /\ UNCHANGED <<pageVars, nodeVars>>

\* on_open.
Opened(p) ==
  /\ socket[p] = "connecting"
  /\ socket' = [socket EXCEPT ![p] = "open"]
  /\ connected' = [connected EXCEPT ![p] = TRUE]
  /\ UNCHANGED <<pageVars, closing, wireVars, dropped, nodeVars>>

\* on_error and on_close, of the current socket.
SocketCloses(p) ==
  /\ \/ socket[p] = "connecting" /\ "refused" \in Faults
     \/ socket[p] = "open" /\ "closed" \in Faults
  /\ socket' = [socket EXCEPT ![p] = "none"]
  /\ connected' = [connected EXCEPT ![p] = FALSE]
  /\ online' = [online EXCEPT ![p] = FALSE]
  /\ pending' = [pending EXCEPT ![p] = 0]
  /\ Cut(p)
  /\ UNCHANGED <<loading, closing, nodeVars>>

\* on_close of the socket before: it takes the flag of the current one down.
OldSocketCloses(p) ==
  /\ closing[p] /\ closing' = [closing EXCEPT ![p] = FALSE]
  /\ connected' = [connected EXCEPT ![p] = FALSE]
  /\ SetOffline(p)
  /\ UNCHANGED <<loading, socket, wireVars, nodeVars>>

\* The node is gone without a word.
GoesSilent(p) ==
  /\ socket[p] = "open" /\ "silent" \in Faults
  /\ socket' = [socket EXCEPT ![p] = "silent"]
  /\ Cut(p)
  /\ UNCHANGED <<pageVars, connected, closing, nodeVars>>

\* recv_ping: the node answers a ping to every open socket.
PingReply(p) ==
  /\ socket[p] = "open" /\ ~connected[p]
  /\ \E q \in Pages : socket[q] = "open" /\ connected[q]
  /\ connected' = [connected EXCEPT ![p] = TRUE]
  /\ UNCHANGED <<pageVars, socket, closing, wireVars, dropped, nodeVars>>

-----------------------------------------------------------------------------
(* The node.                                                               *)

\* handle_message, in the async_tcp task.  A question that comes between the
\* answer and the clearing of the flag is forgotten with it.
Asked(p) ==
  /\ socket[p] = "open" /\ questions[p] > 0
  /\ questions' = [questions EXCEPT ![p] = @ - 1]
  /\ getvars_flag' = TRUE
  /\ dropped' = [dropped EXCEPT ![p] = @ \/ (npc = "sent" /\ answers[p] = 0)]
  /\ UNCHANGED <<pageVars, socketVars, answers, npc>>

SeeFlag ==
  /\ npc = "idle" /\ getvars_flag /\ npc' = "sending"
  /\ UNCHANGED <<pageVars, socketVars, wireVars, dropped, getvars_flag>>

\* send_variables.
Answer ==
  /\ npc = "sending" /\ npc' = "sent"
  /\ \A p \in Pages : answers[p] < MaxFlight
  /\ answers' = [p \in Pages |-> IF socket[p] = "open" THEN answers[p] + 1 ELSE answers[p]]
  /\ UNCHANGED <<pageVars, socketVars, questions, dropped, getvars_flag>>

ClearFlag ==
  /\ npc = "sent" /\ npc' = "idle"
  /\ getvars_flag' = FALSE
  /\ UNCHANGED <<pageVars, socketVars, wireVars, dropped>>

IotUpdate == SeeFlag \/ Answer \/ ClearFlag

Next ==
  \/ IotUpdate
  \/ \E p \in Pages :
       \/ LoadProject(p) \/ ProjectLoaded(p) \/ LoadFails(p)
       \/ GoOnline(p) \/ GoOffline(p) \/ Update(p) \/ Receive(p)
       \/ KeepaliveExpires(p) \/ Opened(p) \/ SocketCloses(p)
       \/ OldSocketCloses(p) \/ GoesSilent(p) \/ PingReply(p) \/ Asked(p)

Spec == Init /\ [][Next]_vars

\* loop() runs forever; timers fire; messages and events are delivered; an
\* attempt to connect is decided, and succeeds again and again if it is made
\* again and again.
Fairness ==
  /\ WF_vars(IotUpdate)
  /\ \A p \in Pages :
       /\ WF_vars(Update(p)) /\ WF_vars(Receive(p)) /\ WF_vars(Asked(p))
       /\ WF_vars(KeepaliveExpires(p)) /\ WF_vars(OldSocketCloses(p))
       /\ SF_vars(Opened(p))

FairSpec == Spec /\ Fairness

-----------------------------------------------------------------------------
(* A page that waits for an answer on an open socket will have one, unless *)
(* a question it counted was never sent, was lost with its socket, or met  *)
(* the node between its answer and the clearing of getvars_flag.  What one *)
(* page asks, and every page is told, never makes another wait in vain.    *)
WaitsForSomething ==
  \A p \in Pages :
    online[p] /\ socket[p] = "open" /\ pending[p] > 0 /\ ~dropped[p] =>
      \/ questions[p] > 0 \/ answers[p] > 0
      \/ getvars_flag /\ npc # "sent"

(* ... so it is told the variables again and again.                        *)
RefreshesUnlessDropped ==
  \A p \in Pages :
    <>[](online[p] /\ connected[p] /\ socket[p] = "open") =>
      []<><<Receive(p)>>_vars \/ []<>dropped[p]

(* A page does not stay disconnected: the keep-alive replaces its socket,  *)
(* although the close event of the old one may take the new one's flag.    *)
Reconnects == \A p \in Pages : []<>connected[p]

=============================================================================

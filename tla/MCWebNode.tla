----------------------------- MODULE MCWebNode ------------------------------
(***************************************************************************)
(* Between a page and the board, layer by layer.  A behaviour is that of   *)
(* one layer, which its initial state chooses:                             *)
(*   "page"     two saves and a load, or a save and several loads, with    *)
(*              every fault of the network (AjaxQueue);                    *)
(*   "server"   one connection of the web server, with every kind of       *)
(*              request that HTTP.cpp has a handler for, and rooms that    *)
(*              end in the head, behind it and in the content (WebServer); *)
(*   "parser"   one request as it arrives in segments: a query and forms   *)
(*              with every character that separates, a text, a save, and   *)
(*              items whose content begins like a delimiter                *)
(*              (RequestParser);                                           *)
(*   "handlers" two connections with requests of every kind, and files     *)
(*              stored plain, compressed, both ways or not (Handlers);     *)
(*   "sockets"  three messages to two web sockets whose send buffers take  *)
(*              one and a half of them (WebSocket).                        *)
(***************************************************************************)
EXTENDS AjaxQueue

CONSTANTS
  Pages, HeadLengths, FileLength, TextLength, SendBuffer,
  Clients, MaxQueued, Room, Length, ControlLen, MaxPrints, MaxFrames,
  Segments, ItemBuffer, Connections, StatBits

\* Lengths of parts of a response, and of the send buffer.
ASSUME WireAssumption ==
  HeadLengths \subseteq Nat /\ FileLength \in Nat /\ TextLength \in Nat /\ SendBuffer \in Nat

VARIABLES
  part,
  conn, request, parse, lines, parsed, response, answers, out, acked, cut, starved,
  status, messages, controls, wire, partial, buffers, locked, printed, made, toTell, lpc,
  pinged, doubled, unguarded,
  sent, coming, req,
  in_www, asked, answer, ws_clients, es_clients, gzip_stats, gzip_first

serverVars == <<conn, request, parse, lines, parsed, response, answers, out, acked, cut,
                starved>>
socketVars == <<status, messages, controls, wire, partial, buffers, locked, printed, made,
                toTell, lpc, pinged, doubled, unguarded>>
parserVars == <<sent, coming, req>>
handlerVars == <<in_www, asked, answer, ws_clients, es_clients, gzip_stats, gzip_first>>
allVars == <<part, vars, serverVars, socketVars, parserVars, handlerVars>>

Ask(method, url, named, body) == [method |-> method, url |-> url, named |-> named, body |-> body]
MCRequests ==
  {Ask("GET", "/page", FALSE, 0), Ask("GET", "/", FALSE, 0),
   Ask("POST", "save_systemfile", TRUE, 2), Ask("POST", "save_systemfile", FALSE, 2),
   Ask("POST", "save_systemfile", TRUE, 0),
   Ask("POST", "get_systemfile", TRUE, 0), Ask("POST", "get_systemfile", FALSE, 0),
   Ask("GET", "getvalue", TRUE, 0), Ask("GET", "getvalue", FALSE, 0),
   Ask("GET", "setvalue", FALSE, 0), Ask("GET", "system_restart", FALSE, 0),
   Ask("POST", "getvalue", FALSE, 0), Ask("GET", "blank", FALSE, 0)}

Message(method, query, headers, type) ==
  [method |-> method, query |-> query, headers |-> headers, type |-> type, params |-> <<>>,
   items |-> <<>>, data |-> <<>>]
Pair(name, value) == [name |-> name, value |-> value]
UpToTwo(bytes) == UNION {[1 .. n -> bytes] : n \in 0 .. 2}
Values == UpToTwo({"a", "=", "&", "%", "+", " "})

\* What begins like a delimiter and goes on otherwise.
Lure == <<"CR", "LF", "-", "-", "B">>
Contents == {SubSeq(Lure, 1, n) \o s : n \in 0 .. 5, s \in UpToTwo({"CR", "LF", "-", "B", "x"})}
Item(file, data, last) == [file |-> file, data |-> data, last |-> last]
MCMeanings ==
  {Message("GET", <<Pair(<<"name">>, v), Pair(<<"a">>, <<"=">>)>>, <<"upgrade">>, "none") :
     v \in Values}
  \cup {[Message("POST", <<>>, <<>>, "form") EXCEPT
           !.params = <<Pair(<<"a">>, v), Pair(<<"b">>, <<" ">>)>>] : v \in Values}
  \cup {[Message("POST", <<>>, h, "data") EXCEPT !.data = <<"a", "=", "LF", "x">>] :
          h \in {<<"filename", "filetype">>, <<"expect">>}}
  \cup {[Message("POST", <<>>, <<>>, "text") EXCEPT
           !.data = d, !.params = <<Pair(<<"a">>, <<"x">>)>>] :
          d \in {<<"{", "=", "}">>, <<"a", "=", "x">>}}
  \cup {[Message("POST", <<>>, <<>>, "multipart") EXCEPT !.items = i] :
          i \in {<<Item(f, c, TRUE)>> : f \in BOOLEAN, c \in Contents}
                \cup {<<Item(FALSE, <<"x">>, FALSE), Item(TRUE, c, TRUE)>> : c \in Contents}}

Get(url, type, version, key) ==
  [method |-> "GET", url |-> url, type |-> type, version |-> version, key |-> key]
MCNames == {<<"a">>, <<"b">>}
MCAsks ==
  {Get(url, "http", 0, FALSE) : url \in {<<>>, <<"a">>, <<"b">>, <<"ws">>, <<"getvalue", "x">>}}
  \cup {[Get(<<"a">>, "http", 0, FALSE) EXCEPT !.method = "POST"]}
  \cup {Get(<<"events">>, "event", 0, FALSE), Get(<<"a">>, "ws", 13, TRUE)}
  \cup {Get(<<"ws">>, "ws", version, key) : version \in {0, 8, 13}, key \in BOOLEAN}

Server == INSTANCE WebServer WITH Requests <- MCRequests
Sockets == INSTANCE WebSocket
Parser == INSTANCE RequestParser WITH Meanings <- MCMeanings
Choice == INSTANCE Handlers WITH Asks <- MCAsks, Names <- MCNames

NodeInit ==
  /\ part \in {"page", "server", "sockets", "parser", "handlers"}
  /\ Init /\ Sockets!Init /\ Parser!ParserInit /\ Choice!HandlersInit
  /\ part = "parser" \/ sent = Message("GET", <<Pair(<<"name">>, <<>>), Pair(<<"a">>, <<"=">>)>>,
                                      <<"upgrade">>, "none")
  /\ part = "handlers" \/ in_www = {}
  /\ IF part = "server" THEN Server!Init
     ELSE /\ Server!Init
          /\ request = Ask("GET", "/", FALSE, 0)

NodeNext ==
  /\ UNCHANGED part
  /\ \/ /\ part = "page" /\ Next
        /\ UNCHANGED <<serverVars, socketVars, parserVars, handlerVars>>
     \/ /\ part = "server" /\ Server!Next
        /\ UNCHANGED <<vars, socketVars, parserVars, handlerVars>>
     \/ /\ part = "sockets" /\ Sockets!Next
        /\ UNCHANGED <<vars, serverVars, parserVars, handlerVars>>
     \/ /\ part = "parser" /\ Parser!Arrive
        /\ UNCHANGED <<vars, serverVars, socketVars, handlerVars>>
     \/ /\ part = "handlers" /\ Choice!HandlersNext
        /\ UNCHANGED <<vars, serverVars, socketVars, parserVars>>

\* The fairness of each layer.
NodeFairness ==
  /\ WF_vars(part = "page" /\ \E r \in Range(requests) : Answer(r) \/ Failed(r))
  /\ WF_vars(part = "page" /\ \E r \in Range(requests) : Loaded(r))
  /\ WF_serverVars(part = "server" /\ Server!OnPoll)
  /\ WF_serverVars(part = "server" /\ Server!OnAck)
  /\ WF_serverVars(part = "server" /\ Server!RxTimeout)
  /\ \A c \in Clients : /\ WF_socketVars(part = "sockets" /\ Sockets!OnAck(c))
                        /\ WF_socketVars(part = "sockets" /\ Sockets!OnPoll(c))
  /\ WF_socketVars(part = "sockets" /\ Sockets!LoopTask)

NodeSpec == NodeInit /\ [][NodeNext]_allVars /\ NodeFairness

\* The properties of the layers, under names a configuration can give.
WireInOrder == Server!WireInOrder
RequestsServed == Parser!ReadAsMeant /\ Choice!AnsweredRight
BuffersLive == Sockets!BuffersLive
QueueDrains == Sockets!QueueDrains

(* Nothing hangs: a page's request is answered or given up, and the server *)
(* answers it in full or closes the connection.                            *)
RequestsEnd == AllAnswered /\ Server!NoneHangs

\* The type invariants of all layers.
LayersTypeOK == TypeOK /\ Server!ServerTypeOK /\ Sockets!WsTypeOK
=============================================================================

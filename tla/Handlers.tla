------------------------------ MODULE Handlers -------------------------------
(***************************************************************************)
(* Which handler of the web server answers a request, and with what: the   *)
(* web socket and the event source, which take over the connection when    *)
(* their head is acknowledged, the files of /www, plain or compressed, and *)
(* the callbacks of HTTP.cpp.  All of it runs in the async_tcp task.  The  *)
(* static handler learns from what it found in which order to look.        *)
(*                                                                         *)
(* A url is a sequence of segments; requests here have no body.  How a     *)
(* response is sent is WebServer's subject.                                *)
(***************************************************************************)
EXTENDS Integers, SequencesExt, FiniteSetsExt

CONSTANTS
  Connections,
  Asks,        \* the requests: method, url, type, version, key
  Names,       \* the urls that may have a file
  StatBits     \* how many files the static handler remembers: 8 in the code

VARIABLES
  in_www,      \* the files of /www: their url, and whether they end in ".gz"
  asked,       \* of each connection, what was requested, or Nothing
  answer,      \* what its handler answered, or Nothing
  ws_clients, es_clients,  \* AsyncWebSocket::_clients, AsyncEventSource::_clients
  gzip_stats,  \* for each of the last files found: it was compressed
  gzip_first   \* _gzipFirst

requestVars == <<asked, answer>>
handlerVars == <<in_www, requestVars, ws_clients, es_clients, gzip_stats, gzip_first>>

Nothing == [kind |-> "none"]
Simple(kind) == [kind |-> kind]
Page(url, coded) == [kind |-> "page", url |-> url, coded |-> coded]

\* AsyncStaticWebHandler: five ones, then zeros.
HandlersInit ==
  /\ in_www \in SUBSET (Names \X BOOLEAN)
  /\ asked = [c \in Connections |-> Nothing] /\ answer = [c \in Connections |-> Nothing]
  /\ ws_clients = {} /\ es_clients = {}
  /\ gzip_stats = [i \in 1 .. StatBits |-> i <= (StatBits \div 2) + 1] /\ gzip_first = FALSE

-----------------------------------------------------------------------------
(* The files.  The default of a directory, /www//www/index.html, is stored *)
(* under no name: a url without a file is not handled here.                *)

\* Faulty variant of FileFound: the second name is not tried.
FileFoundFirst(url) ==
  {f \in in_www : f[1] = url /\ f[2] = gzip_first}

\* _fileExists: the plain name and the one with ".gz", in an order.
FileFound(url) ==
  LET found == {f \in in_www : f[1] = url}
      first == {f \in found : f[2] = gzip_first}
  IN  IF first # {} THEN first ELSE found

CountBits(stats) == Quantify(DOMAIN stats, LAMBDA i : stats[i])

\* All alike decide, and otherwise the majority.
Learn(coded) ==
  /\ gzip_stats' = Append(Tail(gzip_stats), coded)
  /\ gzip_first' = (CountBits(gzip_stats') > StatBits \div 2)

\* A url that ends with a slash is a directory's.
GetFile(q) == q.url # <<>> /\ FileFound(q.url) # {}

StaticCanHandle(q) == q.method = "GET" /\ q.type = "http" /\ GetFile(q)

-----------------------------------------------------------------------------
(* The others.                                                             *)

SocketCanHandle(q) == q.method = "GET" /\ q.url = <<"ws">> /\ q.type = "ws"
EventsCanHandle(q) == q.method = "GET" /\ q.url = <<"events">> /\ q.type = "event"

\* AsyncCallbackWebHandler: the url itself or one below it.
CallbackCanHandle(q, method, url) ==
  /\ q.method = method \/ method = "ANY"
  /\ url = <<>> => q.url = <<>>
  /\ IsPrefix(url, q.url)

\* The callbacks load_handlers adds, in its order.
Callbacks ==
  << <<"ANY", <<>>>>, <<"POST", <<"save_systemfile">>>>, <<"POST", <<"get_systemfile">>>>,
     <<"GET", <<"getvalue">>>>, <<"GET", <<"setvalue">>>>, <<"GET", <<"system_restart">>>> >>

CallbackOf(q) ==
  SelectInSeq(Callbacks, LAMBDA h : CallbackCanHandle(q, h[1], h[2]))

\* Faulty variant of Handshake: any version is taken.
HandshakeAnyVersion(q) ==
  IF q.version = 0 \/ ~q.key THEN Simple("400") ELSE Simple("switch")

\* AsyncWebSocket::handleRequest.
Handshake(q) ==
  IF q.version = 0 \/ ~q.key THEN Simple("400")
  ELSE IF q.version # 13 THEN Simple("400_version")
  ELSE Simple("switch")

-----------------------------------------------------------------------------
(* A connection.                                                           *)

Answer(c, a) == answer' = [answer EXCEPT ![c] = a]
ServeFile(c, f) == Answer(c, Page(f[1], f[2]))
NothingLearned == UNCHANGED <<gzip_stats, gzip_first>>

\* _attachHandler and handleRequest, when the last line of the head is read.
Request(c, q) ==
  /\ asked[c] = Nothing /\ asked' = [asked EXCEPT ![c] = q]
  /\ IF SocketCanHandle(q) THEN Answer(c, Handshake(q)) /\ NothingLearned
     ELSE IF EventsCanHandle(q) THEN Answer(c, Simple("stream")) /\ NothingLearned
     ELSE IF StaticCanHandle(q)
     THEN \E f \in FileFound(q.url) : Learn(f[2]) /\ ServeFile(c, f)
     ELSE IF CallbackOf(q) # 0
     THEN Answer(c, [kind |-> "callback", number |-> CallbackOf(q)]) /\ NothingLearned
     ELSE Answer(c, Simple("not_found")) /\ NothingLearned
  /\ UNCHANGED <<in_www, ws_clients, es_clients>>

\* _ack of the response, at an acknowledgement of len bytes or, with 0, a poll:
\* the client replaces the request on its connection.
Acknowledged(c, len) ==
  /\ answer[c].kind \in {"switch", "stream"} /\ c \notin ws_clients \cup es_clients
  /\ len > 0
  /\ ws_clients' = IF answer[c].kind = "switch" THEN ws_clients \cup {c} ELSE ws_clients
  /\ es_clients' = IF answer[c].kind = "stream" THEN es_clients \cup {c} ELSE es_clients
  /\ UNCHANGED <<in_www, requestVars, gzip_stats, gzip_first>>

\* The connection ends: its request, or the client that replaced it, is deleted.
Ends(c) ==
  /\ asked[c] # Nothing
  /\ asked' = [asked EXCEPT ![c] = Nothing] /\ Answer(c, Nothing)
  /\ ws_clients' = ws_clients \ {c} /\ es_clients' = es_clients \ {c}
  /\ UNCHANGED <<in_www, gzip_stats, gzip_first>>

HandlersNext ==
  \E c \in Connections :
    \/ \E q \in Asks : Request(c, q)
    \/ \E len \in {0, 1} : Acknowledged(c, len)
    \/ Ends(c)

HandlersSpec == HandlersInit /\ [][HandlersNext]_handlerVars

-----------------------------------------------------------------------------
HandlersTypeOK ==
  /\ in_www \subseteq Names \X BOOLEAN /\ gzip_first \in BOOLEAN
  /\ \A c \in Connections : asked[c] \in Asks \cup {Nothing}
  /\ ws_clients \cup es_clients \subseteq Connections
  /\ gzip_stats \in [1 .. StatBits -> BOOLEAN]

(* Whatever was served before, in whichever order the handler has come to  *)
(* look: a page that is stored, plain or compressed, is answered with its  *)
(* own file, and said to be compressed only if it is; and a connection     *)
(* speaks the web socket protocol only after a handshake of its version    *)
(* that the browser asked for.                                             *)
AnsweredRight ==
  \A c \in Connections : asked[c] # Nothing =>
    /\ asked[c].method = "GET" /\ asked[c].type = "http" /\ asked[c].url # <<>>
         => /\ (answer[c].kind = "page")
                 = (\E coded \in BOOLEAN : <<asked[c].url, coded>> \in in_www)
            /\ answer[c].kind = "page" => /\ answer[c].url = asked[c].url
                                          /\ <<answer[c].url, answer[c].coded>> \in in_www
    /\ c \in ws_clients => /\ asked[c].type = "ws" /\ asked[c].url = <<"ws">>
                           /\ asked[c].version = 13 /\ asked[c].key
    /\ c \in es_clients => asked[c].type = "event"
=============================================================================

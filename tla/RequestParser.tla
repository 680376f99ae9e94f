---------------------------- MODULE RequestParser ----------------------------
(***************************************************************************)
(* How AsyncWebServerRequest takes a request apart while TCP delivers it   *)
(* in segments that may end anywhere: the request line with the query, the *)
(* headers, and a body that is handed on, decoded as a form, or taken      *)
(* apart as the items of a multipart form (WebRequest.cpp).  The client is *)
(* a browser: what it sends is an encoding of what it means.               *)
(*                                                                         *)
(* A byte is a string.  A header, and a word of the request line, is one   *)
(* byte.                                                                   *)
(***************************************************************************)
EXTENDS Integers, SequencesExt

CONSTANTS
  Meanings,    \* what a client may mean
  Segments,    \* the lengths of a segment, but for one that brings the rest
  ItemBuffer   \* the bytes of a file that are handed on at once: 1460 in the code

VARIABLES
  sent,        \* what the client means
  coming,      \* the bytes that have not arrived
  req          \* the AsyncWebServerRequest

parserVars == <<sent, coming, req>>

-----------------------------------------------------------------------------
(* The client.                                                             *)

CRLF == <<"CR", "LF">>
Boundary == <<"B", "C">>
Delimiter == CRLF \o <<"-", "-">> \o Boundary

\* What encodeURIComponent makes of the characters that separate.
Escape ==
  [c \in {"=", "&", "%", "+", " "} |->
     CASE c = "=" -> <<"%", "3", "d">> [] c = "&" -> <<"%", "2", "6">>
       [] c = "%" -> <<"%", "2", "5">> [] c = "+" -> <<"%", "2", "b">>
       [] OTHER -> <<"+">>]
Encoded(text) ==
  FoldLeft(LAMBDA s, c : s \o (IF c \in DOMAIN Escape THEN Escape[c] ELSE <<c>>), <<>>, text)

Joined(params) ==
  FoldLeft(LAMBDA s, p : s \o (IF s = <<>> THEN <<>> ELSE <<"&">>)
                            \o Encoded(p.name) \o <<"=">> \o Encoded(p.value), <<>>, params)

ItemHead(item) ==
  IF item.file THEN <<"disposition of a file">> \o CRLF \o <<"type of a file">> \o CRLF \o CRLF
  ELSE <<"disposition of a field">> \o CRLF \o CRLF

MultipartBody(items) ==
  FoldLeft(LAMBDA s, item : s \o ItemHead(item) \o item.data \o Delimiter
                              \o (IF item.last THEN <<"-", "-">> ELSE <<>>) \o CRLF,
           <<"-", "-">> \o Boundary \o CRLF, items)

BodyOf(m) ==
  CASE m.type = "form" -> Joined(m.params)
    [] m.type = "multipart" -> MultipartBody(m.items)
    [] OTHER -> m.data

RequestHead(m) ==
  <<m.method, " ", "/url">> \o (IF m.query = <<>> THEN <<>> ELSE <<"?">> \o Joined(m.query))
    \o <<" ", "HTTP/1.1">> \o CRLF
    \o FoldLeft(LAMBDA s, h : s \o <<h>> \o CRLF, <<>>, m.headers)
    \o (IF BodyOf(m) = <<>> THEN <<>> ELSE <<m.type>> \o CRLF \o <<"content-length">> \o CRLF)
    \o CRLF

-----------------------------------------------------------------------------
(* The request.                                                            *)

Before(s, c) == IF Contains(s, c) THEN SubSeq(s, 1, SelectInSeq(s, LAMBDA x : x = c) - 1) ELSE s
Behind(s, c) ==
  IF Contains(s, c) THEN SubSeq(s, SelectInSeq(s, LAMBDA x : x = c) + 1, Len(s)) ELSE <<>>

NewRequest ==
  [state |-> "start", temp |-> <<>>, method |-> "ANY", url |-> "", params |-> <<>>,
   headers |-> {}, kind |-> "http", type |-> "", expecting |-> FALSE, continued |-> FALSE,
   length |-> 0, parsed |-> 0, plain |-> FALSE, multi |-> "boundary", position |-> 0,
   isFile |-> FALSE, size |-> 0, value |-> <<>>, buffer |-> <<>>,
   body |-> <<>>, upload |-> <<>>, gaps |-> FALSE, handled |-> 0]

\* urlDecode: a % in front of two more characters is a byte in hexadecimal.
Decode ==
  [two \in {<<"3", "d">>, <<"2", "6">>, <<"2", "5">>, <<"2", "b">>} |->
     CHOOSE c \in DOMAIN Escape : Escape[c] = <<"%">> \o two]
UrlDecode(text) ==
  FoldLeft(LAMBDA d, i :
    CASE i <= d.until -> d
      [] text[i] = "%" /\ i + 2 <= Len(text) ->
           [out |-> Append(d.out, Decode[<<text[i + 1], text[i + 2]>>]), until |-> i + 2]
      [] text[i] = "+" -> [d EXCEPT !.out = Append(@, " ")]
      [] OTHER -> [d EXCEPT !.out = Append(@, text[i])],
    [out |-> <<>>, until |-> 0], [i \in 1 .. Len(text) |-> i]).out

Param(name, value, post, file) == [name |-> name, value |-> value, post |-> post, file |-> file]

\* _addGetParams, a part of the query after the other.
AddGetParam(r, part) ==
  [r EXCEPT !.params =
     Append(@, Param(UrlDecode(Before(part, "=")), UrlDecode(Behind(part, "=")), FALSE, FALSE))]
Parts(query) ==
  FoldLeft(LAMBDA p, c : IF c = "&" THEN Append(p, <<>>)
                         ELSE [p EXCEPT ![Len(p)] = Append(@, c)], <<<<>>>>, query)
AddGetParams(r, query) ==
  IF query = <<>> THEN r ELSE FoldLeft(AddGetParam, r, Parts(query))

\* _parseReqHead
ParseReqHead(r, line) ==
  LET target == Before(Behind(line, " "), " ")
  IN  AddGetParams([r EXCEPT !.method = Before(line, " ")[1], !.url = Before(target, "?")[1],
                             !.state = "headers"],
                   Behind(target, "?"))

\* _parseReqHeader
ParseReqHeader(r, line) ==
  LET h == line[1]
      named == [r EXCEPT !.headers = @ \cup {h}]
  IN  CASE h \in {"form", "multipart", "text", "data"} -> [named EXCEPT !.type = h]
        [] h = "content-length" -> [named EXCEPT !.length = Len(BodyOf(sent))]
        [] h = "expect" -> [named EXCEPT !.expecting = TRUE]
        [] h = "upgrade" -> [named EXCEPT !.kind = "websocket"]
        [] OTHER -> named

Handle(r) == [r EXCEPT !.state = "end", !.handled = @ + 1]

\* _parseLine
ParseLine(r, line) ==
  CASE r.state = "start" ->
         IF line = <<>> THEN [r EXCEPT !.state = "fail"] ELSE ParseReqHead(r, line)
    [] line # <<>> -> ParseReqHeader(r, line)
    [] OTHER -> LET told == [r EXCEPT !.continued = r.expecting]
                IN  IF r.length > 0 THEN [told EXCEPT !.state = "body"] ELSE Handle(told)

\* The lines of a segment: the text up to a line feed, without its carriage
\* return.  What is behind the head is left for the body.
HeadByte(a, c) ==
  CASE a.req.state \notin {"start", "headers"} -> [a EXCEPT !.left = Append(@, c)]
    [] c = "LF" -> [a EXCEPT !.req = ParseLine([a.req EXCEPT !.temp = <<>>],
                                               SelectSeq(a.req.temp, LAMBDA x : x # "CR"))]
    [] OTHER -> [a EXCEPT !.req.temp = Append(@, c)]

-----------------------------------------------------------------------------
(* Bodies.                                                                 *)

\* _parsePlainPostChar
PlainPostByte(r, c) ==
  LET counted == [r EXCEPT !.parsed = @ + 1, !.temp = IF c = "&" THEN @ ELSE Append(@, c)]
      t == counted.temp
      named == t # <<>> /\ t[1] # "{" /\ Contains(Tail(t), "=") /\ t[1] # "="
  IN  IF c # "&" /\ counted.parsed # r.length THEN counted
      ELSE [counted EXCEPT !.temp = <<>>,
              !.params = Append(@, IF named
                                   THEN Param(UrlDecode(Before(t, "=")), UrlDecode(Behind(t, "=")), TRUE, FALSE)
                                   ELSE Param(<<"body">>, UrlDecode(t), TRUE, FALSE))]

\* A text is a form if the first segment has a name and its = sign.
TakenForForm(r, data) ==
  \/ r.type = "form"
  \/ r.type = "text" /\ data[1] \notin {"{", "&", "="}
     /\ \E i \in DOMAIN data :
          data[i] = "=" /\ \A j \in 1 .. i - 1 : data[j] \notin {"{", "&", "="}

\* handleUpload and handleBody of the handler, which append at the index.
HandleUpload(r) ==
  [r EXCEPT !.upload = @ \o r.buffer, !.buffer = <<>>,
            !.gaps = @ \/ r.size - Len(r.buffer) # Len(r.upload)]
HandleBody(r, data) ==
  [r EXCEPT !.body = @ \o data, !.gaps = @ \/ r.parsed # Len(r.body)]

\* itemWriteByte, _handleUploadByte
WriteItem(r, c, last) ==
  IF ~r.isFile THEN [r EXCEPT !.size = @ + 1, !.value = Append(@, c)]
  ELSE LET w == [r EXCEPT !.size = @ + 1, !.buffer = Append(@, c)]
       IN  IF last \/ Len(w.buffer) = ItemBuffer THEN HandleUpload(w) ELSE w

\* WAIT_FOR_RETURN1
Data(r, c, last) ==
  IF c = "CR" THEN [r EXCEPT !.multi = "feed"] ELSE WriteItem([r EXCEPT !.multi = "data"], c, last)

\* Faulty variant of WasData: c is data as well.
WasDataToo(r, bytes, c, last) ==
  FoldLeft(LAMBDA q, b : WriteItem(q, b, last), [r EXCEPT !.multi = "data"], Append(bytes, c))

\* What looked like a delimiter was data, and c is looked at again.
WasData(r, bytes, c, last) ==
  Data(FoldLeft(LAMBDA q, b : WriteItem(q, b, last), [r EXCEPT !.multi = "data"], bytes), c, last)

ItemEnds(r) ==
  IF ~r.isFile
  THEN [r EXCEPT !.multi = "behind", !.params = Append(@, Param(<<"field">>, r.value, TRUE, FALSE))]
  ELSE IF r.size = 0 THEN [r EXCEPT !.multi = "behind"]
  ELSE [HandleUpload(r) EXCEPT !.multi = "behind",
          !.params = Append(@, Param(<<"file">>, <<"name">>, TRUE, TRUE))]

\* PARSE_HEADERS
ItemHeader(r, c) ==
  CASE c = "CR" -> r
    [] c # "LF" -> [r EXCEPT !.temp = Append(@, c)]
    [] r.temp # <<>> ->
         [r EXCEPT !.temp = <<>>, !.isFile = @ \/ r.temp[1] \in {"disposition of a file", "type of a file"}]
    [] OTHER -> [r EXCEPT !.multi = "data", !.size = 0, !.value = <<>>, !.buffer = <<>>]

\* _parseMultipartPostByte, without the count of bytes.
MultipartByte(r, c, last) ==
  LET n == Len(Boundary)
      line == <<"-", "-">> \o Boundary \o CRLF
  IN  CASE r.multi = "data" -> Data(r, c, last)
        [] r.multi = "boundary" ->
             IF c # line[r.parsed + 1] THEN [r EXCEPT !.multi = "error"]
             ELSE IF r.parsed + 1 = Len(line) THEN [r EXCEPT !.multi = "headers", !.isFile = FALSE]
             ELSE r
        [] r.multi = "headers" -> ItemHeader(r, c)
        [] r.multi = "feed" ->
             IF c = "LF" THEN [r EXCEPT !.multi = "dash1"] ELSE WasData(r, <<"CR">>, c, last)
        [] r.multi = "dash1" ->
             IF c = "-" THEN [r EXCEPT !.multi = "dash2"] ELSE WasData(r, CRLF, c, last)
        [] r.multi = "dash2" ->
             IF c = "-" THEN [r EXCEPT !.multi = "boundary or data", !.position = 0]
             ELSE WasData(r, Append(CRLF, "-"), c, last)
        [] r.multi = "boundary or data" ->
             IF c # Boundary[r.position + 1]
             THEN WasData(r, SubSeq(Delimiter, 1, 4 + r.position), c, last)
             ELSE IF r.position = n - 1 THEN ItemEnds(r) ELSE [r EXCEPT !.position = @ + 1]
        [] r.multi = "behind" ->
             IF c = "CR" THEN [r EXCEPT !.multi = "feed2"]
             ELSE IF c = "-" THEN [r EXCEPT !.multi = "finished", !.length = r.parsed + 4]
             ELSE WasData(r, Delimiter, c, last)
        [] r.multi = "feed2" ->
             IF c = "LF" THEN [r EXCEPT !.multi = "headers", !.isFile = FALSE]
             ELSE WasData(r, Append(Delimiter, "CR"), c, last)
        [] OTHER -> r

Multipart(r, data) ==
  FoldLeft(LAMBDA q, i : [MultipartByte(q, data[i], i = Len(data)) EXCEPT !.parsed = @ + 1],
           r, [i \in 1 .. Len(data) |-> i])

\* The part of _onData for a body.
Body(r, data) ==
  LET first == [r EXCEPT !.plain = @ \/ (r.parsed = 0 /\ TakenForForm(r, data))]
      taken == CASE r.type = "multipart" -> Multipart(r, data)
                 [] first.plain -> FoldLeft(PlainPostByte, first, data)
                 [] OTHER -> [HandleBody(first, data) EXCEPT !.parsed = @ + Len(data)]
  IN  IF taken.parsed = taken.length THEN Handle(taken) ELSE taken

\* _onData
OnData(r, data) ==
  LET head == FoldLeft(HeadByte, [req |-> r, left |-> <<>>], data)
  IN  IF head.req.state = "body" /\ head.left # <<>> THEN Body(head.req, head.left) ELSE head.req

\* getParam and getHeader, for the handlers.
GetParam(r, name) ==
  LET found == {i \in DOMAIN r.params :
                  r.params[i].name = name /\ ~r.params[i].post /\ ~r.params[i].file}
  IN  IF found = {} THEN <<"null">> ELSE r.params[CHOOSE i \in found : \A j \in found : i <= j].value
HasHeader(r, name) == name \in r.headers

-----------------------------------------------------------------------------
(* Delivery.                                                               *)

ParserInit ==
  /\ sent \in Meanings /\ coming = RequestHead(sent) \o BodyOf(sent) /\ req = NewRequest

Deliverable ==
  SubSeq(coming, 1, Len(coming) -
    IF "expect" \in Range(sent.headers) /\ ~req.continued THEN Len(BodyOf(sent)) ELSE 0)

\* A segment; a client that asked to continue waits for it.
Arrive ==
  /\ \E n \in {k \in Segments : k <= Len(Deliverable)} \cup {Len(Deliverable)} :
       /\ n > 0
       /\ req' = OnData(req, SubSeq(coming, 1, n))
       /\ coming' = SubSeq(coming, n + 1, Len(coming))
  /\ UNCHANGED sent

ParserSpec == ParserInit /\ [][Arrive]_parserVars

-----------------------------------------------------------------------------
(* Wherever TCP cuts a request, the server has read what the client meant: *)
(* the parameters of query and form as they were before the encoding, the  *)
(* content of each item without its delimiter, a body without gaps; and it *)
(* handles the request once, when the last byte is there.  Of a text that  *)
(* starts like a parameter either a form or a body is made, whichever the  *)
(* first segment looks like.                                               *)
Meant(m, post) ==
  [i \in DOMAIN m |-> Param(m[i].name, m[i].value, post, FALSE)]
ItemParams(items) ==
  FoldLeft(LAMBDA s, item :
    CASE ~item.file -> Append(s, Param(<<"field">>, item.data, TRUE, FALSE))
      [] item.data = <<>> -> s
      [] OTHER -> Append(s, Param(<<"file">>, <<"name">>, TRUE, TRUE)), <<>>, items)
FileData(items) ==
  FoldLeft(LAMBDA s, item : IF item.file THEN s \o item.data ELSE s, <<>>, items)

ReadAsMeant ==
  LET query == Meant(sent.query, FALSE)
      raw == req.params = query /\ req.body = sent.data
  IN  /\ req.handled = IF coming = <<>> THEN 1 ELSE 0
      /\ ~req.gaps
      /\ req.state = "body" => req.continued = ("expect" \in Range(sent.headers))
      /\ coming = <<>> =>
           /\ req.method = sent.method
           /\ \A p \in Range(sent.query) : GetParam(req, p.name) # <<"null">>
           /\ \A h \in Range(sent.headers) : HasHeader(req, h)
           /\ CASE sent.type = "form" -> req.params = query \o Meant(sent.params, TRUE)
                [] sent.type = "multipart" ->
                     req.params = query \o ItemParams(sent.items) /\ req.upload = FileData(sent.items)
                [] sent.type = "text" ->
                     raw \/ req.params = query \o Meant(sent.params, TRUE)
                [] OTHER -> raw

=============================================================================

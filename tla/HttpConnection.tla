--------------------------- MODULE HttpConnection ---------------------------
(***************************************************************************)
(* One HTTP/1.1 connection that may become a WebSocket: an Http1Client or  *)
(* Https1Client and the Http1Handler or Https1Handler that serves it.      *)
(* The two clients have the same code; the two handlers differ in how they *)
(* collect their input: Https1Handler appends what it is given, while      *)
(* Http1Handler receives into a buffer of a fixed size and hands all of it *)
(* to the parser.  The sockets below keep bytes in order, cut them as they *)
(* like and report each send once, as the modules of the transports show.  *)
(***************************************************************************)
EXTENDS Http1Protocol, WebSocket, TLC

CONSTANTS Kinds,         \* "http" and "https"
          MaxRequests,   \* bound: requests on one connection
          MaxFrames,     \* bound: frames of the client on one connection
          MaxUnasked,    \* bound: frames the server sends without being asked
          FrameSizes,    \* payload sizes
          MaxEdits,      \* bound, for each kind: changes of the program's header
          MaxConnects,   \* bound: calls of connect()
          MaxStreamId    \* 2^31 - 1: the last stream id of a handler

ASSUME ConnectionConstants ==
    /\ Kinds \subseteq {"http", "https"} /\ FrameSizes \subseteq Nat
    /\ MaxEdits \in [Kinds -> Nat]
    /\ {MaxRequests, MaxFrames, MaxUnasked, MaxConnects, MaxStreamId} \subseteq Nat

VARIABLES kind, conn, connects,
          header, edits,    \* the header of the program's next request
          client,           \* members of Http1Client / Https1Client
          server,           \* members of Http1Handler / Https1Handler
          c2s, s2c,         \* bytes on their way
          pending,          \* handed to the server's program, not answered yet
          asked, served, answered, got,   \* history: sent by one side, handed over by the other
          split,            \* history: a read of the server ended inside a message
          swallowed         \* history: frames ("some") taken for the body of a permission, or
                            \* a "part" of one

vars == <<kind, conn, connects, header, edits, client, server, c2s, s2c, pending,
          asked, served, answered, got, split, swallowed>>
history == <<asked, served, answered, got, split, swallowed>>

NoMap == [id \in {} |-> 0]
Zeros == [i \in 1 .. 12 |-> Zero]   \* more than a message lacks

NewClient == [websocket_ |-> FALSE, stream_id_ |-> 0, requests_h1_ |-> NoMap,
              requests_ws_ |-> NoMap, buffer_h1_ |-> <<>>, buffer_ws_ |-> <<>>,
              out |-> <<>>]
\* stream_id_ starts at -1: the first id is 0.
NewServer == [websocket_ |-> FALSE, stream_id_ |-> -1, buffer_http1_ |-> <<>>, cleared |-> FALSE,
              buffer_websocket_ |-> <<>>, sent_res_http1_ |-> NoMap, sent_res_ws_ |-> NoMap,
              out |-> <<>>, reporting |-> FALSE, failed |-> FALSE,
              undefined |-> FALSE]
OwnHeader == add(EmptyHeader, <<"host", "1">>)

Init ==
    /\ kind \in Kinds /\ conn = "none" /\ connects = 0
    /\ header = OwnHeader /\ edits = 0
    /\ client = NewClient /\ server = NewServer
    /\ c2s = <<>> /\ s2c = <<>> /\ pending = <<>>
    /\ asked = <<>> /\ served = <<>> /\ answered = <<>> /\ got = <<>> /\ split = FALSE
    /\ swallowed = "no"

\* std::map: insert keeps an entry that is there, operator[] replaces it.
Insert(map, id, value) == IF id \in DOMAIN map THEN map ELSE (id :> value) @@ map
Replace(map, id, value) == (id :> value) @@ map
Erase(map, id) == [i \in DOMAIN map \ {id} |-> map[i]]

-----------------------------------------------------------------------------
\* The client's members.  Http1Client and Https1Client have the same code.
KeepRequests(c) == [c EXCEPT !.buffer_h1_ = <<>>, !.buffer_ws_ = <<>>]   \* mutant: requests stay
ClearRequests(c) == [c EXCEPT !.requests_h1_ = NoMap, !.buffer_h1_ = <<>>,
                              !.requests_ws_ = NoMap, !.buffer_ws_ = <<>>]
client_connect(c) == ClearRequests([c EXCEPT !.websocket_ = FALSE, !.stream_id_ = 0])

\* send(): remembered under its id, then given to the transport, which refuses it
\* while there is no connection.
Give(c, id, what, packet) ==
    IF conn = "open" THEN Append(c.out, [id |-> id, what |-> what, packet |-> packet]) ELSE c.out
client_send(c, id, what, packet) ==
    [c EXCEPT !.requests_h1_ = Insert(@, id, what), !.out = Give(c, id, what, packet)]
client_send_ws(c, id, what, packet) ==
    [c EXCEPT !.requests_ws_ = Insert(@, id, what), !.out = Give(c, id, what, packet)]

\* handle_sent and handle_sent_error: looked up in the map of the current mode.
SentMap(c) == IF c.websocket_ THEN c.requests_ws_ ELSE c.requests_h1_
client_handle_sent(c, id) ==
    IF c.websocket_ THEN [c EXCEPT !.requests_ws_ = Erase(@, id)]
    ELSE [c EXCEPT !.requests_h1_ = Erase(@, id)]
client_handle_sent_error(c, id) == client_handle_sent(c, id)

\* What a message is to the side that reads it; a line that is there twice counts once.
Parsed(fields) == FoldLeft(add, EmptyHeader, fields)
AsRead(line, h, body) == [line |-> line, header |-> h, body |-> body]
AsFrame(op, id, size) == [op |-> op, id |-> id, payload |-> Payload(id, size)]

\* The server answers a ping with a pong, so that its own pings are those nobody asked for.
Unasked(m) == "op" \in DOMAIN m /\ m.op = "ping"
Answers(messages) == SelectSeq(messages, LAMBDA m : ~Unasked(m))

\* on_response of the program: it switches when the answer is a permission
\* (is_switching_websocket; with Https1Client by the response's own test).
is_switching_websocket(line, h) ==
    /\ line[3] = "101" /\ contains(h, "sec-websocket-accept")
    /\ get(h, "upgrade") = "websocket" /\ get(h, "connection") = "Upgrade"
Switches(line, h) ==
    IF kind = "http" THEN is_switching_websocket(line, h) ELSE is_websocket_upgrade(line[3], h)

\* handle_recv_http1: the client after data, and what it hands to the program.
handle_recv_http1(c, data) ==
    LET buffer == c.buffer_h1_ \o data
        parsed == parse_http1(buffer)
    IN  IF parsed.result # "message" THEN [c |-> [c EXCEPT !.buffer_h1_ = buffer], told |-> <<>>]
        ELSE [c |-> [c EXCEPT !.buffer_h1_ = <<>>,
                              !.websocket_ = @ \/ Switches(parsed.line, parsed.header)],
              told |-> <<AsRead(parsed.line, parsed.header, parsed.body)>>]

\* The frames at the front of a buffer, and what is left of it.
RECURSIVE Frames(_)
Frames(buffer) ==
    LET parsed == parse_frame(buffer)
    IN  IF parsed.result = "incomplete" THEN [told |-> <<>>, rest |-> buffer]
        ELSE LET after == Frames(SubSeq(buffer, parsed.size + 1, Len(buffer)))
             IN  [told |-> <<parsed.frame>> \o after.told, rest |-> after.rest]

handle_recv_ws(c, data) ==
    LET frames == Frames(c.buffer_ws_ \o data)
    IN  [c |-> [c EXCEPT !.buffer_ws_ = frames.rest], told |-> frames.told]

handle_recv(c, data) ==
    IF c.websocket_ THEN handle_recv_ws(c, data) ELSE handle_recv_http1(c, data)

-----------------------------------------------------------------------------
\* The client's side.
Connect ==
    /\ conn = "none" /\ connects < MaxConnects
    /\ connects' = connects + 1 /\ conn' = "connecting"
    /\ client' = client_connect(client)
    /\ UNCHANGED <<kind, header, edits, server, c2s, s2c, pending, history>>

\* The connection is made: handle_connect() at the client, a new handler at the server.
Connected ==
    /\ conn = "connecting" /\ conn' = "open"
    /\ client' = [ClearRequests(client) EXCEPT !.out = <<>>]
    /\ UNCHANGED <<kind, connects, header, edits, server, c2s, s2c, pending, history>>

\* The program changes the header of its first request; it never removes the host.  Values may
\* be empty or come twice in a list; clear() is not called.
EditHeader ==
    /\ conn = "open" /\ connects = 1 /\ asked = <<>> /\ edits < MaxEdits[kind]
    /\ edits' = edits + 1
    /\ LET alive == <<"connection", "Keep-Alive">>
       IN  header' \in {add(header, alive), set(header, alive), set(header, <<"connection", "">>),
                        del_value(header, alive), del(header, "connection"),
                        set_list(header, "connection", <<"Keep-Alive", "close">>),
                        set_list(header, "connection", <<"Keep-Alive", "Keep-Alive">>)}
    /\ UNCHANGED <<kind, conn, connects, client, server, c2s, s2c, pending, history>>

\* send(request) with the id of next_stream_id().  One request at a time, as HTTP/1.1
\* without pipelining has it; a path of more than 256 bytes makes a "long" line.
SendRequest(what, h, body) ==
    LET id == client.stream_id_ + 1
        request == [stream_id |-> id, what |-> what, header |-> h, body |-> body,
                    content_length_ |-> TRUE]
        read == AsRead(Line(id, what), Parsed(Written(h) \o OwnLength(request)), body)
    IN  /\ client' = client_send([client EXCEPT !.stream_id_ = id], id, read,
                                 request_packet(request))
        /\ asked' = IF conn = "open" THEN Append(asked, read) ELSE asked
        /\ header' = OwnHeader /\ edits' = 0
        /\ UNCHANGED <<kind, conn, connects, server, c2s, s2c, pending, served,
                       answered, got, split, swallowed>>

ClientAsks ==
    /\ conn = "open" /\ ~client.websocket_
    /\ Len(asked) = Len(Answers(got)) /\ Len(asked) < MaxRequests
    /\ \/ SendRequest("ok", upgrade_websocket(header), <<>>)
       \/ SendRequest("ok", header, <<Piece(1), Piece(2)>>)
       \/ SendRequest("long", header, <<>>)

ClientAsksTooEarly ==
    /\ conn \in {"none", "connecting"} /\ ~client.websocket_ /\ client.requests_h1_ = NoMap
    /\ SendRequest("long", header, <<>>)

\* send(stream_id, frame): clients mask theirs.  A close is the last one.
ClientSendsFrame ==
    /\ conn = "open" /\ client.websocket_
    /\ Cardinality({i \in DOMAIN asked : "op" \in DOMAIN asked[i]}) < MaxFrames
    /\ \A i \in DOMAIN asked : "op" \in DOMAIN asked[i] => asked[i].op # "close"
    /\ \E sent \in {<<"text", n>> : n \in FrameSizes} \cup {<<"ping", 0>>, <<"close", 0>>} :
          LET id == client.stream_id_ + 1
              op == sent[1]
              size == sent[2]
              frame == AsFrame(op, id, size)
          IN  /\ client' = client_send_ws([client EXCEPT !.stream_id_ = id], id, frame,
                                          make(op, id, size, TRUE))
              /\ asked' = Append(asked, frame)
    /\ UNCHANGED <<kind, conn, connects, header, edits, server, c2s, s2c, pending, served,
                   answered, got, split, swallowed>>

\* The transport has written the oldest send, or failed to: the connection is over then.
ClientFlushes ==
    /\ conn = "open" /\ client.out # <<>>
    /\ LET sent == Head(client.out)
           rest == [client EXCEPT !.out = Tail(@)]
       IN  \/ /\ c2s' = c2s \o sent.packet
              /\ client' = client_handle_sent(rest, sent.id)
              /\ UNCHANGED conn
           \/ /\ client' = client_handle_sent_error(rest, sent.id)
              /\ conn' = "closed" /\ UNCHANGED c2s
    /\ UNCHANGED <<kind, connects, header, edits, server, s2c, pending, history>>

\* handle_recv, of some of the bytes that have come.  What comes with a permission, behind
\* it, is its body; when that is part of a frame the rest of the stream makes no sense.
Taken(wire, rest) == SubSeq(wire, 1, Len(wire) - Len(rest))
AtBoundary(wire) == wire = <<>> \/ Head(wire)[1] \in {"line", "opcode"}
HasFrame(units) == \E i \in DOMAIN units : units[i][1] = "opcode"

ClientReads ==
    /\ conn \in {"open", "closed"} /\ s2c # <<>> /\ swallowed # "part"
    /\ \E n \in 1 .. Len(s2c) : s2c' = SubSeq(s2c, n + 1, Len(s2c))
ClientReceives ==
    /\ ClientReads
    /\ \E read \in {handle_recv(client, Taken(s2c, s2c'))} :
          client' = read.c /\ got' = got \o read.told
    /\ swallowed' = IF client.websocket_ \/ ~HasFrame(Taken(s2c, s2c')) THEN swallowed
                    ELSE IF AtBoundary(s2c') THEN "some" ELSE "part"
    /\ UNCHANGED <<kind, conn, connects, header, edits, server, c2s, pending, asked, served,
                   answered, split>>

\* on_disconnect(); the server's handler is gone.
ClientHangsUp ==
    /\ conn = "closed" /\ conn' = "none"
    /\ server' = NewServer /\ header' = OwnHeader /\ edits' = 0
    /\ c2s' = <<>> /\ s2c' = <<>> /\ pending' = <<>>
    /\ asked' = <<>> /\ served' = <<>> /\ answered' = <<>> /\ got' = <<>> /\ split' = FALSE
    /\ swallowed' = "no"
    /\ UNCHANGED <<kind, connects, client>>

-----------------------------------------------------------------------------
\* The server's handler.
next_stream_id(s) == [s EXCEPT !.stream_id_ = IF @ = MaxStreamId THEN 0 ELSE @ + 1]

\* A request: an id for it, and it is handed to the program.
TakeRequest(s, parsed) ==
    [s |-> next_stream_id(s), told |-> <<AsRead(parsed.line, parsed.header, parsed.body)>>]

ForgetsIncomplete(s, data) ==   \* mutant: only the newest bytes are parsed
    LET parsed == parse_http1(data)
    IN  IF parsed.result # "message" THEN [s |-> s, told |-> <<>>] ELSE TakeRequest(s, parsed)

\* Https1Handler appends what it is given; an exception empties the buffer.
Https1Handler_handle_input(s, data) ==
    LET buffer == s.buffer_http1_ \o data
        parsed == parse_http1(buffer)
        empty == [s EXCEPT !.buffer_http1_ = <<>>]
    IN  CASE parsed.result = "incomplete" -> [s |-> [s EXCEPT !.buffer_http1_ = buffer], told |-> <<>>]
          [] parsed.result = "throw" -> [s |-> [empty EXCEPT !.failed = TRUE], told |-> <<>>]
          [] OTHER -> TakeRequest(empty, parsed)

Https1Handler_handle_input_ws(s, data) ==
    LET frames == Frames(s.buffer_websocket_ \o data)
    IN  [s |-> [s EXCEPT !.buffer_websocket_ = frames.rest], told |-> frames.told]

\* Http1Handler parses the whole of a buffer that was filled with zeros and that
\* clear() leaves without size: from then on what is received is never looked at.
Http1Handler_handle_input(s, data) ==
    LET received == s.buffer_http1_ \o data
        parsed == parse_http1(received \o Zeros)
        empty == [s EXCEPT !.cleared = TRUE, !.buffer_http1_ = <<>>]
    IN  IF s.cleared THEN [s |-> s, told |-> <<>>]
        ELSE CASE parsed.result = "incomplete" ->
                    [s |-> [s EXCEPT !.buffer_http1_ = received], told |-> <<>>]
               [] parsed.result = "throw" -> [s |-> [empty EXCEPT !.failed = TRUE], told |-> <<>>]
               [] OTHER -> TakeRequest(empty, parsed)

\* Frames are taken until their sizes reach what was received; when they pass it, the
\* next recv() writes before the buffer and nothing is defined any more.
RECURSIVE FramesOf(_, _)
FramesOf(buffer, recvd) ==
    LET parsed == parse_frame(buffer \o Zeros)
        after == FramesOf(SubSeq(buffer, parsed.size + 1, Len(buffer)), recvd - parsed.size)
    IN  IF recvd <= 0 THEN [told |-> <<>>, recvd |-> recvd]
        ELSE [told |-> <<parsed.frame>> \o after.told, recvd |-> after.recvd]
Http1Handler_handle_input_ws(s, data) ==
    LET frames == FramesOf(data, Len(data))
    IN  [s |-> [s EXCEPT !.undefined = frames.recvd < 0], told |-> frames.told]

handle_input(s, data) ==
    IF kind = "http"
    THEN IF s.websocket_ THEN Http1Handler_handle_input_ws(s, data)
         ELSE Http1Handler_handle_input(s, data)
    ELSE IF s.websocket_ THEN Https1Handler_handle_input_ws(s, data)
         ELSE Https1Handler_handle_input(s, data)

\* The reactor's thread reads when it is not about to report a send.
ServerReads ==
    /\ conn = "open" /\ c2s # <<>> /\ ~server.undefined /\ ~server.reporting
    /\ \E n \in 1 .. Len(c2s) : c2s' = SubSeq(c2s, n + 1, Len(c2s))

ServerReceives ==
    /\ ServerReads
    /\ \E read \in {handle_input(server, Taken(c2s, c2s'))} :
          /\ server' = read.s
          /\ served' = served \o read.told /\ pending' = pending \o read.told
    /\ split' = (split \/ ~AtBoundary(c2s'))
    /\ UNCHANGED <<kind, conn, connects, header, edits, client, s2c, asked, answered, got, swallowed>>

\* send(response) and send(frame)
server_send(s, id, what, packet) ==
    [s EXCEPT !.stream_id_ = id, !.sent_res_http1_ = Replace(@, id, what),
              !.out = Append(@, [id |-> id, what |-> what, packet |-> packet])]
server_send_ws(s, what, packet) ==
    LET next == next_stream_id(s)
        id == next.stream_id_
    IN  [next EXCEPT !.sent_res_ws_ = Replace(@, id, what),
                     !.out = Append(@, [id |-> id, what |-> what, packet |-> packet])]

IsRequest(entry) == "line" \in DOMAIN entry
Upgrades(entry) == is_upgrade_wabsocket(entry.header)

Fields(fields) == FoldLeft(set, EmptyHeader, fields)
Chunked == <<Piece(1), NL, Chunk0, NL, NL>>

\* The program answers a request: a permission when it asks to be upgraded, or a
\* response that says where it ends.  Its id is that of the request or a new one.
ServerAnswers ==
    /\ conn = "open" /\ pending # <<>> /\ IsRequest(Head(pending)) /\ ~server.websocket_
    /\ pending' = Tail(pending)
    /\ \E numbered \in {server, next_stream_id(server)} :
          LET answer ==
                  IF Upgrades(Head(pending)) THEN <<"101", websocket_permission, <<>> >>
                  ELSE IF Head(pending).body = <<>>
                  THEN <<"200", Fields(<< <<"content-length", "1">> >>), <<Piece(1)>> >>
                  ELSE <<"200", Fields(<< <<"transfer-encoding", "chunked">> >>), Chunked>>
              id == numbered.stream_id_
              response == [stream_id |-> id, status |-> answer[1], header |-> answer[2],
                           body |-> answer[3]]
              read == AsRead(Line(id, answer[1]), answer[2], answer[3])
          IN  /\ server' = server_send(numbered, id, read, response_packet(response))
              /\ answered' = Append(answered, read)
    /\ UNCHANGED <<kind, conn, connects, header, edits, client, c2s, s2c,
                   asked, served, got, split, swallowed>>

\* The program answers a frame: the payload it has read, or a pong; not masked.
ServerEchoes ==
    /\ conn = "open" /\ pending # <<>> /\ ~IsRequest(Head(pending)) /\ Head(pending).op # "close"
    /\ pending' = Tail(pending)
    /\ LET frame == Head(pending)
           size == Len(frame.payload)
           op == IF frame.op = "ping" THEN "pong" ELSE frame.op
           packet == IF frame.payload = Payload(frame.id, size) THEN make(op, frame.id, size, FALSE)
                     ELSE make(op, 0, size, FALSE)
           what == parse_frame(packet).frame
       IN  /\ server' = server_send_ws(server, what, packet)
           /\ answered' = Append(answered, what)
    /\ UNCHANGED <<kind, conn, connects, header, edits, client, c2s, s2c,
                   asked, served, got, split, swallowed>>

\* It also sends frames of its own, from its timer; here when it is handed no frame
\* and has sent all it had.
ServerSpeaks ==
    /\ conn = "open" /\ server.websocket_ /\ Len(answered) < Len(Answers(answered)) + MaxUnasked
    /\ server.out = <<>> /\ \A i \in DOMAIN served : IsRequest(served[i])
    /\ server' = server_send_ws(server, AsFrame("ping", 0, 0), make("ping", 0, 0, FALSE))
    /\ answered' = Append(answered, AsFrame("ping", 0, 0))
    /\ UNCHANGED <<kind, conn, connects, header, edits, client, c2s, s2c, pending,
                   asked, served, got, split, swallowed>>

\* close() by the program: after an error, a close frame, or a request it does not serve.
ServerCloses ==
    /\ conn = "open"
    /\ \/ server.failed
       \/ /\ pending # <<>> /\ ~IsRequest(Head(pending))
          /\ Head(pending).op = "close"
       \/ /\ pending # <<>> /\ IsRequest(Head(pending))
          /\ ~Upgrades(Head(pending))
    /\ conn' = "closed" /\ pending' = <<>> /\ server' = [server EXCEPT !.out = <<>>, !.reporting = FALSE]
    /\ UNCHANGED <<kind, connects, header, edits, client, c2s, s2c, history>>

\* handle_sent and handle_sent_error: an http response first, else a frame.  A
\* permission makes the handler a WebSocket, sent or not.
Permission(what) == "line" \in DOMAIN what /\ is_websocket_upgrade(what.line[3], what.header)
SentNoSwitch(s, id) ==   \* mutant: a permission that was sent does not change the mode
    [s EXCEPT !.sent_res_http1_ = Erase(@, id), !.sent_res_ws_ = Erase(@, id)]
server_handle_sent(s, id) ==
    IF id \in DOMAIN s.sent_res_http1_
    THEN [s EXCEPT !.sent_res_http1_ = Erase(@, id),
                   !.websocket_ = @ \/ Permission(s.sent_res_http1_[id])]
    ELSE [s EXCEPT !.sent_res_ws_ = Erase(@, id)]
server_handle_sent_error(s, id) == server_handle_sent(s, id)

\* The oldest send: the bytes are written, and then it is reported; or it fails.
ServerFlushes ==
    /\ conn = "open" /\ server.out # <<>> /\ ~server.reporting
    /\ LET sent == Head(server.out) IN
       \/ /\ s2c' = s2c \o sent.packet
          /\ server' = [server EXCEPT !.reporting = TRUE]
          /\ UNCHANGED conn
       \/ /\ server' = server_handle_sent_error([server EXCEPT !.out = Tail(@)], sent.id)
          /\ conn' = "closed" /\ UNCHANGED s2c
    /\ UNCHANGED <<kind, connects, header, edits, client, c2s, pending, history>>

ServerReports ==
    /\ conn = "open" /\ server.reporting
    /\ server' = server_handle_sent([server EXCEPT !.out = Tail(@), !.reporting = FALSE],
                                    Head(server.out).id)
    /\ UNCHANGED <<kind, conn, connects, header, edits, client, c2s, s2c, pending, history>>

-----------------------------------------------------------------------------
Next ==
    \/ Connect \/ Connected \/ EditHeader \/ ClientAsks \/ ClientAsksTooEarly
    \/ ClientSendsFrame \/ ClientFlushes \/ ClientReceives \/ ClientHangsUp
    \/ ServerReceives \/ ServerAnswers \/ ServerEchoes \/ ServerSpeaks \/ ServerCloses
    \/ ServerFlushes \/ ServerReports

\* What fairness asks of the server's program: a pending entry is taken (ServerAnswers,
\* ServerEchoes, ServerCloses), and an error ends the connection (ServerCloses).
ServerTakes ==
    /\ conn = "open" /\ pending # <<>> /\ (IsRequest(Head(pending)) => ~server.websocket_)
    /\ pending' \in {Tail(pending), <<>>}
ServerGivesUp == conn = "open" /\ server.failed /\ conn' = "closed"

\* Both reactors go on serving their sockets, and the server's program answers.  Nothing
\* is asked of a TLS send: an end that waits for the rest of a record gives its SSL_read
\* the writable event too, and may keep what it has to send for ever.
Fairness ==
    /\ WF_vars(kind = "http" /\ ClientFlushes) /\ WF_vars(kind = "http" /\ ServerFlushes)
    /\ WF_s2c(ClientReads) /\ WF_vars(ServerReports) /\ WF_c2s(ServerReads)
    /\ WF_pending(ServerTakes) /\ WF_conn(ServerGivesUp)

Spec == Init /\ [][Next]_vars /\ Fairness

-----------------------------------------------------------------------------
\* Type invariant.  The ids of the handler stay within an int32_t (next_stream_id).
TypeOK ==
    /\ kind \in Kinds /\ conn \in {"none", "connecting", "open", "closed"}
    /\ client.stream_id_ \in Nat /\ server.stream_id_ \in -1 .. MaxStreamId
    /\ DOMAIN client = DOMAIN NewClient /\ DOMAIN server = DOMAIN NewServer
    /\ edits \in 0 .. MaxEdits[kind] /\ connects \in 0 .. MaxConnects /\ split \in BOOLEAN

\* The server's program is handed the requests and the frames the client has sent,
\* each once, whole and in order, wherever the network cuts the bytes: always with
\* Https1Handler, with Http1Handler as long as no read ends inside a message.
ServedInOrder == kind = "https" \/ ~split => IsPrefix(served, asked)

\* The client's program is handed the responses and the frames the server has sent,
\* each once, whole and in order, wherever the network cuts the bytes (handle_recv), unless
\* a frame of the server's own comes in one read with the permission: parse_body takes it
\* for the permission's body, and it is lost (Http1Protocol.h:188).
GotInOrder == swallowed = "no" => IsPrefix(got, answered)

\* Messages arrive as they were sent, in both directions.
MessagesInOrder == ServedInOrder /\ GotInOrder

\* handle_sent and handle_sent_error will find, for every send the transport still has
\* to report, the very message that was sent: no entry of an earlier connection or of
\* another message under the same id takes its place.
ReportedIsSent ==
    /\ \A i \in DOMAIN client.out : conn = "open" =>
          LET e == client.out[i] IN e.id \in DOMAIN SentMap(client) /\ SentMap(client)[e.id] = e.what
    /\ \A i \in DOMAIN server.out :
          LET e == server.out[i]
              map == IF e.id \in DOMAIN server.sent_res_http1_ THEN server.sent_res_http1_
                     ELSE server.sent_res_ws_
          IN  e.id \in DOMAIN map /\ map[e.id] = e.what

\* Stream ids stay in their type and name the message they were given to, also when
\* they wrap round and when the client connects again.
SendsTracked == TypeOK /\ ReportedIsSent

\* No frame is read as an HTTP request.  A client can have the permission, and be a
\* WebSocket, before the handler that wrote it is one: handle_sent comes after the write
\* (SSLEventHandler.cpp:228, 263), but before the handler's thread reads again.
FramesTaken == ServerReads /\ HasFrame(Taken(c2s, c2s'))
ModesAgree == [][FramesTaken => server.websocket_]_vars

\* A request or a frame that was sent is answered, or the connection ends; except that a
\* client which has taken part of a frame for a body understands nothing more.
AnsweredBy(k) ==
    (kind = k /\ conn = "open" /\ Len(asked) > Len(Answers(got)))
    ~> (conn # "open" \/ Len(asked) = Len(Answers(got)) \/ swallowed = "part")

\* No TLS end keeps a send for ever (SSLEventHandler.cpp:73, TcpAsyncSSLClient.cpp:57).
SendsGoOut == []<>(client.out = <<>>) /\ []<>(server.out = <<>>)

\* Https1Handler answers everything a client sends on a connection that stays open, as
\* long as the sends of both ends go out.
RequestsAnswered == SendsGoOut => AnsweredBy("https")

\* Http1Handler supports HTTP 1.1 too (README.md:5), where "one message comes at a time"
\* (Http1Handler.cpp:45), and so every request of a connection is answered.
PlainRequestsAnswered == AnsweredBy("http")
=============================================================================

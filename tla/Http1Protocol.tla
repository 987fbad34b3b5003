--------------------------- MODULE Http1Protocol ---------------------------
(***************************************************************************)
(* Http1Request and Http1Response: how a message is written (packet) and   *)
(* how one is read from the bytes that have come so far (parse).  A        *)
(* message on the wire is a sequence of units: the first line, line ends,  *)
(* fields and pieces of the body.                                          *)
(***************************************************************************)
EXTENDS HttpHeader

NL == <<"nl">>
Line(id, what) == <<"line", id, what>>
Field(field) == <<"field", field[1], field[2]>>
Piece(i) == <<"piece", i>>
Chunk0 == <<"chunk0">>   \* the "0" of the last chunk

\* std::to_string and strtoll of a content-length.
Decimal(n) == CASE n = 0 -> "0" [] n = 1 -> "1" [] n = 2 -> "2"
Number(value) == CHOOSE n \in 0 .. 2 : Decimal(n) = value

\* to_string of a header: its lines with line ends between them.
HeaderLines(h) ==
    FoldLeft(LAMBDA s, f : (IF s = <<>> THEN s ELSE Append(s, NL)) \o <<Field(f)>>,
             <<>>, Written(h))

LengthField(body) == <<"content-length", Decimal(Len(body))>>

\* Http1Request::packet(): a content-length of its own follows the header's lines.
OwnLength(request) ==
    IF request.content_length_ /\ count(request.header, "content-length") = 0
    THEN <<LengthField(request.body)>> ELSE <<>>
request_packet(request) ==
    <<Line(request.stream_id, request.what), NL>> \o HeaderLines(request.header) \o <<NL>>
    \o (IF OwnLength(request) = <<>> THEN <<>> ELSE <<Field(OwnLength(request)[1]), NL>>)
    \o (IF HasSize(request.header) THEN <<NL>> ELSE <<>>)
    \o request.body

\* Http1Response::packet(): the length is the program's to give.
response_packet(response) ==
    <<Line(response.stream_id, response.status), NL>> \o HeaderLines(response.header) \o <<NL>>
    \o (IF HasSize(response.header) THEN <<NL>> ELSE <<>>)
    \o response.body

-----------------------------------------------------------------------------
\* The first place s is found in text, 0 if it is not.
Find(text, s) ==
    LET at == {i \in 1 .. Len(text) - Len(s) + 1 : SubSeq(text, i, i + Len(s) - 1) = s}
    IN  IF at = {} THEN 0 ELSE CHOOSE i \in at : \A j \in at : i <= j
FindLast(text, s) ==
    LET at == {i \in 1 .. Len(text) - Len(s) + 1 : SubSeq(text, i, i + Len(s) - 1) = s}
    IN  IF at = {} THEN 0 ELSE CHOOSE i \in at : \A j \in at : j <= i

\* parse_parameter, of requests and of responses: three words, at most 256 bytes.
parse_parameter(line) == Len(line) = 1 /\ line[1][1] = "line" /\ line[1][3] # "long"

\* parse_header: every line has ": "; FALSE of a line that has none.
HeaderFields(text) == SelectSeq(text, LAMBDA u : u # NL)
parse_header(text) ==
    LET fields == HeaderFields(text)
    IN  IF \E i \in DOMAIN fields : fields[i][1] # "field" THEN [ok |-> FALSE]
        ELSE [ok |-> TRUE,
              header |-> FoldLeft(LAMBDA h, u : add(h, <<u[2], u[3]>>), EmptyHeader, fields)]

\* parse_body: by its length, up to the last chunk, or all there is.
LastChunk == <<NL, Chunk0, NL, NL>>
BodyAnyLength(header, text) == [complete |-> TRUE, body |-> text]   \* mutant: the length is not awaited
parse_body(header, text) ==
    IF contains(header, "content-length")
    THEN LET length == Number(get(header, "content-length"))
         IN  IF Len(text) < length THEN [complete |-> FALSE]
             ELSE [complete |-> TRUE, body |-> SubSeq(text, 1, length)]
    ELSE IF "chunked" \in get_values(header, "transfer-encoding")
    THEN LET end == FindLast(text, LastChunk)
         IN  IF end = 0 THEN [complete |-> FALSE]
             ELSE [complete |-> TRUE, body |-> SubSeq(text, 1, end + Len(LastChunk) - 1)]
    ELSE [complete |-> TRUE, body |-> text]

\* parse: incomplete, an exception, or the message.
parse_http1(text) ==
    LET parameter_end == Find(text, <<NL>>)
        header_end == Find(text, <<NL, NL>>)
        header == IF parameter_end < header_end
                  THEN parse_header(SubSeq(text, parameter_end + 1, header_end))
                  ELSE [ok |-> TRUE, header |-> EmptyHeader]
        body == parse_body(header.header, SubSeq(text, header_end + 2, Len(text)))
    IN  IF parameter_end = 0 THEN [result |-> "incomplete"]
        ELSE IF ~parse_parameter(SubSeq(text, 1, parameter_end - 1)) THEN [result |-> "throw"]
        ELSE IF header_end = 0 THEN [result |-> "incomplete"]
        ELSE IF ~header.ok THEN [result |-> "throw"]
        ELSE IF ~body.complete THEN [result |-> "incomplete"]
        ELSE [result |-> "message", line |-> text[1], header |-> header.header,
              body |-> body.body]

-----------------------------------------------------------------------------
\* Http1Request::upgrade_websocket and is_upgrade_wabsocket.
upgrade_websocket(header) ==
    FoldLeft(set, header, << <<"connection", "Upgrade">>, <<"upgrade", "websocket">>,
                             <<"sec-websocket-version", "13">>, <<"sec-websocket-key", "key">> >>)
is_upgrade_wabsocket(header) ==
    /\ get(header, "connection") = "Upgrade" /\ get(header, "upgrade") = "websocket"
    /\ get(header, "sec-websocket-version") = "13" /\ contains(header, "sec-websocket-key")

\* Http1Response::websocket_permission and is_websocket_upgrade.
websocket_permission ==
    FoldLeft(set, EmptyHeader, << <<"upgrade", "websocket">>, <<"connection", "Upgrade">>,
                                  <<"sec-websocket-accept", "accept">> >>)
is_websocket_upgrade(status, header) == status = "101" /\ get(header, "upgrade") = "websocket"
=============================================================================

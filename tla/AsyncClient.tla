----------------------------- MODULE AsyncClient -----------------------------
(***************************************************************************)
(* TcpAsyncEventHandler with TcpAsyncClient or TcpAsyncSSLClient on top,   *)
(* and the part of the reactor its one handler meets: the requests queued  *)
(* by the reactor's thread (local) and by others (pipe), the interest in   *)
(* the socket, the connect timeout, and the dispatch of a batch.  The      *)
(* program connects, sends, disconnects and, after an answer, connects     *)
(* again; every new socket gets the number of the one closed before.       *)
(***************************************************************************)
EXTENDS Integers, Sequences, Functions

CONSTANTS Transports,    \* "tcp" and "tls": which of the two clients
          Sends,         \* for each, the calls of send(), each of two units
          MaxConnects,   \* bound: calls of connect()
          MaxQueue       \* bound, for each: requests waiting when disconnect() is called

ASSUME ClientConstants ==
    /\ Transports \subseteq {"tcp", "tls"}
    /\ \A t \in Transports : Sends[t] \in Nat /\ MaxQueue[t] \in Nat /\ MaxConnects \in Nat

VARIABLES
    transport,
    \* the socket, as the kernel has it, and what the demuxer knows of it
    sock, in, hup, entry, watched, bits,
    \* the reactor
    run_pc, local, pipe, batch, in_table, close_called, timer,
    \* TcpAsyncEventHandler
    io_handle_, is_connect_, call_on_connect_timeout_,
    \* the buffers of the client
    prepare, prepare_info, send_buffer_, send_buffer_infos_, wire,
    \* TcpAsyncSSLClient
    ssl_state_, ssl_accept_done_, close_,
    \* the call of send() another thread is in: the connect() whose connection it found (0:
    \* it has not looked), whether it has still to ask for writability
    tested, asks,
    \* history: callbacks since the last connect(), sends made, what was reported of each,
    \* the sends put into the buffer after the connection they had found was gone
    told, sent, reported, connects, before, spanned

kernel == <<sock, in, hup, entry, watched, bits>>
loop == <<run_pc, local, pipe, batch, in_table, close_called, timer>>
handler == <<io_handle_, is_connect_, call_on_connect_timeout_>>
buffers == <<prepare, prepare_info, send_buffer_, send_buffer_infos_, wire>>
ssl == <<ssl_state_, ssl_accept_done_, close_>>
sender == <<tested, asks, spanned>>
history == <<told, sent, reported, connects, before, sender>>
vars == <<transport, kernel, loop, handler, buffers, ssl, history>>

Tls == transport = "tls"
Messages == UNION {1 .. Sends[t] : t \in Transports}
Units(m) == <<[of |-> m, part |-> 1], [of |-> m, part |-> 2]>>

Init ==
    /\ transport \in Transports
    /\ sock = "none" /\ in = FALSE /\ hup = FALSE
    /\ entry = FALSE /\ watched = FALSE /\ bits = {}
    /\ run_pc = "wait" /\ local = <<>> /\ pipe = <<>> /\ batch = <<>>
    /\ in_table = FALSE /\ close_called = FALSE /\ timer = "off"
    /\ io_handle_ = FALSE /\ is_connect_ = FALSE /\ call_on_connect_timeout_ = FALSE
    /\ prepare = <<>> /\ prepare_info = <<>> /\ send_buffer_ = <<>> /\ send_buffer_infos_ = <<>>
    /\ wire = <<>>
    /\ ssl_state_ = "NONE" /\ ssl_accept_done_ = FALSE /\ close_ = FALSE
    /\ told = <<>> /\ sent = 0 /\ reported = [m \in Messages |-> "no"] /\ connects = 0
    /\ before = 0 /\ tested = 0 /\ asks = FALSE /\ spanned = {}

-----------------------------------------------------------------------------
\* Calls of the program: from a callback, between two events of a batch, they are
\* queued in local, from any other thread in the pipe.
Raise(what) ==
    \/ run_pc = "dispatch" /\ local' = local \o what /\ UNCHANGED pipe
    \/ pipe' = pipe \o what /\ UNCHANGED local

\* connect(): only once the one before has been answered and its connection ended.
\* A host that is no address leaves the client as it is.  The result of ::connect is
\* not looked at: one that fails at once leaves a socket the kernel reports as hung up.
Connect ==
    /\ ~io_handle_ /\ ~is_connect_ /\ connects < MaxConnects
    /\ connects' = connects + 1 /\ before' = sent /\ told' = <<>>
    /\ close_' = IF Tls THEN FALSE ELSE close_
    /\ io_handle_' = TRUE
    /\ sock' \in {"connecting", "unreachable"} /\ hup' = (sock' = "unreachable")
    /\ in' = FALSE /\ wire' = <<>>
    /\ Raise(<<"REGISTER">>)
    /\ UNCHANGED <<transport, entry, watched, bits, run_pc, batch, in_table, close_called, timer,
                   is_connect_, call_on_connect_timeout_,
                   prepare, prepare_info, send_buffer_, send_buffer_infos_,
                   ssl_state_, ssl_accept_done_, sent, reported, sender>>

Disconnect ==
    /\ is_connect_ /\ Len(pipe) + Len(local) < MaxQueue[transport]
    /\ Raise(<<"REMOVE">>)
    /\ UNCHANGED <<transport, kernel, run_pc, batch, in_table, close_called, timer,
                   handler, buffers, ssl, history>>

\* TcpAsyncSSLClient::close(), from a thread of the program: SSL_shutdown either waits
\* for the peer's answer or is done.
Close ==
    /\ Tls /\ ~close_ /\ io_handle_ /\ is_connect_
    /\ close_' = TRUE
    /\ \/ ssl_state_' = "READ" /\ UNCHANGED <<local, pipe>>
       \/ pipe' = Append(pipe, "REMOVE") /\ UNCHANGED <<local, ssl_state_>>
    /\ UNCHANGED <<transport, kernel, run_pc, batch, in_table, close_called, timer,
                   handler, buffers, ssl_accept_done_, history>>

\* send(): the bytes go into the prepared buffer.  Before handle_connect has been called
\* they are marked (on_connect drops them); so are those that missed their connection.
Room == sent + (IF tested = 0 THEN 0 ELSE 1) < Sends[transport]

Insert(missed) ==
    /\ sent' = sent + 1
    /\ prepare' = prepare \o Units(sent')
    /\ prepare_info' = Append(prepare_info, sent')
    /\ reported' = [reported EXCEPT ![sent'] =
                      IF is_connect_ /\ run_pc # "on_connect" THEN "no" ELSE "early"]
    /\ spanned' = IF missed THEN spanned \cup {sent'} ELSE spanned

WriteState == IF Tls /\ ssl_state_ = "NONE" THEN "WRITE" ELSE ssl_state_

\* From a callback: no step of the reactor comes in between.
Send ==
    /\ run_pc = "dispatch" /\ is_connect_ /\ io_handle_ /\ Room
    /\ Insert(FALSE)
    /\ ssl_state_' = WriteState
    /\ local' = Append(local, "WRITABLE")
    /\ UNCHANGED <<transport, kernel, run_pc, pipe, batch, in_table, close_called, timer, handler,
                   send_buffer_, send_buffer_infos_, wire, ssl_accept_done_, close_,
                   told, connects, before, tested, asks>>

\* From another thread: it looks, then inserts, then asks, and anything may come between.
SendTests ==
    /\ is_connect_ /\ io_handle_ /\ Room /\ tested = 0 /\ ~asks
    /\ tested' = connects
    /\ UNCHANGED <<transport, kernel, loop, handler, buffers, ssl,
                   told, sent, reported, connects, before, asks, spanned>>

SendInserts ==
    /\ tested # 0
    /\ Insert(tested # connects \/ ~is_connect_)
    /\ tested' = 0 /\ asks' = TRUE
    /\ UNCHANGED <<transport, kernel, loop, handler, send_buffer_, send_buffer_infos_, wire, ssl,
                   told, connects, before>>

\* A client without a socket has no number to ask for.
SendAsks ==
    /\ asks /\ asks' = FALSE
    /\ ssl_state_' = WriteState
    /\ pipe' = IF io_handle_ THEN Append(pipe, "WRITABLE") ELSE pipe
    /\ UNCHANGED <<transport, kernel, run_pc, local, batch, in_table, close_called, timer, handler,
                   buffers, ssl_accept_done_, close_,
                   told, sent, reported, connects, before, tested, spanned>>

-----------------------------------------------------------------------------
\* The peer and the network.
Answered ==
    /\ sock = "connecting"
    /\ sock' \in {"open", "reset"}
    /\ hup' = (sock' = "reset")
    /\ UNCHANGED <<transport, in, entry, watched, bits, loop, handler, buffers, ssl, history>>

\* A TLS server only answers what the client has begun.
PeerSends ==
    /\ Tls => is_connect_ /\ run_pc # "on_connect"
    /\ sock = "open" /\ ~hup /\ ~in
    /\ in' = TRUE
    /\ UNCHANGED <<transport, sock, hup, entry, watched, bits, loop, handler, buffers, ssl, history>>

PeerHangsUp ==
    /\ sock = "open" /\ ~hup
    /\ hup' = TRUE /\ sock' \in {"open", "reset"}
    /\ UNCHANGED <<transport, in, entry, watched, bits, loop, handler, buffers, ssl, history>>

TimePasses ==
    /\ timer = "on" /\ timer' = "due"
    /\ UNCHANGED <<transport, kernel, run_pc, local, pipe, batch, in_table, close_called,
                   handler, buffers, ssl, history>>

-----------------------------------------------------------------------------
\* The demuxer's requests, applied one after the other: w holds the map's entry, the
\* kernel's watch and the interest, ev the events for the reactor.
AddInterest(w, bit) ==
    CASE w.entry /\ w.watched       -> [w EXCEPT !.bits = @ \cup {bit}]
      [] ~w.entry /\ sock # "none"  -> [w EXCEPT !.entry = TRUE, !.watched = TRUE, !.bits = {bit}]
      [] OTHER                      -> w

Forgotten(w) == [w EXCEPT !.entry = FALSE, !.watched = FALSE, !.bits = {}]

\* The bit is flipped, not cleared.
DropInterest(w, bit) ==
    IF ~w.entry THEN w
    ELSE IF w.bits = {bit} THEN Forgotten(w)
    ELSE [w EXCEPT !.bits = IF bit \in @ THEN @ \ {bit} ELSE @ \cup {bit}]

ApplyOne(w, req) ==
    CASE req = "REGISTER" -> [AddInterest(w, "IN") EXCEPT !.ev = Append(@, req)]
      [] req = "REMOVE"   -> [Forgotten(w) EXCEPT !.ev = Append(@, req)]
      [] req = "FORGET"   -> Forgotten(w)
      [] req = "WRITABLE" -> AddInterest(w, "OUT")
      [] req = "UNWRITABLE" -> DropInterest(w, "OUT")
      [] OTHER            -> [w EXCEPT !.ev = Append(@, req)]

Apply(reqs) ==
    LET after[i \in 0 .. Len(reqs)] ==
          IF i = 0 THEN [entry |-> entry, watched |-> watched, bits |-> bits, ev |-> <<>>]
          ELSE ApplyOne(after[i - 1], reqs[i])
    IN  after[Len(reqs)]

Watch(w) == entry' = w.entry /\ watched' = w.watched /\ bits' = w.bits

\* Top of run() with the timer due: expired timers first.  handle_timeout() of a client
\* that is not connected asks for its own removal.
HandleTimeout ==
    /\ run_pc = "top" /\ timer = "due"
    /\ run_pc' = "wait" /\ timer' = "off"
    /\ IF is_connect_ THEN UNCHANGED <<call_on_connect_timeout_, local>>
       ELSE call_on_connect_timeout_' = TRUE /\ local' = Append(local, "REMOVE")
    /\ UNCHANGED <<transport, kernel, pipe, batch, in_table, close_called,
                   io_handle_, is_connect_, buffers, ssl, history>>

\* wait() begins with the local requests and returns if they gave events.
ApplyLocal ==
    /\ run_pc = "wait" /\ local # <<>>
    /\ LET w == Apply(local) IN
       Watch(w) /\ batch' = w.ev /\ run_pc' = IF w.ev = <<>> THEN "wait" ELSE "dispatch"
    /\ local' = <<>>
    /\ UNCHANGED <<transport, sock, in, hup, pipe, in_table, close_called, timer,
                   handler, buffers, ssl, history>>

\* What epoll_wait reports for the socket: READ, WRITE, CLOSE, in this
\* order (ERROR, which precludes WRITE, only leads to handle_error).
SocketEvents ==
    IF ~watched THEN <<>>
    ELSE (IF "IN" \in bits /\ in THEN <<"READ">> ELSE <<>>)
         \o (IF "OUT" \in bits /\ sock \in {"open", "unreachable"} THEN <<"WRITE">> ELSE <<>>)
         \o (IF hup THEN <<"CLOSE">> ELSE <<>>)

\* epoll_wait and the pipe; with no event wait() returns empty, and run() looks at the timers.
\* The socket's events are those of epoll_wait, before the pipe's requests are applied.
Poll ==
    /\ run_pc = "wait" /\ local = <<>>
    /\ pipe # <<>> \/ SocketEvents # <<>> \/ timer = "due"
    /\ LET w == Apply(pipe) IN
       /\ Watch(w)
       /\ batch' \in {w.ev \o SocketEvents, SocketEvents \o w.ev}
       /\ pipe' = <<>>
    /\ run_pc' = IF batch' # <<>> THEN "dispatch" ELSE IF timer = "due" THEN "top" ELSE "wait"
    /\ UNCHANGED <<transport, sock, in, hup, local, in_table, close_called, timer,
                   handler, buffers, ssl, history>>

\* The head of the batch is dispatched; the end of the batch is the end of the round.
Dispatching(event) == run_pc = "dispatch" /\ batch # <<>> /\ Head(batch) = event
NextEvent == batch' = Tail(batch) /\ UNCHANGED run_pc

DispatchDone ==
    /\ run_pc = "dispatch" /\ batch = <<>>
    /\ run_pc' = IF timer = "due" THEN "top" ELSE "wait"
    /\ UNCHANGED <<transport, kernel, local, pipe, batch, in_table, close_called, timer,
                   handler, buffers, ssl, history>>

\* Events for a handle that is no longer, or not yet, in the table.
DispatchUnknown ==
    /\ run_pc = "dispatch" /\ batch # <<>> /\ Head(batch) # "REGISTER" /\ ~in_table
    /\ local' = IF Head(batch) \in {"READ", "WRITE", "CLOSE"} THEN Append(local, "FORGET") ELSE local
    /\ NextEvent
    /\ UNCHANGED <<transport, kernel, pipe, in_table, close_called, timer, handler, buffers, ssl, history>>

DispatchTimer ==
    /\ run_pc = "dispatch" /\ batch # <<>> /\ Head(batch) \in {"TIMEOUT_ADD", "TIMEOUT_DEL"} /\ in_table
    /\ timer' = IF Head(batch) = "TIMEOUT_ADD" THEN "on" ELSE "off"
    /\ NextEvent
    /\ UNCHANGED <<transport, kernel, local, pipe, in_table, close_called, handler, buffers, ssl, history>>

-----------------------------------------------------------------------------
\* TcpAsyncEventHandler.  Registered: the connect timeout, and interest in the end of
\* the connect, which the kernel reports as writability.
NoConnectTimeout == <<>>   \* mutant: set_timeout is missing
WhileConnecting == IF is_connect_ THEN <<>> ELSE <<"TIMEOUT_ADD">>

handle_registered ==
    /\ Dispatching("REGISTER") /\ NextEvent
    /\ in_table' = TRUE
    /\ local' = local \o WhileConnecting \o <<"WRITABLE">>
    /\ UNCHANGED <<transport, kernel, pipe, close_called, timer,
                   io_handle_, is_connect_, call_on_connect_timeout_, buffers, ssl, history>>

\* Removed: the handle is closed, and the program is told how the attempt or the
\* connection ended.  TcpAsyncSSLClient drops its buffers first.
AnswerConnected == "disconnect"   \* mutant: is_connect_ is not looked at
Answer == IF is_connect_ THEN "disconnect"
          ELSE IF call_on_connect_timeout_ THEN "timeout" ELSE "error"

KeepTimeout == UNCHANGED timer   \* mutant: timer_.remove_timeout is missing
RemoveTimeout == timer' = "off"

handle_removed ==
    /\ Dispatching("REMOVE") /\ in_table /\ NextEvent
    /\ in_table' = FALSE /\ RemoveTimeout /\ close_called' = FALSE
    /\ sock' = "none" /\ in' = FALSE /\ hup' = FALSE /\ watched' = FALSE
    /\ io_handle_' = FALSE
    /\ is_connect_' = FALSE
    /\ call_on_connect_timeout_' = (call_on_connect_timeout_ /\ is_connect_)
    /\ told' = Append(told, Answer)
    /\ IF Tls /\ is_connect_
       THEN /\ prepare' = <<>> /\ prepare_info' = <<>>
            /\ send_buffer_' = <<>> /\ send_buffer_infos_' = <<>> /\ UNCHANGED wire
       ELSE UNCHANGED buffers
    /\ UNCHANGED <<transport, entry, bits, local, pipe, ssl, sent, reported, connects, before, sender>>

\* Writable: the one-shot interest goes first.  The first time it is the end of the
\* connect: is_connect_ is set here and handle_connect comes in a step of its own.
WriteEvent == Dispatching("WRITE") /\ in_table /\ NextEvent

HandleOutputConnects ==
    /\ Dispatching("WRITE") /\ in_table /\ ~is_connect_
    /\ batch' = Tail(batch) /\ run_pc' = "on_connect"
    /\ local' = local \o <<"UNWRITABLE", "TIMEOUT_DEL">>
    /\ is_connect_' = TRUE
    /\ UNCHANGED <<transport, kernel, pipe, in_table, close_called, timer, io_handle_,
                   call_on_connect_timeout_, buffers, ssl, history>>

handle_close ==
    /\ Dispatching("CLOSE") /\ in_table /\ NextEvent
    /\ close_called' = TRUE
    /\ local' = IF close_called THEN local ELSE Append(local, "REMOVE")
    /\ UNCHANGED <<transport, kernel, pipe, in_table, timer, handler, buffers, ssl, history>>

-----------------------------------------------------------------------------
\* TcpAsyncClient.  on_connect empties the buffers, all but send_buffer_infos_.
NoInitBuffers ==   \* mutant: init_buffers() is missing
    UNCHANGED <<prepare, prepare_info, send_buffer_, send_buffer_infos_>>
init_buffers ==
    /\ prepare' = <<>> /\ prepare_info' = <<>> /\ send_buffer_' = <<>>
    /\ UNCHANGED send_buffer_infos_

on_connect ==
    /\ run_pc = "on_connect" /\ ~Tls
    /\ run_pc' = "dispatch"
    /\ init_buffers
    /\ told' = Append(told, "connect")
    /\ UNCHANGED <<transport, kernel, local, pipe, batch, in_table, close_called, timer,
                   handler, wire, ssl, sent, reported, connects, before, sender>>

\* One recv(), whatever is_connect_ says; there may be more.
on_input ==
    /\ Dispatching("READ") /\ in_table /\ ~Tls /\ NextEvent
    /\ in' \in BOOLEAN
    /\ UNCHANGED <<transport, sock, hup, entry, watched, bits, local, pipe, in_table,
                   close_called, timer, handler, buffers, ssl, history>>

\* has_buffer_to_send(): with nothing left to send the prepared buffer is swapped in,
\* and the old infos are swapped out.
TakeOver ==
    IF send_buffer_ # <<>> \/ prepare = <<>>
    THEN [buf |-> send_buffer_, infos |-> send_buffer_infos_, prep |-> prepare, pinfos |-> prepare_info]
    ELSE [buf |-> prepare, infos |-> prepare_info, prep |-> send_buffer_, pinfos |-> send_buffer_infos_]

Keep(b) == /\ send_buffer_' = b.buf /\ send_buffer_infos_' = b.infos
           /\ prepare' = b.prep /\ prepare_info' = b.pinfos

\* The second has_buffer_to_send(), when everything is sent.
Emptied(b) == IF b.prep = <<>>
              THEN [b EXCEPT !.buf = <<>>, !.infos = <<>>]
              ELSE [buf |-> b.prep, infos |-> b.pinfos, prep |-> <<>>, pinfos |-> <<>>]

Report(infos, what) ==
    reported' = [m \in Messages |-> IF m \in Range(infos) THEN what ELSE reported[m]]

\* send() takes part of the buffer; the test that should see what is left is the wrong
\* way round, so that sent_size_ is back at 0 and every message counts as sent.
LostTail(b) == Emptied(b)

\* After a write that took everything there is: ask again if there is more.
AskNever(b) == <<"UNWRITABLE">>   \* mutant: the last register_writable is missing
AskForMore(b) == IF b.prep = <<>> THEN <<"UNWRITABLE">> ELSE <<"UNWRITABLE", "WRITABLE">>

on_output ==
    /\ WriteEvent /\ ~Tls /\ is_connect_
    /\ LET b == TakeOver IN
       \/ /\ b.buf = <<>> /\ Keep(b) /\ local' = Append(local, "UNWRITABLE")
          /\ UNCHANGED <<wire, reported>>
       \/ /\ b.buf # <<>> /\ sock = "open"
          /\ \E k \in 1 .. Len(b.buf) : wire' = wire \o SubSeq(b.buf, 1, k)
          /\ Keep(LostTail(b)) /\ local' = local \o AskForMore(b)
          /\ Report(b.infos, "sent")
       \/ /\ b.buf # <<>> /\ sock # "open" /\ Keep(b) /\ local' = Append(local, "UNWRITABLE")
          /\ Report(b.infos, "failed") /\ UNCHANGED wire
    /\ UNCHANGED <<transport, kernel, pipe, in_table, close_called, timer, handler, ssl,
                   told, sent, connects, before, sender>>

\* EAGAIN: the socket's buffer is full after all.
on_output_again ==
    /\ WriteEvent /\ ~Tls /\ is_connect_ /\ sock = "open"
    /\ TakeOver.buf # <<>> /\ Keep(TakeOver)
    /\ local' = local \o <<"UNWRITABLE", "WRITABLE">>
    /\ UNCHANGED <<transport, kernel, pipe, in_table, close_called, timer, handler, ssl,
                   wire, history>>

-----------------------------------------------------------------------------
\* TcpAsyncSSLClient.  ssl_connect: the handshake ends when the server's part has come;
\* a close during it (ZERO_RETURN) is taken by the same branch.  req is what the event
\* itself queued before.
ssl_connect(state, req) ==
    /\ in' = FALSE /\ UNCHANGED <<buffers, reported>>
    /\ \/ /\ \E wants \in {<<>>, <<"WRITABLE">>} \cup (IF in \/ hup THEN {<<"REMOVE">>} ELSE {}) :
                local' = local \o req \o wants
          /\ ssl_state_' = state /\ UNCHANGED <<ssl_accept_done_, told>>
       \/ /\ in \/ hup
          /\ ssl_state_' = "NONE" /\ ssl_accept_done_' = TRUE
          /\ told' = Append(told, "accept") /\ local' = local \o req

\* ssl_on_connect: handle_connect first, then the first step of the handshake, whose
\* message the empty socket takes.
ssl_on_connect ==
    /\ run_pc = "on_connect" /\ Tls
    /\ run_pc' = "dispatch"
    /\ ssl_accept_done_' = FALSE
    /\ told' = Append(told, "connect")
    /\ local' \in {local} \cup (IF hup THEN {Append(local, "REMOVE")} ELSE {})
    /\ UNCHANGED <<transport, kernel, pipe, batch, in_table,
                   close_called, timer, handler, buffers, ssl_state_, close_, sent, reported,
                   connects, before, sender>>

\* ssl_read reads until SSL_read wants more; data read puts the state back to NONE, a
\* record that has come only in part leaves it at READ.
ssl_read(req) ==
    /\ in' = FALSE /\ UNCHANGED <<buffers, ssl_accept_done_, told, reported>>
    /\ \/ ssl_state_' = "READ" /\ local' = local \o req
       \/ in /\ ssl_state_' = "NONE" /\ local' = local \o req
       \/ hup /\ ssl_state_' \in {"READ", "NONE"} /\ local' = local \o req \o <<"REMOVE">>

\* SSL_write takes the whole buffer or nothing.
ssl_write(req) ==
    /\ in' = in /\ UNCHANGED <<ssl_accept_done_, told>>
    /\ LET b == TakeOver
           stay(more) == Keep(b) /\ ssl_state_' = "WRITE" /\ local' = local \o req \o more /\ UNCHANGED wire
       IN  \/ b.buf = <<>> /\ Keep(b) /\ ssl_state_' = "NONE" /\ local' = local \o req
              /\ UNCHANGED <<wire, reported>>
           \/ b.buf # <<>> /\ stay(<<>>) /\ UNCHANGED reported
           \/ b.buf # <<>> /\ stay(<<"WRITABLE">>) /\ UNCHANGED reported
           \/ b.buf # <<>> /\ hup /\ stay(<<"REMOVE">>) /\ UNCHANGED reported
           \/ b.buf # <<>> /\ hup /\ \E gone \in {<<>>, <<"REMOVE">>} :
                 stay(gone) /\ Report(b.infos, "failed")
           \/ /\ b.buf # <<>> /\ sock = "open"
              /\ wire' = wire \o b.buf /\ Report(b.infos, "sent")
              /\ Keep(Emptied(b)) /\ ssl_state_' = "NONE"
              /\ local' = local \o req \o (IF b.prep = <<>> THEN <<>> ELSE <<"WRITABLE">>)

\* ssl_on_input and ssl_on_output set the state only from NONE; then process_ssl.
process_ssl(state, req) ==
    LET now == IF ssl_state_ = "NONE" THEN state ELSE ssl_state_
    IN  \/ ~ssl_accept_done_ /\ ssl_connect(now, req)
        \/ ssl_accept_done_ /\ now = "READ" /\ ssl_read(req)
        \/ ssl_accept_done_ /\ now = "WRITE" /\ ssl_write(req)

ssl_event ==
    /\ Tls /\ in_table
    /\ \/ Dispatching("READ") /\ NextEvent /\ process_ssl("READ", <<>>)
       \/ WriteEvent /\ is_connect_ /\ process_ssl("WRITE", <<"UNWRITABLE">>)
    /\ UNCHANGED <<transport, sock, hup, entry, watched, bits, pipe, in_table, close_called,
                   timer, handler, close_, sent, connects, before, sender>>

-----------------------------------------------------------------------------
SendReturns == SendInserts \/ SendAsks
Program == Connect \/ Disconnect \/ Close \/ Send \/ SendTests \/ SendReturns
Peer == Answered \/ PeerSends \/ PeerHangsUp

\* The reactor's thread: always able to take the next of these steps, or asleep.
ReactorStep ==
    \/ HandleTimeout \/ ApplyLocal \/ Poll
    \/ DispatchDone \/ DispatchUnknown \/ DispatchTimer
    \/ handle_registered \/ handle_removed \/ HandleOutputConnects \/ handle_close
    \/ on_connect \/ on_input \/ on_output \/ on_output_again
    \/ ssl_on_connect \/ ssl_event

Next == Program \/ Peer \/ TimePasses \/ ReactorStep

\* The reactor's thread and a thread in send() run, time passes, and a peer that reads
\* lets the kernel's send() succeed in the end.
Fairness == /\ WF_vars(ReactorStep) /\ WF_vars(SendReturns) /\ WF_vars(TimePasses)
            /\ SF_vars(on_output)

Spec == Init /\ [][Next]_vars /\ Fairness

-----------------------------------------------------------------------------
Requests == {"REGISTER", "REMOVE", "FORGET", "WRITABLE", "UNWRITABLE", "TIMEOUT_ADD", "TIMEOUT_DEL"}
Events == {"REGISTER", "REMOVE", "TIMEOUT_ADD", "TIMEOUT_DEL", "READ", "WRITE", "CLOSE"}

\* Every variable has the values its type in the code allows, and the socket of a
\* client that has none is gone.
TypeOK ==
    /\ sock \in {"none", "connecting", "unreachable", "open", "reset"} /\ in \in BOOLEAN /\ hup \in BOOLEAN
    /\ (sock = "none") <=> ~io_handle_
    /\ bits \subseteq {"IN", "OUT"} /\ entry \in BOOLEAN /\ (watched => entry)
    /\ run_pc \in {"top", "wait", "dispatch", "on_connect"} /\ timer \in {"off", "on", "due"}
    /\ Range(local) \cup Range(pipe) \subseteq Requests /\ Range(batch) \subseteq Events
    /\ ssl_state_ \in {"NONE", "READ", "WRITE"}
    /\ reported \in [Messages -> {"no", "early", "sent", "failed"}]

\* Bytes that send() puts into the buffer while the connection it found still stands never
\* go out on another, and all bytes go out in the order in which they were put there,
\* whatever of them a short write drops.  A send() that misses its connection is no part of
\* the first: nothing is held between its test and its insert, and what it inserts while a
\* new connection stands, or over TLS before the next connect(), goes out on that one.
NoCrossTalk ==
    /\ \A i \in DOMAIN wire : before < wire[i].of \/ wire[i].of \in spanned
    /\ \A i, j \in DOMAIN wire : i < j =>
         \/ wire[i].of < wire[j].of
         \/ wire[i].of = wire[j].of /\ wire[i].part < wire[j].part

\* A timer that runs while nothing is registered would call a handler the reactor does
\* not know; one left from a connect that succeeded would end the next.
TimerOfRegistered == timer # "off" => in_table

\* A client that has a socket is in the table or has exactly one registration on its
\* way there, wherever it waits; one that has none is not and has none.  A second one,
\* or one left over, would put a closed handle in the table.
Registers(queue) == "REGISTER" \in Range(queue)
RegistersOnce(queue) ==
    \A i, j \in DOMAIN queue : queue[i] = "REGISTER" /\ queue[j] = "REGISTER" => i = j
OneRegistration ==
    /\ RegistersOnce(batch) /\ RegistersOnce(local) /\ RegistersOnce(pipe)
    /\ io_handle_ <=> in_table \/ Registers(batch) \/ Registers(local) \/ Registers(pipe)
    /\ in_table => ~Registers(batch) /\ ~Registers(local) /\ ~Registers(pipe)
    /\ Registers(batch) => ~Registers(local) /\ ~Registers(pipe)
    /\ ~(Registers(local) /\ Registers(pipe))

\* The client, the handler table and the timers agree on the socket from one connection to
\* the next.  The demuxer is no part of it: its map may keep an entry without a socket.
SocketKnown == TypeOK /\ TimerOfRegistered /\ OneRegistration

session ==
    IF ~io_handle_ THEN "idle"
    ELSE IF ~is_connect_ \/ run_pc = "on_connect" THEN "connecting"
    ELSE IF Tls /\ ssl_accept_done_ THEN "secured" ELSE "connected"

ClientPromise == INSTANCE ClientSession

\* Every connect() has exactly one answer, and handle_accept and handle_disconnect come
\* only for a connection that was reported, each once.
ImplementsSession == ClientPromise!Spec

\* Every connect() is answered, be it by the connect timeout.
ConnectAnswered == (session = "connecting") ~> (session # "connecting")

\* TcpAsyncClient reports on every send() made after handle_connect on a connection
\* that is watched for input, unless the connection ends.
Unreported == \E m \in Messages : before < m /\ m <= sent /\ reported[m] = "no"

SendsReported ==
    (~Tls /\ is_connect_ /\ "IN" \in bits /\ Unreported) ~> (~Unreported \/ ~is_connect_)

\* handle_close is "called by Reactor when the client is disconnected": a client whose
\* peer has hung up does not stay connected.
HangupNoticed == (is_connect_ /\ hup) ~> ~is_connect_
=============================================================================

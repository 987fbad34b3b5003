# io_reactor in TLA+

A verification project for io_reactor, a C++ network framework: an epoll
reactor, TCP and SSL servers, an asynchronous client, HTTP/1.1 and WebSocket on
top. Models are in TLA+, checked by TLC on small instances; the results that
matter most are proved by TLAPS for every instance. `PROJECT.json` lists the
runs, the source lines behind each definition, the mutants that show each
property can fail, the hazards and the findings.

## The system

| component | state it keeps | operations | interacts with | what is hard | what makes it correct |
|---|---|---|---|---|---|
| `ObjectsTimer` | two maps: time -> objects, object -> time | register, remove, extract, get_min | Reactor (objects are handlers), sessions (objects are keys) | two maps in step; milliseconds cut from nanoseconds; the clock moves during a sweep | maps agree, each object handed out once, nothing due is left |
| `Reactor::run`, timer side | local timeout, timer | loop, run_timeout_handler, TIMEOUT_ADD/DEL | demuxer (sleep), handlers | sleeping too long, spinning, firing twice | no spin, no oversleep, every timer fires once |
| `IoHandleDemuxer` | wait_events_, pipe, map of epoll bits, wait thread id | register_*/remove_*, raise_user_event, wait | every thread raises; the loop waits | thread check without a lock; map against kernel; bits flipped | map = epoll set; all events returned in order |
| `Reactor`, dispatch | handlers_, handler_count_, handle_close_call_, timer, stop flags | register, remove, register_writable, set/unset_timeout, stop, run | handlers' callbacks call back into it; acceptors and workers call it | reused handle numbers, batches with stale events, double removals | the table is true; timers and events belong to live handlers; callbacks in order |
| `TCPEventHandler` | send and prepare buffers with infos, two flags | send, set_output_event, close, handle_* | session callbacks; register_writable | partial sends, take-over racing send(), one-shot writability | byte stream in order, handle_sent when out, no lost wake-up |
| `TCPSessionHandler` | keyed timers | set/unset_timeout, handle_timeout | Reactor timer of its handler | a timer on a timer | earliest key always armed |
| `ReactorHandler` | a pipe to have a handle | user timer per reactor, notices of handlers | Reactor | counted as a handler, registered before the first wait() | handler_count() right |
| `ReactorThread`, `Reactors`, `Acceptor`, `AcceptorThread`, `TCPReactor` | threads, run flags, round-robin index | init, start, stop, accept | each other, by condition variables and joins | start/stop races, who waits for whom | start returns when running, stop returns when stopped |
| `SSLEventHandler`, `SSLSocket` | SSL state, buffers | accept, read, write | OpenSSL, Reactor | want-read/want-write, one-shot writable events | stream in order, retries with the same buffer, no record left inside OpenSSL, no send forgotten |
| `TcpAsyncClient`, `TcpAsyncSSLClient` | connection state, buffers | connect, disconnect, send | Reactor on another thread | time-out against late connect, reconnect | one outcome per connect |
| HTTP/1.1 protocol | a header: list and index | parse, packet, header edits | handlers and clients | list and index in step; messages recognised from a prefix | parsed = built |
| HTTP/1.1 servers, clients | input buffers, messages under way by stream id, WebSocket flag | send, handle_input/recv, handle_sent, handle_sent_error | sessions, `TcpAsyncClient` | split input, several requests, reconnects, upgrade | same messages however input is split; callbacks name what was sent; no frame is read as a request |
| `WebSocket` | a frame | make, parse | HTTP handlers | split frames, three forms of the length | same frames however input is split |

Left aside: the configuration of OpenSSL inside `SSLContext`, sha1/md5/base64
(vendored), status and version tables, tracing, build files. The examples are
read for how a program uses the interface.

## Modules

| module | models |
|---|---|
| `TimerService` | what a timer promises, with one map |
| `ObjectsTimer` | `reactor/ObjectsTimer.h`, line by line in its control: the two maps, the int32 truncation, a sweep of several turns |
| `TimerLoop` | extends `ObjectsTimer`: `Reactor::run` with real time |
| `IoHandleDemuxer` | `reactor/IoHandleDemuxer.h` with the kernel's epoll set and sockets (external) |
| `DemuxerThreads` | extends `IoHandleDemuxer`: threads that raise while the loop waits; `raise_event` in two steps |
| `Reactor` | extends `IoHandleDemuxer`: `reactor/Reactor.{h,cpp}`, connections, callbacks, shutdown |
| `BytePipe` | what both send paths promise: bytes out in order, each send reported when it is out |
| `TCPEventHandler` | `tcp_reactor/TCPEventHandler.{h,cpp}`: the send path; implements `BytePipe` |
| `SessionTimers` | extends `ObjectsTimer`: the keyed timers of `tcp_reactor/TCPSessionHandler` and `ssl_reactor/SSLSessionHandler`, and those of the HTTP clients, over the handler's one reactor timeout |
| `SSLEventHandler` | `ssl_reactor/SSLEventHandler.{h,cpp}` over `SSLSocket.h`, with OpenSSL, the peer and the socket as external; its send path implements `BytePipe` |
| `Server` | `tcp_reactor/TCPReactor`, `https1_reactor/Https1Reactor`, `reactor/Reactors`, `ReactorThread`, `ReactorHandler`, `reactor/acceptor/*`, `ssl_reactor/SSLAcceptorThread.h`: threads and connections from start() to stop() |
| `ClientSession` | what a client promises its program: each connect() is answered once |
| `AsyncClient` | `tcp_async_client/*`: the plain and the TLS client with their reactor; implements `ClientSession` |
| `HttpHeader` | `http1_protocol/HttpHeader.h`: the list of lines and its index |
| `Http1Protocol` | extends `HttpHeader`: building and parsing of requests and responses over tokens |
| `WebSocket` | `websocket/WebSocket.cpp`: building and parsing of frames |
| `HttpConnection` | extends both: `http1_client`, `https1_client`, `http1_reactor`, `https1_reactor` at the two ends of one connection |
| `TimerLoopProofs`, `DemuxerThreadsProofs`, `ReactorProofs`, `TCPEventHandlerProofs`, `SSLEventHandlerProofs`, `SessionTimersProofs`, `ServerProofs`, `AsyncClientProofs` | theorems about the module each is named after; those about `ObjectsTimer` are in `TimerLoopProofs` |
| `MarkedStream` | a stream made of numbered sends, for the proofs of the two send paths |
| `MC*` | instances for TLC |

### How state and actions correspond

Variables keep the names of members (`handlers_`, `wait_events_`,
`send_buffer_`, ...). Those without a counterpart say where a thread is (`pc`,
`run_pc`, `wait_pc`, `worker`), stand for the kernel (`open`, `level`,
`watched`, `pipe`), or are history a property needs (`closed`, `stage`,
`returned`, `wire`, `promised`, ...). A handler and the connection it serves are
one model value; the event record has a field `sock`, which the code does not
have, naming the connection an event is about.

`IoHandleDemuxer`: `Raise` is `raise_event`; `WaitBegin`, `WaitDrained`,
`epoll_wait`, `ScanPipe`, `ScanHandle`, `ScanDone` are the stages of `wait()`,
with `process_ctrl_event` once per request. The kernel is level-triggered,
reports what is asked for plus error and hang-up, and forgets a socket when it
is closed. A handle number is free for reuse at once.

`Reactor`: a turn of `run()` is `RunTop` (timers due, or enter `wait()`),
`InWait`/`WaitEmpty`, `WaitReturned`, then one `Dispatch*` action per event. A
callback is a state of its own, from `Begin` to `CallbackReturns`; in between
the handler may call the reactor (`LocalCall`) and other threads go on. Handlers
close their socket in `handle_removed`, as `TCPEventHandler` and
`SSLEventHandler` do. Timers here are sets (any armed timer may have expired);
time is in `TimerLoop`. The thread that made the reactor may call `stop()` at any
time: `stop_raised` follows its two steps, the look at the thread of the last wait
and the queueing. Calls are made for handlers that are registered, or by a
handler for itself; `LateWrites` says whether `register_writable` may follow
`remove_event_handler`.

`TCPEventHandler`: of the reactor only the order is kept in which interest in
EPOLLOUT is applied (own requests first, the pipe after the poll, REMOVE_WRITE
before handle_output). A byte is the number of the `send()` it comes from;
`accepted` is the stream of all bytes handed to `send()` and `ends` its length
after each call, in both send paths.

`SessionTimers`: the session's `ObjectsTimer` with keys for objects; the
reactor's timer holds one time for the handler, set and removed when the queued
TIMEOUT_ADD or TIMEOUT_DEL is dispatched (`Dispatch`) and used up by `Fire`.
`handle_timeout()` is `HandleTop`, `HandleSweep`, one `HandleKey` per key, with
the session free to call its timers in each (`KeyCallback`), and `KeysDone`.

`SSLEventHandler`: the reactor's side is that of `TCPEventHandler`, with readable
and failed sockets added. A call into OpenSSL either gets somewhere
(`AcceptDone`, `ReadSome`, `WriteDone`) or not (`AcceptWaits`, `ReadWaits`,
`WriteWaits`), and then wants the socket readable, wants it writable, or fails;
which of these is nondeterministic. The peer's data are records that arrive in
two parts, so that a readable socket need not hold a complete record; a record
is decrypted as a whole and may be larger than `recv_buffer_`. Partial writes
are not enabled (`SSLContext.cpp`), so SSL_write takes its buffer as a whole.

`SessionTimers` also has the HTTP clients (`owner = "client"`), whose
`set_timeout` and `handle_timeout` differ from the sessions' in what they ask of
the reactor.

`Server`: `app` is the program counter of the thread inside start() or stop();
each loop over threads is one action per turn, and a join or a wait for a
thread's flag is a guard. `rt[r]` is a ReactorThread with its Reactor, whose loop
is cut down to reading registrations, STOP and its ReactorHandler's registration
from the pipe (`Dispatch` takes a whole batch, as dispatch() does even behind a
STOP); `at[a]` is an AcceptorThread. `mode` is the way the server is put
together. `place` follows a connection from the backlog to its end. A start()
that fails may be repeated; after stop() nothing is started again. A STOP goes to
the pipe, or, when the thread that made the reactor raises it before the loop's
first `wait()`, to `wait_events_`: `local` says that it is there, `spoilt` that a
reactor was told to stop before it had a thread (its next thread will find the
STOP, because `init` does not clear `wait_events_`), `overtaken` that the loop ended
with registrations still in its pipe, and `refused` those that came after it.

`AsyncClient`: one client object and one handle number, which every socket of
the client gets again, because the old one is closed before the new one is
opened: the case in which requests and events of the old socket can reach the
new one. `local`, `pipe` and `batch` are the demuxer's queues, `entry` and `bits`
its map, `watched` the epoll set, `timer` the client's reactor timeout, `told`
what the program has been told since its last connect(). A byte is a half of its
send(), and `before` says which sends belong to earlier connections. A send() from
a callback is one action (`Send`), since no step of the reactor comes in between;
from another thread it is three: `SendTests` (the tests of `is_connect_` and the
handle), `SendInserts` and `SendAsks`, with any step of anybody between them.
`spanned` are the sends whose connection was gone when they were inserted.

`HttpHeader`, `Http1Protocol`, `WebSocket`: a message is a sequence of tokens
(start line, field, end of line, piece of body; opcode, length, mask, payload),
which the network may cut anywhere. Parsing finds the tokens the code searches
for; what the code rejects is rejected. `HttpConnection` has both ends: `out` is
what the transport has still to send and report, `c2s` and `s2c` what is under
way. The server's transport writes in one step (`ServerFlushes`) and reports in
another (`ServerReports`), with the client free to read in between. Its program
answers, and sends pings of its own (`ServerSpeaks`); a frame of those that the
client reads together with the permission is taken for the permission's body
(`swallowed`). The transports below are taken to keep the order of bytes and to
report each send once, which the modules of the transports show. That a TLS end
may keep a send back for ever, which they show too, is taken over: nothing is
asked of a TLS send.

## Runs

| run | shows |
|---|---|
| `timer_loop` | the two maps agree, a sweep hands out each object once and the class implements `TimerService`; the loop neither spins nor oversleeps, every armed timer fires, once per request, less than 1 ms early |
| `demuxer_threads` | all events are returned, in each thread's order, and interest requests from two threads keep map and epoll set equal |
| `reactor` | two connections, on two handles or on one number after each other, callbacks of one acting on the other in the same batch: table, timers, interest, close-once flag and batch always belong to the right one, and each handler is told in order |
| `reactor_liveness` | registrations complete, hang-ups are reported, `stop()` stops, from any thread, but for the late one of "Disagreements" |
| `tcp_send` | bytes in order and complete, `handle_sent` when they are out (`BytePipe`), bookkeeping in step, no lost wake-up in sending or in `set_output_event` |
| `session_timers` | the handler's one timeout always covers the earliest key of a session or client, and every key is called |
| `ssl` | the TLS stream is in order, SSL_write is retried with its own buffer, the loop never sleeps on bytes inside OpenSSL, and records are delivered unless a write is stuck for ever (while it is, every event of the socket goes to SSL_write) |
| `server` | start() and stop() return and wait() wakes; when start() returned true every reactor runs; connections are handed to running reactors only and none is left open and untold by stop(); the backlog is served; handler_count() counts. The exceptions (a STOP in `wait_events_`, a missed notification, a connection whose options cannot be set, an acceptor thread that spins) are named in the properties and below |
| `async_client` | each connect() is answered once and in order (`ClientSession`), also by its timeout; nothing of one connection reaches the next, but a send() of another thread that spans the reconnect; a client with a socket is registered or about to be, once, and its timer with it; sends are reported |
| `client_deaf` | *violation*: a client that connects again at once, while requests and events of its old socket are queued, can lose all interest in the new one |
| `http_exchange` | requests, responses and frames arrive whole, once and in order however they are cut; the sent callbacks name the right message; the server has switched to WebSocket whenever it reads a frame; the TLS server answers every request, as long as no TLS send is held back |
| `http_plain` | *violation*: the plain server does not parse the second request of a connection |

Several properties are conjunctions of named parts, each with its own comment in
the module (`TimerInv`, `WakesInTime`, `StateIsTrue`, `CallbacksInOrder`,
`RequestsTakeEffect`, `StreamInStep`, `StreamRetried`, `NoneForgotten`,
`ReactorsServe`, `CallsReturn`, `SocketKnown`, `MessagesInOrder`,
`SendsTracked`). The parts can be given to TLC one by one.

### Disagreements

Two have a run, `client_deaf` and `http_plain`, and are described under
"findings". Of the others that were met while modelling, four can be seen with
the modules as they are:

* After a partial send `handle_sent` gets a pointer to other bytes
  (TCPEventHandler.cpp:102 uses an offset that line 88 has made stale;
  TCPSessionHandler.h:62-65 promises the data sent): `SentDataIsSent` as a
  PROPERTY of MCTCPEventHandler.
* A writable event that continues a pending SSL_read is used up, and the bytes of
  a `send()` stay unsent until the next one (SSLEventHandler.cpp:73;
  SSLSessionHandler.h:64-66): `NoSendForgotten` as an INVARIANT of
  MCSSLEventHandler with `EarlySends = FALSE`. The TLS client has the same code.
* An event raised by the constructing thread around the loop's first `wait()` can
  stay in the queue while the loop sleeps (IoHandleDemuxer.h:285, where line 284
  says "if it is another thread, it sends an event to the pipe."):
  MCDemuxerThreads with `EarlyOwner = TRUE` and `Raisers = {main}` violates
  `EveryEventReturned`. The servers call stop() from that thread. `Reactor` and
  `Server` have the call, and their properties name what comes of it: a STOP that
  comes after the loop's look into the queue is cleared unread by the next wait() or
  left there while the loop sleeps (`stop_raised = "late"`, `StopUnseen`), and then
  stop() does not return; one that comes before the first wait() is found before the
  pipe is read, and the registrations in the pipe are lost (`overtaken`).
* Writability asked for after the removal, or by a worker whose request is in
  the pipe when the number is reused, makes the next connection on that handle
  deaf (IoHandleDemuxer.h:325; TCPSessionHandler.h:69-71): MCReactorLiveness with
  `MaxCalls = 2`, `LocalCalls = {"register_writable", "remove"}` and either
  `LateWrites = TRUE` or `RemoteCalls = {"register_writable"}` violates
  `HangupReported`.

And without a run:

* `handle_close` comes once per registration, where TcpAsyncEventHandler.h:226
  says until the socket is closed; a timer may fire up to a millisecond before
  its time (`LessThanOneMsEarly`), where TcpAsyncEventHandler.h:234-235 says
  "after the timeout"; the session's `handle_output` may come with bytes still to
  be sent, where TCPSessionHandler.h:58 says the buffer is empty.
* `Acceptor::set_socketopt` sets IPV6_V6ONLY on every socket, so that listening on
  an IPv4 address or a UNIX socket fails (Acceptor.cpp:188; `HasV6Only`).
* A start() that fails before its reactors have threads leaves a STOP in their
  `wait_events_` (Https1Reactor.cpp:97-106), which `init` does not clear
  (IoHandleDemuxer.h:180-204). A reactor started again ends in its first turn:
  start() returns true with a dead reactor (`spoilt`), whose connections are
  neither served nor closed, or waits for ever for a thread that has come and gone
  (`StartMissed`).
* An acceptor whose setsockopt() on the new connection fails returns -1, as for a
  shutdown, and the connection is neither handed over nor closed
  (Acceptor.cpp:259-264; `leaked`).
* `ReactorThread::start` initialises the reactor again and so drops the
  ReactorHandlerFactory given to `Reactors::init` (ReactorThread.h:34;
  `StartFactory`).
* The client ignores the result of connect() (TcpAsyncEventHandler.cpp:78), drops
  the tail of a partial write and reports the message as sent
  (TcpAsyncClient.h:226; `LostTail`), and loses what a thread sends between
  `is_connect_` and `init_buffers`, where TcpAsyncClient.h:30 says "all
  thread-safe". So does a send() whose connection ends, and is followed by the next
  one, between its test and its insert (lines 153-161): its bytes go out on the new
  connection (`spanned`; `NoCrossTalk` without that exception is violated by
  MCAsyncClient).
* A client reads a response that has neither length nor chunks as ending with the
  read (Http1Protocol.h:188): a frame the server sends right behind its permission
  is lost when both come in one read, and when only part of it does, the rest of
  the stream makes no sense. The server of example/wsserver sends pings from its
  timer (WsHandler.cpp:37-42). `GotInOrder` without its premise is violated.
* A client can be a WebSocket, and send frames, before the handler that wrote the
  permission is one: `handle_sent` comes after the write (SSLEventHandler.cpp:228,
  263). It does no harm, because the handler's thread reads again only afterwards
  (`ModesAgree`).
* `Http1Handler` parses the whole buffer instead of the bytes received (line 47),
  so that a body in two parts is completed with zeros, and counts below zero after
  a frame in two parts (line 93). `Https1Client::is_websocket_upgrade` (line 166)
  looks for a field that no response has. `should_keep_alive` is inverted
  (Http1Request.h:239).
* `HttpHeader::set` deletes only an equal value, where HttpHeader.h:49 says "if a
  value for name exists it will be deleted.", `get` returns the smallest value
  and not the first (line 56), `clear()` empties the list and leaves the index
  (lines 494-498), so that `add` and `contains` go on finding what is gone, and a
  copy of a header keeps iterators into the original's list, as in
  `request.header = header` (Http1Request.h:211).

### Bounds

* Timer and its loop: two handlers, two requests, timeouts 0..2 ms, two ticks per
  millisecond (so that a time can lie inside a millisecond). Two objects in one
  bucket or in two, re-registration and a clock that moves during a sweep all
  occur; the proofs cover any number. Past `MaxClock` time moves only as far as a
  timer or a sleep still needs, so that liveness is not cut off. `Int32Half`
  stands for 2^31 and is above all timeouts: the wrap-around is a hazard the model
  can express, not part of these runs.
* Demuxer: one handle, a second thread and the loop raise two events each, of
  four kinds (everything on, errors on, reading off, errors off: all branches of
  adding, flipping and removing); a read takes one event, so that a burst needs
  several rounds. Handles do not interact in the map.
* Reactor: two connections and two handle numbers, so that the second may come
  while the first lives or reuse its number; one other thread (acceptor and
  worker calls interleave freely; more threads add only orders the pipe already
  has), two calls, from callbacks and from the worker. The run uses the symmetry
  of handles and connections; no liveness is checked with it.
  `OwnerStops`, the stop() of the constructing thread around the first `wait()`, is
  in `reactor_liveness` and in the proofs; `reactor` is without it.
* Sending: three sends of 0 or 2 bytes: empty sends, partial sends, a take-over
  with several messages, a send during a take-over.
* Session timers: two keys, three requests, two ticks per millisecond; a key set
  again, unset as the last or not the last, and set while keys are called, for
  sessions and for clients.
* SSL: two sends of one byte, one record of two or three bytes, a `recv_buffer_`
  of two: a record that fills the buffer exactly and one that leaves a byte
  inside OpenSSL. `EarlySends` lets the session send before the handshake is
  done.
* Server: one reactor per start() and two calls of start(), of which the first may
  fail, so that there are two reactors, and two indices for the round robin, after
  a failed one; two acceptors, which the shared descriptor and the race on the
  index need, one of them with a timeout; two connections; all four modes; a family
  that has IPV6_V6ONLY and two that have not. wait() is called after start().
  A signal or a failing accept() hits at most one acceptor thread. The proofs have
  any number of each.
* Client: two connects, so that every kind of end meets a reconnect; two sends of
  two bytes for the plain client, so that one is prepared while another is being
  sent, and one for the TLS client; disconnect() is called with at most one
  request waiting (`MaxQueue`). One other thread at a time is inside send(). The violation needs the plain client only.
* HTTP: two requests (one with a body, one rejected for its length, one an upgrade)
  and two frames per connection (a text of three pieces, a ping, a close, which is
  the last), two connections, ids that wrap at 2, and the limits of the lengths at
  1 and 2: short and long frames. One change of the header before the first
  request, to one of the two handlers. The server sends one ping of its own
  (`MaxUnasked`), when it has sent all it had and has been handed no frame: at once
  behind the permission or later. Reads end anywhere. The client asks again when it
  has its answer.

### Fairness

The reactor thread is scheduled (weak fairness of its steps) and callbacks
return: the framework requires handlers not to block. A thread inside
`raise_event`, `send()` or between `accept` and `register_event_handler` goes on.
Time passes. For sending, a kernel that reports a socket writable accepts bytes
now and then (strong fairness of `SendSome`); for SSL, a handshake, a read of a
complete record that are tried again and again succeed some time (strong fairness
of `AcceptDone`, `ReadSome`); a write need never succeed, as a peer that waits to be
read first takes nothing. In `Server` the thread
inside start() or stop(), every reactor thread and every acceptor thread goes on
(weak fairness each); a connection that waits is accepted before a timeout is
served, as poll() reports it. A thread that calls stop() goes on. In `AsyncClient` the reactor's steps, time and a
thread that is inside send() are weakly fair, and a socket that is written again and again takes bytes some time
(strong fairness of `on_output`). In `HttpConnection` both ends read what has come, the plain ones flush, and the
server's program answers or closes, as the examples do. TLS ends need not flush:
SSLEventHandler.cpp:73 and TcpAsyncSSLClient.cpp:57 give the writable event to an
SSL_read that waits. `RequestsAnswered` has the premise instead (`SendsGoOut`).
Nothing is
assumed of peers, workers, `stop()`, signals or `epoll_wait` giving up early (`WaitEmpty` and
`WaitNothing` are never forced, except for a timeout that has come).

## Proofs

Each theorem holds for every value of the constants, under the module's ASSUME
and the hypotheses named here. An invariant `Inv` is proved from an inductive
one, which TLC checked first on the run's instance; the lemmas that it is kept are
one per action, with one step per part that the action can disturb.

`TimerLoopProofs`, first about `ObjectsTimer` alone (any objects, timeouts that fit a `uint32_t`, any clock
resolution):

* `TimerCorrect`: `TimerSpec => []TimerInv`, which is inductive as a whole. No
  part is inductive alone: that a sweep hands out no object twice rests on the
  clause that what was handed out is in neither map, which rests on the maps
  agreeing; and `remove_timeout_no_lock` finds the bucket to clean through
  object_time_.
* `TimerRefinement`: `TimerSpec => ImplementsService`. Two facts carry it:
  `DurationCut` (cutting to milliseconds gives 0 or less exactly when less than
  one millisecond is left) and `FirstExists` (a nonempty set of times has a least
  element): the sweep looks at the first bucket only, and when that is not due,
  nothing is.

then about the loop (any number of requests from any threads), with
`LoopInv == TimerInv /\ QueuesOK /\ SweepOK /\ PromisesOK /\ OneTime`: what the
queues hold asks for no later time than it will get, the list of a sweep is
empty outside of one and what is in it is not armed, an armed timer is not before
what was promised.

* `RequestsAnsweredOnce` (`OneTime`), `NeverEarly` (`LessThanOneMsEarly`) and
  `LoopRefinement` (the whole loop implements `TimerService`).
* `LoopWakesInTime`: `Spec /\ []NotLate => []WakesInTime`, if timeouts are below
  2^31 ms. `NotLate` says that no deadline is missed by 2^31 ms or more. Both are
  needed: beyond them the `int32_t` wraps (ObjectsTimer.h:77) and the loop spins
  or oversleeps.

`DemuxerThreadsProofs` (any threads, events, capacity of a read):

* `MapInStep`: `Spec => []MapMatchesKernel`, inductive alone.
* `EventsInOrder`: `Spec => []InOrder`, if `EarlyOwner` leaves the constructing
  thread out of the raisers; with it TLC finds the disagreement above. `OrderInv`
  looks at all the places an event can be in (returned, being read, own queue,
  pipe, between the two steps of `raise_event`) as one line in which the events of
  a thread have rising numbers, none above what the thread has raised.

`TCPEventHandlerProofs` and `SSLEventHandlerProofs` (data of any size, any split
into `::send` calls, any wishes of OpenSSL), over `MarkedStream`:

* `StreamCorrect` of TCP (`StreamInStep`, with the reports in it), from `SendInv`: the infos are those of the sends after the reported ones, their
  `sent_remain` the distances between the `ends` of the stream, what is counted as
  sent lies within the first, and an empty buffer has no info (`NoneLeft`; the
  next take-over would drop it).
* `PipeRefinement` of both: `Spec => ImplementsPipe`, from the same invariants. It adds to
  them that no step takes back or changes what was accepted, sent or reported, which
  is what `HttpConnection` takes from its transports. The run `tcp_send` checks
  it for TCP.
* `StreamCorrect` of SSL (`StreamRetried`) from `WriteInv`, the same with a buffer
  that is retried as a whole; `NeverTrapped` (`NothingTrapped`) from `ReadInv`:
  bytes inside OpenSSL keep the thread in `ssl_read`.

`ServerProofs` (any number of reactors, acceptors, connections and starts):

Each property has its exceptions in it: reactors spoilt by a failed start() or
overtaken by their STOP, and leaked connections.

* `HandedOver` (`ReactorsServe`) from `ControlInv`, which says for each place of
  the caller of start() or stop() which threads exist, run, or are being stopped,
  also while a failed start() is undone.
* `StopForgetsNone` (`NoneForgotten`) from `ControlInv` and `PlacesInv`: every
  connection not at its end is with somebody (the listening socket, one acceptor
  thread, the pipe of a live reactor, the table of one that will still tell it),
  and no registration made before the stop is behind a STOP.
* `CountCorrect` (`CountIsOfHandlers`), if `Cardinality(Conns) < SizeT`: the count
  is a `size_t`, from which the reactor's own handler is subtracted.

`ReactorProofs` (any connections and handle numbers, any reuse of numbers, any
calls by callbacks and other threads). What the reactor has still to do is one
line: the rest of the batch, the requests `wait()` has in its hands, the own
queue, the pipe. Both invariants relate an earlier and a later member of it.

* `TableCorrect` (`TableIsTrue`, `TimersOfLiveHandlers`), `OwnersReached`
  (`EventsReachTheirOwner`) and `ToldInTurn` (`CallbacksInOrder`), from `TableInv`
  and without further hypothesis. The table is true only because a stale removal
  or registration cannot come after the registration of a handle's new owner
  (`NewOwner`): the new connection can have the number only once the old one is
  closed, in its `handle_removed`, and `dispatch()` removes before it tells.
* `StateCorrect` (`StateIsTrue`), `SleepsWatching` (`WatchedWhileAsleep`) and
  `FlipClears` (`RemoveWriteClears`) from `TableInv` and `WatchInv`, if
  `WritesInTime`: `register_writable` comes from the loop's thread and not after
  the removal of its handler. Otherwise TLC finds the deaf connection above.
  `WatchInv` says that epoll runs ahead of the table by what is in the batch
  (`Interest`), that no request to watch is behind its handler's removal and none
  to switch off behind the registration of a new owner, and that each EPOLLOUT is
  switched off once, so that the exclusive-or clears (`InTime`).
  The ASSUME that no socket is the pipe's own descriptor
  (`"pipe" \notin Handles`) is used here.

`SessionTimersProofs` (any keys, timeouts and calls, sessions and clients):

* `KeysCovered`: `Spec /\ []NotLate => []Covered`, from
  `SessionInv == SessionTypeOK /\ KeysFiled /\ Covered`. `KeysFiled` is the half of
  `MapsAgree` that matters: every key is in the bucket of its time, so the first
  bucket, which is all `get_min_timeout_milliseconds` looks at, bounds every key.
  `Covered` speaks of the last request in the queue, or of the reactor's timer when
  there is none, because `set_timeout` may be called while earlier requests still
  wait. `CutAhead` and `CutPast` say what the `int32_t` makes of a distance: of one ahead
  no more milliseconds than there are, of one that is past none. `NotLate` is the hypothesis of the loop, for
  keys: a key late by 2^31 ms reads as one ahead (ObjectsTimer.h:77). A key may be
  set any time ahead: beyond 2^31 ms the answer wraps to an earlier time, and the
  session is woken too soon, which `Covered` allows.

`AsyncClientProofs` (plain and TLS, any number of connects, sends and disconnects,
by callbacks and by other threads):

* `SocketCorrect` (`SocketKnown`), from
  `ClientInv == SocketKnown /\ QueueTypeOK /\ ConnectedOK /\ ReadOK`. The batch, the own
  queue, the pipe and the table are looked at together: among them a client with a
  socket has its registration exactly once (`OneRegistration`), so that
  no registration of an old socket is left for the new one. Nothing is said of the
  demuxer's map: an entry may outlive its socket, and the new socket may have none,
  as `client_deaf` shows. `ReadOK` is
  for the handshake: what is read in a batch was read for a reported connection.
  `Apply`, the pass of the demuxer over its requests, is a recursive function;
  what each request passes on holds of the result by `ApplyPasses`, an induction over a
  set of pairs (a step number and a state), which needs no operator parameter.
* `SessionRefinement` (`ImplementsSession`): every step of the client, its reactor and
  the peer is a step of `ClientSession` or changes nothing of what the program was
  told. `on_connect`, the end of the handshake and `handle_removed` tell; `ConnectedOK`
  and `ReadOK` say that the session is then one that may be told.
* `NoCrossTalkHolds` (`NoCrossTalk`), from `ClientInv` and `StreamInv`: what is on the
  wire, being sent and prepared rises in this order and lies between the sends of
  earlier connections and the last one, while the connection is in use; a TLS client
  that is not connected holds nothing, and a plain one empties its buffers in
  `on_connect`. Sends that spanned the end of their connection are excepted, in the
  property and in the invariant (`Mine`).

Only model-checked:

* all liveness, which rests on fairness and `ENABLED`: `TimersFire`,
  `EveryEventReturned`, `RequestsTakeEffect`, `HangupReported`,
  `EverySendReported`, `OutputEventAnswered`, `KeysFire`, `RecordsDelivered`,
  `CallsReturn`, `BacklogServed`, `ConnectAnswered`, `SendsReported` and
  `RequestsAnswered`;
* HTTP (`MessagesInOrder`, `SendsTracked`, `ModesAgree`):
  `HttpConnection` parses with RECURSIVE operators, which the prover cannot take,
  and what parsing returns for every input would need induction over data.

## Plan

1. Done: timer, loop, demuxer, dispatch, TCP sending, session timers, SSL.
2. Done: threads and acceptors (`Server`), the clients with their abstract
   session (`AsyncClient`, `ClientSession`), HTTP and WebSocket
   (`HttpHeader`, `Http1Protocol`, `WebSocket`, `HttpConnection`).
3. Done: proofs of the timer loop, the demuxer, the reactor's table and interest,
   both send paths and the server.
4. Done: proofs of the clients, their refinement of `ClientSession`, the
   session timers, and the byte pipe behind both send paths.
5. Left: HTTP over parsers without RECURSIVE operators.

## Not modelled

Failures of `epoll_create1`, `pipe`, `socket` and memory; invalid handles;
`direct_send` of the SSL handler and two threads inside OpenSSL at once;
`IoHandleDemuxer::direct_remove_all_events` and `close_io_handle`, which nothing
calls; the `errno` a handler is given; address formatting and tracing. A server
started again after a completed stop(); stop() called by two threads or by one of
its own; spurious wake-ups of a condition variable and the reuse of a thread's id.
An acceptor whose accept() fails for want of descriptors polls again at once, a
busy loop that is a stutter here. Two handle numbers of one client at a time, and
two threads inside send() of one client. TLS servers that speak before the client
has sent anything, behind its `is_connect_` (records of the handshake apart).
Pipelined requests; what a client makes of the stream after part of a frame was
taken for a body; `HttpHeader::clear()`, which nothing calls, and the copy of a
header after its original is gone. The hashes and encodings of the WebSocket key,
URIs and their arguments, and all texts: a model value stands for each.

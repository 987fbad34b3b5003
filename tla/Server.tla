------------------------------- MODULE Server -------------------------------
(***************************************************************************)
(* The life of a server: TCPReactor and Https1Reactor (start, stop, wait), *)
(* the Reactors with their ReactorThreads, the Acceptor with its           *)
(* AcceptorThreads, and a connection's way from the backlog of the         *)
(* listening socket through an acceptor thread and a reactor's pipe into   *)
(* the reactor's handler table.  What a reactor does with a registered     *)
(* handler is in module Reactor; here it serves it until it closes.        *)
(*                                                                         *)
(* mode says which of the repository's ways to run a server is taken:      *)
(*   "tcp"     TCPReactor                                                  *)
(*   "https"   Https1Reactor                                               *)
(*   "parts"   Reactors and AcceptorThreads put together by the program,   *)
(*             with an AcceptorThreadHandler, as in example/complex        *)
(*   "thread"  one ReactorThread with a ReactorHandlerFactory, and         *)
(*             handlers registered by other threads, as the clients do     *)
(***************************************************************************)
EXTENDS Integers, Sequences, FiniteSets, Functions

CONSTANTS Conns,       \* connections
          NReactors,   \* reactor_thread_num_
          NAcceptors,  \* acceptor_thread_num_
          Modes,       \* which of the four modes the run has
          Timed,       \* acceptors that have an AcceptorThreadHandler, in mode "parts"
          Kinds,       \* address families: "ipv4", "ipv46", "ipv6", "uds"
          PortTaken,   \* bind or listen may fail
          MaxStarts    \* bound: calls of start()

\* Reactors::init adds NReactors to those of an earlier, failed start().
Reactors == 1 .. NReactors * MaxStarts
Acceptors == 1 .. NAcceptors
SizeT == 65536         \* size_t, narrowed
STOP == "STOP"         \* the user event EVENT_STOP in a reactor's pipe
MONITOR == "MONITOR"   \* the registration of the reactor's own ReactorHandler

ASSUME ServerConstants ==
    /\ NReactors \in Nat \ {0} /\ NAcceptors \in Nat \ {0} /\ MaxStarts \in Nat \ {0}
    /\ Timed \subseteq Acceptors
    /\ Modes \subseteq {"tcp", "https", "parts", "thread"}
    /\ Kinds \subseteq {"ipv4", "ipv46", "ipv6", "uds"}
    /\ PortTaken \in BOOLEAN
    /\ IsFiniteSet(Conns) /\ Conns \cap {STOP, MONITOR} = {}

VARIABLES
    mode, kind,
    app,        \* where the call of start() or stop() is, at which index, and by which thread
    starts,     \* calls of start() so far
    stop_,      \* TCPReactor::stop_
    waiter,     \* a thread that calls wait()
    n,          \* number of reactors
    rt,         \* reactor -> its thread and its Reactor
    selector_index_,
    socket,     \* the Acceptor's listening socket
    at,         \* acceptor -> its thread
    timer,      \* acceptor -> timeout of its AcceptorThreadHandler
    place,      \* connection -> where it is
    early       \* connections registered before their reactor was asked to stop

threads == <<rt, n, selector_index_>>
listening == <<socket, at, timer>>
caller == <<app, starts, stop_, waiter>>
config == <<mode, kind>>
vars == <<config, caller, threads, listening, place, early>>

\* handlers_ is what run_shutdown goes through; count is handler_count_.  waited says
\* that wait_thread_id_ is no longer the thread that made the reactor: until the first
\* wait() that thread's STOP goes to wait_events_ (local), in front of all the pipe holds.
\* Three fields are history: spoilt, told to stop that way while it had no thread;
\* overtaken, its thread was ended by such a STOP; refused, registrations it did not take.
NewReactor == [thread |-> "none", is_run |-> FALSE, stop |-> FALSE, pipe |-> <<>>,
               waited |-> FALSE, local |-> FALSE,
               handlers |-> {}, count |-> 0, factory |-> FALSE, monitor |-> "none",
               spoilt |-> FALSE, overtaken |-> FALSE, refused |-> {}]

Init ==
    /\ mode \in Modes /\ kind \in Kinds /\ (kind = "uds" => mode = "parts")
    /\ app = [pc |-> "idle", i |-> 1, by |-> "owner"] /\ starts = 0 /\ stop_ = FALSE /\ waiter = "none"
    /\ n = 0 /\ rt = [r \in Reactors |-> NewReactor] /\ selector_index_ = 0
    /\ socket = [fd |-> "none", family |-> "none"]
    /\ at = [a \in Acceptors |-> [pc |-> "none", conn |-> "none", index |-> 0]]
    /\ timer = [a \in Acceptors |-> "unset"]
    /\ place = [c \in Conns |-> "none"] /\ early = {}

Goto(pc) == app' = [app EXCEPT !.pc = pc, !.i = 1]
GotoNext(pc) == app' = [app EXCEPT !.pc = pc, !.i = app.i + 1]

-----------------------------------------------------------------------------
\* Acceptor::listen_*: a new descriptor (an old one is closed first, whatever its
\* number stands for by now), its options, bind, listen.  IPV6_V6ONLY is set on
\* every socket, and only the IPv6 families have it.
HasV6Only(k) == k \in {"ipv6", "ipv46"}

Closed == [c \in Conns |-> IF place[c] = "backlog" THEN "refused" ELSE place[c]]

ListenOk ==
    /\ HasV6Only(kind)
    /\ socket' = [fd |-> "listening", family |-> kind]

ListenFails ==
    /\ ~HasV6Only(kind) \/ PortTaken
    /\ socket' = [socket EXCEPT !.fd = "socket"]

AfterListen == IF mode = "https" THEN "start_reactors" ELSE "start_acceptors"

Listen ==
    /\ app.pc = "listen"
    /\ \/ ListenOk /\ Goto(AfterListen)
       \/ ListenFails /\ Goto("undo")
    /\ UNCHANGED <<config, starts, stop_, waiter, threads, at, timer, place, early>>

-----------------------------------------------------------------------------
\* start().  Reactors::init makes the reactors; Https1Reactor prepares the
\* SSL_CTX objects and listens before the reactor threads start, the others after.  A
\* program made of parts starts them once.
AfterInit == IF mode = "https" THEN "prepare_ssl" ELSE "start_reactors"
AfterReactors == CASE mode = "https"  -> "start_acceptors"
                   [] mode = "thread" -> "up"
                   [] OTHER           -> "listen"

NewReactors == IF mode = "thread" THEN 1 ELSE NReactors

Start ==
    /\ app.pc \in {"idle", "failed"} /\ starts < MaxStarts
    /\ mode \in {"parts", "thread"} => starts = 0
    /\ starts' = starts + 1
    /\ stop_' = FALSE
    /\ n' = n + NewReactors
    /\ rt' = [r \in Reactors |->
                 IF r \in n + 1 .. n + NewReactors THEN [NewReactor EXCEPT !.factory = TRUE] ELSE rt[r]]
    /\ Goto(AfterInit)
    /\ UNCHANGED <<config, waiter, selector_index_, listening, place, early>>

\* SSLContext::create: the certificate, the key and the chain are loaded, or nullptr.
ContextCreated == {TRUE, FALSE}

\* SSLAcceptorThread::prepare_ssl, one context per reactor: the first that cannot be
\* created ends start() with nothing running.
PrepareSsl ==
    /\ app.pc = "prepare_ssl"
    /\ \E created \in ContextCreated :
          IF ~created THEN Goto("failed")
          ELSE IF app.i = n THEN Goto("listen") ELSE GotoNext("prepare_ssl")
    /\ UNCHANGED <<config, starts, stop_, waiter, threads, listening, place, early>>

\* The factory a ReactorThread's reactor has once it is started: start() initialises
\* the reactor again, with its own argument, which Reactors::start leaves out.
StartFactory == mode = "thread"

\* The pipe is a new one; wait_events_ and wait_thread_id_ stay.
InitAgain(r) == [rt[r] EXCEPT !.stop = FALSE, !.pipe = <<>>, !.count = 0, !.factory = StartFactory,
                              !.overtaken = FALSE]

StartReactor ==
    /\ app.pc = "start_reactors" /\ app.i <= n
    /\ rt' = [rt EXCEPT ![app.i] = [InitAgain(app.i) EXCEPT !.thread = "created"]]
    /\ app' = [app EXCEPT !.pc = "wait_reactor"]
    /\ UNCHANGED <<config, starts, stop_, waiter, n, selector_index_, listening, place, early>>

\* start() tests is_run_ under the lock and else waits once, for the notification only:
\* a thread that has ended by then has notified nobody.
ReactorStarted ==
    /\ \/ app.pc = "wait_reactor" /\ rt[app.i].is_run
       \/ app.pc = "woken"
    /\ IF app.i = n THEN Goto(AfterReactors) ELSE GotoNext("start_reactors")
    /\ UNCHANGED <<config, starts, stop_, waiter, threads, listening, place, early>>

AwaitReactor ==
    /\ app.pc = "wait_reactor" /\ ~rt[app.i].is_run
    /\ app' = [app EXCEPT !.pc = "asleep"]
    /\ UNCHANGED <<config, starts, stop_, waiter, threads, listening, place, early>>

StartAcceptor ==
    /\ app.pc = "start_acceptors"
    /\ at' = [at EXCEPT ![app.i].pc = "created"]
    /\ app' = [app EXCEPT !.pc = "wait_acceptor"]
    /\ UNCHANGED <<config, starts, stop_, waiter, threads, socket, timer, place, early>>

AcceptorStarted ==
    /\ app.pc = "wait_acceptor" /\ at[app.i].pc # "created"
    /\ IF app.i = NAcceptors THEN Goto("up") ELSE GotoNext("start_acceptors")
    /\ UNCHANGED <<config, starts, stop_, waiter, threads, listening, place, early>>

-----------------------------------------------------------------------------
\* stop(): first the acceptor threads, one after the other, then the reactors.
StopReactorsFirst == "stop_reactors"   \* mutant: the acceptors are not stopped first
FirstStopped == IF mode = "thread" THEN "stop_reactors" ELSE "stop_acceptors"

\* The thread that called start(), which made the reactors, or another one.
StopBegin ==
    /\ app.pc \in {"up", "failed"} /\ ~stop_
    /\ \E thread \in {"owner", "other"} : app' = [pc |-> FirstStopped, i |-> 1, by |-> thread]
    /\ UNCHANGED <<config, starts, stop_, waiter, threads, listening, place, early>>

\* AcceptorThread::stop: shutdown() of the shared socket, then join.
ShutNothing(fd) == fd   \* mutant: the acceptor's socket is not shut down
Shut(fd) == IF fd = "listening" THEN "shut" ELSE fd

StopAcceptor ==
    /\ app.pc = "stop_acceptors" /\ app.i <= NAcceptors
    /\ IF at[app.i].pc = "none" THEN GotoNext("stop_acceptors") ELSE app' = [app EXCEPT !.pc = "join_acceptor"]
    /\ socket' = [socket EXCEPT !.fd = Shut(@)]
    /\ place' = IF socket.fd = "listening" THEN Closed ELSE place
    /\ UNCHANGED <<config, starts, stop_, waiter, threads, at, timer, early>>

JoinAcceptor ==
    /\ app.pc = "join_acceptor" /\ at[app.i].pc = "ended"
    /\ at' = [at EXCEPT ![app.i].pc = "none"]
    /\ GotoNext("stop_acceptors")
    /\ UNCHANGED <<config, starts, stop_, waiter, threads, socket, timer, place, early>>

AcceptorsStopped ==
    /\ app.pc = "stop_acceptors" /\ app.i > NAcceptors
    /\ Goto("stop_reactors")
    /\ UNCHANGED <<config, starts, stop_, waiter, threads, listening, place, early>>

\* ReactorThread::stop: STOP, then join if there is a thread.  undo is the scope_exit of
\* a start() whose listen failed.  raise_event compares the thread with wait_thread_id_
\* and appends to wait_events_ later, when the loop may have looked there already.
JoinOf(pc) == IF pc \in {"undo", "undo_local"} THEN "undo_join" ELSE "join_reactor"
StopOf(pc) == IF pc \in {"undo", "undo_local"} THEN "undo" ELSE "stop_reactors"

ThenJoin ==
    IF rt[app.i].thread = "none" THEN GotoNext(StopOf(app.pc)) ELSE app' = [app EXCEPT !.pc = JoinOf(app.pc)]

ToWaitEvents(r) == app.by = "owner" /\ ~rt[r].waited

StopReactor ==
    /\ app.pc \in {"stop_reactors", "undo"} /\ app.i <= n
    /\ IF ToWaitEvents(app.i)
       THEN /\ app' = [app EXCEPT !.pc = IF @ = "undo" THEN "undo_local" ELSE "stop_local"]
            /\ UNCHANGED rt
       ELSE /\ rt' = [rt EXCEPT ![app.i].pipe = Append(@, STOP)]
            /\ ThenJoin
    /\ UNCHANGED <<config, starts, stop_, waiter, n, selector_index_, listening, place, early>>

ToldEarly(r) == [rt[r] EXCEPT !.local = TRUE, !.spoilt = @ \/ rt[r].thread = "none"]

StopInWaitEvents ==
    /\ app.pc \in {"stop_local", "undo_local"}
    /\ rt' = [rt EXCEPT ![app.i] = ToldEarly(app.i)]
    /\ ThenJoin
    /\ UNCHANGED <<config, starts, stop_, waiter, n, selector_index_, listening, place, early>>

JoinReactor ==
    /\ app.pc \in {"join_reactor", "undo_join"} /\ rt[app.i].thread = "ended"
    /\ rt' = [rt EXCEPT ![app.i].thread = "none"]
    /\ GotoNext(IF app.pc = "undo_join" THEN "undo" ELSE "stop_reactors")
    /\ UNCHANGED <<config, starts, stop_, waiter, n, selector_index_, listening, place, early>>

StartFailed ==
    /\ app.pc = "undo" /\ app.i > n
    /\ Goto("failed")
    /\ UNCHANGED <<config, starts, stop_, waiter, threads, listening, place, early>>

\* The last lines of stop(): the flag and notify_all under the lock.
Woken == IF waiter = "waiting" THEN "returned" ELSE waiter

StopEnd ==
    /\ app.pc = "stop_reactors" /\ app.i > n
    /\ stop_' = TRUE
    /\ waiter' = Woken
    /\ Goto("stopped")
    /\ UNCHANGED <<config, starts, threads, listening, place, early>>

\* wait(): it tests the flag under the lock and then waits once.  A program calls it when
\* start() has returned true.
Wait ==
    /\ mode \in {"tcp", "https"} /\ waiter = "none"
    /\ app.pc \in {"up", "stop_acceptors", "join_acceptor", "stop_reactors", "stop_local",
                   "join_reactor", "stopped"}
    /\ waiter' = IF stop_ THEN "returned" ELSE "waiting"
    /\ UNCHANGED <<config, app, starts, stop_, threads, listening, place, early>>

-----------------------------------------------------------------------------
\* A reactor thread: ReactorThread::run around Reactor::run.  The ReactorHandler
\* registers itself through the pipe, before the loop; its creation may fail.
Running(r, created) ==
    [rt[r] EXCEPT !.thread = "entering", !.is_run = TRUE, !.stop = FALSE,
                  !.monitor = IF created THEN "raised" ELSE "none",
                  !.pipe = IF created THEN Append(@, MONITOR) ELSE @]

RunBegin(r) ==
    /\ rt[r].thread = "created"
    /\ \E created \in {FALSE, rt[r].factory} : rt' = [rt EXCEPT ![r] = Running(r, created)]
    /\ app' = IF app.pc = "asleep" /\ app.i = r THEN [app EXCEPT !.pc = "woken"] ELSE app
    /\ UNCHANGED <<config, starts, stop_, waiter, n, selector_index_, listening, place, early>>

\* wait() looks into wait_events_ before it sleeps: a STOP there ends the loop with the
\* pipe unread.  x is the reactor before that look.
TakenNotCleared(x) ==   \* mutant: wait_events_ is not cleared
    IF x.local THEN [x EXCEPT !.overtaken = TRUE, !.thread = "shutdown"] ELSE x
LookIntoWaitEvents(x) ==
    IF x.local THEN [x EXCEPT !.local = FALSE, !.overtaken = TRUE, !.thread = "shutdown"] ELSE x

FirstWait(r) ==
    /\ rt[r].thread = "entering"
    /\ rt' = [rt EXCEPT ![r] = LookIntoWaitEvents([@ EXCEPT !.waited = TRUE, !.thread = "looping"])]
    /\ UNCHANGED <<config, caller, n, selector_index_, listening, place, early>>

\* One return of epoll_wait and dispatch(): the events read from the pipe, in order and
\* all of them, even behind a STOP; then the next wait() begins.
Dispatched(r, batch) ==
    [rt[r] EXCEPT
       !.pipe = SubSeq(@, Len(batch) + 1, Len(@)),
       !.handlers = @ \cup (Range(batch) \cap Conns),
       !.count = @ + Cardinality(Range(batch) \cap (Conns \cup {MONITOR})),
       !.monitor = IF MONITOR \in Range(batch) THEN "registered" ELSE @,
       !.thread = IF STOP \in Range(batch) THEN "shutdown" ELSE @]

DispatchBatch(r, batch) ==
    /\ rt' = [rt EXCEPT ![r] = IF STOP \in Range(batch) THEN Dispatched(r, batch)
                               ELSE LookIntoWaitEvents(Dispatched(r, batch))]
    /\ place' = [c \in Conns |-> IF c \in Range(batch) THEN "handled" ELSE place[c]]

Dispatch(r) ==
    /\ rt[r].thread = "looping"
    /\ \E k \in 1 .. Len(rt[r].pipe) : DispatchBatch(r, SubSeq(rt[r].pipe, 1, k))
    /\ UNCHANGED <<config, caller, n, selector_index_, listening, early>>

\* A handler's connection ends: it is removed and closes its handle.
Without(r, c) == [rt[r] EXCEPT !.handlers = @ \ {c}, !.count = @ - 1]

HandlerLeaves(r, c) ==
    /\ rt[r].thread = "looping" /\ c \in rt[r].handlers /\ place[c] = "handled"
    /\ rt' = [rt EXCEPT ![r] = LookIntoWaitEvents(Without(r, c))]
    /\ place' = [place EXCEPT ![c] = "closed"]
    /\ UNCHANGED <<config, caller, n, selector_index_, listening, early>>

\* Input, a timeout or a signal wakes the loop, and its next wait() finds a STOP that came
\* too late for the last one.  Nobody has to send it any.
LoopWakes(r) ==
    /\ rt[r].thread = "looping" /\ rt[r].local
    /\ rt' = [rt EXCEPT ![r] = LookIntoWaitEvents(@)]
    /\ UNCHANGED <<config, caller, n, selector_index_, listening, place, early>>

\* run_shutdown() tells every handler of the table and destroys the ReactorHandler.
RunShutdown(r) ==
    /\ rt[r].thread = "shutdown"
    /\ place' = [c \in Conns |-> IF c \in rt[r].handlers THEN "shutdown" ELSE place[c]]
    /\ rt' = [rt EXCEPT ![r] = [rt[r] EXCEPT !.monitor = "none", !.thread = "ended",
                                             !.stop = TRUE, !.is_run = FALSE]]
    /\ UNCHANGED <<config, caller, n, selector_index_, listening, early>>

\* Reactor::handler_count(), a size_t.
CountMinusOne(r) == (rt[r].count - 1) % SizeT   \* mutant: with or without a ReactorHandler
HandlerCount(r) ==
    IF rt[r].monitor = "none" THEN rt[r].count ELSE (rt[r].count - 1) % SizeT

AskedToStop(r) ==
    STOP \in Range(rt[r].pipe) \/ rt[r].local \/ rt[r].stop \/ rt[r].thread = "shutdown"

\* Reactor::register_event_handler(c), by whatever thread.
Register(r, c) ==
    /\ rt' = IF rt[r].stop THEN [rt EXCEPT ![r].refused = @ \cup {c}]
             ELSE [rt EXCEPT ![r].pipe = Append(@, c)]
    /\ place' = [place EXCEPT ![c] = IF rt[r].stop THEN "lost" ELSE "piped"]
    /\ early' = IF AskedToStop(r) THEN early ELSE early \cup {c}

ClientRegisters(c) ==
    /\ mode = "thread" /\ n = 1 /\ rt[1].is_run /\ place[c] = "none"
    /\ Register(1, c)
    /\ UNCHANGED <<config, caller, n, selector_index_, listening>>

-----------------------------------------------------------------------------
\* An acceptor thread, AcceptorThread::run around Acceptor::accept.
AcceptorRuns(a) ==
    /\ at[a].pc = "created"
    /\ at' = [at EXCEPT ![a].pc = "top"]
    /\ timer' = [timer EXCEPT ![a] = IF mode = "parts" /\ a \in Timed THEN "armed" ELSE "unset"]
    /\ UNCHANGED <<config, caller, threads, socket, place, early>>

\* handle_timeout() of the AcceptorThreadHandler: it sets the timeout again, unsets
\* it, or leaves it, and then the thread asks for ever whether it is still due.
AcceptorTop(a) ==
    /\ at[a].pc = "top"
    /\ IF timer[a] = "due"
       THEN \E t \in {"armed", "unset", "due"} :
               /\ timer' = [timer EXCEPT ![a] = t]
               /\ at' = [at EXCEPT ![a].pc = IF t = "due" THEN "spinning" ELSE "poll"]
       ELSE at' = [at EXCEPT ![a].pc = "poll"] /\ UNCHANGED timer
    /\ UNCHANGED <<config, caller, threads, socket, place, early>>

Backlog == {c \in Conns : place[c] = "backlog"}

\* poll() reports the socket as readable; a second thread woken for the same
\* connection gets EWOULDBLOCK and polls again.
PollAccepts(a) ==
    /\ at[a].pc = "poll" /\ socket.fd = "listening"
    /\ \E c \in Backlog :
          /\ at' = [at EXCEPT ![a] = [@ EXCEPT !.pc = "accepted", !.conn = c]]
          /\ place' = [place EXCEPT ![c] = "accepted"]
    /\ UNCHANGED <<config, caller, threads, socket, timer, early>>

\* mutant: a timeout that has come goes first
PollTimesOutFirst(a) ==
    /\ at[a].pc = "poll" /\ timer[a] = "due"
    /\ at' = [at EXCEPT ![a].pc = "top"]
    /\ UNCHANGED <<config, caller, threads, socket, timer, place, early>>

PollTimesOut(a) ==
    /\ at[a].pc = "poll" /\ timer[a] = "due"
    /\ Backlog = {} /\ socket.fd \notin {"shut", "closed"}
    /\ at' = [at EXCEPT ![a].pc = "top"]
    /\ UNCHANGED <<config, caller, threads, socket, timer, place, early>>

\* poll() reports a hang-up, or a closed descriptor: accept() closes it (again).
PollEnds(a) ==
    /\ at[a].pc = "poll" /\ socket.fd \in {"shut", "closed"}
    /\ socket' = [socket EXCEPT !.fd = "closed"]
    /\ at' = [at EXCEPT ![a].pc = "ended"]
    /\ UNCHANGED <<config, caller, threads, timer, place, early>>

\* ::accept() fails: the connection was aborted meanwhile (or, with no descriptor free,
\* it stays where it is), and the thread polls again.
AcceptFails(a) ==
    /\ at[a].pc = "poll" /\ socket.fd = "listening"
    /\ \E c \in Backlog : place' = [place EXCEPT ![c] = "refused"]
    /\ UNCHANGED <<config, caller, threads, listening, early>>

\* What makes accept() return -1 to a thread whose socket is in order; at most one thread
\* of the run is hit.
OneIsHit == app.pc = "up" /\ \A b \in Acceptors : at[b].pc # "ended"

\* A signal handled by this thread: poll() returns -1.
PollInterrupted(a) ==
    /\ at[a].pc = "poll" /\ OneIsHit
    /\ at' = [at EXCEPT ![a].pc = "ended"]
    /\ UNCHANGED <<config, caller, threads, socket, timer, place, early>>

\* setsockopt() of the new connection fails: the thread ends and nobody closes it.
AcceptLeaks(a) ==
    /\ at[a].pc = "poll" /\ socket.fd = "listening" /\ OneIsHit
    /\ \E c \in Backlog : place' = [place EXCEPT ![c] = "leaked"]
    /\ at' = [at EXCEPT ![a].pc = "ended"]
    /\ UNCHANGED <<config, caller, threads, socket, timer, early>>

\* Reactors::get_reactor(): selector_index_ is read here and written with the
\* registration, with nothing that keeps another acceptor thread out in between.
SelectReactor(a) ==
    /\ at[a].pc = "accepted"
    /\ at' = [at EXCEPT ![a] = [@ EXCEPT !.pc = "selected", !.index = selector_index_]]
    /\ UNCHANGED <<config, caller, threads, socket, timer, place, early>>

NextIndex(i) == (i + 1) % n

\* The factory may have no session for the connection, init_ssl may fail: both close
\* it.  Otherwise the handler is registered and the result is ignored.
CreateHandler(a) ==
    /\ at[a].pc = "selected"
    /\ selector_index_' = NextIndex(at[a].index)
    /\ LET c == at[a].conn
       IN  \/ Register(at[a].index + 1, c)
           \/ place' = [place EXCEPT ![c] = "closed"] /\ UNCHANGED <<rt, early>>
    /\ at' = [at EXCEPT ![a] = [pc |-> "top", conn |-> "none", index |-> 0]]
    /\ UNCHANGED <<config, caller, n, socket, timer>>

-----------------------------------------------------------------------------
\* The surroundings: peers, the clock, and other threads that open descriptors.
PeerConnects(c) ==
    /\ place[c] = "none" /\ socket.fd = "listening"
    /\ place' = [place EXCEPT ![c] = "backlog"]
    /\ UNCHANGED <<config, caller, threads, listening, early>>

TimeoutPasses(a) ==
    /\ timer[a] = "armed" /\ at[a].pc \in {"top", "poll"}
    /\ timer' = [timer EXCEPT ![a] = "due"]
    /\ UNCHANGED <<config, caller, threads, socket, at, place, early>>

DescriptorReused ==
    /\ socket.fd = "closed" /\ app.pc \in {"stop_acceptors", "join_acceptor"}
    /\ socket' = [socket EXCEPT !.fd = "foreign"]
    /\ UNCHANGED <<config, caller, threads, at, timer, place, early>>

-----------------------------------------------------------------------------
CallerSteps ==
    \/ Listen \/ PrepareSsl
    \/ StartReactor \/ ReactorStarted \/ AwaitReactor \/ StartAcceptor \/ AcceptorStarted
    \/ StopAcceptor \/ JoinAcceptor \/ AcceptorsStopped
    \/ StopReactor \/ StopInWaitEvents \/ JoinReactor \/ StartFailed \/ StopEnd
ReactorThread(r) == RunBegin(r) \/ FirstWait(r) \/ Dispatch(r) \/ RunShutdown(r)
AcceptorThread(a) ==
    AcceptorRuns(a) \/ AcceptorTop(a) \/ PollAccepts(a) \/ PollTimesOut(a) \/ PollEnds(a)
    \/ SelectReactor(a) \/ CreateHandler(a)

Next ==
    \/ Start \/ StopBegin \/ Wait \/ CallerSteps
    \/ \E r \in Reactors : ReactorThread(r) \/ LoopWakes(r) \/ \E c \in Conns : HandlerLeaves(r, c)
    \/ \E a \in Acceptors : AcceptorThread(a) \/ AcceptFails(a) \/ PollInterrupted(a) \/ AcceptLeaks(a) \/ TimeoutPasses(a)
    \/ \E c \in Conns : PeerConnects(c) \/ ClientRegisters(c)
    \/ DescriptorReused

\* The threads run; nobody has to call, connect or hang up.
Spec ==
    /\ Init /\ [][Next]_vars
    /\ WF_vars(CallerSteps)
    /\ \A r \in Reactors : WF_vars(ReactorThread(r))
    /\ \A a \in Acceptors : WF_vars(AcceptorThread(a))
-----------------------------------------------------------------------------
TypeOK ==
    /\ app.i \in 1 .. Cardinality(Reactors) + NAcceptors + 1
    /\ starts \in 0 .. MaxStarts /\ n \in 0 .. NReactors * MaxStarts
    /\ stop_ \in BOOLEAN /\ waiter \in {"none", "waiting", "returned"}
    /\ \A r \in Reactors :
          /\ rt[r].thread \in {"none", "created", "entering", "looping", "shutdown", "ended"}
          /\ rt[r].pipe \in Seq(Conns \cup {STOP, MONITOR})
          /\ rt[r].handlers \subseteq Conns
    /\ socket.fd \in {"none", "socket", "listening", "shut", "closed", "foreign"}
    /\ \A a \in Acceptors :
          /\ at[a].pc \in {"none", "created", "top", "spinning", "poll", "accepted", "selected", "ended"}
          /\ timer[a] \in {"unset", "armed", "due"}
    /\ place \in [Conns -> {"none", "backlog", "refused", "accepted", "piped", "handled",
                           "closed", "shutdown", "lost", "leaked"}]

\* What a reactor that found STOP in wait_events_ never looked at, or did not take.
Overlooked == UNION {Range(rt[r].pipe) \cup rt[r].refused : r \in {q \in Reactors : rt[q].overtaken}}

\* When stop() of a server has returned, no connection it accepted is left open and
\* untold: stop() ends the acceptor threads before the reactors, so that every
\* registration is in a pipe in front of STOP.  The exceptions are those of a reactor
\* whose STOP overtook the pipe, and the one accept() itself forgot.
NoOrphans ==
    app.pc = "stopped" /\ mode # "thread" =>
        \A c \in Conns \ Overlooked : place[c] \in {"none", "refused", "closed", "shutdown", "leaked"}

Alive(r) == rt[r].thread \in {"entering", "looping"}

\* An acceptor thread, whose round robin index races with that of the others, never
\* hands a connection to a reactor that does not run, be it after a failed start(), and
\* leaves an index of one behind.  A reactor that was told to stop before it had a thread
\* is the exception.
HandedToRunning ==
    /\ \A a \in Acceptors : at[a].pc = "selected" =>
          /\ at[a].index < n
          /\ LET r == at[a].index + 1 IN rt[r].spoilt \/ (Alive(r) /\ ~rt[r].stop)
    /\ n > 0 => selector_index_ < n

\* A registration made before its reactor was asked to stop is not left in the pipe of
\* a reactor that has stopped, unless it was overtaken: it is registered first, and then
\* told of the shutdown.
EarlyOnesAreTold ==
    \A c \in early : place[c] = "piped" =>
        \E r \in Reactors : c \in Range(rt[r].pipe) /\ (rt[r].thread = "created" \/ Alive(r) \/ rt[r].overtaken)

\* Nobody whose registration was accepted is forgotten by a stop(), but by one whose STOP
\* went to wait_events_.
NoneForgotten == NoOrphans /\ EarlyOnesAreTold

\* When start() has returned true every reactor runs and none has been told to stop, be
\* it by the clean-up of an earlier start() that failed, unless that clean-up told a
\* reactor that had no thread yet: its STOP waits in wait_events_ for the next one.
UpMeansServing ==
    app.pc = "up" => \A r \in 1 .. n :
        rt[r].spoilt \/ (Alive(r) /\ STOP \notin Range(rt[r].pipe) /\ ~rt[r].local)

\* From start() to stop() the acceptors meet running reactors, and those that a failed
\* start() had spoilt.
ReactorsServe == TypeOK /\ HandedToRunning /\ UpMeansServing

\* handler_count() is the number of the application's handlers, the ReactorHandler
\* not counted, once that handler's own registration has been dispatched.
CountIsOfHandlers ==
    \A r \in Reactors : rt[r].thread = "looping" /\ rt[r].monitor # "raised" =>
        HandlerCount(r) = Cardinality(rt[r].handlers)

\* What keeps an acceptor thread from ending: a handle_timeout() that left its timeout
\* due, or a descriptor number given to somebody else after another acceptor thread
\* closed it.
Stuck == socket.fd = "foreign" \/ \E a \in Acceptors : at[a].pc = "spinning"

\* What keeps start() from returning: the reactor it waits for has come and gone.
StartMissed == app.pc = "asleep" /\ rt[app.i].thread = "ended"

\* What keeps a join from returning: the STOP came into wait_events_ after the loop had
\* looked there, and nothing wakes it.
StopUnseen == app.pc \in {"join_reactor", "undo_join"} /\ rt[app.i].thread = "looping" /\ rt[app.i].local

\* wait() returns once stop() has: it does not miss the notification.
WaitReturns == (waiter = "waiting" /\ app.pc = "stopped") ~> (waiter = "returned")

Starting == app.pc \in {"listen", "prepare_ssl", "start_reactors", "wait_reactor", "asleep", "woken",
                        "start_acceptors", "wait_acceptor", "undo", "undo_local", "undo_join"}

\* start() returns, unless it waits for a reactor that has ended or joins one that does
\* not see its STOP; stop() returns, unless an acceptor thread is stuck or the STOP is
\* not seen; and then wait() does.
CallsReturn ==
    /\ Starting ~> (app.pc \in {"up", "failed"} \/ []StartMissed \/ []StopUnseen)
    /\ (app.pc = FirstStopped) ~> (app.pc = "stopped" \/ Stuck \/ []StopUnseen)
    /\ WaitReturns

\* A connection in the backlog is taken out of it, as long as one acceptor thread is
\* neither spinning nor was ended by a failure of accept(), and start() got as far as
\* starting them: Https1Reactor listens before it waits for its reactors.
BacklogServed ==
    \A c \in Conns : (place[c] = "backlog") ~>
        \/ place[c] # "backlog"
        \/ \A a \in Acceptors : at[a].pc \in {"spinning", "ended"}
        \/ []StartMissed
=============================================================================

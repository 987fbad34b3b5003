------------------------------- MODULE Reactor -------------------------------
(***************************************************************************)
(* reactor/Reactor.h and Reactor.cpp on top of IoHandleDemuxer: the loop   *)
(* of the reactor thread, the table of registered handlers, the dispatch   *)
(* of a batch to handler callbacks, timers (which objects are armed; real  *)
(* time is in module TimerLoop), and shutdown.  A handler is a connection  *)
(* c \in Conns; it is registered once, for the handle it was opened on,    *)
(* and it closes that handle in handle_removed, as the TCP handlers do.    *)
(* Acceptor threads open connections; a handle number is reused as soon as *)
(* it is closed.  Inside a callback the handler may call the Reactor.      *)
(***************************************************************************)
EXTENDS IoHandleDemuxer, FiniteSets

CONSTANTS LocalCalls,   \* what a handler may call from inside a callback
          RemoteCalls,  \* what worker threads may call for a live handler
          LateWrites,   \* register_writable may come after remove, before its effect
          OwnerStops,   \* the thread that made the Reactor may stop it before its first wait()
          MaxCalls      \* bound: calls of both sorts in a run

CallNames == {"register_writable", "set_timeout", "unset_timeout", "remove"}

ASSUME ReactorConstants ==
    /\ LocalCalls \subseteq CallNames /\ RemoteCalls \subseteq CallNames
    /\ LateWrites \in BOOLEAN /\ OwnerStops \in BOOLEAN
    /\ MaxCalls \in Nat
    /\ IsFiniteSet(Conns)

VARIABLES
    run_pc,             \* where the reactor thread is in run()
    index,              \* next event of the batch to dispatch
    handlers_,          \* handle -> registered handler
    handler_count_,
    handle_close_call_, \* handles whose handle_close was called
    armed,              \* timer_: handlers with a timeout
    expired,            \* objects extracted, handle_timeout not yet called
    is_stop_event, stop_,
    callback,           \* the running callback: its name and handler
    io_handle_,         \* handler -> EventHandler::io_handle_
    stage,              \* handler -> what it has been told so far
    closed,             \* handlers whose handle_close was called
    removing,           \* handlers for which remove_event_handler was called
    stop_raised,        \* how far a call of stop() is
    calls               \* number of calls so far

table == <<handlers_, handler_count_, handle_close_call_>>
timers == <<armed, expired>>
stopping == <<is_stop_event, stop_, stop_raised>>
told == <<io_handle_, stage, closed, removing>>
reactor_vars == <<run_pc, index, table, timers, stopping, callback, told, calls>>
vars == <<demuxer_vars, reactor_vars>>

\* "raised": STOP is where the loop will see it; "tested" and "late": see owner_stop_queues.
StopStates == {"no", "tested", "raised", "late"}
Stages == {"none", "opened", "raised", "registered", "removed", "shutdown"}
NoCallback == [name |-> "none", handler |-> Null]

\* Everything of the demuxer but its queues, the kernel and the batch.
inside_wait == <<wait_thread_id_, interest, wait_pc, ctl, scan>>

-----------------------------------------------------------------------------
\* The events behind the calls of the Reactor's interface for handler c.
CallEvent(name, c) ==
    LET h == io_handle_[c]
    IN CASE name = "register_writable" -> Event("REGISTER_WRITE", h, c, FALSE, c)
         [] name = "remove"            -> Event("REMOVE_ALL", h, c, TRUE, c)
         [] name = "set_timeout"       -> Event("TIMEOUT_ADD", h, Null, TRUE, c)
         [] name = "unset_timeout"     -> Event("TIMEOUT_DEL", h, Null, TRUE, c)

Init ==
    /\ DemuxerInit
    /\ run_pc = "start" /\ index = 1
    /\ handlers_ = [h \in {} |-> Null]
    /\ handler_count_ = 0
    /\ handle_close_call_ = {}
    /\ armed = {} /\ expired = {}
    /\ is_stop_event = FALSE /\ stop_ = FALSE /\ stop_raised = "no"
    /\ callback = NoCallback
    /\ io_handle_ = [c \in Conns |-> Null]
    /\ stage = [c \in Conns |-> "none"]
    /\ closed = {} /\ removing = {}
    /\ calls = 0

-----------------------------------------------------------------------------
\* An acceptor thread: accept() yields a socket, then register_event_handler.
AcceptorOpens(c, h) ==
    /\ stage[c] = "none"
    /\ KernelOpen(h, c)
    /\ io_handle_' = [io_handle_ EXCEPT ![c] = h]
    /\ stage' = [stage EXCEPT ![c] = "opened"]
    /\ UNCHANGED <<inside_wait, queues, watched, return_events, run_pc, index, table, timers,
                   stopping, callback, closed, removing, calls>>

register_event_handler(t, c) ==
    /\ stage[c] = "opened"
    /\ ~stop_
    /\ Raise(t, Event("REGISTER_READ", io_handle_[c], c, TRUE, c))
    /\ stage' = [stage EXCEPT ![c] = "raised"]
    /\ UNCHANGED <<inside_wait, kernel, watched, return_events, run_pc, index, table, timers,
                   stopping, callback, io_handle_, closed, removing, calls>>

\* Thread t calls the Reactor for handler c.
Call(t, c, names) ==
    /\ calls < MaxCalls
    /\ \E name \in names :
         /\ name = "register_writable" => LateWrites \/ c \notin removing
         /\ Raise(t, CallEvent(name, c))
         /\ removing' = IF name = "remove" THEN removing \cup {c} ELSE removing
    /\ calls' = calls + 1
    /\ UNCHANGED <<inside_wait, kernel, watched, return_events, run_pc, index, table, timers,
                   stopping, callback, io_handle_, stage, closed>>

\* A worker thread does, for a handler that is registered.
RemoteCall(t, c) == stage[c] = "registered" /\ ~stop_ /\ Call(t, c, RemoteCalls)

StopEvent == Event("STOP", Null, Null, TRUE, Null)

\* stop() by a thread that is not the one that made the Reactor, or by that one once the
\* loop has called wait().
stop(t) ==
    /\ stop_raised = "no"
    /\ stop_raised' = "raised"
    /\ Raise(t, StopEvent)
    /\ UNCHANGED <<inside_wait, kernel, watched, return_events, run_pc, index, table, timers,
                   is_stop_event, stop_, callback, told, calls>>

\* stop() by the thread that made the Reactor, before the loop's first wait(): it finds
\* its own id in wait_thread_id_ ...
owner_stop_tests ==
    /\ OwnerStops /\ stop_raised = "no" /\ wait_thread_id_ = Owner
    /\ stop_raised' = "tested"
    /\ UNCHANGED <<demuxer_vars, run_pc, index, table, timers, is_stop_event, stop_, callback,
                   told, calls>>

\* ... and queues STOP in wait_events_, where the loop may have looked by now: late.
owner_stop_queues ==
    /\ stop_raised = "tested"
    /\ stop_raised' = IF wait_thread_id_ = Owner THEN "raised" ELSE "late"
    /\ wait_events_' = Append(wait_events_, StopEvent)
    /\ UNCHANGED <<inside_wait, pipe, kernel, watched, return_events, run_pc, index, table,
                   timers, is_stop_event, stop_, callback, told, calls>>

-----------------------------------------------------------------------------
\* Callbacks.  Begin makes name the running callback of handler c.
Begin(name, c) == callback' = [name |-> name, handler |-> c]

\* The handler calls the Reactor from inside, for itself or for a handler that
\* is registered.  After handle_shutdown nothing reads the queues any more.
LocalCall(c) ==
    /\ callback # NoCallback /\ callback.name # "handle_shutdown"
    /\ c = callback.handler \/ stage[c] = "registered"
    /\ Call(Loop, c, LocalCalls)

\* handle_input has read what it wanted; handle_removed has closed the handle;
\* run_shutdown goes on after handle_shutdown.
CallbackReturns ==
    /\ callback # NoCallback
    /\ LET h == io_handle_[callback.handler]
       IN CASE callback.name = "handle_input" ->
                 /\ \/ level' = [level EXCEPT ![h] = @ \ {"in"}]
                    \/ UNCHANGED level
                 /\ UNCHANGED <<open, watched>>
            [] callback.name = "handle_removed" -> KernelClose(h)
            [] OTHER -> UNCHANGED <<kernel, watched>>
    /\ IF callback.name = "handle_shutdown"
         THEN Raise(Loop, Event("REMOVE_ALL", io_handle_[callback.handler], Null, FALSE, Null))
         ELSE UNCHANGED queues
    /\ callback' = NoCallback
    /\ UNCHANGED <<inside_wait, return_events, run_pc, index, table, timers, stopping,
                   told, calls>>

-----------------------------------------------------------------------------
\* run(), between two waits.  Any armed timer may have expired by now.
RunStart ==
    /\ run_pc = "start"
    /\ stop_' = FALSE
    /\ run_pc' = "top"
    /\ UNCHANGED <<demuxer_vars, index, table, timers, is_stop_event, stop_raised, callback, told,
                   calls>>

\* run_timeout_handler: extract_timeout_objects, then handle_timeout on each.
ExtractExpired(S) == expired' = S /\ armed' = armed \ S

\* events.clear()
HangupKept ==   \* mutant: a hang-up reported first stays in the vector
    IF return_events # <<>> /\ return_events[1].event = "CLOSE"
      THEN <<return_events[1]>> ELSE <<>>
ClearedBatch == <<>>

RunTop ==
    /\ run_pc = "top"
    /\ \/ /\ \E S \in SUBSET armed : S # {} /\ ExtractExpired(S)
          /\ run_pc' = "timeouts"
          /\ UNCHANGED <<demuxer_vars, index>>
       \/ /\ WaitBegin(ClearedBatch)
          /\ index' = 1
          /\ run_pc' = "wait"
          /\ UNCHANGED timers
    /\ UNCHANGED <<table, stopping, callback, told, calls>>

HandleTimeout(c) ==
    /\ run_pc = "timeouts" /\ callback = NoCallback /\ c \in expired
    /\ expired' = expired \ {c}
    /\ Begin("handle_timeout", c)
    /\ UNCHANGED <<demuxer_vars, run_pc, index, table, armed, stopping, told, calls>>

TimeoutsDone ==
    /\ run_pc = "timeouts" /\ callback = NoCallback /\ expired = {}
    /\ run_pc' = "top"
    /\ UNCHANGED <<demuxer_vars, index, table, timers, stopping, callback, told, calls>>

InWait == run_pc = "wait" /\ WaitStep /\ UNCHANGED reactor_vars

\* epoll_wait may give up with nothing only for a timer or a signal.
WaitEmpty == run_pc = "wait" /\ WaitNothing /\ UNCHANGED reactor_vars

WaitReturned ==
    /\ run_pc = "wait" /\ wait_pc = "out"
    /\ \/ /\ return_events = <<>>
          /\ \E S \in SUBSET armed : ExtractExpired(S)
          /\ run_pc' = "timeouts"
       \/ /\ return_events # <<>>
          /\ run_pc' = "dispatch"
          /\ UNCHANGED timers
    /\ UNCHANGED <<demuxer_vars, index, table, stopping, callback, told, calls>>

-----------------------------------------------------------------------------
\* dispatch(): the next event e of the batch.  Each case also says what the
\* handlers' table, timers, queues, callback and history become.
Dispatching(names) ==
    /\ run_pc = "dispatch" /\ callback = NoCallback /\ index <= Len(return_events)
    /\ return_events[index].event \in names
    /\ index' = index + 1
    /\ UNCHANGED <<inside_wait, kernel, watched, return_events, run_pc, stop_, stop_raised,
                   io_handle_, removing, expired, calls>>

Registered(h) == h \in DOMAIN handlers_

\* timer_.remove_timeout(handler)
StillTimed(c) == armed   \* mutant: the timer of a removed handler stays
Untimed(c) == armed \ {c}

\* The guard that makes handle_close a single call per registration.
CloseCalled(c) == io_handle_[c] \in handle_close_call_

TableWithout(h) == Restrict(handlers_, DOMAIN handlers_ \ {h})

KeepClose(h) == handle_close_call_   \* mutant: the flag outlives the handler
ForgetClose(h) == handle_close_call_ \ {h}

\* What is raised before handle_output, so that EPOLLOUT reports only once.
RemoveAllAfterWrite(c) ==   \* mutant: all interest is dropped
    Event("REMOVE_ALL", io_handle_[c], Null, FALSE, c)
OneShotWrite(c) == Event("REMOVE_WRITE", io_handle_[c], Null, FALSE, c)

DispatchStop ==
    /\ Dispatching({"STOP"})
    /\ is_stop_event' = TRUE
    /\ UNCHANGED <<queues, table, armed, callback, stage, closed>>

\* The timer events name a handle; whoever is registered for it is meant.
DispatchTimer ==
    /\ Dispatching({"TIMEOUT_ADD", "TIMEOUT_DEL"})
    /\ LET e == return_events[index]
           who == IF Registered(e.io_handle) THEN {handlers_[e.io_handle]} ELSE {}
       IN armed' = IF e.event = "TIMEOUT_ADD" THEN armed \cup who ELSE armed \ who
    /\ UNCHANGED <<queues, table, callback, is_stop_event, stage, closed>>

\* An I/O event for a handle nobody is registered for drops the interest.
DispatchUnknown ==
    /\ Dispatching(IoEvents)
    /\ LET h == return_events[index].io_handle
       IN /\ ~Registered(h)
          /\ Raise(Loop, Event("REMOVE_ALL", h, Null, FALSE, Null))
    /\ UNCHANGED <<table, armed, callback, is_stop_event, stage, closed>>

DispatchIoTwice ==   \* mutant: REMOVE_WRITE is raised before and after handle_output
    /\ Dispatching({"READ", "WRITE", "ERROR"})
    /\ LET e == return_events[index]
           c == handlers_[e.io_handle]
       IN /\ Registered(e.io_handle)
          /\ \/ e.event = "READ" /\ Begin("handle_input", c) /\ UNCHANGED queues
             \/ /\ e.event = "WRITE" /\ Begin("handle_output", c)
                /\ wait_events_' = wait_events_ \o <<OneShotWrite(c), OneShotWrite(c)>>
                /\ UNCHANGED pipe
             \/ e.event = "ERROR" /\ Begin("handle_error", c) /\ UNCHANGED queues
    /\ UNCHANGED <<table, armed, is_stop_event, stage, closed>>
DispatchIo ==
    /\ Dispatching({"READ", "WRITE", "ERROR"})
    /\ LET e == return_events[index]
           c == handlers_[e.io_handle]
       IN /\ Registered(e.io_handle)
          /\ \/ e.event = "READ" /\ Begin("handle_input", c) /\ UNCHANGED queues
             \/ /\ e.event = "WRITE" /\ Begin("handle_output", c)
                /\ Raise(Loop, OneShotWrite(c))
             \/ e.event = "ERROR" /\ Begin("handle_error", c) /\ UNCHANGED queues
    /\ UNCHANGED <<table, armed, is_stop_event, stage, closed>>

DispatchClose ==
    /\ Dispatching({"CLOSE"})
    /\ LET h == return_events[index].io_handle
           c == handlers_[h]
       IN /\ Registered(h)
          /\ IF CloseCalled(c)
               THEN UNCHANGED <<handle_close_call_, callback, closed>>
               ELSE /\ handle_close_call_' = handle_close_call_ \cup {io_handle_[c]}
                    /\ Begin("handle_close", c)
                    /\ closed' = closed \cup {c}
    /\ UNCHANGED <<queues, handlers_, handler_count_, armed, is_stop_event, stage>>

\* emplace does not replace an entry; the counter grows all the same.
DispatchRegister ==
    /\ Dispatching({"REGISTER_READ"})
    /\ LET e == return_events[index]
       IN /\ handler_count_' = handler_count_ + 1
          /\ handlers_' = [h \in DOMAIN handlers_ \cup {e.io_handle} |->
                             IF Registered(h) THEN handlers_[h] ELSE e.data]
          /\ stage' = [stage EXCEPT ![e.data] = "registered"]
          /\ Begin("handle_registered", e.data)
    /\ UNCHANGED <<queues, handle_close_call_, armed, is_stop_event, closed>>

DispatchRemoveUnguarded ==   \* mutant: a second removal is not noticed
    /\ Dispatching({"REMOVE_ALL"})
    /\ LET e == return_events[index]
       IN /\ armed' = Untimed(e.data)
          /\ handlers_' = TableWithout(e.io_handle)
          /\ handle_close_call_' = ForgetClose(e.io_handle)
          /\ handler_count_' = handler_count_ - 1
          /\ stage' = [stage EXCEPT ![e.data] = "removed"]
          /\ Begin("handle_removed", e.data)
    /\ UNCHANGED <<queues, is_stop_event, closed>>

DispatchRemove ==
    /\ Dispatching({"REMOVE_ALL"})
    /\ LET e == return_events[index]
       IN IF ~Registered(e.io_handle)
            THEN UNCHANGED <<table, armed, callback, stage>>
            ELSE /\ armed' = Untimed(e.data)
                 /\ handlers_' = TableWithout(e.io_handle)
                 /\ handle_close_call_' = ForgetClose(e.io_handle)
                 /\ handler_count_' = handler_count_ - 1
                 /\ stage' = [stage EXCEPT ![e.data] = "removed"]
                 /\ Begin("handle_removed", e.data)
    /\ UNCHANGED <<queues, is_stop_event, closed>>

DispatchDone ==
    /\ run_pc = "dispatch" /\ callback = NoCallback /\ index > Len(return_events)
    /\ run_pc' = IF is_stop_event THEN "shutdown" ELSE "top"
    /\ UNCHANGED <<demuxer_vars, index, table, timers, stopping, callback, told, calls>>

\* run_shutdown: every handler of the table is told, in any order.
Shutdown(h) ==
    /\ run_pc = "shutdown" /\ callback = NoCallback
    /\ Registered(h) /\ stage[handlers_[h]] = "registered"
    /\ armed' = Untimed(handlers_[h])
    /\ stage' = [stage EXCEPT ![handlers_[h]] = "shutdown"]
    /\ Begin("handle_shutdown", handlers_[h])
    /\ UNCHANGED <<demuxer_vars, run_pc, index, table, expired,
                   stopping, io_handle_, closed, removing, calls>>

RunEnds ==
    /\ run_pc = "shutdown" /\ callback = NoCallback
    /\ \A h \in DOMAIN handlers_ : stage[handlers_[h]] # "registered"
    /\ stop_' = TRUE
    /\ run_pc' = "stopped"
    /\ UNCHANGED <<demuxer_vars, index, table, timers, is_stop_event, stop_raised, callback, told,
                   calls>>

-----------------------------------------------------------------------------
Dispatch ==
    \/ DispatchStop \/ DispatchTimer \/ DispatchUnknown \/ DispatchIo \/ DispatchClose
    \/ DispatchRegister \/ DispatchRemove \/ DispatchDone

\* A callback returns; whether it calls the Reactor first is the handler's affair.
ReactorThread ==
    \/ RunStart \/ RunTop \/ \E c \in Conns : HandleTimeout(c)
    \/ TimeoutsDone \/ InWait \/ WaitReturned
    \/ Dispatch \/ CallbackReturns
    \/ \E h \in Handles : Shutdown(h)
    \/ RunEnds

OtherThreads ==
    \/ \E c \in Conns, h \in Handles : AcceptorOpens(c, h)
    \/ \E t \in Threads, c \in Conns : register_event_handler(t, c) \/ RemoteCall(t, c)
    \/ (\E t \in Threads : stop(t)) \/ owner_stop_tests \/ owner_stop_queues
    \/ \E h \in Handles : PeerActs(h) /\ UNCHANGED reactor_vars

Next == ReactorThread \/ (\E c \in Conns : LocalCall(c)) \/ WaitEmpty \/ OtherThreads

\* The reactor thread is scheduled and callbacks return; an acceptor that has
\* a socket goes on to register it, and stop() returns once it is called.  Nobody else
\* has to do anything.
Spec ==
    /\ Init /\ [][Next]_vars
    /\ WF_vars(ReactorThread)
    /\ \A c \in Conns : WF_vars(\E t \in Threads : register_event_handler(t, c))
    /\ WF_vars(owner_stop_queues)
-----------------------------------------------------------------------------
\* Types of the state, with handler_count_ (a size_t) never below zero.
TypeOK ==
    /\ run_pc \in {"start", "top", "timeouts", "wait", "dispatch", "shutdown", "stopped"}
    /\ DOMAIN handlers_ \subseteq Handles
    /\ handlers_ \in [DOMAIN handlers_ -> Conns]
    /\ handler_count_ \in Nat
    /\ handle_close_call_ \subseteq Handles
    /\ armed \subseteq Conns /\ expired \subseteq Conns
    /\ is_stop_event \in BOOLEAN /\ stop_ \in BOOLEAN /\ stop_raised \in StopStates
    /\ io_handle_ \in [Conns -> Handles \cup {Null}]
    /\ stage \in [Conns -> Stages]
    /\ closed \subseteq Conns
    /\ calls \in Nat /\ index \in Nat \ {0}

\* The table is true: it maps a handle to the handler that was registered for
\* it, that has not been removed, and whose socket the handle still is, even
\* when the kernel reuses handle numbers; handler_count_ counts the entries.
TableIsTrue ==
    /\ handler_count_ = Cardinality(DOMAIN handlers_)
    /\ \A h \in DOMAIN handlers_ :
         /\ io_handle_[handlers_[h]] = h
         /\ open[h] = handlers_[h]
         /\ stage[handlers_[h]] \in {"registered", "shutdown"}

\* A timer never outlives its handler: what is armed, or extracted and about
\* to be called, is in the table.  ("User can delete in handle_removed.")
TimersOfLiveHandlers ==
    armed \cup expired \subseteq {handlers_[h] : h \in DOMAIN handlers_}

\* What table, counter, timers, epoll map and kernel hold of a connection belongs to
\* the same live connection.
StateIsTrue == TypeOK /\ MapMatchesKernel /\ TableIsTrue /\ TimersOfLiveHandlers

\* While the thread sleeps in epoll_wait, every registered handler is watched
\* for input, so that neither data nor a hang-up of the peer can be missed.
WatchedWhileAsleep ==
    wait_pc = "epoll" =>
      \A h \in DOMAIN handlers_ : h \in DOMAIN watched /\ "IN" \in watched[h]

\* Events of a batch reach the registration they are about: an event queued for
\* an earlier user of the handle number never reaches a later one.
EventsReachTheirOwner ==
    run_pc = "dispatch" =>
      \A i \in index .. Len(return_events) :
        LET e == return_events[i]
        IN e.event \in IoEvents /\ Registered(e.io_handle)
             => handlers_[e.io_handle] = e.sock

Starts(name) == callback' # callback /\ callback'.name = name

\* A handler is told in order: handle_registered first and once, then the
\* rest, and nothing after handle_removed, in which it may be deleted.
ToldInOrder ==
    [][callback' # callback /\ callback' # NoCallback =>
         stage[callback'.handler] =
           IF callback'.name = "handle_registered" THEN "raised" ELSE "registered"]_vars

\* handle_close comes at most once per registration, however often epoll
\* reports the hang-up and whoever used the handle before.
CloseOnce == [][Starts("handle_close") => callback'.handler \notin closed]_vars

\* Both, for every callback of a batch, in which others of the batch may have changed
\* the table.
CallbacksInOrder == ToldInOrder /\ CloseOnce

\* EPOLLOUT is switched off by flipping its bit; that never switches it on.
RemoveWriteClears ==
    [][process_ctrl_event /\ Head(ctl).event = "REMOVE_WRITE" =>
         LET h == Head(ctl).io_handle
         IN h \in DOMAIN interest' => "OUT" \notin interest'[h]]_vars

\* A registration that was accepted ends in handle_registered, or the reactor
\* was stopped.
RegistrationHappens ==
    \A c \in Conns : stage[c] = "raised" ~> stage[c] # "raised" \/ run_pc = "stopped"

\* "Called when the peer's connection is lost": a hang-up of a registered
\* connection is reported by handle_close.
HangupReported ==
    \A c \in Conns :
      stage[c] = "registered" /\ "hup" \in level[io_handle_[c]]
        ~> c \in closed \/ stage[c] # "registered"

\* stop() ends run(), whatever the thread is doing when it is called and whichever
\* thread calls it: also the one that made the Reactor, before or while run() begins.
\* The exception is a STOP that this thread queued after the loop's first wait() had
\* looked at wait_events_: that one is cleared unread, or seen at the next event only.
StopStops == stop_raised # "no" ~> run_pc = "stopped" \/ stop_raised = "late"

\* What other threads ask of a reactor that may be asleep for ever takes effect.
RequestsTakeEffect == RegistrationHappens /\ StopStops
=============================================================================

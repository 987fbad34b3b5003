--------------------------- MODULE SessionTimers ---------------------------
(***************************************************************************)
(* The keyed timers of a session (TCPSessionHandler, and SSLSessionHandler *)
(* with the same code) or of an HTTP client (Http1Client, Https1Client).   *)
(* Each keeps an ObjectsTimer of keys of its own and covers it by the one  *)
(* timeout a handler has in the reactor: a change asks the reactor for the *)
(* time of the earliest key (a client's unset_timeout asks nothing), and   *)
(* handle_timeout() calls the keys that are due and asks again.  All of it *)
(* runs on the reactor thread; a request takes effect when the event it    *)
(* raises is dispatched.  The reactor's timer is taken as TimerLoop shows  *)
(* it: one timeout per handler, called at its time in milliseconds.        *)
(***************************************************************************)
EXTENDS ObjectsTimer

CONSTANTS MaxRequests,  \* bound: set_timeout/unset_timeout calls of a session
          None          \* the handler has no timeout in the reactor

ASSUME SessionConstants ==
    /\ MaxRequests \in Nat
    /\ None \notin [event : {"TIMEOUT_ADD"}, msec : Nat, due : Nat]
    /\ None \notin [msec : Nat, due : Nat, time : Nat]

VARIABLES owner,     \* whose keys: a "session" or a "client"
          pc,        \* where the reactor thread is
          events,    \* TIMEOUT_ADD and TIMEOUT_DEL raised, not yet dispatched
          reactor,   \* the handler's timeout in the reactor's timer, or None
          requests   \* number of requests so far

vars == <<timer_vars, owner, pc, events, reactor, requests>>

Init ==
    /\ TimerInit /\ owner \in {"session", "client"}
    /\ pc = "loop" /\ events = <<>> /\ reactor = None /\ requests = 0

\* Reactor::set_timeout and unset_timeout; due is the time that is asked for.
TimeoutAdd(msec) == [event |-> "TIMEOUT_ADD", msec |-> msec,
                     due |-> clock + msec * TicksPerMs]
TimeoutDel == [event |-> "TIMEOUT_DEL"]

-----------------------------------------------------------------------------
\* set_timeout: the reactor is asked for the earliest of all keys.
AskOwnTime(msec) == <<TimeoutAdd(msec)>>   \* mutant: the new key's time instead
AskEarliest(msec) == <<TimeoutAdd(get_min_timeout_milliseconds')>>

set_timeout(msec, key) ==
    /\ RegisterTimeout(key, msec)
    /\ events' = events \o AskEarliest(msec)

\* unset_timeout of a session: the reactor's timeout goes with the last key; otherwise
\* it is moved to the earliest one left.  An unknown key changes nothing.
DelAlways == <<TimeoutDel>>   \* mutant: the remaining keys are forgotten
AskAfterUnset ==
    IF DOMAIN time_object_' = {} THEN <<TimeoutDel>>
    ELSE <<TimeoutAdd(get_min_timeout_milliseconds')>>

\* A client leaves the reactor's timeout as it is: it comes early, and asks again.
unset_timeout(key) ==
    \/ /\ key \in DOMAIN object_time_
       /\ RemoveTimeout(key)
       /\ events' = IF owner = "client" THEN events ELSE events \o AskAfterUnset
    \/ /\ key \notin DOMAIN object_time_
       /\ UNCHANGED <<timer_vars, events>>

SessionCall ==
    /\ requests < MaxRequests
    /\ requests' = requests + 1
    /\ \E key \in Objects : unset_timeout(key) \/ \E m \in Msecs : set_timeout(m, key)

\* The session uses its timers in a callback other than handle_timeout.
Callback == pc = "loop" /\ SessionCall /\ UNCHANGED <<pc, reactor>>

-----------------------------------------------------------------------------
\* Reactor::dispatch_reactor_event
Dispatch ==
    /\ pc = "loop" /\ events # <<>>
    /\ LET e == Head(events)
       IN reactor' = IF e.event = "TIMEOUT_DEL" THEN None
                     ELSE [msec |-> e.msec, due |-> e.due, time |-> DueTime(e.msec)]
    /\ events' = Tail(events)
    /\ UNCHANGED <<timer_vars, pc, requests>>

\* Reactor::run_timeout_handler
Fire ==
    /\ pc = "loop" /\ reactor # None
    /\ Expired(reactor.time)
    /\ reactor' = None
    /\ pc' = "top"
    /\ UNCHANGED <<timer_vars, events, requests>>

\* handle_timeout(): while a key is due, extract, then call the keys;
\* at the end the earliest key left is asked for.
AskAgain(min) == IF min < 0 THEN <<>> ELSE <<TimeoutAdd(min)>>

HandleTop ==
    /\ pc = "top"
    /\ LET min == get_min_timeout_milliseconds
       IN \/ min = 0 /\ ExtractBegin /\ pc' = "sweep" /\ UNCHANGED events
          \/ /\ min # 0
             /\ events' = events \o AskAgain(min)
             /\ pc' = "loop"
             /\ UNCHANGED timer_vars
    /\ UNCHANGED <<reactor, requests>>

HandleSweep ==
    /\ pc = "sweep"
    /\ \/ ExtractBucket /\ UNCHANGED pc
       \/ ExtractEnd /\ pc' = "keys"
    /\ UNCHANGED <<events, reactor, requests>>

\* handle_timeout(key), in which the session may use its timers again.
HandleKey(key) ==
    /\ pc \in {"keys", "called"} /\ timeout_objects # <<>> /\ key \in Head(timeout_objects)
    /\ timeout_objects' = IF Head(timeout_objects) = {key} THEN Tail(timeout_objects)
                          ELSE [timeout_objects EXCEPT ![1] = @ \ {key}]
    /\ pc' = "called"
    /\ UNCHANGED <<clock, time_object_, object_time_, sweeping, events, reactor, requests>>

KeyCallback == pc = "called" /\ SessionCall /\ UNCHANGED <<pc, reactor>>

KeysDone ==
    /\ pc \in {"keys", "called"} /\ timeout_objects = <<>>
    /\ pc' = "top"
    /\ UNCHANGED <<timer_vars, events, reactor, requests>>

-----------------------------------------------------------------------------
\* Past MaxClock time moves on only as far as a timeout still needs.
Time ==
    /\ \/ clock < MaxClock
       \/ \E key \in DOMAIN object_time_ : clock < object_time_[key]
       \/ reactor # None /\ clock < reactor.time
    /\ Advance
    /\ UNCHANGED <<pc, events, reactor, requests>>

ReactorThread ==
    \/ Dispatch \/ Fire
    \/ HandleTop \/ HandleSweep \/ (\E key \in Objects : HandleKey(key)) \/ KeysDone

Next == (ReactorThread \/ Callback \/ KeyCallback \/ Time) /\ UNCHANGED owner

\* The reactor thread goes on and time passes; the session need not call.
Spec == Init /\ [][Next]_vars /\ WF_vars(ReactorThread /\ UNCHANGED owner) /\ WF_vars(Time /\ UNCHANGED owner)

-----------------------------------------------------------------------------
\* While a session has a key, the last word the reactor had or will have from
\* it is a timeout at once or no later than the earliest key: neither a removal
\* nor a later timeout, in whatever order keys are set, moved, unset and fired.
Covered ==
    pc = "loop" /\ DOMAIN object_time_ # {} =>
      LET last == IF events = <<>> THEN reactor ELSE events[Len(events)]
      IN last # None /\ last # TimeoutDel /\ (last.msec = 0 \/ last.due <= First)

\* Every key set is called or unset: a session with several keys behind the
\* one reactor timeout loses none of them.
KeysFire == \A key \in Objects : key \in DOMAIN object_time_ ~> key \notin DOMAIN object_time_
=============================================================================

------------------------------ MODULE TimerLoop ------------------------------
(***************************************************************************)
(* The timer side of Reactor::run (reactor/Reactor.cpp): the loop that     *)
(* computes the epoll_wait timeout from the timer, sleeps, runs the        *)
(* expired handlers and applies EVENT_TIMEOUT_ADD / EVENT_TIMEOUT_DEL,     *)
(* with real time.  The objects of the timer are registered handlers;      *)
(* sockets, registration and removal are in module Reactor.                *)
(***************************************************************************)
EXTENDS ObjectsTimer

CONSTANT MaxRequests   \* bound: set_timeout/unset_timeout calls in a run

ASSUME LoopConstants == MaxRequests \in Nat

VARIABLES pc,            \* where the reactor thread is in run()
          timeout,       \* the local of run(): milliseconds, -1 = for ever
          asked,         \* when that local was computed
          sleep_until,   \* when the epoll_wait of this turn times out
          wait_events_,  \* requests made on the reactor thread
          pipe,          \* requests made on other threads
          events,        \* the batch being dispatched
          requests,      \* number of requests so far
          promised,      \* object -> when its last request asked to be called
          owed           \* object -> handle_timeout calls its last request is owed

queues == <<wait_events_, pipe, events, requests>>
history == <<promised, owed>>
locals == <<timeout, asked, sleep_until>>
vars == <<timer_vars, pc, locals, queues, history>>

\* The events raised by set_timeout(o, msec) and unset_timeout(o); due is when
\* the caller asked to be called.
SetTimeout(o, msec) == [event |-> "TIMEOUT_ADD", object |-> o, msec |-> msec,
                        due |-> clock + msec * TicksPerMs]
UnsetTimeout(o) == [event |-> "TIMEOUT_DEL", object |-> o]

Requests(o) == {SetTimeout(o, m) : m \in Msecs} \cup {UnsetTimeout(o)}

\* The locals of a turn are dead once wait() has returned.
TurnOver == timeout' = 0 /\ asked' = 0 /\ sleep_until' = 0

-----------------------------------------------------------------------------
Init ==
    /\ TimerInit
    /\ pc = "top" /\ timeout = 0 /\ asked = 0 /\ sleep_until = 0
    /\ wait_events_ = <<>> /\ pipe = <<>> /\ events = <<>> /\ requests = 0
    /\ promised = [o \in Objects |-> 0]
    /\ owed = [o \in Objects |-> 0]

\* run: while ((timeout = get_min()) == 0) run_timeout_handler();
RunTop ==
    /\ pc = "top"
    /\ \/ /\ get_min_timeout_milliseconds = 0
          /\ ExtractBegin
          /\ pc' = "sweep"
          /\ UNCHANGED <<timeout, asked>>
       \/ /\ get_min_timeout_milliseconds # 0
          /\ timeout' = get_min_timeout_milliseconds
          /\ asked' = clock
          /\ pc' = "enter"
          /\ UNCHANGED timer_vars
    /\ UNCHANGED <<sleep_until, queues, history>>

\* wait: requests queued on this thread are returned without sleeping.
WaitEnter ==
    /\ pc = "enter"
    /\ \/ /\ wait_events_ # <<>>
          /\ events' = wait_events_
          /\ wait_events_' = <<>>
          /\ pc' = "dispatch"
          /\ TurnOver
       \/ /\ wait_events_ = <<>>
          /\ sleep_until' = clock + timeout * TicksPerMs
          /\ pc' = "wait"
          /\ UNCHANGED <<events, wait_events_, timeout, asked>>
    /\ UNCHANGED <<timer_vars, pipe, requests, history>>

WaitRead ==
    /\ pc = "wait" /\ pipe # <<>>
    /\ events' = pipe
    /\ pipe' = <<>>
    /\ pc' = "dispatch"
    /\ TurnOver
    /\ UNCHANGED <<timer_vars, wait_events_, requests, history>>

\* epoll_wait returns nothing, because the time is over or a signal came (-1).
WaitNothing ==
    /\ pc = "wait" /\ pipe = <<>>
    /\ ExtractBegin
    /\ pc' = "sweep"
    /\ TurnOver
    /\ UNCHANGED <<queues, history>>

WaitTimedOut == timeout >= 0 /\ clock >= sleep_until /\ WaitNothing

\* run_timeout_handler: extract, then call handle_timeout on each object.
Sweep ==
    /\ pc = "sweep"
    /\ \/ ExtractBucket /\ UNCHANGED pc
       \/ ExtractEnd /\ pc' = "handlers"
    /\ UNCHANGED <<locals, queues, history>>

\* A handler may ask for its next timeout, or withdraw one, from inside.
HandleTimeout(o) ==
    /\ pc = "handlers" /\ timeout_objects # <<>> /\ o \in Head(timeout_objects)
    /\ timeout_objects' = IF Head(timeout_objects) = {o} THEN Tail(timeout_objects)
                          ELSE [timeout_objects EXCEPT ![1] = @ \ {o}]
    /\ owed' = [owed EXCEPT ![o] = @ - 1]
    /\ promised' = [promised EXCEPT ![o] = 0]
    /\ \/ UNCHANGED <<wait_events_, requests>>
       \/ /\ requests < MaxRequests
          /\ requests' = requests + 1
          /\ \E r \in Requests(o) : wait_events_' = Append(wait_events_, r)
    /\ UNCHANGED <<clock, time_object_, object_time_, sweeping, pc, locals, pipe,
                   events>>

HandlersDone ==
    /\ pc = "handlers" /\ timeout_objects = <<>>
    /\ pc' = "top"
    /\ UNCHANGED <<timer_vars, locals, queues, history>>

\* dispatch_reactor_event, on the next event of the batch.
Dispatch ==
    /\ pc = "dispatch" /\ events # <<>>
    /\ LET e == Head(events)
       IN \/ /\ e.event = "TIMEOUT_ADD"
             /\ RegisterTimeout(e.object, e.msec)
             /\ promised' = [promised EXCEPT ![e.object] = e.due]
             /\ owed' = [owed EXCEPT ![e.object] = 1]
          \/ /\ e.event = "TIMEOUT_DEL"
             /\ RemoveTimeout(e.object)
             /\ promised' = [promised EXCEPT ![e.object] = 0]
             /\ owed' = [owed EXCEPT ![e.object] = 0]
    /\ events' = Tail(events)
    /\ UNCHANGED <<pc, locals, wait_events_, pipe, requests>>

DispatchDone ==
    /\ pc = "dispatch" /\ events = <<>>
    /\ pc' = "top"
    /\ UNCHANGED <<timer_vars, locals, queues, history>>

\* Another thread calls set_timeout or unset_timeout.
OtherThread ==
    /\ requests < MaxRequests
    /\ requests' = requests + 1
    /\ \E o \in Objects : \E r \in Requests(o) : pipe' = Append(pipe, r)
    /\ UNCHANGED <<timer_vars, pc, locals, wait_events_, events,
                   history>>

\* Past MaxClock time moves on only as far as a timer or a sleep still needs.
Time ==
    /\ \/ clock < MaxClock
       \/ \E o \in DOMAIN object_time_ : clock < object_time_[o]
       \/ pc = "wait" /\ DOMAIN object_time_ # {} /\ clock < sleep_until
    /\ Advance
    /\ UNCHANGED <<pc, locals, queues, history>>

LoopThread ==
    \/ RunTop \/ WaitEnter \/ WaitRead \/ WaitTimedOut \/ Sweep
    \/ \E o \in Objects : HandleTimeout(o)
    \/ HandlersDone \/ Dispatch \/ DispatchDone

Next == LoopThread \/ WaitNothing \/ OtherThread \/ Time

\* The reactor thread is scheduled and time passes; nobody has to make a call,
\* and no signal has to arrive.
Spec == Init /\ [][Next]_vars /\ WF_vars(LoopThread) /\ WF_vars(Time)

-----------------------------------------------------------------------------
\* The inner loop of run() turns only while it has a handler to call: when
\* get_min() says 0, the sweep finds an expired bucket.
NoSpin ==
    pc = "top" /\ get_min_timeout_milliseconds = 0
        => \E t \in DOMAIN time_object_ : IsFirst(t) /\ Expired(t)

\* The timeout handed to epoll_wait never reaches past the earliest deadline,
\* and is never "for ever" while a timer is armed.
NoOversleep ==
    pc \in {"enter", "wait"} /\ DOMAIN time_object_ # {}
        => timeout > 0 /\ timeout * TicksPerMs <= First - asked

\* What get_min() answers fits the sweep and the sleep: it neither spins the loop nor
\* lets it sleep past a deadline.
WakesInTime == NoSpin /\ NoOversleep

\* set_timeout is one-time and the last request counts: an object waits in the
\* timer or in the list of a sweep exactly while its last dispatched request is
\* owed its one handle_timeout, whatever was re-armed or removed in between.
OneTime ==
    \A o \in Objects :
      LET outstanding == \/ o \in DOMAIN object_time_
                         \/ \E i \in DOMAIN timeout_objects : o \in timeout_objects[i]
      IN owed[o] = IF outstanding THEN 1 ELSE 0

\* handle_timeout is never called a whole millisecond or more before the time
\* its last dispatched request asked for.
LessThanOneMsEarly ==
    [][\A o \in Objects : HandleTimeout(o) => promised[o] - clock < TicksPerMs]_vars

\* An armed timer does not stay armed for ever: it fires, or is removed.
TimersFire == \A o \in Objects : o \in DOMAIN object_time_ ~> o \notin DOMAIN object_time_
=============================================================================

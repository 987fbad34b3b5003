--------------------------- MODULE DemuxerThreads ---------------------------
(***************************************************************************)
(* IoHandleDemuxer under several threads: each raises its events while     *)
(* Loop calls wait() again and again, as Reactor::run does.  raise_event   *)
(* first compares its thread id with wait_thread_id_ and then queues or    *)
(* writes: two steps, since the comparison is not under a lock.            *)
(***************************************************************************)
EXTENDS IoHandleDemuxer

CONSTANTS Raisers,    \* threads that raise; Loop does from its callbacks
          Kinds,      \* the events raised
          MaxRaised,  \* bound: events raised by a thread
          EarlyOwner  \* Owner raises events before wait() is first entered

ASSUME ThreadsConstants ==
    Raisers \subseteq Threads \cup {Loop} /\ MaxRaised \in Nat /\ EarlyOwner \in BOOLEAN

VARIABLES raising,    \* thread -> the event it is raising and the way it chose
          raised,     \* thread -> number of events raised
          returned    \* thread -> serials of its events that wait() returned

vars == <<demuxer_vars, raising, raised, returned>>

\* The connection of an event carries the thread and its serial number.
Numbered(kind, h, t) == Event(kind, h, Null, TRUE, <<t, raised[t] + 1>>)

Init ==
    /\ DemuxerInit
    /\ raising = [t \in Raisers |-> Null]
    /\ raised = [t \in Raisers |-> 0]
    /\ returned = [t \in Raisers |-> <<>>]

SocketOpens(h) ==
    /\ \E c \in Conns : KernelOpen(h, c)
    /\ UNCHANGED <<wait_thread_id_, queues, interest, watched, wait_pc, ctl, scan,
                   return_events, raising, raised, returned>>

RaiseBegin(t) ==
    /\ raising[t] = Null /\ raised[t] < MaxRaised
    /\ t = Loop => wait_pc = "out" /\ wait_thread_id_ = Loop
    /\ EarlyOwner \/ t # Owner \/ wait_thread_id_ = Loop
    /\ \E kind \in Kinds, h \in Handles :
         raising' = [raising EXCEPT ![t] = [local |-> t = wait_thread_id_,
                                            event |-> Numbered(kind, h, t)]]
    /\ raised' = [raised EXCEPT ![t] = @ + 1]
    /\ UNCHANGED <<demuxer_vars, returned>>

RaiseEnd(t) ==
    /\ raising[t] # Null
    /\ IF raising[t].local
         THEN wait_events_' = Append(wait_events_, raising[t].event) /\ UNCHANGED pipe
         ELSE pipe' = Append(pipe, raising[t].event) /\ UNCHANGED wait_events_
    /\ raising' = [raising EXCEPT ![t] = Null]
    /\ UNCHANGED <<wait_thread_id_, interest, watched, kernel, wait_pc, ctl, scan,
                   return_events, raised, returned>>

\* The caller takes the next returned event.
Take ==
    /\ wait_pc = "out" /\ return_events # <<>>
    /\ LET e == Head(return_events)
       IN returned' = IF e.event \in IoEvents THEN returned
                      ELSE [returned EXCEPT ![e.sock[1]] = Append(@, e.sock[2])]
    /\ return_events' = Tail(return_events)
    /\ UNCHANGED <<wait_thread_id_, queues, interest, watched, kernel, wait_pc, ctl,
                   scan, raising, raised>>

\* Inside raise_event the wait thread does nothing else.
LoopThread ==
    /\ Loop \in Raisers => raising[Loop] = Null
    /\ \/ Take
       \/ return_events = <<>> /\ WaitBegin(<<>>) /\ UNCHANGED <<raising, raised, returned>>
       \/ WaitStep /\ UNCHANGED <<raising, raised, returned>>

Next ==
    \/ \E t \in Raisers : RaiseBegin(t) \/ RaiseEnd(t)
    \/ \E h \in Handles : SocketOpens(h)
    \/ \E h \in Handles : PeerActs(h) /\ UNCHANGED <<raising, raised, returned>>
    \/ LoopThread
    \/ WaitNothing /\ UNCHANGED <<raising, raised, returned>>

\* The wait thread and a thread inside raise_event are scheduled.
Spec ==
    /\ Init /\ [][Next]_vars
    /\ WF_vars(LoopThread)
    /\ \A t \in Raisers : WF_vars(RaiseEnd(t))

-----------------------------------------------------------------------------
\* wait() returns the events of one thread in the order it raised them, none
\* twice, whether they were queued or went through the pipe.
InOrder ==
    \A t \in Raisers : \A i, j \in DOMAIN returned[t] :
        i < j => returned[t][i] < returned[t][j]

\* Every event raised is returned by some wait(): none is overwritten, cleared
\* unread, or left in a queue while the wait thread sleeps.
EveryEventReturned ==
    \A t \in Raisers : \A n \in 1 .. MaxRaised :
        raised[t] >= n ~> \E i \in DOMAIN returned[t] : returned[t][i] = n
=============================================================================

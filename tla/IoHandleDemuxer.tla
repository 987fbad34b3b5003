-------------------------- MODULE IoHandleDemuxer --------------------------
(***************************************************************************)
(* reactor/IoHandleDemuxer.h: the epoll wrapper of a Reactor.  Requests to *)
(* change the interest in a handle, and user events, are raised by any     *)
(* thread: the thread that calls wait() queues them in wait_events_, every *)
(* other thread writes them to a pipe that epoll watches too.  wait()      *)
(* applies them and returns them with the I/O events in one batch.         *)
(* The kernel (sockets and the epoll set) is external.                     *)
(***************************************************************************)
EXTENDS Integers, Sequences, Functions

CONSTANTS Handles,   \* io_handle_t values of sockets
          Conns,     \* what opened a handle and is registered: event handlers
          Threads,   \* threads that raise events and never call wait()
          Loop,      \* the thread that calls wait()
          Owner,     \* the thread that constructed the demuxer
          Null,      \* no user data, a handle nobody has open
          PipeRead   \* bound: events one read() takes from the pipe

ASSUME DemuxerConstants ==
    /\ Loop \notin Threads \cup {Owner}
    /\ Null \notin Conns
    /\ "pipe" \notin Handles   \* its read end is no socket
    /\ PipeRead \in Nat \ {0}

VARIABLES
    wait_thread_id_,  \* thread whose events need no pipe
    wait_events_,     \* events raised by that thread
    pipe,             \* events in the control pipe
    interest,         \* epoll_events_by_io_handle_: handle -> IN/OUT/ERR bits
    watched,          \* the kernel's epoll set: handle -> bits
    open,             \* handle -> connection whose socket it is, or Null
    level,            \* handle -> what the socket is ready for
    wait_pc,          \* where the wait thread is in wait()
    ctl,              \* control events of this round still to be applied
    scan,             \* the epoll_wait result still to be looked at
    return_events     \* the batch wait() will return

kernel == <<open, level>>
queues == <<wait_events_, pipe>>
demuxer_vars == <<wait_thread_id_, queues, interest, watched, kernel, wait_pc,
                  ctl, scan, return_events>>

IoEvents == {"READ", "WRITE", "ERROR", "CLOSE"}
Bits == {"IN", "OUT", "ERR"}     \* EPOLLHUP and EPOLLRDHUP are always set
Levels == {"in", "out", "err", "hup"}
PIPE == "pipe"                   \* the read end among the scanned handles

\* An event; sock, which the code does not have, is the connection it is about.
Event(event, h, data, return, sock) ==
    [event |-> event, io_handle |-> h, data |-> data, return |-> return, sock |-> sock]

-----------------------------------------------------------------------------
\* raise_event on thread t.
RaiseWithoutPipe(t, e) ==   \* mutant: nothing wakes epoll_wait
    wait_events_' = Append(wait_events_, e) /\ UNCHANGED pipe
Raise(t, e) ==
    IF t # wait_thread_id_
      THEN pipe' = Append(pipe, e) /\ UNCHANGED wait_events_
      ELSE wait_events_' = Append(wait_events_, e) /\ UNCHANGED pipe

\* add_epoll_event: EPOLL_CTL_MOD on a known handle, EPOLL_CTL_ADD on a new
\* one; a failing epoll_ctl leaves the map as it was.  EVENT_REGISTER_ALL adds
\* three bits one after the other, hence the set.
add_epoll_event(bits, h) ==
    \/ /\ h \in DOMAIN interest
       /\ ~(bits \subseteq interest[h])
       /\ h \in DOMAIN watched
       /\ interest' = [interest EXCEPT ![h] = @ \cup bits]
       /\ watched' = [watched EXCEPT ![h] = interest[h] \cup bits]
    \/ /\ h \notin DOMAIN interest
       /\ open[h] # Null /\ h \notin DOMAIN watched
       /\ interest' = [k \in DOMAIN interest \cup {h} |->
                         IF k = h THEN bits ELSE interest[k]]
       /\ watched' = [k \in DOMAIN watched \cup {h} |->
                        IF k = h THEN bits ELSE watched[k]]
    \/ /\ \/ h \in DOMAIN interest /\ (bits \subseteq interest[h] \/ h \notin DOMAIN watched)
          \/ h \notin DOMAIN interest /\ (open[h] = Null \/ h \in DOMAIN watched)
       /\ UNCHANGED <<interest, watched>>

ForgetMapOnly(h) ==   \* mutant: no EPOLL_CTL_DEL
    interest' = Restrict(interest, DOMAIN interest \ {h}) /\ UNCHANGED watched
Forget(h) ==
    /\ interest' = Restrict(interest, DOMAIN interest \ {h})
    /\ watched' = Restrict(watched, DOMAIN watched \ {h})

\* del_epoll_event: the bit is flipped, not cleared (events ^= epoll_event).
Flip(bits, bit) == (bits \cup {bit}) \ (bits \cap {bit})

del_epoll_event(bit, h) ==
    \/ h \notin DOMAIN interest /\ UNCHANGED <<interest, watched>>
    \/ h \in DOMAIN interest /\ Flip(interest[h], bit) = {} /\ Forget(h)
    \/ /\ h \in DOMAIN interest /\ Flip(interest[h], bit) # {}
       /\ interest' = [interest EXCEPT ![h] = Flip(@, bit)]
       /\ watched' = IF h \in DOMAIN watched
                     THEN [watched EXCEPT ![h] = Flip(interest[h], bit)] ELSE watched

del_epoll_events(h) ==
    \/ h \notin DOMAIN interest /\ UNCHANGED <<interest, watched>>
    \/ h \in DOMAIN interest /\ Forget(h)

-----------------------------------------------------------------------------
\* process_ctrl_event, on the next control event of this round.
process_ctrl_event ==
    /\ wait_pc \in {"drain", "pipe"} /\ ctl # <<>>
    /\ LET e == Head(ctl)
           add(bits) == add_epoll_event(bits, e.io_handle)
           del(bit) == del_epoll_event(bit, e.io_handle)
       IN /\ CASE e.event = "REGISTER_ALL"   -> add(Bits)
               [] e.event = "REGISTER_READ"  -> add({"IN"})
               [] e.event = "REGISTER_WRITE" -> add({"OUT"})
               [] e.event = "REGISTER_ERROR" -> add({"ERR"})
               [] e.event = "REMOVE_READ"    -> del("IN")
               [] e.event = "REMOVE_WRITE"   -> del("OUT")
               [] e.event = "REMOVE_ERROR"   -> del("ERR")
               [] e.event = "REMOVE_ALL"     -> del_epoll_events(e.io_handle)
               [] OTHER                      -> UNCHANGED <<interest, watched>>
          /\ return_events' = IF e.return THEN Append(return_events, e)
                              ELSE return_events
    /\ ctl' = Tail(ctl)
    /\ UNCHANGED <<wait_thread_id_, queues, kernel, wait_pc, scan>>

\* wait(batch): the events are added to the vector the caller passes.
WaitBegin(batch) ==
    /\ wait_pc = "out"
    /\ wait_thread_id_' = Loop
    /\ ctl' = wait_events_
    /\ wait_pc' = "drain"
    /\ return_events' = batch
    /\ UNCHANGED <<queues, interest, watched, kernel, scan>>

DrainedNotCleared ==   \* mutant: wait_events_.clear() is missing
    /\ wait_pc = "drain" /\ ctl = <<>>
    /\ wait_pc' = IF wait_events_ # <<>> /\ return_events # <<>> THEN "out" ELSE "epoll"
    /\ UNCHANGED <<wait_thread_id_, queues, interest, watched, kernel, ctl, scan,
                   return_events>>
\* wait_events_.clear(); return at once when there is something to return.
WaitDrained ==
    /\ wait_pc = "drain" /\ ctl = <<>>
    /\ wait_events_' = <<>>
    /\ wait_pc' = IF wait_events_ # <<>> /\ return_events # <<>> THEN "out" ELSE "epoll"
    /\ UNCHANGED <<wait_thread_id_, pipe, interest, watched, kernel, ctl, scan,
                   return_events>>

\* What epoll reports: bits asked for, error and hang-up in any case.
Ready(h) ==
    {l \in level[h] : \/ l = "in" /\ "IN" \in watched[h]
                      \/ l = "out" /\ "OUT" \in watched[h]
                      \/ l \in {"err", "hup"}}

ReadyHandles == {h \in DOMAIN watched : Ready(h) # {}}

epoll_wait ==
    /\ wait_pc = "epoll"
    /\ ReadyHandles # {} \/ pipe # <<>>
    /\ scan' = [h \in ReadyHandles \cup (IF pipe # <<>> THEN {PIPE} ELSE {}) |->
                  IF h = PIPE THEN {} ELSE Ready(h)]
    /\ wait_pc' = "scan"
    /\ UNCHANGED <<wait_thread_id_, queues, interest, watched, kernel, ctl,
                   return_events>>

\* epoll_wait ends without an event: the timeout, or -1 with EINTR.
WaitNothing ==
    /\ wait_pc = "epoll"
    /\ ReadyHandles = {} /\ pipe = <<>>
    /\ wait_pc' = "out"
    /\ UNCHANGED <<wait_thread_id_, queues, interest, watched, kernel, ctl, scan,
                   return_events>>

\* What one read() takes, and what it leaves.
ReadAllTakeSome == SubSeq(pipe, Len(pipe) + 1, Len(pipe))   \* mutant: the rest is lost
LeftInPipe == SubSeq(pipe, PipeRead + 1, Len(pipe))

\* The read end of the pipe is next in the result: one read().
ScanPipe ==
    /\ wait_pc = "scan" /\ PIPE \in DOMAIN scan
    /\ LET n == IF Len(pipe) < PipeRead THEN Len(pipe) ELSE PipeRead
       IN ctl' = SubSeq(pipe, 1, n)
    /\ pipe' = LeftInPipe
    /\ scan' = Restrict(scan, DOMAIN scan \ {PIPE})
    /\ wait_pc' = "pipe"
    /\ UNCHANGED <<wait_thread_id_, wait_events_, interest, watched, kernel,
                   return_events>>

PipeDone ==
    /\ wait_pc = "pipe" /\ ctl = <<>>
    /\ wait_pc' = "scan"
    /\ UNCHANGED <<wait_thread_id_, queues, interest, watched, kernel, ctl, scan,
                   return_events>>

\* A socket is next: up to four events, in this order.  READ needs a byte.
ScanHandle(h) ==
    /\ wait_pc = "scan" /\ h \in DOMAIN scan
    /\ LET is(l) == l \in scan[h]
           report(cond, event) ==
             IF cond THEN <<Event(event, h, Null, TRUE, open[h])>> ELSE <<>>
       IN return_events' = return_events
            \o report(is("in") /\ "in" \in level[h], "READ")
            \o report(is("out") /\ ~is("err"), "WRITE")
            \o report(is("err"), "ERROR")
            \o report(is("hup"), "CLOSE")
    /\ scan' = Restrict(scan, DOMAIN scan \ {h})
    /\ UNCHANGED <<wait_thread_id_, queues, interest, watched, kernel, wait_pc, ctl>>

ScanDone ==
    /\ wait_pc = "scan" /\ DOMAIN scan = {}
    /\ wait_pc' = "out"
    /\ UNCHANGED <<wait_thread_id_, queues, interest, watched, kernel, ctl, scan,
                   return_events>>

WaitStep ==
    \/ process_ctrl_event \/ WaitDrained
    \/ epoll_wait \/ ScanPipe \/ PipeDone
    \/ \E h \in Handles : ScanHandle(h)
    \/ ScanDone

DemuxerInit ==
    /\ wait_thread_id_ = Owner
    /\ wait_events_ = <<>> /\ pipe = <<>>
    /\ interest = [h \in {} |-> {}]
    /\ watched = [h \in {} |-> {}]
    /\ open = [h \in Handles |-> Null]
    /\ level = [h \in Handles |-> {}]
    /\ wait_pc = "out"
    /\ ctl = <<>>
    /\ scan = [h \in {} |-> {}]
    /\ return_events = <<>>

-----------------------------------------------------------------------------
\* The kernel's side (external).
KernelOpen(h, c) ==
    /\ open[h] = Null
    /\ open' = [open EXCEPT ![h] = c]
    /\ level' = [level EXCEPT ![h] = {"out"}]

\* The last close() of a socket also takes it out of the epoll set.
KernelClose(h) ==
    /\ open' = [open EXCEPT ![h] = Null]
    /\ level' = [level EXCEPT ![h] = {}]
    /\ watched' = Restrict(watched, DOMAIN watched \ {h})

\* The peer sends, hangs up (it sends no more then) or resets.
PeerActs(h) ==
    /\ open[h] # Null
    /\ \E new \in {{"in"}, {"hup"}, {"err", "hup"}} :
         /\ ~(new \subseteq level[h])
         /\ new = {"in"} => "hup" \notin level[h]
         /\ level' = [level EXCEPT ![h] = @ \cup new]
    /\ UNCHANGED <<wait_thread_id_, queues, interest, watched, open, wait_pc, ctl,
                   scan, return_events>>

-----------------------------------------------------------------------------
\* The user-space map and the kernel's epoll set agree, whatever the order of
\* additions, removals, socket activity and closes: what add_epoll_event and
\* del_epoll_event believe watched is watched, with the same bits.
MapMatchesKernel == interest = watched
=============================================================================

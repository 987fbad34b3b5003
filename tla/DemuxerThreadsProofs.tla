------------------------ MODULE DemuxerThreadsProofs ------------------------
(***************************************************************************)
(* Proofs about the demuxer under any number of threads, handles and       *)
(* events: its map is the kernel's epoll set, and wait() returns the       *)
(* events of each thread in the order they were raised.                    *)
(***************************************************************************)
EXTENDS DemuxerThreads, SequenceTheorems, TLAPS

-----------------------------------------------------------------------------
\* add_epoll_event keeps the map and the epoll set in step.
LEMMA AddInStep ==
    ASSUME NEW bits, NEW h, interest = watched, add_epoll_event(bits, h)
    PROVE  interest' = watched'
  BY DEF add_epoll_event

\* del_epoll_event does, whether the handle keeps a bit or is forgotten.
LEMMA DelInStep ==
    ASSUME NEW bit, NEW h, interest = watched, del_epoll_event(bit, h)
    PROVE  interest' = watched'
  <1>1. CASE h \in DOMAIN interest /\ Flip(interest[h], bit) = {} /\ Forget(h)
    BY <1>1 DEF Forget
  <1>2. CASE ~(h \in DOMAIN interest /\ Flip(interest[h], bit) = {} /\ Forget(h))
    BY <1>2 DEF del_epoll_event
  <1>3. QED
    BY <1>1, <1>2

\* So does every control event.
LEMMA CtrlInStep ==
    ASSUME interest = watched, process_ctrl_event
    PROVE  interest' = watched'
  <1> DEFINE e == Head(ctl)
  <1>1. CASE \E bits : add_epoll_event(bits, e.io_handle)
    BY <1>1, AddInStep
  <1>2. CASE \E bit : del_epoll_event(bit, e.io_handle)
    BY <1>2, DelInStep
  <1>3. CASE del_epoll_events(e.io_handle)
    BY <1>3 DEF del_epoll_events, Forget
  <1>4. CASE UNCHANGED <<interest, watched>>
    BY <1>4
  <1>5. \/ \E bits : add_epoll_event(bits, e.io_handle)
        \/ \E bit : del_epoll_event(bit, e.io_handle)
        \/ del_epoll_events(e.io_handle)
        \/ UNCHANGED <<interest, watched>>
    BY DEF process_ctrl_event
  <1>6. QED
    BY <1>1, <1>2, <1>3, <1>4, <1>5

\* The demuxer's map is the kernel's epoll set after any sequence of registrations
\* and removals, raised by any threads (IoHandleDemuxer.h add_epoll_event,
\* del_epoll_event): no handle is thought watched that is not, with no other bits.
THEOREM MapInStep == Spec => []MapMatchesKernel
  <1>1. Init => MapMatchesKernel
    BY DEF Init, DemuxerInit, MapMatchesKernel
  <1>2. MapMatchesKernel /\ [Next]_vars => MapMatchesKernel'
    <2> SUFFICES ASSUME MapMatchesKernel, [Next]_vars
                 PROVE  MapMatchesKernel'
      OBVIOUS
    <2>1. CASE process_ctrl_event
      BY <2>1, CtrlInStep DEF MapMatchesKernel
    <2>2. CASE UNCHANGED <<interest, watched>>
      BY <2>2 DEF MapMatchesKernel
    <2>3. CASE \E t \in Raisers : RaiseBegin(t) \/ RaiseEnd(t)
      BY <2>2, <2>3 DEF RaiseBegin, RaiseEnd, demuxer_vars
    <2>4. CASE \E h \in Handles : SocketOpens(h) \/ PeerActs(h)
      BY <2>2, <2>4 DEF SocketOpens, PeerActs
    <2>5. CASE Take \/ WaitBegin(<<>>) \/ WaitNothing
      BY <2>2, <2>5 DEF Take, WaitBegin, WaitNothing
    <2>6. CASE WaitDrained \/ epoll_wait \/ ScanPipe \/ PipeDone \/ ScanDone
      BY <2>2, <2>6 DEF WaitDrained, epoll_wait, ScanPipe, PipeDone, ScanDone
    <2>7. CASE \E h \in Handles : ScanHandle(h)
      BY <2>2, <2>7 DEF ScanHandle
    <2>8. CASE UNCHANGED vars
      BY <2>2, <2>8 DEF vars, demuxer_vars
    <2>9. QED
      BY <2>1, <2>3, <2>4, <2>5, <2>6, <2>7, <2>8 DEF Next, LoopThread, WaitStep
  <1>3. QED
    BY <1>1, <1>2, PTL DEF Spec

-----------------------------------------------------------------------------
\* Events as threads raise them and as wait() makes them for sockets.
UserEvents == [event : Kinds, io_handle : Handles, data : {Null}, return : {TRUE},
               sock : Raisers \X Nat]
SocketEvents == [event : IoEvents, io_handle : Handles, data : {Null},
                 return : {TRUE}, sock : Conns \cup {Null}]
Events == UserEvents \cup SocketEvents

IsUser(e) == e.event \notin IoEvents
Precedes(e, f) ==
    IsUser(e) /\ IsUser(f) /\ e.sock[1] = f.sock[1] => e.sock[2] < f.sock[2]
Before(E, F) == \A e \in E, f \in F : Precedes(e, f)
Sorted(s) == \A i, j \in 1 .. Len(s) : i < j => Precedes(s[i], s[j])

\* The number of events of a thread that are in a queue or returned.
Done(t) == IF raising[t] = Null THEN raised[t] ELSE raised[t] - 1
\* An event on its way comes after all those returned.
OnItsWay(e) ==
    IsUser(e) => /\ e.sock[2] <= Done(e.sock[1])
                 /\ \A n \in Range(returned[e.sock[1]]) : n < e.sock[2]
AllOnTheirWay(E) == \A e \in E : OnItsWay(e)

QueueTypeOK ==
    /\ wait_thread_id_ \in {Owner, Loop}
    /\ wait_events_ \in Seq(Events) /\ pipe \in Seq(Events)
    /\ ctl \in Seq(Events) /\ return_events \in Seq(Events)
    /\ open \in [Handles -> Conns \cup {Null}]
    /\ raised \in [Raisers -> Nat] /\ returned \in [Raisers -> Seq(Nat)]
    /\ DOMAIN raising = Raisers

\* Where a thread has an event in hand, it is its last, and only the wait thread
\* has found its own id in wait_thread_id_.
RaisingOK ==
    \A t \in Raisers : raising[t] # Null =>
        /\ raising[t].event \in UserEvents
        /\ raising[t].event.sock = <<t, raised[t]>> /\ raised[t] > 0
        /\ raising[t].local = (t = Loop)
        /\ t = Loop => wait_pc = "out"

\* The wait thread's events are in wait_events_, all others in the pipe.
QueuesOK ==
    /\ \A e \in Range(wait_events_) : e \in UserEvents /\ e.sock[1] = Loop
    /\ \A e \in Range(pipe) : e \in UserEvents /\ e.sock[1] # Loop
    /\ wait_pc \notin {"drain", "pipe"} => ctl = <<>>
    /\ wait_pc \in {"epoll", "scan", "pipe"} => wait_events_ = <<>>

\* Batch, control events being applied and the queues follow each other.
LineOK ==
    /\ Sorted(wait_events_) /\ Sorted(pipe) /\ Sorted(ctl) /\ Sorted(return_events)
    /\ Before(Range(return_events), Range(ctl))
    /\ Before(Range(return_events), Range(pipe))
    /\ Before(Range(ctl), Range(pipe))
    /\ wait_pc = "out" => Before(Range(return_events), Range(wait_events_))

WayOK ==
    /\ AllOnTheirWay(Range(wait_events_)) /\ AllOnTheirWay(Range(pipe))
    /\ AllOnTheirWay(Range(ctl)) /\ AllOnTheirWay(Range(return_events))
    /\ \A t \in Raisers : \A n \in Range(returned[t]) : n <= Done(t)

OrderInv == QueueTypeOK /\ RaisingOK /\ QueuesOK /\ LineOK /\ WayOK /\ InOrder

-----------------------------------------------------------------------------
\* What is in a sequence after an append.
LEMMA AppendIs ==
    ASSUME NEW S, NEW s \in Seq(S), NEW e \in S
    PROVE  /\ Append(s, e) \in Seq(S) /\ Len(Append(s, e)) = Len(s) + 1
           /\ \A i \in 1 .. Len(s) + 1 :
                Append(s, e)[i] = IF i <= Len(s) THEN s[i] ELSE e
           /\ Range(Append(s, e)) = Range(s) \cup {e}
  <1>1. /\ Append(s, e) \in Seq(S) /\ Len(Append(s, e)) = Len(s) + 1
        /\ \A i \in 1 .. Len(s) + 1 :
             Append(s, e)[i] = IF i <= Len(s) THEN s[i] ELSE e
    OBVIOUS
  <1>2. Range(Append(s, e)) = Range(s) \cup {e}
    BY DEF Range
  <1>3. QED
    BY <1>1, <1>2

\* Head and tail are the parts of a sequence.
LEMMA TailIs ==
    ASSUME NEW S, NEW s \in Seq(S), s # <<>>
    PROVE  /\ Tail(s) \in Seq(S) /\ Len(Tail(s)) = Len(s) - 1
           /\ \A i \in 1 .. Len(s) - 1 : Tail(s)[i] = s[i + 1]
           /\ Head(s) = s[1] /\ 1 \in 1 .. Len(s)
           /\ Head(s) \in S /\ Head(s) \in Range(s)
           /\ Range(Tail(s)) \subseteq Range(s)
  <1>1. /\ Tail(s) \in Seq(S) /\ Len(Tail(s)) = Len(s) - 1
        /\ \A i \in 1 .. Len(s) - 1 : Tail(s)[i] = s[i + 1]
        /\ Head(s) = s[1] /\ 1 \in 1 .. Len(s) /\ Head(s) \in S
    OBVIOUS
  <1>2. Head(s) \in Range(s)
    BY <1>1 DEF Range
  <1>3. Range(Tail(s)) \subseteq Range(s)
    BY DEF Range
  <1>4. QED
    BY <1>1, <1>2, <1>3

\* An event that none in the sequence comes after may be appended.
LEMMA SortedAppend ==
    ASSUME NEW s \in Seq(Events), NEW e \in Events, Sorted(s), Before(Range(s), {e})
    PROVE  Sorted(Append(s, e))
  <1>1. \A i \in 1 .. Len(s) : s[i] \in Range(s)
    BY DEF Range
  <1>2. SUFFICES ASSUME NEW i \in 1 .. Len(Append(s, e)), NEW j \in 1 .. Len(Append(s, e)),
                        i < j
                 PROVE  Precedes(Append(s, e)[i], Append(s, e)[j])
    BY DEF Sorted
  <1>3. i \in 1 .. Len(s) /\ Append(s, e)[i] = s[i]
    BY AppendIs, <1>2
  <1>4. CASE j \in 1 .. Len(s)
    <2>1. Append(s, e)[j] = s[j]
      BY AppendIs, <1>4
    <2>2. QED
      BY <1>2, <1>3, <1>4, <2>1 DEF Sorted
  <1>5. CASE j = Len(s) + 1
    <2>1. Append(s, e)[j] = e
      BY AppendIs, <1>5
    <2>2. QED
      BY <1>1, <1>3, <2>1 DEF Before
  <1>6. QED
    BY AppendIs, <1>4, <1>5

\* The head precedes the rest, which stays sorted.
LEMMA SortedTail ==
    ASSUME NEW s \in Seq(Events), s # <<>>, Sorted(s)
    PROVE  Sorted(Tail(s)) /\ Before({Head(s)}, Range(Tail(s)))
  <1>1. \A i \in 1 .. Len(s) - 1 : i + 1 \in 1 .. Len(s) /\ 1 < i + 1
    OBVIOUS
  <1>2. \A i \in 1 .. Len(s) - 1 : Tail(s)[i] = s[i + 1]
    BY TailIs
  <1>3. Sorted(Tail(s))
    <2>1. SUFFICES ASSUME NEW i \in 1 .. Len(s) - 1, NEW j \in 1 .. Len(s) - 1, i < j
                   PROVE  Precedes(s[i + 1], s[j + 1])
      BY TailIs, <1>2 DEF Sorted
    <2>2. i + 1 < j + 1
      BY <2>1
    <2>3. QED
      BY <1>1, <2>2 DEF Sorted
  <1>4. \A f \in Range(Tail(s)) : \E i \in 1 .. Len(s) - 1 : f = Tail(s)[i]
    BY TailIs DEF Range
  <1>5. Before({Head(s)}, Range(Tail(s)))
    BY <1>1, <1>2, <1>4, TailIs DEF Before, Sorted
  <1>6. QED
    BY <1>3, <1>5

\* Cutting a sorted sequence in two gives sorted parts, the first before the second.
LEMMA SortedCut ==
    ASSUME NEW s \in Seq(Events), Sorted(s), NEW n \in 0 .. Len(s)
    PROVE  LET a == SubSeq(s, 1, n)
               b == SubSeq(s, n + 1, Len(s))
           IN /\ a \in Seq(Events) /\ b \in Seq(Events)
              /\ Sorted(a) /\ Sorted(b) /\ Before(Range(a), Range(b))
              /\ Range(a) \subseteq Range(s) /\ Range(b) \subseteq Range(s)
  <1> DEFINE a == SubSeq(s, 1, n)
             b == SubSeq(s, n + 1, Len(s))
             m == Len(s) - n
  <1>1. n \in Nat /\ Len(s) \in Nat /\ m \in Nat /\ n <= Len(s)
    OBVIOUS
  <1>2. a \in Seq(Events) /\ Len(a) = n /\ \A i \in 1 .. n : a[i] = s[i] /\ i \in 1 .. Len(s)
    OBVIOUS
  <1>3. /\ b \in Seq(Events) /\ Len(b) = m
        /\ \A i \in 1 .. m : b[i] = s[n + i] /\ n + i \in 1 .. Len(s)
    OBVIOUS
  <1> HIDE DEF a, b, m
  <1>4. Sorted(a)
    BY <1>1, <1>2 DEF Sorted
  <1>5. Sorted(b)
    <2>1. SUFFICES ASSUME NEW i \in 1 .. m, NEW j \in 1 .. m, i < j
                   PROVE  Precedes(s[n + i], s[n + j])
      BY <1>3 DEF Sorted
    <2>2. n + i < n + j
      BY <1>1, <2>1
    <2>3. QED
      BY <1>3, <2>2 DEF Sorted
  <1>6. /\ \A e \in Range(a) : \E i \in 1 .. n : e = a[i]
        /\ \A e \in Range(b) : \E i \in 1 .. m : e = b[i]
    BY <1>2, <1>3 DEF Range
  <1>7. Before(Range(a), Range(b))
    <2>1. SUFFICES ASSUME NEW e \in Range(a), NEW f \in Range(b)
                   PROVE  Precedes(e, f)
      BY DEF Before
    <2>2. PICK i \in 1 .. n : e = a[i]
      BY <1>6
    <2>3. PICK j \in 1 .. m : f = b[j]
      BY <1>6
    <2>4. /\ e = s[i] /\ i \in 1 .. Len(s)
          /\ f = s[n + j] /\ n + j \in 1 .. Len(s) /\ i < n + j
      BY <1>1, <1>2, <1>3, <2>2, <2>3
    <2>5. QED
      BY <2>4 DEF Sorted
  <1>8. \A i \in 1 .. Len(s) : s[i] \in Range(s)
    BY DEF Range
  <1>9. Range(a) \subseteq Range(s) /\ Range(b) \subseteq Range(s)
    <2>1. ASSUME NEW e \in Range(a) PROVE e \in Range(s)
      BY <1>2, <1>6, <1>8
    <2>2. ASSUME NEW e \in Range(b) PROVE e \in Range(s)
      BY <1>3, <1>6, <1>8
    <2>3. QED
      BY <2>1, <2>2
  <1>10. QED
    BY <1>2, <1>3, <1>4, <1>5, <1>7, <1>9 DEF a, b

-----------------------------------------------------------------------------
\* Nothing raised, nothing queued.
LEMMA OrderInit == Init => OrderInv
  <1> SUFFICES ASSUME Init PROVE OrderInv
    OBVIOUS
  <1>1. /\ wait_events_ = <<>> /\ pipe = <<>> /\ ctl = <<>> /\ return_events = <<>>
        /\ \A t \in Raisers : raising[t] = Null /\ raised[t] = 0 /\ returned[t] = <<>>
        /\ wait_pc = "out"
    BY DEF Init, DemuxerInit
  <1>2. <<>> \in Seq(Events) /\ Range(<<>>) = {}
    BY DEF Range
  <1>3. QueueTypeOK
    BY <1>1, <1>2 DEF QueueTypeOK, Init, DemuxerInit
  <1>4. RaisingOK /\ QueuesOK
    BY <1>1, <1>2 DEF RaisingOK, QueuesOK
  <1>5. LineOK /\ WayOK
    BY <1>1, <1>2 DEF LineOK, WayOK, Sorted, Before, AllOnTheirWay
  <1>6. InOrder
    BY <1>1 DEF InOrder
  <1>7. QED
    BY <1>3, <1>4, <1>5, <1>6 DEF OrderInv

\* A user event names a raiser and a serial number.
LEMMA UserIs ==
    ASSUME NEW e \in Events, IsUser(e)
    PROVE  e \in UserEvents /\ e.sock[1] \in Raisers /\ e.sock[2] \in Nat
  BY DEF Events, UserEvents, SocketEvents, IsUser

\* What a queue holds are events.
LEMMA InQueue ==
    ASSUME NEW s \in Seq(Events)
    PROVE  \A e \in Range(s) : e \in Events
  BY DEF Range

\* A step of the wait thread or of the kernel that moves no event.
LEMMA QuietKeeps ==
    ASSUME OrderInv,
           UNCHANGED <<wait_thread_id_, pipe, ctl, return_events, raising, raised, returned>>,
           open' \in [Handles -> Conns \cup {Null}],
           \/ UNCHANGED <<wait_events_, wait_pc>>
           \/ /\ wait_pc = "drain" /\ ctl = <<>> /\ wait_events_' = <<>>
              /\ Loop \in Raisers => raising[Loop] = Null
           \/ /\ wait_pc \in {"epoll", "scan"} /\ wait_pc' \in {"out", "scan"}
              /\ UNCHANGED wait_events_
           \/ /\ wait_pc = "pipe" /\ ctl = <<>> /\ wait_pc' = "scan"
              /\ UNCHANGED wait_events_
    PROVE  OrderInv'
  <1>1. <<>> \in Seq(Events) /\ Range(<<>>) = {}
    BY DEF Range
  <1>2. wait_events_' \in {<<>>, wait_events_} /\ (wait_pc' = wait_pc \/ wait_events_' = <<>>)
    BY DEF OrderInv, QueuesOK
  <1>3. QueueTypeOK'
    BY <1>1, <1>2 DEF OrderInv, QueueTypeOK
  <1>4. RaisingOK'
    BY DEF OrderInv, RaisingOK
  <1>5. QueuesOK'
    BY <1>1 DEF OrderInv, QueuesOK
  <1>6. LineOK'
    <2>1. Sorted(<<>>)
      BY DEF Sorted
    <2>2. Sorted(wait_events_')
      BY <1>2, <2>1 DEF OrderInv, LineOK
    <2>3. wait_pc' = "out" => Before(Range(return_events), Range(wait_events_'))
      BY <1>1, <1>2 DEF OrderInv, LineOK, Before
    <2>4. QED
      BY <2>2, <2>3 DEF OrderInv, LineOK, Sorted, Before
  <1>7. WayOK'
    <2>1. \A e : OnItsWay(e)' <=> OnItsWay(e)
      BY DEF OnItsWay, Done
    <2>2. \A t \in Raisers : Done(t)' = Done(t)
      BY DEF Done
    <2>3. QED
      BY <1>1, <1>2, <2>1, <2>2 DEF OrderInv, WayOK, AllOnTheirWay
  <1>8. InOrder'
    BY DEF OrderInv, InOrder
  <1>9. QED
    BY <1>3, <1>4, <1>5, <1>6, <1>7, <1>8 DEF OrderInv

\* The steps that QuietKeeps is about.
LEMMA QuietSteps ==
    ASSUME OrderInv, Loop \in Raisers => raising[Loop] = Null \/ wait_pc = "epoll",
           \/ WaitDrained \/ epoll_wait \/ PipeDone \/ ScanDone \/ WaitNothing,
           UNCHANGED <<raising, raised, returned>>
    PROVE  OrderInv'
  <1> USE DEF queues, kernel
  <1>1. open \in [Handles -> Conns \cup {Null}]
    BY DEF OrderInv, QueueTypeOK
  <1>2. CASE WaitDrained
    <2>1. QED
      BY <1>1, <1>2, QuietKeeps DEF WaitDrained
  <1>3. CASE epoll_wait
    BY <1>1, <1>3, QuietKeeps DEF epoll_wait
  <1>4. CASE PipeDone
    BY <1>1, <1>4, QuietKeeps DEF PipeDone
  <1>5. CASE ScanDone \/ WaitNothing
    BY <1>1, <1>5, QuietKeeps DEF ScanDone, WaitNothing
  <1>6. QED
    BY <1>2, <1>3, <1>4, <1>5

\* raise_event compares thread ids.
LEMMA RaiseBeginKeeps ==
    ASSUME OrderInv, NEW t \in Raisers, RaiseBegin(t),
           EarlyOwner => Owner \notin Raisers \ {Loop}
    PROVE  OrderInv'
  <1>1. PICK kind \in Kinds, h \in Handles :
          raising' = [raising EXCEPT ![t] = [local |-> t = wait_thread_id_,
                                             event |-> Numbered(kind, h, t)]]
    BY DEF RaiseBegin
  <1>2. /\ raising[t] = Null
        /\ t = Loop => wait_pc = "out" /\ wait_thread_id_ = Loop
        /\ EarlyOwner \/ t # Owner \/ wait_thread_id_ = Loop
        /\ raised' = [raised EXCEPT ![t] = @ + 1]
        /\ UNCHANGED <<wait_thread_id_, wait_events_, pipe, open, wait_pc, ctl,
                       return_events, returned>>
    BY DEF RaiseBegin, demuxer_vars, queues, kernel
  <1>3. raised \in [Raisers -> Nat] /\ DOMAIN raising = Raisers /\ wait_thread_id_ \in {Owner, Loop}
    BY DEF OrderInv, QueueTypeOK
  <1>4. QueueTypeOK'
    BY <1>1, <1>2 DEF OrderInv, QueueTypeOK
  <1>5. RaisingOK'
    <2>1. (t = wait_thread_id_) = (t = Loop)
      <3>1. t = wait_thread_id_ <=> t = Loop
        BY <1>2, <1>3
      <3>2. QED
        BY <3>1
    <2>2. raising'[t] = [local |-> t = wait_thread_id_, event |-> Numbered(kind, h, t)]
      BY <1>1, <1>3
    <2>3. /\ Numbered(kind, h, t) \in UserEvents
          /\ Numbered(kind, h, t).sock = <<t, raised'[t]>> /\ raised'[t] > 0
      BY <1>2, <1>3 DEF Numbered, Event, UserEvents
    <2>4. \A u \in Raisers : u # t => raising'[u] = raising[u] /\ raised'[u] = raised[u]
      BY <1>1, <1>2, <1>3
    <2>5. QED
      BY <1>2, <2>1, <2>2, <2>3, <2>4 DEF OrderInv, RaisingOK
  <1>6. QueuesOK' /\ LineOK' /\ InOrder'
    BY <1>2 DEF OrderInv, QueuesOK, LineOK, InOrder, Before, Sorted
  <1>7. WayOK'
    <2>1. \A u \in Raisers : Done(u) <= Done(u)' /\ Done(u) \in Int /\ Done(u)' \in Int
      BY <1>1, <1>2, <1>3 DEF Done
    <2>2. ASSUME NEW e \in Events, OnItsWay(e) PROVE OnItsWay(e)'
      BY <1>2, <2>1, <2>2, UserIs DEF OnItsWay
    <2>3. \A u \in Raisers : \A n \in Range(returned'[u]) : n <= Done(u)'
      <3>1. \A u \in Raisers : \A n \in Range(returned[u]) : n \in Nat
        BY DEF OrderInv, QueueTypeOK, Range
      <3>2. QED
        BY <1>2, <2>1, <3>1 DEF OrderInv, WayOK
    <2>4. QED
      BY <1>2, <2>2, <2>3, InQueue DEF OrderInv, WayOK, AllOnTheirWay, QueueTypeOK
  <1>8. QED
    BY <1>4, <1>5, <1>6, <1>7 DEF OrderInv

\* The event in hand comes after everything of its thread.
LEMMA RaisedLast ==
    ASSUME OrderInv, NEW t \in Raisers, raising[t] # Null,
           NEW s \in Seq(Events), AllOnTheirWay(Range(s))
    PROVE  Before(Range(s), {raising[t].event})
  <1>1. raising[t].event.sock[1] = t /\ raising[t].event.sock[2] = raised[t] /\ raised[t] \in Nat
    BY DEF OrderInv, RaisingOK, QueueTypeOK
  <1>2. SUFFICES ASSUME NEW e \in Range(s), IsUser(e), e.sock[1] = t
                 PROVE  e.sock[2] < raised[t]
    BY <1>1 DEF Before, Precedes
  <1>3. e.sock[2] \in Nat
    BY <1>2, InQueue, UserIs
  <1>4. QED
    BY <1>1, <1>2, <1>3 DEF AllOnTheirWay, OnItsWay, Done

\* raise_event queues its event or writes it to the pipe.
LEMMA RaiseEndKeeps ==
    ASSUME OrderInv, NEW t \in Raisers, RaiseEnd(t)
    PROVE  OrderInv'
  <1>0. PICK e : e = raising[t].event
    OBVIOUS
  <1>1. /\ raising[t] # Null /\ raising' = [raising EXCEPT ![t] = Null]
        /\ UNCHANGED <<wait_thread_id_, open, wait_pc, ctl, return_events, raised, returned>>
    BY DEF RaiseEnd, kernel
  <1>2. /\ e \in UserEvents /\ e \in Events /\ e.sock = <<t, raised[t]>> /\ raised[t] > 0
        /\ raising[t].local = (t = Loop) /\ (t = Loop => wait_pc = "out")
    BY <1>0, <1>1 DEF OrderInv, RaisingOK, Events
  <1>3. \/ t = Loop /\ wait_events_' = Append(wait_events_, e) /\ pipe' = pipe
        \/ t # Loop /\ pipe' = Append(pipe, e) /\ wait_events_' = wait_events_
    BY <1>0, <1>2 DEF RaiseEnd
  <1>4. QueueTypeOK
    BY DEF OrderInv
  <1>5. /\ Before(Range(wait_events_), {e}) /\ Before(Range(pipe), {e})
        /\ Before(Range(ctl), {e}) /\ Before(Range(return_events), {e})
    BY <1>0, <1>1, <1>4, RaisedLast DEF OrderInv, WayOK, QueueTypeOK
  <1>6. /\ wait_events_' \in Seq(Events) /\ pipe' \in Seq(Events)
        /\ \/ /\ t = Loop /\ Range(wait_events_') = Range(wait_events_) \cup {e}
              /\ Sorted(wait_events_') /\ pipe' = pipe
           \/ /\ t # Loop /\ Range(pipe') = Range(pipe) \cup {e}
              /\ Sorted(pipe') /\ wait_events_' = wait_events_
    <2>1. /\ wait_events_ \in Seq(Events) /\ pipe \in Seq(Events)
          /\ Sorted(wait_events_) /\ Sorted(pipe)
      BY <1>4 DEF OrderInv, LineOK, QueueTypeOK
    <2>2. \A s \in Seq(Events) : Sorted(s) /\ Before(Range(s), {e}) =>
            /\ Append(s, e) \in Seq(Events) /\ Sorted(Append(s, e))
            /\ Range(Append(s, e)) = Range(s) \cup {e}
      BY <1>2, AppendIs, SortedAppend
    <2>3. CASE t = Loop
      BY <1>3, <1>5, <2>1, <2>2, <2>3
    <2>4. CASE t # Loop
      BY <1>3, <1>5, <2>1, <2>2, <2>4
    <2>5. QED
      BY <2>3, <2>4
  <1>7. QueueTypeOK'
    BY <1>1, <1>4, <1>6 DEF QueueTypeOK
  <1>8. RaisingOK'
    BY <1>1, <1>4 DEF OrderInv, RaisingOK, QueueTypeOK
  <1>9. QueuesOK'
    BY <1>1, <1>2, <1>6 DEF OrderInv, QueuesOK
  <1>10. LineOK'
    <2>1. Sorted(wait_events_)' /\ Sorted(pipe)' /\ Sorted(ctl)' /\ Sorted(return_events)'
      BY <1>1, <1>6 DEF OrderInv, LineOK, Sorted
    <2>2. /\ Before(Range(return_events), Range(ctl))'
          /\ Before(Range(return_events), Range(pipe))'
          /\ Before(Range(ctl), Range(pipe))'
          /\ wait_pc' = "out" => Before(Range(return_events), Range(wait_events_))'
      BY <1>1, <1>5, <1>6 DEF OrderInv, LineOK, Before
    <2>3. QED
      BY <2>1, <2>2 DEF LineOK
  <1>11. WayOK'
    <2>1. \A u \in Raisers : Done(u) <= Done(u)' /\ Done(u) \in Int /\ Done(u)' \in Int
      BY <1>1, <1>4 DEF Done, QueueTypeOK
    <2>2. ASSUME NEW f \in Events, OnItsWay(f) PROVE OnItsWay(f)'
      BY <1>1, <2>1, <2>2, UserIs DEF OnItsWay
    <2>3. OnItsWay(e)'
      <3>1. Done(t)' = raised[t] /\ e.sock[1] = t /\ e.sock[2] = raised[t] /\ raised[t] \in Nat
        BY <1>1, <1>2, <1>4 DEF Done, QueueTypeOK
      <3>2. \A n \in Range(returned[t]) : n \in Nat /\ n <= raised[t] - 1
        BY <1>1, <1>4 DEF OrderInv, WayOK, QueueTypeOK, Range, Done
      <3>3. \A n \in Range(returned'[t]) : n < raised[t]
        BY <1>1, <3>1, <3>2
      <3>4. QED
        BY <3>1, <3>3 DEF OnItsWay
    <2>4. \A u \in Raisers : \A n \in Range(returned'[u]) : n <= Done(u)'
      <3>1. \A u \in Raisers : \A n \in Range(returned[u]) : n \in Nat
        BY <1>4 DEF QueueTypeOK, Range
      <3>2. QED
        BY <1>1, <2>1, <3>1 DEF OrderInv, WayOK
    <2>5. AllOnTheirWay(Range(ctl))' /\ AllOnTheirWay(Range(return_events))'
      BY <1>1, <1>4, <2>2, InQueue DEF OrderInv, WayOK, AllOnTheirWay, QueueTypeOK
    <2>6. AllOnTheirWay(Range(wait_events_))' /\ AllOnTheirWay(Range(pipe))'
      BY <1>4, <1>6, <2>2, <2>3, InQueue DEF OrderInv, WayOK, AllOnTheirWay, QueueTypeOK
    <2>7. QED
      BY <2>4, <2>5, <2>6 DEF WayOK
  <1>12. InOrder'
    BY <1>1 DEF OrderInv, InOrder
  <1>13. QED
    BY <1>7, <1>8, <1>9, <1>10, <1>11, <1>12 DEF OrderInv

\* The thread that a returned event belongs to gets its serial number.
LEMMA TakeKeeps ==
    ASSUME OrderInv, Take
    PROVE  OrderInv'
  <1>0. PICK e : e = Head(return_events)
    OBVIOUS
  <1>1. /\ wait_pc = "out" /\ return_events # <<>> /\ return_events' = Tail(return_events)
        /\ returned' = IF e.event \in IoEvents THEN returned
                       ELSE [returned EXCEPT ![e.sock[1]] = Append(@, e.sock[2])]
        /\ UNCHANGED <<wait_thread_id_, wait_events_, pipe, open, wait_pc, ctl,
                       raising, raised>>
    BY <1>0 DEF Take, queues, kernel
  <1>2. QueueTypeOK /\ return_events \in Seq(Events)
    BY DEF OrderInv, QueueTypeOK
  <1>3. /\ e \in Events /\ e \in Range(return_events) /\ return_events' \in Seq(Events)
        /\ Range(return_events') \subseteq Range(return_events)
    BY <1>0, <1>1, <1>2, TailIs
  <1>4. Sorted(return_events') /\ Before({e}, Range(return_events'))
    BY <1>0, <1>1, <1>2, SortedTail DEF OrderInv, LineOK
  <1>5. ctl = <<>> /\ Range(<<>>) = {}
    BY <1>1 DEF OrderInv, QueuesOK, Range
  <1>6. Before({e}, Range(pipe)) /\ Before({e}, Range(wait_events_)) /\ Before({e}, Range(ctl))
    BY <1>1, <1>3, <1>5 DEF OrderInv, LineOK, Before
  <1>7. OnItsWay(e)
    BY <1>3 DEF OrderInv, WayOK, AllOnTheirWay
  <1>8. \A u \in Raisers : Done(u)' = Done(u)
    BY <1>1 DEF Done
  <1>9. RaisingOK' /\ QueuesOK'
    BY <1>1 DEF OrderInv, RaisingOK, QueuesOK
  <1>10. LineOK'
    BY <1>1, <1>3, <1>4 DEF OrderInv, LineOK, Before, Sorted
  <1>11. CASE ~IsUser(e)
    <2>1. returned' = returned
      BY <1>1, <1>11 DEF IsUser
    <2>2. QueueTypeOK' /\ InOrder'
      BY <1>1, <1>2, <1>3, <2>1 DEF OrderInv, QueueTypeOK, InOrder
    <2>3. \A f : OnItsWay(f)' <=> OnItsWay(f)
      BY <1>1, <2>1 DEF OnItsWay, Done
    <2>4. WayOK'
      BY <1>1, <1>3, <1>8, <2>1, <2>3 DEF OrderInv, WayOK, AllOnTheirWay
    <2>5. QED
      BY <1>9, <1>10, <2>2, <2>4 DEF OrderInv
  <1>12. CASE IsUser(e)
    <2>1. PICK t \in Raisers, n \in Nat : t = e.sock[1] /\ n = e.sock[2]
      BY <1>3, <1>12, UserIs
    <2>2. returned' = [returned EXCEPT ![t] = Append(@, n)]
      BY <1>1, <1>12, <2>1 DEF IsUser
    <2>3. returned[t] \in Seq(Nat) /\ returned \in [Raisers -> Seq(Nat)]
      BY <1>2 DEF QueueTypeOK
    <2>4. /\ returned'[t] = Append(returned[t], n)
          /\ \A u \in Raisers : u # t => returned'[u] = returned[u]
      BY <2>2, <2>3
    <2>5. Append(returned[t], n) \in Seq(Nat)
      BY <2>3, AppendIs
    <2>6. QueueTypeOK'
      <3>1. returned' \in [Raisers -> Seq(Nat)]
        BY <2>2, <2>3, <2>5
      <3>2. QED
        BY <1>1, <1>2, <1>3, <3>1 DEF QueueTypeOK
    <2>7. \A k \in Range(returned[t]) : k < n /\ k \in Nat
      BY <1>7, <1>12, <2>1, <2>3 DEF OnItsWay, Range
    <2>8. Range(returned'[t]) = Range(returned[t]) \cup {n}
      BY <2>3, <2>4, AppendIs
    <2>9. ASSUME NEW f \in Events, OnItsWay(f), Precedes(e, f)
          PROVE  OnItsWay(f)'
      <3>1. SUFFICES ASSUME IsUser(f)
                     PROVE  /\ f.sock[2] <= Done(f.sock[1])'
                            /\ \A k \in Range(returned'[f.sock[1]]) : k < f.sock[2]
        BY DEF OnItsWay
      <3>2. f.sock[1] \in Raisers /\ f.sock[2] \in Nat
        BY <3>1, UserIs
      <3>3. CASE f.sock[1] = t
        BY <1>8, <1>12, <2>1, <2>8, <2>9, <3>1, <3>2, <3>3 DEF OnItsWay, Precedes
      <3>4. CASE f.sock[1] # t
        BY <1>8, <2>4, <2>9, <3>1, <3>2, <3>4 DEF OnItsWay
      <3>5. QED
        BY <3>3, <3>4
    <2>10. ASSUME NEW s \in Seq(Events), AllOnTheirWay(Range(s)), Before({e}, Range(s))
           PROVE  \A f \in Range(s) : OnItsWay(f)'
      BY <2>9, <2>10, InQueue DEF AllOnTheirWay, Before
    <2>11. AllOnTheirWay(Range(return_events'))
      BY <1>3 DEF OrderInv, WayOK, AllOnTheirWay
    <2>12. /\ \A f \in Range(return_events') : OnItsWay(f)'
           /\ \A f \in Range(pipe) : OnItsWay(f)'
           /\ \A f \in Range(wait_events_) : OnItsWay(f)'
           /\ \A f \in Range(ctl) : OnItsWay(f)'
      BY <1>2, <1>3, <1>4, <1>6, <2>10, <2>11 DEF OrderInv, WayOK, QueueTypeOK
    <2>13. \A u \in Raisers : \A k \in Range(returned'[u]) : k <= Done(u)'
      BY <1>7, <1>8, <1>12, <2>1, <2>4, <2>8 DEF OrderInv, WayOK, OnItsWay
    <2>14. WayOK'
      BY <1>1, <2>12, <2>13 DEF WayOK, AllOnTheirWay
    <2>15. InOrder'
      <3>1. SUFFICES ASSUME NEW u \in Raisers,
                            NEW i \in DOMAIN returned'[u], NEW j \in DOMAIN returned'[u], i < j
                     PROVE  returned'[u][i] < returned'[u][j]
        BY DEF InOrder
      <3>2. CASE u # t
        BY <2>4, <3>1, <3>2 DEF OrderInv, InOrder
      <3>3. CASE u = t
        <4>1. /\ Len(Append(returned[t], n)) = Len(returned[t]) + 1
              /\ \A k \in 1 .. Len(returned[t]) + 1 : Append(returned[t], n)[k] =
                   IF k <= Len(returned[t]) THEN returned[t][k] ELSE n
          BY <2>3, AppendIs
        <4>2. /\ i \in 1 .. Len(returned[t]) + 1 /\ j \in 1 .. Len(returned[t]) + 1
              /\ i \in 1 .. Len(returned[t]) /\ Len(returned[t]) \in Nat
          BY <2>3, <2>4, <2>5, <3>1, <3>3, <4>1
        <4>3. returned'[u][i] = returned[t][i] /\ returned[t][i] \in Range(returned[t])
          BY <2>3, <2>4, <3>3, <4>1, <4>2 DEF Range
        <4>4. CASE j = Len(returned[t]) + 1
          <5>1. returned'[u][j] = n
            BY <2>4, <3>3, <4>1, <4>2, <4>4
          <5>2. QED
            BY <2>7, <4>3, <5>1
        <4>5. CASE j \in 1 .. Len(returned[t])
          <5>1. returned'[u][j] = returned[t][j] /\ DOMAIN returned[t] = 1 .. Len(returned[t])
            BY <2>3, <2>4, <3>3, <4>1, <4>2, <4>5
          <5>2. QED
            BY <3>1, <4>2, <4>3, <4>5, <5>1 DEF OrderInv, InOrder
        <4>6. QED
          BY <4>2, <4>4, <4>5
      <3>4. QED
        BY <3>2, <3>3
    <2>16. QED
      BY <1>9, <1>10, <2>6, <2>14, <2>15 DEF OrderInv
  <1>13. QED
    BY <1>11, <1>12

\* wait() is entered with an empty batch and takes the wait thread's queue.
LEMMA WaitBeginKeeps ==
    ASSUME OrderInv, return_events = <<>>, WaitBegin(<<>>),
           Loop \in Raisers => raising[Loop] = Null,
           UNCHANGED <<raising, raised, returned>>
    PROVE  OrderInv'
  <1>1. /\ wait_thread_id_' = Loop /\ ctl' = wait_events_ /\ wait_pc' = "drain"
        /\ return_events' = <<>> /\ UNCHANGED <<wait_events_, pipe, open>>
    BY DEF WaitBegin, queues, kernel
  <1>2. <<>> \in Seq(Events) /\ Range(<<>>) = {} /\ Sorted(<<>>)
    BY DEF Range, Sorted
  <1>3. QueueTypeOK' /\ RaisingOK' /\ QueuesOK' /\ InOrder'
    BY <1>1, <1>2 DEF OrderInv, QueueTypeOK, RaisingOK, QueuesOK, InOrder
  <1>4. Before(Range(wait_events_), Range(pipe))
    BY DEF OrderInv, QueuesOK, Before, Precedes
  <1>5. LineOK'
    BY <1>1, <1>2, <1>4 DEF OrderInv, LineOK, Before, Sorted
  <1>6. \A e : OnItsWay(e)' <=> OnItsWay(e)
    BY DEF OnItsWay, Done
  <1>7. \A t \in Raisers : Done(t)' = Done(t)
    BY DEF Done
  <1>8. WayOK'
    BY <1>1, <1>2, <1>6, <1>7 DEF OrderInv, WayOK, AllOnTheirWay
  <1>9. QED
    BY <1>3, <1>5, <1>8 DEF OrderInv

\* A control event goes from the events being applied to the end of the batch.
LEMMA CtrlKeeps ==
    ASSUME OrderInv, process_ctrl_event, UNCHANGED <<raising, raised, returned>>
    PROVE  OrderInv'
  <1>0. PICK e : e = Head(ctl)
    OBVIOUS
  <1>1. /\ wait_pc \in {"drain", "pipe"} /\ ctl # <<>> /\ ctl' = Tail(ctl)
        /\ return_events' \in {Append(return_events, e), return_events}
        /\ UNCHANGED <<wait_thread_id_, wait_events_, pipe, open, wait_pc>>
    BY <1>0 DEF process_ctrl_event, queues, kernel
  <1>2. QueueTypeOK /\ ctl \in Seq(Events) /\ return_events \in Seq(Events)
    BY DEF OrderInv, QueueTypeOK
  <1>3. /\ e \in Events /\ e \in Range(ctl) /\ ctl' \in Seq(Events)
        /\ Range(ctl') \subseteq Range(ctl)
        /\ Sorted(ctl') /\ Before({e}, Range(ctl'))
    BY <1>0, <1>1, <1>2, TailIs, SortedTail DEF OrderInv, LineOK
  <1>4. Before(Range(return_events), {e})
    BY <1>3 DEF OrderInv, LineOK, Before
  <1>5. /\ Append(return_events, e) \in Seq(Events) /\ Sorted(Append(return_events, e))
        /\ Range(Append(return_events, e)) = Range(return_events) \cup {e}
    BY <1>2, <1>3, <1>4, AppendIs, SortedAppend DEF OrderInv, LineOK
  <1>6. /\ return_events' \in Seq(Events) /\ Sorted(return_events')
        /\ Range(return_events') \subseteq Range(return_events) \cup {e}
    BY <1>1, <1>2, <1>5 DEF OrderInv, LineOK
  <1>7. QueueTypeOK' /\ RaisingOK' /\ QueuesOK' /\ InOrder'
    BY <1>1, <1>2, <1>3, <1>6 DEF OrderInv, QueueTypeOK, RaisingOK, QueuesOK, InOrder
  <1>8. LineOK'
    <2>1. Sorted(wait_events_)' /\ Sorted(pipe)' /\ Sorted(ctl)' /\ Sorted(return_events)'
      BY <1>1, <1>3, <1>6 DEF OrderInv, LineOK, Sorted
    <2>2. /\ Before(Range(return_events), Range(ctl))'
          /\ Before(Range(return_events), Range(pipe))'
          /\ Before(Range(ctl), Range(pipe))'
      BY <1>1, <1>3, <1>6 DEF OrderInv, LineOK, Before
    <2>3. QED
      BY <1>1, <2>1, <2>2 DEF LineOK
  <1>9. WayOK'
    <2>1. \A f : OnItsWay(f)' <=> OnItsWay(f)
      BY DEF OnItsWay, Done
    <2>2. \A t \in Raisers : Done(t)' = Done(t)
      BY DEF Done
    <2>3. QED
      BY <1>1, <1>3, <1>6, <2>1, <2>2 DEF OrderInv, WayOK, AllOnTheirWay
  <1>10. QED
    BY <1>7, <1>8, <1>9 DEF OrderInv

\* A read() takes the front of the pipe.
LEMMA ScanPipeKeeps ==
    ASSUME OrderInv, ScanPipe, UNCHANGED <<raising, raised, returned>>
    PROVE  OrderInv'
  <1> DEFINE n == IF Len(pipe) < PipeRead THEN Len(pipe) ELSE PipeRead
  <1>1. /\ wait_pc = "scan" /\ wait_pc' = "pipe"
        /\ ctl' = SubSeq(pipe, 1, n) /\ pipe' = SubSeq(pipe, PipeRead + 1, Len(pipe))
        /\ UNCHANGED <<wait_thread_id_, wait_events_, open, return_events>>
    BY DEF ScanPipe, LeftInPipe, kernel
  <1>2. QueueTypeOK /\ pipe \in Seq(Events) /\ Len(pipe) \in Nat /\ Sorted(pipe)
    BY DEF OrderInv, QueueTypeOK, LineOK
  <1>3. n \in 0 .. Len(pipe) /\ PipeRead \in Nat
    BY <1>2, DemuxerConstants
  <1>4. pipe' = SubSeq(pipe, n + 1, Len(pipe))
    <2>1. CASE Len(pipe) < PipeRead
      <3>1. SubSeq(pipe, PipeRead + 1, Len(pipe)) = <<>>
        BY <1>2, <1>3, <2>1
      <3>2. SubSeq(pipe, Len(pipe) + 1, Len(pipe)) = <<>>
        BY <1>2
      <3>3. QED
        BY <1>1, <2>1, <3>1, <3>2
    <2>2. CASE ~(Len(pipe) < PipeRead)
      BY <1>1, <2>2
    <2>3. QED
      BY <2>1, <2>2
  <1> HIDE DEF n
  <1>5. /\ ctl' \in Seq(Events) /\ pipe' \in Seq(Events) /\ Sorted(ctl') /\ Sorted(pipe')
        /\ Before(Range(ctl'), Range(pipe'))
        /\ Range(ctl') \subseteq Range(pipe) /\ Range(pipe') \subseteq Range(pipe)
    BY <1>1, <1>2, <1>3, <1>4, SortedCut
  <1>6. QueueTypeOK' /\ RaisingOK' /\ QueuesOK' /\ InOrder'
    BY <1>1, <1>2, <1>5 DEF OrderInv, QueueTypeOK, RaisingOK, QueuesOK, InOrder
  <1>7. LineOK'
    BY <1>1, <1>5 DEF OrderInv, LineOK, Before, Sorted
  <1>8. WayOK'
    <2>1. \A f : OnItsWay(f)' <=> OnItsWay(f)
      BY DEF OnItsWay, Done
    <2>2. \A t \in Raisers : Done(t)' = Done(t)
      BY DEF Done
    <2>3. QED
      BY <1>1, <1>5, <2>1, <2>2 DEF OrderInv, WayOK, AllOnTheirWay
  <1>9. QED
    BY <1>6, <1>7, <1>8 DEF OrderInv

\* A batch with socket events added.
WithSockets(s, s0) ==
    s \in Seq(Events) /\ Sorted(s) /\ \A e \in Range(s) : IsUser(e) => e \in Range(s0)

\* Reporting one more socket event, or none.
LEMMA ReportOne ==
    ASSUME NEW s0, NEW s, WithSockets(s, s0), NEW f \in SocketEvents,
           NEW r \in {<<>>, <<f>>}
    PROVE  WithSockets(s \o r, s0)
  <1>1. s \in Seq(Events) /\ f \in Events /\ ~IsUser(f)
    BY DEF WithSockets, Events, SocketEvents, IsUser
  <1>2. CASE r = <<>>
    <2>1. s \o <<>> = s
      BY <1>1
    <2>2. QED
      BY <1>2, <2>1
  <1>3. CASE r = <<f>>
    <2>1. s \o <<f>> = Append(s, f)
      BY <1>1
    <2>2. Before(Range(s), {f})
      BY <1>1 DEF Before, Precedes
    <2>3. /\ Append(s, f) \in Seq(Events) /\ Sorted(Append(s, f))
          /\ Range(Append(s, f)) = Range(s) \cup {f}
      BY <1>1, <2>2, AppendIs, SortedAppend DEF WithSockets
    <2>4. QED
      BY <1>1, <1>3, <2>1, <2>3 DEF WithSockets
  <1>4. QED
    BY <1>2, <1>3

\* The events of a socket are added to the batch.
LEMMA ScanHandleKeeps ==
    ASSUME OrderInv, NEW h \in Handles, ScanHandle(h), UNCHANGED <<raising, raised, returned>>
    PROVE  OrderInv'
  <1> DEFINE ev(event) == Event(event, h, Null, TRUE, open[h])
  <1>1. PICK a \in {<<>>, <<ev("READ")>>}, b \in {<<>>, <<ev("WRITE")>>},
             c \in {<<>>, <<ev("ERROR")>>}, d \in {<<>>, <<ev("CLOSE")>>} :
          return_events' = return_events \o a \o b \o c \o d
    BY DEF ScanHandle
  <1>2. /\ wait_pc = "scan"
        /\ UNCHANGED <<wait_thread_id_, wait_events_, pipe, open, wait_pc, ctl>>
    BY DEF ScanHandle, queues, kernel
  <1>3. QueueTypeOK
    BY DEF OrderInv
  <1>4. /\ ev("READ") \in SocketEvents /\ ev("WRITE") \in SocketEvents
        /\ ev("ERROR") \in SocketEvents /\ ev("CLOSE") \in SocketEvents
    BY <1>3 DEF QueueTypeOK, SocketEvents, Event, IoEvents
  <1> HIDE DEF ev
  <1>5. WithSockets(return_events, return_events)
    BY <1>3 DEF OrderInv, LineOK, QueueTypeOK, WithSockets
  <1>6. WithSockets(return_events \o a, return_events)
    BY <1>4, <1>5, ReportOne
  <1>7. WithSockets(return_events \o a \o b, return_events)
    BY <1>4, <1>6, ReportOne
  <1>8. WithSockets(return_events \o a \o b \o c, return_events)
    BY <1>4, <1>7, ReportOne
  <1>9. WithSockets(return_events', return_events)
    BY <1>1, <1>4, <1>8, ReportOne
  <1>10. QueueTypeOK' /\ RaisingOK' /\ QueuesOK' /\ InOrder'
    BY <1>2, <1>3, <1>9
       DEF OrderInv, QueueTypeOK, RaisingOK, QueuesOK, InOrder, WithSockets
  <1>11. LineOK'
    <2>1. ASSUME NEW E, Before(Range(return_events), E)
          PROVE  \A e \in Range(return_events'), f \in E : Precedes(e, f)
      BY <1>9, <2>1 DEF WithSockets, Before, Precedes
    <2>2. /\ Before(Range(return_events), Range(ctl))'
          /\ Before(Range(return_events), Range(pipe))'
      BY <1>2, <2>1 DEF OrderInv, LineOK, Before
    <2>3. QED
      BY <1>2, <1>9, <2>2 DEF OrderInv, LineOK, Before, Sorted, WithSockets
  <1>12. WayOK'
    <2>1. \A f : OnItsWay(f)' <=> OnItsWay(f)
      BY DEF OnItsWay, Done
    <2>2. \A t \in Raisers : Done(t)' = Done(t)
      BY DEF Done
    <2>3. \A f \in Range(return_events') : OnItsWay(f)
      BY <1>9 DEF OrderInv, WayOK, AllOnTheirWay, WithSockets, OnItsWay
    <2>4. QED
      BY <1>2, <2>1, <2>2, <2>3 DEF OrderInv, WayOK, AllOnTheirWay
  <1>13. QED
    BY <1>10, <1>11, <1>12 DEF OrderInv

\* Every step keeps the queues in order.
LEMMA OrderNext ==
    ASSUME OrderInv, [Next]_vars, EarlyOwner => Owner \notin Raisers \ {Loop}
    PROVE  OrderInv'
  <1> USE DEF queues, kernel
  <1>1. CASE \E t \in Raisers : RaiseBegin(t) \/ RaiseEnd(t)
    BY <1>1, RaiseBeginKeeps, RaiseEndKeeps
  <1>2. open \in [Handles -> Conns \cup {Null}]
    BY DEF OrderInv, QueueTypeOK
  <1>3. CASE \E h \in Handles : SocketOpens(h)
    <2>1. open' \in [Handles -> Conns \cup {Null}]
      BY <1>2, <1>3 DEF SocketOpens, KernelOpen
    <2>2. QED
      BY <1>3, <2>1, QuietKeeps DEF SocketOpens
  <1>4. CASE \E h \in Handles : PeerActs(h) /\ UNCHANGED <<raising, raised, returned>>
    BY <1>2, <1>4, QuietKeeps DEF PeerActs
  <1>5. CASE WaitNothing /\ UNCHANGED <<raising, raised, returned>>
    <2>1. wait_pc = "epoll"
      BY <1>5 DEF WaitNothing
    <2>2. QED
      BY <1>5, <2>1, QuietSteps
  <1>6. CASE LoopThread
    <2>1. Loop \in Raisers => raising[Loop] = Null
      BY <1>6 DEF LoopThread
    <2>2. CASE Take
      BY <2>2, TakeKeeps
    <2>3. CASE /\ return_events = <<>> /\ WaitBegin(<<>>)
               /\ UNCHANGED <<raising, raised, returned>>
      BY <2>1, <2>3, WaitBeginKeeps
    <2>4. CASE WaitStep /\ UNCHANGED <<raising, raised, returned>>
      BY <2>1, <2>4, CtrlKeeps, ScanPipeKeeps, ScanHandleKeeps, QuietSteps DEF WaitStep
    <2>5. QED
      BY <1>6, <2>2, <2>3, <2>4 DEF LoopThread
  <1>7. CASE UNCHANGED vars
    BY <1>2, <1>7, QuietKeeps DEF vars, demuxer_vars
  <1>8. QED
    BY <1>1, <1>3, <1>4, <1>5, <1>6, <1>7 DEF Next

\* For any threads, any number of events and any capacity of a read(), wait() returns
\* the events of each thread in the order raise_event was called, none twice
\* (IoHandleDemuxer.h raise_event, wait).  The hypothesis leaves out the constructing
\* thread raising before the first wait(), when it takes the loop's queue for its own.
THEOREM EventsInOrder ==
    ASSUME EarlyOwner => Owner \notin Raisers \ {Loop}
    PROVE  Spec => []InOrder
  <1>1. OrderInv /\ [Next]_vars => OrderInv'
    BY OrderNext
  <1>2. OrderInv => InOrder
    BY DEF OrderInv
  <1>3. QED
    BY <1>1, <1>2, OrderInit, PTL DEF Spec
=============================================================================

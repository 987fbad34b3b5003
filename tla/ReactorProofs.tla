---------------------------- MODULE ReactorProofs ----------------------------
(***************************************************************************)
(* Theorems about module Reactor, for any handles, connections, threads    *)
(* and calls.  All that is still to be applied or dispatched stands in one *)
(* line: the rest of the batch, the requests wait() is working on, the     *)
(* loop's own queue, the pipe.  A request is taken from its front and, but *)
(* for the I/O events, never gets past another.  What goes wrong when      *)
(* handle numbers are reused is an event of the old owner behind the       *)
(* registration of the new one; the invariants say there is none.          *)
(* TableInv holds for any callers; WatchInv, what epoll watches, needs     *)
(* that register_writable does not get behind a removal.                   *)
(***************************************************************************)
EXTENDS Reactor, FiniteSetTheorems, TLAPS

EventNames == IoEvents \cup {"REGISTER_READ", "REGISTER_WRITE", "REMOVE_WRITE", "REMOVE_ALL",
                             "TIMEOUT_ADD", "TIMEOUT_DEL", "STOP"}
Events == [event : EventNames, io_handle : Handles \cup {Null}, data : Conns \cup {Null},
           return : BOOLEAN, sock : Conns \cup {Null}]
Callbacks == {"handle_registered", "handle_input", "handle_output", "handle_error",
              "handle_close", "handle_timeout", "handle_removed", "handle_shutdown"}

IsRegister(e) == e.event = "REGISTER_READ"
IsRemoval(e) == e.event = "REMOVE_ALL" /\ e.return
IsIo(e) == e.event \in IoEvents

-----------------------------------------------------------------------------
\* The line.  Elems(s, k) is what sequence s holds from k on.
Elems(s, k) == {s[i] : i \in k .. Len(s)}
Queue == IF wait_pc = "out" THEN wait_events_ ELSE <<>>
Todo == Elems(return_events, index)
Behind == Elems(ctl, 1) \cup Elems(Queue, 1) \cup Elems(pipe, 1)
Line == Todo \cup Behind

\* Every two members of the line, the first one earlier, are related by R.
Ordered(R, s, k) == \A i, j \in k .. Len(s) : i < j => <<s[i], s[j]>> \in R
Cross(R, X, Y) == \A x \in X, y \in Y : <<x, y>> \in R
LineOrdered(R, a, k, b, c, d) ==
    /\ Ordered(R, a, k) /\ Ordered(R, b, 1) /\ Ordered(R, c, 1) /\ Ordered(R, d, 1)
    /\ Cross(R, Elems(a, k), Elems(b, 1))
    /\ Cross(R, Elems(a, k), Elems(c, 1))
    /\ Cross(R, Elems(a, k), Elems(d, 1))
    /\ Cross(R, Elems(b, 1), Elems(c, 1))
    /\ Cross(R, Elems(b, 1), Elems(d, 1))
    /\ Cross(R, Elems(c, 1), Elems(d, 1))
InLine(R) == LineOrdered(R, return_events, index, ctl, Queue, pipe)

LEMMA ElemsEmpty ==
    ASSUME NEW R, NEW s, NEW k \in Nat \ {0}, Len(s) \in Nat, k > Len(s)
    PROVE  Elems(s, k) = {} /\ Ordered(R, s, k)
  BY DEF Elems, Ordered

LEMMA ElemsAppend ==
    ASSUME NEW R, NEW S, NEW s \in Seq(S), NEW f \in S, NEW k \in Nat \ {0},
           k <= Len(s) + 1, Ordered(R, s, k), \A x \in Elems(s, k) : <<x, f>> \in R
    PROVE  /\ Elems(Append(s, f), k) = Elems(s, k) \cup {f}
           /\ Ordered(R, Append(s, f), k)
  <1> DEFINE t == Append(s, f)
  <1>1. /\ Len(t) = Len(s) + 1 /\ Len(s) \in Nat
        /\ \A i \in 1 .. Len(s) : t[i] = s[i]
        /\ t[Len(t)] = f
    OBVIOUS
  <1> HIDE DEF t
  <1>2. Elems(t, k) = Elems(s, k) \cup {f}
    BY <1>1 DEF Elems
  <1>3. Ordered(R, t, k)
    <2> SUFFICES ASSUME NEW i \in k .. Len(t), NEW j \in k .. Len(t), i < j
                 PROVE  <<t[i], t[j]>> \in R
      BY DEF Ordered
    <2>1. i \in k .. Len(s) /\ t[i] = s[i]
      BY <1>1
    <2>2. CASE j = Len(t)
      BY <2>1, <2>2, <1>1 DEF Elems
    <2>3. CASE j # Len(t)
      <3>1. j \in k .. Len(s) /\ t[j] = s[j]
        BY <2>3, <1>1
      <3>2. QED
        BY <2>1, <3>1 DEF Ordered
    <2>4. QED
      BY <2>2, <2>3
  <1>4. QED
    BY <1>2, <1>3 DEF t

LEMMA AppendElems ==
    ASSUME NEW S, NEW s \in Seq(S), NEW f \in S
    PROVE  Elems(Append(s, f), 1) = Elems(s, 1) \cup {f}
  BY DEF Elems

LEMMA AppendElemsFrom ==
    ASSUME NEW S, NEW s \in Seq(S), NEW f \in S, NEW k \in Nat \ {0}, k <= Len(s) + 1
    PROVE  Elems(Append(s, f), k) = Elems(s, k) \cup {f}
  <1>1. PICK t : t = Append(s, f)
    OBVIOUS
  <1>2. /\ Len(t) = Len(s) + 1 /\ Len(s) \in Nat
        /\ \A i \in 1 .. Len(s) : t[i] = s[i]
        /\ t[Len(t)] = f
    BY <1>1
  <1>3. Elems(t, k) = Elems(s, k) \cup {f}
    BY <1>2 DEF Elems
  <1>4. QED
    BY <1>1, <1>3

LEMMA ElemsNext ==
    ASSUME NEW R, NEW s, Len(s) \in Nat, NEW k \in Nat \ {0}, k <= Len(s), Ordered(R, s, k),
           NEW n \in Nat, k < n, n <= k + 1
    PROVE  /\ Elems(s, k) = {s[k]} \cup Elems(s, n)
           /\ Ordered(R, s, n)
           /\ \A y \in Elems(s, n) : <<s[k], y>> \in R
  BY DEF Elems, Ordered

LEMMA ElemsTail ==
    ASSUME NEW R, NEW S, NEW s \in Seq(S), s # <<>>, Ordered(R, s, 1)
    PROVE  /\ Elems(s, 1) = {Head(s)} \cup Elems(Tail(s), 1)
           /\ Ordered(R, Tail(s), 1)
           /\ \A y \in Elems(Tail(s), 1) : <<Head(s), y>> \in R
  <1> DEFINE t == Tail(s)
  <1>1. /\ Len(s) \in Nat /\ Len(s) >= 1 /\ Len(t) = Len(s) - 1 /\ Head(s) = s[1]
        /\ \A i \in 1 .. Len(t) : t[i] = s[i + 1]
    OBVIOUS
  <1> HIDE DEF t
  <1>2. Elems(t, 1) = Elems(s, 2)
    <2>1. \A x \in Elems(t, 1) : x \in Elems(s, 2)
      BY <1>1 DEF Elems
    <2>2. ASSUME NEW i \in 2 .. Len(s) PROVE s[i] \in Elems(t, 1)
      <3>1. i - 1 \in 1 .. Len(t) /\ t[i - 1] = s[(i - 1) + 1] /\ (i - 1) + 1 = i
        BY <1>1
      <3>2. QED
        BY <3>1 DEF Elems
    <2>3. Elems(s, 2) = {s[i] : i \in 2 .. Len(s)}
      BY DEF Elems
    <2>4. \A x \in Elems(s, 2) : x \in Elems(t, 1)
      BY <2>2, <2>3
    <2>5. QED
      BY <2>1, <2>4
  <1>3. Ordered(R, t, 1)
    <2> SUFFICES ASSUME NEW i \in 1 .. Len(t), NEW j \in 1 .. Len(t), i < j
                 PROVE  <<t[i], t[j]>> \in R
      BY DEF Ordered
    <2>1. i + 1 \in 1 .. Len(s) /\ j + 1 \in 1 .. Len(s) /\ i + 1 < j + 1
      BY <1>1
    <2>2. <<s[i + 1], s[j + 1]>> \in R
      BY <2>1 DEF Ordered
    <2>3. QED
      BY <2>2, <1>1
  <1>4. /\ Elems(s, 1) = {s[1]} \cup Elems(s, 2)
        /\ \A y \in Elems(s, 2) : <<s[1], y>> \in R
    BY <1>1 DEF Elems, Ordered
  <1>5. QED
    BY <1>1, <1>2, <1>3, <1>4 DEF t

LEMMA TailElems ==
    ASSUME NEW S, NEW s \in Seq(S), s # <<>>
    PROVE  /\ Elems(s, 1) = {Head(s)} \cup Elems(Tail(s), 1)
           /\ Head(s) \in S /\ Tail(s) \in Seq(S)
  <1>1. PICK R : R = S \X S
    OBVIOUS
  <1>2. Ordered(R, s, 1)
    BY <1>1 DEF Ordered
  <1>3. Elems(s, 1) = {Head(s)} \cup Elems(Tail(s), 1)
    BY <1>2, ElemsTail
  <1>4. Head(s) \in S /\ Tail(s) \in Seq(S)
    OBVIOUS
  <1>5. QED
    BY <1>3, <1>4

\* A read of the pipe cuts it in two.
LEMMA ElemsSplit ==
    ASSUME NEW R, NEW S, NEW s \in Seq(S), NEW n \in Nat, n <= Len(s), Ordered(R, s, 1)
    PROVE  LET p == SubSeq(s, 1, n)
               q == SubSeq(s, n + 1, Len(s))
           IN /\ Elems(s, 1) = Elems(p, 1) \cup Elems(q, 1)
              /\ Ordered(R, p, 1) /\ Ordered(R, q, 1)
              /\ Cross(R, Elems(p, 1), Elems(q, 1))
  <1> DEFINE p == SubSeq(s, 1, n)
             q == SubSeq(s, n + 1, Len(s))
             m == Len(s)
  <1>1. /\ m \in Nat /\ Len(p) = n /\ Len(q) = m - n
        /\ \A i \in 1 .. n : p[i] = s[i]
        /\ \A i \in 1 .. m - n : q[i] = s[n + i]
    OBVIOUS
  <1> HIDE DEF p, q
  <1>2. Elems(p, 1) = {s[i] : i \in 1 .. n}
    BY <1>1 DEF Elems
  <1>3. Elems(q, 1) = {s[i] : i \in n + 1 .. m}
    <2>1. \A x \in Elems(q, 1) : x \in {s[i] : i \in n + 1 .. m}
      BY <1>1 DEF Elems
    <2>2. ASSUME NEW i \in n + 1 .. m PROVE s[i] \in Elems(q, 1)
      <3>1. i - n \in 1 .. m - n /\ n + (i - n) = i
        BY <1>1
      <3>2. q[i - n] = s[i]
        BY <3>1, <1>1
      <3>3. QED
        BY <3>1, <3>2, <1>1 DEF Elems
    <2>3. QED
      BY <2>1, <2>2
  <1>4. Elems(s, 1) = Elems(p, 1) \cup Elems(q, 1)
    <2>1. ASSUME NEW i \in 1 .. m PROVE i \in 1 .. n \/ i \in n + 1 .. m
      BY <1>1
    <2>2. \A i \in (1 .. n) \cup (n + 1 .. m) : i \in 1 .. m
      BY <1>1
    <2>3. Elems(s, 1) = {s[i] : i \in 1 .. m}
      BY DEF Elems
    <2>4. QED
      BY <1>2, <1>3, <2>1, <2>2, <2>3
  <1>5. Ordered(R, p, 1)
    BY <1>1 DEF Ordered
  <1>6. Ordered(R, q, 1)
    <2> SUFFICES ASSUME NEW i \in 1 .. Len(q), NEW j \in 1 .. Len(q), i < j
                 PROVE  <<q[i], q[j]>> \in R
      BY DEF Ordered
    <2>1. n + i \in 1 .. m /\ n + j \in 1 .. m /\ n + i < n + j
      BY <1>1
    <2>2. <<s[n + i], s[n + j]>> \in R
      BY <2>1 DEF Ordered
    <2>3. QED
      BY <2>2, <1>1
  <1>7. Cross(R, Elems(p, 1), Elems(q, 1))
    BY <1>1, <1>2, <1>3 DEF Cross, Ordered
  <1>8. QED
    BY <1>4, <1>5, <1>6, <1>7 DEF p, q

-----------------------------------------------------------------------------
\* What the steps of the system do to the line.

LEMMA PushPipe ==
    ASSUME NEW R, NEW S, NEW a, NEW k, NEW b, NEW c, NEW d \in Seq(S), NEW f \in S,
           LineOrdered(R, a, k, b, c, d),
           Cross(R, Elems(a, k), {f}), Cross(R, Elems(b, 1), {f}),
           Cross(R, Elems(c, 1), {f}), Cross(R, Elems(d, 1), {f})
    PROVE  LineOrdered(R, a, k, b, c, Append(d, f))
  <1>0. /\ Ordered(R, d, 1) /\ \A x \in Elems(d, 1) : <<x, f>> \in R
        /\ 1 \in Nat \ {0} /\ 1 <= Len(d) + 1
    BY DEF LineOrdered, Cross
  <1>1. /\ Elems(Append(d, f), 1) = Elems(d, 1) \cup {f}
        /\ Ordered(R, Append(d, f), 1)
    BY <1>0, ElemsAppend
  <1>2. QED
    BY <1>1 DEF LineOrdered, Cross

LEMMA PushLocal ==
    ASSUME NEW R, NEW S, NEW a, NEW k, NEW b, NEW c \in Seq(S), NEW d, NEW f \in S,
           LineOrdered(R, a, k, b, c, d),
           Cross(R, Elems(a, k), {f}), Cross(R, Elems(b, 1), {f}),
           Cross(R, Elems(c, 1), {f}), Cross(R, {f}, Elems(d, 1))
    PROVE  LineOrdered(R, a, k, b, Append(c, f), d)
  <1>0. /\ Ordered(R, c, 1) /\ \A x \in Elems(c, 1) : <<x, f>> \in R
        /\ 1 \in Nat \ {0} /\ 1 <= Len(c) + 1
    BY DEF LineOrdered, Cross
  <1>1. /\ Elems(Append(c, f), 1) = Elems(c, 1) \cup {f}
        /\ Ordered(R, Append(c, f), 1)
    BY <1>0, ElemsAppend
  <1>2. QED
    BY <1>1 DEF LineOrdered, Cross

LEMMA PushTodo ==
    ASSUME NEW R, NEW S, NEW a \in Seq(S), NEW k \in Nat \ {0}, k <= Len(a) + 1,
           NEW b, NEW c, NEW d, NEW f \in S,
           LineOrdered(R, a, k, b, c, d),
           Cross(R, Elems(a, k), {f}), Cross(R, {f}, Elems(b, 1)),
           Cross(R, {f}, Elems(c, 1)), Cross(R, {f}, Elems(d, 1))
    PROVE  LineOrdered(R, Append(a, f), k, b, c, d)
  <1>0. Ordered(R, a, k) /\ \A x \in Elems(a, k) : <<x, f>> \in R
    BY DEF LineOrdered, Cross
  <1>1. /\ Elems(Append(a, f), k) = Elems(a, k) \cup {f}
        /\ Ordered(R, Append(a, f), k)
    BY <1>0, ElemsAppend
  <1>2. QED
    BY <1>1 DEF LineOrdered, Cross

LEMMA NextTodo ==
    ASSUME NEW R, NEW a, Len(a) \in Nat, NEW k \in Nat \ {0}, k <= Len(a),
           NEW n \in Nat, k < n, n <= k + 1, NEW b, NEW c, NEW d,
           LineOrdered(R, a, k, b, c, d)
    PROVE  /\ LineOrdered(R, a, n, b, c, d)
           /\ Cross(R, {a[k]}, Elems(a, n)) /\ Cross(R, {a[k]}, Elems(b, 1))
           /\ Cross(R, {a[k]}, Elems(c, 1)) /\ Cross(R, {a[k]}, Elems(d, 1))
  <1>1. /\ Elems(a, k) = {a[k]} \cup Elems(a, n)
        /\ Ordered(R, a, n)
        /\ \A y \in Elems(a, n) : <<a[k], y>> \in R
    <2>1. Ordered(R, a, k)
      BY DEF LineOrdered
    <2>2. QED
      BY <2>1, ElemsNext
  <1>2. QED
    BY <1>1 DEF LineOrdered, Cross

LEMMA NextRequest ==
    ASSUME NEW R, NEW S, NEW a, NEW k, NEW b \in Seq(S), b # <<>>, NEW c, NEW d,
           LineOrdered(R, a, k, b, c, d)
    PROVE  /\ LineOrdered(R, a, k, Tail(b), c, d)
           /\ Cross(R, Elems(a, k), {Head(b)}) /\ Cross(R, {Head(b)}, Elems(Tail(b), 1))
           /\ Cross(R, {Head(b)}, Elems(c, 1)) /\ Cross(R, {Head(b)}, Elems(d, 1))
  <1>1. /\ Elems(b, 1) = {Head(b)} \cup Elems(Tail(b), 1)
        /\ Ordered(R, Tail(b), 1)
        /\ \A y \in Elems(Tail(b), 1) : <<Head(b), y>> \in R
    BY ElemsTail DEF LineOrdered
  <1>2. QED
    BY <1>1 DEF LineOrdered, Cross

\* wait() takes its own queue; the batch and the requests of the last round are gone.
LEMMA TakeLocal ==
    ASSUME NEW R, NEW a, NEW k, NEW b, NEW c, NEW d, LineOrdered(R, a, k, b, c, d)
    PROVE  LineOrdered(R, <<>>, 1, c, <<>>, d) /\ Elems(<<>>, 1) = {}
  <1>1. Elems(<<>>, 1) = {} /\ Ordered(R, <<>>, 1)
    BY ElemsEmpty
  <1>2. QED
    BY <1>1 DEF LineOrdered, Cross

\* wait() takes what one read() of the pipe returns.
LEMMA TakePiped ==
    ASSUME NEW R, NEW S, NEW a, NEW k, NEW c, NEW d \in Seq(S), NEW n \in Nat, n <= Len(d),
           LineOrdered(R, a, k, <<>>, c, d), Elems(c, 1) = {}
    PROVE  /\ LineOrdered(R, a, k, SubSeq(d, 1, n), c, SubSeq(d, n + 1, Len(d)))
           /\ Elems(d, 1) = Elems(SubSeq(d, 1, n), 1) \cup Elems(SubSeq(d, n + 1, Len(d)), 1)
  <1> DEFINE p == SubSeq(d, 1, n)
             q == SubSeq(d, n + 1, Len(d))
  <1>1. /\ Elems(d, 1) = Elems(p, 1) \cup Elems(q, 1)
        /\ Ordered(R, p, 1) /\ Ordered(R, q, 1)
        /\ Cross(R, Elems(p, 1), Elems(q, 1))
    BY ElemsSplit DEF LineOrdered
  <1> HIDE DEF p, q
  <1>2. LineOrdered(R, a, k, p, c, q)
    BY <1>1 DEF LineOrdered, Cross
  <1>3. QED
    BY <1>1, <1>2 DEF p, q

-----------------------------------------------------------------------------
\* The invariant of the reactor with its table, for any callers.

LineTypeOK ==
    /\ return_events \in Seq(Events) /\ ctl \in Seq(Events)
    /\ wait_events_ \in Seq(Events) /\ pipe \in Seq(Events)
    /\ open \in [Handles -> Conns \cup {Null}]
    /\ wait_pc \in {"out", "drain", "epoll", "scan", "pipe"}
    /\ callback \in [name : Callbacks, handler : Conns] \cup {NoCallback}
    /\ removing \subseteq Conns

\* While the loop is inside wait() its queue holds nothing but a STOP that the thread that
\* made the Reactor has queued too late for it to be seen.
Late == wait_events_ = <<>> \/ (wait_events_ = <<StopEvent>> /\ stop_raised = "late")

\* Where the thread is says what is in its hands.
Control ==
    /\ run_pc # "wait" => wait_pc = "out"
    /\ wait_pc \notin {"drain", "pipe"} => ctl = <<>>
    /\ wait_pc \in {"epoll", "scan", "pipe"} => Late
    /\ run_pc = "wait" => index = 1
    /\ run_pc \notin {"wait", "dispatch"} => index > Len(return_events)
    /\ run_pc # "timeouts" => expired = {}
    /\ callback # NoCallback =>
         \/ run_pc = "shutdown" /\ callback.name = "handle_shutdown"
         \/ run_pc \in {"timeouts", "dispatch"} /\ callback.name # "handle_shutdown"
    /\ \A c \in Conns : stage[c] = "shutdown" => run_pc \in {"shutdown", "stopped"}

\* Before the first wait() nobody is registered; afterwards only the loop's own thread
\* queues without the pipe.
Started ==
    wait_thread_id_ # Loop =>
      /\ run_pc \in {"start", "top"}
      /\ \A c \in Conns : stage[c] \in {"none", "opened", "raised"}
      /\ \A e \in Line : e.event \in {"REGISTER_READ", "STOP"}

\* A socket stays open until its handler has been told handle_removed, and no longer.
StageOf(name) ==
    IF name = "handle_removed" THEN "removed"
    ELSE IF name = "handle_shutdown" THEN "shutdown" ELSE "registered"
HasSocket(c) == io_handle_[c] \in Handles /\ open[io_handle_[c]] = c
Lifecycle ==
    /\ \A c \in Conns : stage[c] \in {"opened", "raised", "registered", "shutdown"} => HasSocket(c)
    /\ callback # NoCallback =>
         HasSocket(callback.handler) /\ stage[callback.handler] = StageOf(callback.name)

\* What a request or report in the line says of its connection is true, and it is the
\* one in the table if any is.
Names(e) == e.sock \in Conns /\ e.data = e.sock /\ io_handle_[e.sock] = e.io_handle
EventOK(e) ==
    /\ IsRegister(e) => Names(e) /\ e.return /\ stage[e.sock] = "raised"
    /\ IsRemoval(e) => Names(e) /\ stage[e.sock] \in {"registered", "removed", "shutdown"}
    /\ (IsIo(e) \/ IsRemoval(e)) /\ Registered(e.io_handle) => handlers_[e.io_handle] = e.sock
LineOK ==
    /\ \A e \in Line : EventOK(e)
    /\ \A e \in Todo : e.return

TableOK ==
    /\ TableIsTrue /\ IsFiniteSet(DOMAIN handlers_) /\ TimersOfLiveHandlers
    /\ \A h \in DOMAIN handlers_ : handlers_[h] \in closed => h \in handle_close_call_
    /\ \A c \in closed : stage[c] \in {"registered", "removed", "shutdown"}

\* Behind the registration of a new owner of a handle there is no other registration and
\* no removal for that handle, and what is reported is about the new owner.
NewOwner ==
    {p \in Events \X Events :
       IsRegister(p[1]) /\ p[2].io_handle = p[1].io_handle =>
         /\ ~IsRegister(p[2]) /\ ~IsRemoval(p[2])
         /\ IsIo(p[2]) => p[2].sock = p[1].sock}

TableInv ==
    /\ TypeOK /\ LineTypeOK /\ Control /\ Started /\ Lifecycle /\ LineOK /\ TableOK
    /\ InLine(NewOwner)

-----------------------------------------------------------------------------
\* The line under raise_event and dispatch().

LEMMA RaiseLine ==
    ASSUME NEW R, LineTypeOK, InLine(R), NEW t, NEW f \in Events, Raise(t, f),
           UNCHANGED <<return_events, index, ctl, wait_pc>>,
           t # wait_thread_id_ => \A x \in Line : <<x, f>> \in R,
           t = wait_thread_id_ =>
             /\ wait_pc = "out"
             /\ \A x \in Todo \cup Elems(ctl, 1) \cup Elems(Queue, 1) : <<x, f>> \in R
             /\ \A y \in Elems(pipe, 1) : <<f, y>> \in R
    PROVE  /\ InLine(R)' /\ Todo' = Todo /\ Behind' = Behind \cup {f}
           /\ wait_events_' \in Seq(Events) /\ pipe' \in Seq(Events)
  <1>1. CASE t # wait_thread_id_
    <2>1. pipe' = Append(pipe, f) /\ UNCHANGED wait_events_
      BY <1>1 DEF Raise
    <2>2. UNCHANGED <<Todo, Queue, ctl>>
      BY <2>1 DEF Todo, Queue
    <2>3. pipe \in Seq(Events) /\ LineOrdered(R, return_events, index, ctl, Queue, pipe)
      BY DEF LineTypeOK, InLine
    <2>4. /\ Cross(R, Elems(return_events, index), {f}) /\ Cross(R, Elems(ctl, 1), {f})
          /\ Cross(R, Elems(Queue, 1), {f}) /\ Cross(R, Elems(pipe, 1), {f})
      BY <1>1 DEF Line, Todo, Behind, Cross
    <2>5. LineOrdered(R, return_events, index, ctl, Queue, Append(pipe, f))
      BY <2>3, <2>4, PushPipe
    <2>6. Elems(Append(pipe, f), 1) = Elems(pipe, 1) \cup {f}
      BY <2>3, AppendElems
    <2>7. QED
      BY <2>1, <2>2, <2>3, <2>5, <2>6 DEF InLine, Behind, LineTypeOK
  <1>2. CASE t = wait_thread_id_
    <2>1. wait_events_' = Append(wait_events_, f) /\ UNCHANGED pipe
      BY <1>2 DEF Raise
    <2>2. UNCHANGED <<Todo, ctl, pipe>> /\ Queue = wait_events_ /\ Queue' = Append(Queue, f)
      BY <1>2, <2>1 DEF Todo, Queue
    <2>3. Queue \in Seq(Events) /\ LineOrdered(R, return_events, index, ctl, Queue, pipe)
      BY <2>2 DEF LineTypeOK, InLine
    <2>4. /\ Cross(R, Elems(return_events, index), {f}) /\ Cross(R, Elems(ctl, 1), {f})
          /\ Cross(R, Elems(Queue, 1), {f}) /\ Cross(R, {f}, Elems(pipe, 1))
      BY <1>2 DEF Todo, Cross
    <2>5. LineOrdered(R, return_events, index, ctl, Append(Queue, f), pipe)
      BY <2>3, <2>4, PushLocal
    <2>6. Elems(Append(Queue, f), 1) = Elems(Queue, 1) \cup {f}
      BY <2>3, AppendElems
    <2>7. QED
      BY <2>1, <2>2, <2>3, <2>5, <2>6 DEF InLine, Behind, LineTypeOK
  <1>3. QED
    BY <1>1, <1>2

LEMMA DispatchLine ==
    ASSUME NEW R, TypeOK, LineTypeOK, InLine(R), index <= Len(return_events),
           index' = index + 1, UNCHANGED <<return_events, ctl, wait_pc>>
    PROVE  /\ return_events[index] \in Events
           /\ Todo = {return_events[index]} \cup Todo'
           /\ \A y \in Todo' \cup Behind : <<return_events[index], y>> \in R
           /\ LineOrdered(R, return_events, index', ctl, Queue, pipe)
  <1>1. index \in Nat \ {0} /\ return_events \in Seq(Events) /\ Len(return_events) \in Nat
    BY DEF TypeOK, LineTypeOK
  <1>2. index' \in Nat /\ index < index' /\ index' <= index + 1
    BY <1>1
  <1>3. LineOrdered(R, return_events, index, ctl, Queue, pipe)
    BY DEF InLine
  <1>4. LineOrdered(R, return_events, index', ctl, Queue, pipe)
    BY <1>1, <1>2, <1>3, NextTodo
  <1>5. LET e == return_events[index]
        IN /\ Cross(R, {e}, Elems(return_events, index')) /\ Cross(R, {e}, Elems(ctl, 1))
           /\ Cross(R, {e}, Elems(Queue, 1)) /\ Cross(R, {e}, Elems(pipe, 1))
    BY <1>1, <1>2, <1>3, NextTodo
  <1>6. Elems(return_events, index) = {return_events[index]} \cup Elems(return_events, index')
    BY <1>1 DEF Elems
  <1>7. Todo' = Elems(return_events, index')
    BY DEF Todo
  <1>8. QED
    BY <1>1, <1>4, <1>5, <1>6, <1>7 DEF Todo, Behind, Cross

LEMMA DispatchQuiet ==
    ASSUME NEW R, TypeOK, LineTypeOK, InLine(R), index <= Len(return_events),
           index' = index + 1, UNCHANGED <<return_events, ctl, wait_pc, queues>>
    PROVE  InLine(R)' /\ Behind' = Behind
  <1>1. Queue' = Queue /\ pipe' = pipe
    BY DEF Queue, queues
  <1>2. QED
    BY <1>1, DispatchLine DEF InLine, Behind

LEMMA DispatchRaise ==
    ASSUME NEW R, TypeOK, LineTypeOK, InLine(R), index <= Len(return_events),
           index' = index + 1, UNCHANGED <<return_events, ctl, wait_pc>>,
           wait_pc = "out", wait_thread_id_ = Loop, NEW f \in Events, Raise(Loop, f),
           \A x \in Todo' \cup Elems(ctl, 1) \cup Elems(Queue, 1) : <<x, f>> \in R,
           \A y \in Elems(pipe, 1) : <<f, y>> \in R
    PROVE  /\ InLine(R)' /\ Behind' = Behind \cup {f}
           /\ wait_events_' \in Seq(Events) /\ pipe' = pipe
  <1>1. wait_events_' = Append(wait_events_, f) /\ UNCHANGED pipe
    BY DEF Raise
  <1>2. UNCHANGED <<ctl, pipe>> /\ Queue = wait_events_ /\ Queue' = Append(Queue, f)
    BY <1>1 DEF Queue
  <1>3. Queue \in Seq(Events) /\ LineOrdered(R, return_events, index', ctl, Queue, pipe)
    BY <1>2, DispatchLine DEF LineTypeOK
  <1>4. /\ Cross(R, Elems(return_events, index'), {f}) /\ Cross(R, Elems(ctl, 1), {f})
        /\ Cross(R, Elems(Queue, 1), {f}) /\ Cross(R, {f}, Elems(pipe, 1))
    BY DEF Todo, Cross
  <1>5. LineOrdered(R, return_events, index', ctl, Append(Queue, f), pipe)
    BY <1>3, <1>4, PushLocal
  <1>6. Elems(Append(Queue, f), 1) = Elems(Queue, 1) \cup {f}
    BY <1>3, AppendElems
  <1>7. QED
    BY <1>1, <1>2, <1>3, <1>5, <1>6 DEF InLine, Behind


\* wait() applies the request e at the front and returns it or not.
LEMMA ProcessLine ==
    ASSUME NEW R, TypeOK, LineTypeOK, InLine(R), process_ctrl_event, UNCHANGED index,
           index <= Len(return_events) + 1, NEW e, e = Head(ctl)
    PROVE  /\ e \in Events /\ ctl # <<>> /\ wait_pc \in {"drain", "pipe"}
           /\ Elems(ctl, 1) = {e} \cup Elems(ctl', 1)
           /\ UNCHANGED <<Queue, pipe>>
           /\ Cross(R, Todo, {e}) /\ Cross(R, {e}, Behind')
           /\ InLine(R)' /\ Todo' = IF e.return THEN Todo \cup {e} ELSE Todo
           /\ return_events' \in Seq(Events) /\ ctl' \in Seq(Events)
  <1>1. /\ wait_pc \in {"drain", "pipe"} /\ ctl # <<>> /\ ctl' = Tail(ctl)
        /\ return_events' = IF e.return THEN Append(return_events, e) ELSE return_events
        /\ UNCHANGED <<wait_events_, pipe, wait_pc>>
    BY DEF process_ctrl_event, queues
  <1>2. UNCHANGED <<Queue, pipe>> /\ Queue = <<>>
    BY <1>1 DEF Queue
  <1>3. return_events \in Seq(Events) /\ ctl \in Seq(Events) /\ index \in Nat \ {0}
    BY DEF TypeOK, LineTypeOK
  <1>4. e \in Events /\ ctl' \in Seq(Events) /\ Elems(ctl, 1) = {e} \cup Elems(ctl', 1)
    BY <1>1, <1>3, TailElems
  <1>5. LineOrdered(R, return_events, index, ctl, Queue, pipe)
    BY DEF InLine
  <1>6. LineOrdered(R, return_events, index, ctl', Queue, pipe)
    BY <1>1, <1>3, <1>5, NextRequest
  <1>7. /\ Cross(R, Elems(return_events, index), {e}) /\ Cross(R, {e}, Elems(ctl', 1))
        /\ Cross(R, {e}, Elems(Queue, 1)) /\ Cross(R, {e}, Elems(pipe, 1))
    BY <1>1, <1>3, <1>5, NextRequest
  <1>8. LineOrdered(R, Append(return_events, e), index, ctl', Queue, pipe)
    BY <1>3, <1>4, <1>6, <1>7, PushTodo
  <1>9. Elems(Append(return_events, e), index) = Elems(return_events, index) \cup {e}
    BY <1>3, <1>4, AppendElemsFrom
  <1>10. InLine(R)'
    BY <1>1, <1>2, <1>6, <1>8 DEF InLine
  <1>11. Cross(R, Todo, {e}) /\ Cross(R, {e}, Behind')
    BY <1>2, <1>7 DEF Todo, Behind, Cross
  <1>12. Todo' = IF e.return THEN Todo \cup {e} ELSE Todo
    BY <1>1, <1>9 DEF Todo
  <1>13. return_events' \in Seq(Events)
    BY <1>1, <1>3, <1>4
  <1>14. QED
    BY <1>1, <1>2, <1>4, <1>10, <1>11, <1>12, <1>13

\* wait() takes up what its own thread has queued.
LEMMA BeginLine ==
    ASSUME NEW R, TypeOK, LineTypeOK, InLine(R), WaitBegin(ClearedBatch), index' = 1,
           ctl = <<>>, index > Len(return_events)
    PROVE  /\ InLine(R)' /\ Todo' = {} /\ Todo = {} /\ Line' = Line
           /\ Elems(ctl', 1) = Elems(Queue, 1) /\ Elems(Queue', 1) = {} /\ UNCHANGED pipe
           /\ ctl' \in Seq(Events) /\ return_events' = <<>> /\ wait_events_' = wait_events_
  <1>1. /\ wait_pc = "out" /\ wait_pc' = "drain" /\ ctl' = wait_events_ /\ return_events' = <<>>
        /\ UNCHANGED <<wait_events_, pipe>>
    BY DEF WaitBegin, ClearedBatch, queues
  <1>2. Queue = wait_events_ /\ Queue' = <<>>
    BY <1>1 DEF Queue
  <1>3. LineOrdered(R, return_events, index, ctl, Queue, pipe)
    BY DEF InLine
  <1>4. LineOrdered(R, <<>>, 1, Queue, <<>>, pipe)
    BY <1>3, TakeLocal
  <1>5. Elems(<<>>, 1) = {} /\ Elems(return_events, index) = {}
    BY DEF TypeOK, LineTypeOK, Elems
  <1>6. InLine(R)'
    BY <1>1, <1>2, <1>4 DEF InLine
  <1>7. Todo' = {} /\ Todo = {}
    BY <1>1, <1>5 DEF Todo
  <1>8. QED
    BY <1>1, <1>2, <1>5, <1>6, <1>7 DEF Line, Behind, LineTypeOK

\* wait() takes up what one read() of the pipe returned.
LEMMA ScanPipeLine ==
    ASSUME NEW R, LineTypeOK, InLine(R), ScanPipe, ctl = <<>>, UNCHANGED index
    PROVE  /\ InLine(R)' /\ Todo' = Todo /\ Line' = Line
           /\ Elems(ctl', 1) \subseteq Elems(pipe, 1) /\ Elems(pipe', 1) \subseteq Elems(pipe, 1)
           /\ ctl' \in Seq(Events) /\ pipe' \in Seq(Events) /\ Queue' = <<>>
  <1>1. PICK n : n = IF Len(pipe) < PipeRead THEN Len(pipe) ELSE PipeRead
    OBVIOUS
  <1>2. /\ wait_pc = "scan" /\ wait_pc' = "pipe" /\ ctl' = SubSeq(pipe, 1, n)
        /\ pipe' = SubSeq(pipe, PipeRead + 1, Len(pipe))
        /\ UNCHANGED <<wait_events_, return_events>>
    BY <1>1 DEF ScanPipe, LeftInPipe
  <1>3. pipe \in Seq(Events) /\ Len(pipe) \in Nat /\ PipeRead \in Nat /\ n \in Nat /\ n <= Len(pipe)
    BY <1>1, DemuxerConstants DEF LineTypeOK
  <1>4. pipe' = SubSeq(pipe, n + 1, Len(pipe))
    <2>1. CASE Len(pipe) < PipeRead
      <3>1. n = Len(pipe)
        BY <1>1, <2>1
      <3>2. SubSeq(pipe, n + 1, Len(pipe)) = <<>> /\ SubSeq(pipe, PipeRead + 1, Len(pipe)) = <<>>
        BY <1>3, <2>1, <3>1
      <3>3. QED
        BY <1>2, <3>2
    <2>2. CASE ~(Len(pipe) < PipeRead)
      BY <1>1, <1>2, <2>2
    <2>3. QED
      BY <2>1, <2>2
  <1>5. Queue = <<>> /\ Queue' = <<>> /\ Elems(Queue, 1) = {}
    BY <1>2 DEF Queue, Elems
  <1>6. LineOrdered(R, return_events, index, <<>>, Queue, pipe)
    BY DEF InLine
  <1>7. /\ LineOrdered(R, return_events, index, SubSeq(pipe, 1, n), Queue, SubSeq(pipe, n + 1, Len(pipe)))
    BY <1>3, <1>5, <1>6, TakePiped
  <1>8. Elems(pipe, 1) = Elems(SubSeq(pipe, 1, n), 1) \cup Elems(SubSeq(pipe, n + 1, Len(pipe)), 1)
    BY <1>3, <1>5, <1>6, TakePiped
  <1>9. InLine(R)'
    BY <1>2, <1>4, <1>5, <1>7 DEF InLine
  <1>10. ctl' \in Seq(Events) /\ pipe' \in Seq(Events)
    BY <1>2, <1>3, <1>4
  <1>11. Todo' = Todo
    BY <1>2 DEF Todo
  <1>12. Elems(<<>>, 1) = {}
    BY DEF Elems
  <1>13. QED
    BY <1>2, <1>4, <1>5, <1>8, <1>9, <1>10, <1>11, <1>12 DEF Line, Behind

\* One report of ScanHandle.
Reported(R, a, b, c, d, e, cond, z) ==
    /\ z \in Seq(Events) /\ LineOrdered(R, z, 1, b, c, d)
    /\ \A x \in Elems(a, 1) : x \in Elems(z, 1)
    /\ \A x \in Elems(z, 1) : x \in Elems(a, 1) \/ (cond /\ x = e)
LEMMA ReportLine ==
    ASSUME NEW R, NEW a \in Seq(Events), NEW b, NEW c, NEW d, NEW e \in Events, NEW cond,
           LineOrdered(R, a, 1, b, c, d),
           Cross(R, Elems(a, 1), {e}), Cross(R, {e}, Elems(b, 1)),
           Cross(R, {e}, Elems(c, 1)), Cross(R, {e}, Elems(d, 1)),
           NEW z, z = a \o (IF cond THEN <<e>> ELSE <<>>)
    PROVE  Reported(R, a, b, c, d, e, cond, z)
  <1>1. CASE cond
    <2>1. z = Append(a, e)
      BY <1>1
    <2>2. 1 \in Nat \ {0} /\ 1 <= Len(a) + 1
      OBVIOUS
    <2>3. LineOrdered(R, Append(a, e), 1, b, c, d)
      BY <2>2, PushTodo
    <2>4. Elems(Append(a, e), 1) = Elems(a, 1) \cup {e}
      BY AppendElems
    <2>5. Append(a, e) \in Seq(Events)
      OBVIOUS
    <2>6. QED
      BY <1>1, <2>1, <2>3, <2>4, <2>5 DEF Reported
  <1>2. CASE ~cond
    <2>1. z = a
      BY <1>2
    <2>2. QED
      BY <2>1 DEF Reported
  <1>3. QED
    BY <1>1, <1>2

\* Up to four reports of handle h are added to the batch, each related by R to what is in
\* the line and to the others.
Report(name, h) == Event(name, h, Null, TRUE, open[h])
LEMMA ScanLine ==
    ASSUME NEW R, LineTypeOK, InLine(R), NEW h \in Handles, ScanHandle(h), index = 1, UNCHANGED index,
           ctl = <<>>,
           \A n \in IoEvents : \A x \in Behind : <<Report(n, h), x>> \in R,
           \A n \in IoEvents : \A x \in Todo : <<x, Report(n, h)>> \in R,
           \A n, m \in IoEvents : n # m => <<Report(n, h), Report(m, h)>> \in R
    PROVE  /\ InLine(R)' /\ Behind' = Behind /\ return_events' \in Seq(Events)
           /\ Todo \subseteq Todo'
           /\ \A x \in Todo' : \/ x \in Todo
                               \/ \E n \in IoEvents :
                                    /\ x = Report(n, h) /\ x \in Events
                                    /\ n = "WRITE" => "out" \in scan[h]
  <1>1. PICK o : o = open[h]
    OBVIOUS
  <1>2. o \in Conns \cup {Null}
    BY <1>1 DEF LineTypeOK
  <1>3. PICK r, w, x, c :
          /\ r = Event("READ", h, Null, TRUE, o) /\ w = Event("WRITE", h, Null, TRUE, o)
          /\ x = Event("ERROR", h, Null, TRUE, o) /\ c = Event("CLOSE", h, Null, TRUE, o)
    OBVIOUS
  <1>4. r \in Events /\ w \in Events /\ x \in Events /\ c \in Events
    BY <1>2, <1>3 DEF Events, Event, EventNames, IoEvents
  <1>5. /\ r = Report("READ", h) /\ w = Report("WRITE", h)
        /\ x = Report("ERROR", h) /\ c = Report("CLOSE", h)
    BY <1>1, <1>3 DEF Report
  <1>6. PICK p, q, u, v : /\ p = ("in" \in scan[h] /\ "in" \in level[h])
                          /\ q = ("out" \in scan[h] /\ ~("err" \in scan[h]))
                          /\ u = ("err" \in scan[h]) /\ v = ("hup" \in scan[h])
    OBVIOUS
  <1>7. PICK z0, z1, z2, z3, z4 :
          /\ z0 = return_events
          /\ z1 = z0 \o (IF p THEN <<r>> ELSE <<>>)
          /\ z2 = z1 \o (IF q THEN <<w>> ELSE <<>>)
          /\ z3 = z2 \o (IF u THEN <<x>> ELSE <<>>)
          /\ z4 = z3 \o (IF v THEN <<c>> ELSE <<>>)
    OBVIOUS
  <1>8. return_events' = z4 /\ UNCHANGED <<wait_events_, pipe, ctl, wait_pc>>
    BY <1>1, <1>3, <1>6, <1>7 DEF ScanHandle, queues
  <1>9. PICK b, y, d : b = ctl /\ y = Queue /\ d = pipe
    OBVIOUS
  <1>10. z0 \in Seq(Events) /\ LineOrdered(R, z0, 1, b, y, d) /\ Elems(z0, 1) = Todo
    BY <1>7, <1>9 DEF LineTypeOK, InLine, Todo
  <1>11. Behind = Elems(b, 1) \cup Elems(y, 1) \cup Elems(d, 1)
    BY <1>9 DEF Behind
  <1>12. /\ "READ" \in IoEvents /\ "WRITE" \in IoEvents /\ "ERROR" \in IoEvents /\ "CLOSE" \in IoEvents
    BY DEF IoEvents
  <1>13. \A e \in {r, w, x, c} :
           Cross(R, {e}, Elems(b, 1)) /\ Cross(R, {e}, Elems(y, 1)) /\ Cross(R, {e}, Elems(d, 1))
    BY <1>5, <1>11, <1>12 DEF Cross
  <1>14. /\ \A g \in Elems(z0, 1) : \A e \in {r, w, x, c} : <<g, e>> \in R
         /\ <<r, w>> \in R /\ <<r, x>> \in R /\ <<r, c>> \in R
         /\ <<w, x>> \in R /\ <<w, c>> \in R /\ <<x, c>> \in R
    BY <1>5, <1>10, <1>12
  <1>15. /\ z1 \in Seq(Events) /\ LineOrdered(R, z1, 1, b, y, d)
         /\ \A g \in Elems(z0, 1) : g \in Elems(z1, 1)
         /\ \A g \in Elems(z1, 1) : g \in Elems(z0, 1) \/ g = r
    <2>1. Cross(R, Elems(z0, 1), {r})
      BY <1>14 DEF Cross
    <2>2. Reported(R, z0, b, y, d, r, p, z1)
      BY <1>4, <1>7, <1>10, <1>13, <2>1, ReportLine
    <2>3. QED
      BY <2>2 DEF Reported
  <1>16. /\ z2 \in Seq(Events) /\ LineOrdered(R, z2, 1, b, y, d)
         /\ \A g \in Elems(z1, 1) : g \in Elems(z2, 1)
         /\ \A g \in Elems(z2, 1) : g \in Elems(z1, 1) \/ (q /\ g = w)
    <2>1. Cross(R, Elems(z1, 1), {w})
      BY <1>14, <1>15 DEF Cross
    <2>2. Reported(R, z1, b, y, d, w, q, z2)
      BY <1>4, <1>7, <1>13, <1>15, <2>1, ReportLine
    <2>3. QED
      BY <2>2 DEF Reported
  <1>17. /\ z3 \in Seq(Events) /\ LineOrdered(R, z3, 1, b, y, d)
         /\ \A g \in Elems(z2, 1) : g \in Elems(z3, 1)
         /\ \A g \in Elems(z3, 1) : g \in Elems(z2, 1) \/ g = x
    <2>1. Cross(R, Elems(z2, 1), {x})
      BY <1>14, <1>15, <1>16 DEF Cross
    <2>2. Reported(R, z2, b, y, d, x, u, z3)
      BY <1>4, <1>7, <1>13, <1>16, <2>1, ReportLine
    <2>3. QED
      BY <2>2 DEF Reported
  <1>18. /\ z4 \in Seq(Events) /\ LineOrdered(R, z4, 1, b, y, d)
         /\ \A g \in Elems(z3, 1) : g \in Elems(z4, 1)
         /\ \A g \in Elems(z4, 1) : g \in Elems(z3, 1) \/ g = c
    <2>1. Cross(R, Elems(z3, 1), {c})
      BY <1>14, <1>15, <1>16, <1>17 DEF Cross
    <2>2. Reported(R, z3, b, y, d, c, v, z4)
      BY <1>4, <1>7, <1>13, <1>17, <2>1, ReportLine
    <2>3. QED
      BY <2>2 DEF Reported
  <1>19. Queue' = Queue /\ Behind' = Behind
    BY <1>8 DEF Queue, Behind
  <1>20. InLine(R)' /\ Todo' = Elems(z4, 1)
    BY <1>8, <1>9, <1>18, <1>19 DEF InLine, Todo
  <1>21. Todo \subseteq Todo'
    BY <1>10, <1>15, <1>16, <1>17, <1>18, <1>20
  <1>22. \A g \in Todo' : g \in Todo \/ g = r \/ (q /\ g = w) \/ g = x \/ g = c
    BY <1>10, <1>15, <1>16, <1>17, <1>18, <1>20
  <1>23. \A g \in Todo' : \/ g \in Todo
                         \/ \E n \in IoEvents :
                              /\ g = Report(n, h) /\ g \in Events
                              /\ n = "WRITE" => "out" \in scan[h]
    BY <1>4, <1>5, <1>6, <1>12, <1>22
  <1>24. QED
    BY <1>8, <1>18, <1>19, <1>20, <1>21, <1>23

-----------------------------------------------------------------------------
\* Preservation of TableInv, one lemma per group of actions.

LEMMA LineTyped ==
    ASSUME TypeOK, LineTypeOK
    PROVE  /\ Line \subseteq Events /\ Queue \in Seq(Events)
           /\ Elems(Queue, 1) \subseteq Line /\ Elems(pipe, 1) \subseteq Line
           /\ Elems(ctl, 1) \subseteq Line /\ Todo \subseteq Line /\ Behind \subseteq Line
  <1>1. Queue \in Seq(Events)
    BY DEF Queue, LineTypeOK
  <1>2. /\ Elems(Queue, 1) \subseteq Events /\ Elems(pipe, 1) \subseteq Events
        /\ Elems(ctl, 1) \subseteq Events
    BY <1>1 DEF LineTypeOK, Elems
  <1>3. Todo \subseteq Events
    BY DEF Todo, TypeOK, LineTypeOK, Elems
  <1>4. QED
    BY <1>1, <1>2, <1>3 DEF Line, Behind

\* A registration in the line is that of whoever has the handle open.
LEMMA RegisterOpen ==
    ASSUME TableInv, NEW e \in Line, IsRegister(e)
    PROVE  /\ e.io_handle \in Handles /\ e.sock = open[e.io_handle] /\ e.sock \in Conns
           /\ stage[e.sock] = "raised" /\ e.data = e.sock /\ io_handle_[e.sock] = e.io_handle
           /\ e.io_handle \notin DOMAIN handlers_
  <1>1. EventOK(e)
    BY DEF TableInv, LineOK
  <1>2. /\ e.sock \in Conns /\ stage[e.sock] = "raised" /\ io_handle_[e.sock] = e.io_handle
        /\ e.data = e.sock
    BY <1>1 DEF EventOK, Names
  <1>3. HasSocket(e.sock)
    BY <1>2 DEF TableInv, Lifecycle
  <1>4. e.io_handle \notin DOMAIN handlers_
    BY <1>2, <1>3 DEF HasSocket, TableInv, TableOK, TableIsTrue
  <1>5. QED
    BY <1>2, <1>3, <1>4 DEF HasSocket

LEMMA SameTable ==
    ASSUME TableInv,
           UNCHANGED <<handlers_, handler_count_, handle_close_call_, stage, closed, io_handle_, open>>,
           armed' \cup expired' \subseteq armed \cup expired
    PROVE  /\ TableOK'
           /\ \A e : EventOK(e) => EventOK(e)'
           /\ \A c \in Conns : HasSocket(c) => HasSocket(c)'
  BY DEF TableInv, TableOK, TableIsTrue, TimersOfLiveHandlers, EventOK, Names, Registered, HasSocket

\* Thread t raises f, which is no registration, and nothing else changes.
LEMMA RaiseKeeps ==
    ASSUME TableInv, NEW t, NEW f \in Events, Raise(t, f),
           ~IsRegister(f), EventOK(f), \A x \in Line : <<x, f>> \in NewOwner,
           t = wait_thread_id_ => wait_pc = "out",
           f.event = "STOP" \/ wait_thread_id_ = Loop,
           UNCHANGED <<inside_wait, kernel, return_events, run_pc, index, table, timers,
                       is_stop_event, stop_, io_handle_, stage, closed>>,
           callback' = callback \/ callback' = NoCallback,
           calls' \in Nat, removing' \subseteq Conns,
           stop_raised' \in StopStates, stop_raised = "late" => stop_raised' = "late"
    PROVE  TableInv'
  <1> USE DEF inside_wait, kernel, table, timers
  <1>1. TypeOK' 
    BY DEF TableInv, TypeOK
  <1>3. \A y \in Line : <<f, y>> \in NewOwner
    BY LineTyped DEF TableInv, NewOwner
  <1>4. /\ InLine(NewOwner)' /\ Todo' = Todo /\ Behind' = Behind \cup {f}
        /\ wait_events_' \in Seq(Events) /\ pipe' \in Seq(Events)
    <2>1. t # wait_thread_id_ => \A x \in Line : <<x, f>> \in NewOwner
      OBVIOUS
    <2>2. t = wait_thread_id_ =>
             /\ wait_pc = "out"
             /\ \A x \in Todo \cup Elems(ctl, 1) \cup Elems(Queue, 1) : <<x, f>> \in NewOwner
             /\ \A y \in Elems(pipe, 1) : <<f, y>> \in NewOwner
      BY <1>3, LineTyped DEF TableInv
    <2>3. UNCHANGED <<return_events, index, ctl, wait_pc>> /\ LineTypeOK /\ InLine(NewOwner)
      BY DEF TableInv
    <2>4. QED
      BY <2>1, <2>2, <2>3, RaiseLine
  <1>5. LineTypeOK'
    BY <1>4 DEF TableInv, LineTypeOK
  <1>6. Control'
    <2>1. t = wait_thread_id_ => UNCHANGED pipe
      BY DEF Raise
    <2>2. wait_pc \in {"epoll", "scan", "pipe"} => UNCHANGED wait_events_
      BY DEF Raise
    <2>3. QED
      BY <2>2 DEF TableInv, Control, Late
  <1>7. Line' = Line \cup {f}
    BY <1>4 DEF Line
  <1>8. Started'
    BY <1>7 DEF TableInv, Started
  <1>9. /\ TableOK' /\ \A e : EventOK(e) => EventOK(e)'
        /\ \A c \in Conns : HasSocket(c) => HasSocket(c)'
    BY SameTable
  <1>10. LineOK'
    BY <1>4, <1>7, <1>9 DEF TableInv, LineOK
  <1>11. Lifecycle'
    BY <1>9 DEF TableInv, Lifecycle, LineTypeOK
  <1>12. QED
    BY <1>1, <1>4, <1>5, <1>6, <1>8, <1>9, <1>10, <1>11 DEF TableInv

LEMMA RegisterKeeps ==
    ASSUME TableInv, NEW t \in Threads, NEW c \in Conns, register_event_handler(t, c)
    PROVE  TableInv'
  <1> USE DEF inside_wait, kernel, table, timers, stopping
  <1>0. PICK h, f : h = io_handle_[c] /\ f = Event("REGISTER_READ", h, c, TRUE, c)
    OBVIOUS
  <1>1. /\ stage[c] = "opened" /\ Raise(t, f)
        /\ stage' = [stage EXCEPT ![c] = "raised"]
        /\ UNCHANGED <<inside_wait, kernel, return_events, run_pc, index, table, timers, stopping,
                       callback, io_handle_, closed, removing, calls>>
    BY <1>0 DEF register_event_handler
  <1>2. h \in Handles /\ open[h] = c
    BY <1>0, <1>1 DEF TableInv, Lifecycle, HasSocket
  <1>3. f \in Events /\ IsRegister(f) /\ f.sock = c /\ f.data = c /\ f.return /\ f.io_handle = h
        /\ ~IsRemoval(f) /\ ~IsIo(f) /\ f.event = "REGISTER_READ"
    BY <1>0, <1>2 DEF Events, Event, EventNames, IsRegister, IsRemoval, IsIo, IoEvents
  <1>4. \A x \in Line : IsRegister(x) => x.io_handle # h
    BY <1>1, <1>2, RegisterOpen
  <1>5. \A x \in Line : <<x, f>> \in NewOwner
    BY <1>3, <1>4, LineTyped DEF NewOwner, TableInv
  <1>6. t = wait_thread_id_ =>
          /\ wait_pc = "out"
          /\ \A y \in Elems(pipe, 1) : <<f, y>> \in NewOwner
    <2> SUFFICES ASSUME t = wait_thread_id_
                 PROVE  wait_pc = "out" /\ \A y \in Elems(pipe, 1) : <<f, y>> \in NewOwner
      OBVIOUS
    <2>1. wait_thread_id_ # Loop
      BY DemuxerConstants
    <2>2. wait_pc = "out" /\ \A e \in Line : e.event \in {"REGISTER_READ", "STOP"}
      BY <2>1 DEF TableInv, Started, Control
    <2>3. \A y \in Elems(pipe, 1) : y \in Events /\ y \in Line
      BY LineTyped DEF TableInv
    <2>4. QED
      BY <2>2, <2>3, <1>3, <1>4 DEF NewOwner, IsRegister, IsRemoval, IsIo, IoEvents
  <1>7. /\ InLine(NewOwner)' /\ Todo' = Todo /\ Behind' = Behind \cup {f}
        /\ wait_events_' \in Seq(Events) /\ pipe' \in Seq(Events)
    <2>1. t # wait_thread_id_ => \A x \in Line : <<x, f>> \in NewOwner
      BY <1>5
    <2>2. t = wait_thread_id_ =>
             /\ wait_pc = "out"
             /\ \A x \in Todo \cup Elems(ctl, 1) \cup Elems(Queue, 1) : <<x, f>> \in NewOwner
             /\ \A y \in Elems(pipe, 1) : <<f, y>> \in NewOwner
      BY <1>5, <1>6, LineTyped DEF TableInv
    <2>3. UNCHANGED <<return_events, index, ctl, wait_pc>> /\ LineTypeOK /\ InLine(NewOwner)
      BY <1>1 DEF TableInv
    <2>4. QED
      BY <1>1, <1>3, <2>1, <2>2, <2>3, RaiseLine
  <1>8. TypeOK'
    BY <1>1 DEF TableInv, TypeOK, Stages
  <1>9. LineTypeOK'
    BY <1>1, <1>7 DEF TableInv, LineTypeOK
  <1>10. stage' \in [Conns -> Stages] /\ stage'[c] = "raised" /\ \A d \in Conns \ {c} : stage'[d] = stage[d]
    BY <1>1, <1>8 DEF TableInv, TypeOK
  <1>11. Control'
    <2>1. wait_pc \in {"epoll", "scan", "pipe"} => UNCHANGED wait_events_
      BY <1>1, <1>6 DEF Raise
    <2>2. QED
      BY <1>1, <1>10, <2>1 DEF TableInv, Control, Late
  <1>12. Line' = Line \cup {f}
    BY <1>7 DEF Line
  <1>13. Started'
    BY <1>1, <1>3, <1>10, <1>12 DEF TableInv, Started
  <1>14. ASSUME NEW e \in Line PROVE EventOK(e)'
    <2>1. EventOK(e)
      BY DEF TableInv, LineOK
    <2>2. QED
      BY <2>1, <1>1, <1>10 DEF EventOK, Names, Registered
  <1>15. EventOK(f)'
    BY <1>0, <1>1, <1>3, <1>10 DEF EventOK, Names
  <1>16. LineOK'
    BY <1>7, <1>12, <1>14, <1>15 DEF TableInv, LineOK
  <1>17. TableOK'
    BY <1>1, <1>10 DEF TableInv, TypeOK, TableOK, TableIsTrue, TimersOfLiveHandlers
  <1>18. Lifecycle'
    <2>1. callback # NoCallback => callback.handler \in Conns /\ callback.handler # c
      BY <1>1 DEF TableInv, Lifecycle, StageOf, LineTypeOK
    <2>2. QED
      BY <1>0, <1>1, <1>2, <1>10, <2>1 DEF TableInv, Lifecycle, HasSocket
  <1>19. QED
    BY <1>7, <1>8, <1>9, <1>11, <1>13, <1>16, <1>17, <1>18 DEF TableInv

\* Nothing is said of a handle that a call could be misunderstood by: the caller's
\* handler has its socket open and its registration is no longer in the line.
LEMMA CallEventOK ==
    ASSUME TableInv, NEW c \in Conns, NEW name \in CallNames, HasSocket(c),
           stage[c] \in {"registered", "removed", "shutdown"}
    PROVE  /\ CallEvent(name, c) \in Events /\ ~IsRegister(CallEvent(name, c))
           /\ EventOK(CallEvent(name, c))
           /\ \A x \in Line : <<x, CallEvent(name, c)>> \in NewOwner
  <1> DEFINE h == io_handle_[c]
             f == CallEvent(name, c)
  <1>1. h \in Handles /\ open[h] = c
    BY DEF HasSocket
  <1>2. /\ f \in Events /\ f.io_handle = h /\ f.sock = c /\ ~IsRegister(f) /\ ~IsIo(f)
        /\ IsRemoval(f) => f.data = c
    BY <1>1 DEF CallEvent, CallNames, Event, Events, EventNames, IsRegister, IsRemoval, IsIo, IoEvents
  <1> HIDE DEF f
  <1>3. \A x \in Line : IsRegister(x) => x.io_handle # h
    BY <1>1, RegisterOpen
  <1>4. \A x \in Line : <<x, f>> \in NewOwner
    BY <1>2, <1>3, LineTyped DEF NewOwner, TableInv
  <1>5. h \in DOMAIN handlers_ => handlers_[h] = c
    BY <1>1 DEF TableInv, TableOK, TableIsTrue
  <1>6. EventOK(f)
    BY <1>2, <1>5 DEF EventOK, Names, Registered
  <1>7. QED
    BY <1>2, <1>4, <1>6 DEF f

LEMMA CallKeeps ==
    ASSUME TableInv, NEW t \in Threads \cup {Loop}, NEW c \in Conns, NEW names \in SUBSET CallNames,
           Call(t, c, names), HasSocket(c), stage[c] \in {"registered", "removed", "shutdown"},
           t = Loop => run_pc \notin {"start", "top", "wait"}, wait_thread_id_ = Loop
    PROVE  TableInv'
  <1>1. PICK name \in names : Raise(t, CallEvent(name, c))
    BY DEF Call
  <1>2. PICK f : f = CallEvent(name, c)
    OBVIOUS
  <1>3. f \in Events /\ ~IsRegister(f) /\ EventOK(f) /\ \A x \in Line : <<x, f>> \in NewOwner
    BY <1>1, <1>2, CallEventOK
  <1>4. /\ UNCHANGED <<inside_wait, kernel, return_events, run_pc, index, table, timers,
                       is_stop_event, stop_, callback, io_handle_, stage, closed>>
        /\ calls' \in Nat /\ removing' \subseteq Conns
        /\ stop_raised' \in StopStates /\ stop_raised' = stop_raised
    BY DEF Call, TableInv, TypeOK, LineTypeOK, stopping
  <1>5. t = wait_thread_id_ => wait_pc = "out"
    BY DEF TableInv, Control
  <1>6. QED
    BY <1>1, <1>2, <1>3, <1>4, <1>5, RaiseKeeps

LEMMA RemoteCallKeeps ==
    ASSUME TableInv, NEW t \in Threads, NEW c \in Conns, RemoteCall(t, c)
    PROVE  TableInv'
  <1>1. stage[c] = "registered" /\ Call(t, c, RemoteCalls) /\ t # Loop
    BY DemuxerConstants DEF RemoteCall
  <1>2. HasSocket(c)
    BY <1>1 DEF TableInv, Lifecycle
  <1>3. wait_thread_id_ = Loop
    BY <1>1 DEF TableInv, Started
  <1>4. QED
    BY <1>1, <1>2, <1>3, CallKeeps, ReactorConstants

LEMMA LocalCallKeeps ==
    ASSUME TableInv, NEW c \in Conns, LocalCall(c)
    PROVE  TableInv'
  <1>1. /\ callback # NoCallback /\ callback.name # "handle_shutdown"
        /\ c = callback.handler \/ stage[c] = "registered"
        /\ Call(Loop, c, LocalCalls)
    BY DEF LocalCall
  <1>2. HasSocket(c) /\ stage[c] \in {"registered", "removed", "shutdown"}
    BY <1>1 DEF TableInv, Lifecycle, StageOf
  <1>3. run_pc \in {"timeouts", "dispatch"} /\ wait_thread_id_ = Loop
    BY <1>1 DEF TableInv, Control, Late, Started
  <1>4. QED
    BY <1>1, <1>2, <1>3, CallKeeps, ReactorConstants

LEMMA StopIsFree ==
    /\ StopEvent \in Events /\ StopEvent.event = "STOP"
    /\ ~IsRegister(StopEvent) /\ ~IsRemoval(StopEvent) /\ ~IsIo(StopEvent)
  BY DEF StopEvent, Event, Events, EventNames, IsRegister, IsRemoval, IsIo, IoEvents

LEMMA StopOK ==
    ASSUME TableInv
    PROVE  /\ EventOK(StopEvent)
           /\ \A x \in Line : <<x, StopEvent>> \in NewOwner /\ <<StopEvent, x>> \in NewOwner
  BY StopIsFree, LineTyped DEF EventOK, NewOwner, TableInv

LEMMA StopKeeps ==
    ASSUME TableInv, NEW t \in Threads, stop(t)
    PROVE  TableInv'
  <1>1. Raise(t, StopEvent) /\ t # Loop
    BY DemuxerConstants DEF stop
  <1>2. t = wait_thread_id_ => wait_pc = "out"
    BY <1>1 DEF TableInv, Started, Control
  <1>3. /\ UNCHANGED <<inside_wait, kernel, return_events, run_pc, index, table, timers,
                       is_stop_event, stop_, io_handle_, stage, closed>>
        /\ callback' = callback /\ calls' \in Nat /\ removing' \subseteq Conns
        /\ stop_raised' \in StopStates /\ stop_raised # "late"
    BY DEF stop, told, TableInv, TypeOK, LineTypeOK, StopStates
  <1>4. QED
    BY <1>1, <1>2, <1>3, StopIsFree, StopOK, RaiseKeeps

\* wait() returns: a STOP queued too late is in the line from here on.
LEMMA LateLine ==
    ASSUME NEW R, InLine(R), Queue = <<>>, Queue' \in {<<>>, <<StopEvent>>},
           UNCHANGED <<return_events, index, ctl, pipe>>,
           \A x \in Line : <<x, StopEvent>> \in R /\ <<StopEvent, x>> \in R
    PROVE  /\ InLine(R)' /\ Todo' = Todo
           /\ \A x \in Line' : x \in Line \/ x = StopEvent
           /\ \A x \in Behind' : x \in Behind \/ x = StopEvent
           /\ \A x \in Elems(Queue', 1) : x = StopEvent
  <1>1. Todo' = Todo /\ Elems(<<>>, 1) = {} /\ Elems(<<StopEvent>>, 1) = {StopEvent}
    BY DEF Todo, Elems
  <1>2. LineOrdered(R, return_events, index, ctl, <<>>, pipe)
    BY DEF InLine
  <1>3. CASE Queue' = <<>>
    BY <1>1, <1>2, <1>3 DEF InLine, Line, Behind
  <1>4. CASE Queue' = <<StopEvent>>
    <2>1. /\ Cross(R, Elems(return_events, index), {StopEvent}) /\ Cross(R, Elems(ctl, 1), {StopEvent})
          /\ Cross(R, Elems(<<>>, 1), {StopEvent}) /\ Cross(R, {StopEvent}, Elems(pipe, 1))
      BY <1>1 DEF Line, Todo, Behind, Cross
    <2>2. <<>> \in Seq(Events) /\ StopEvent \in Events /\ Append(<<>>, StopEvent) = <<StopEvent>>
      BY StopIsFree
    <2>3. LineOrdered(R, return_events, index, ctl, Append(<<>>, StopEvent), pipe)
      BY <1>2, <2>1, <2>2, PushLocal
    <2>4. QED
      BY <1>1, <1>4, <2>2, <2>3 DEF InLine, Line, Behind
  <1>5. QED
    BY <1>3, <1>4

LEMMA SameLine ==
    ASSUME UNCHANGED <<return_events, index, ctl, queues, wait_pc>>
    PROVE  /\ Todo' = Todo /\ Behind' = Behind /\ Line' = Line /\ Queue' = Queue
           /\ \A R : InLine(R)' <=> InLine(R)
  <1>1. Queue' = Queue /\ pipe' = pipe /\ ctl' = ctl
    BY DEF Queue, queues
  <1>2. QED
    BY <1>1 DEF Todo, Behind, Line, InLine

LEMMA AcceptorOpensKeeps ==
    ASSUME TableInv, NEW c \in Conns, NEW h \in Handles, AcceptorOpens(c, h)
    PROVE  TableInv'
  <1> USE DEF inside_wait, queues, table, timers, stopping
  <1>1. /\ stage[c] = "none" /\ open[h] = Null
        /\ open' = [open EXCEPT ![h] = c]
        /\ io_handle_' = [io_handle_ EXCEPT ![c] = h]
        /\ stage' = [stage EXCEPT ![c] = "opened"]
        /\ UNCHANGED <<inside_wait, queues, return_events, run_pc, index, table, timers,
                       stopping, callback, closed, removing, calls>>
    BY DEF AcceptorOpens, KernelOpen
  <1>2. TypeOK' /\ LineTypeOK'
    BY <1>1 DEF TableInv, TypeOK, LineTypeOK, Stages
  <1>3. /\ stage'[c] = "opened" /\ io_handle_'[c] = h /\ open'[h] = c
        /\ \A d \in Conns \ {c} : stage'[d] = stage[d] /\ io_handle_'[d] = io_handle_[d]
        /\ \A k \in Handles \ {h} : open'[k] = open[k]
    BY <1>1 DEF TableInv, TypeOK, LineTypeOK
  <1>4. Todo' = Todo /\ Line' = Line /\ InLine(NewOwner)'
    BY <1>1, SameLine DEF TableInv
  <1>5. Control' /\ Started'
    BY <1>1, <1>3, <1>4 DEF TableInv, Control, Late, Started
  <1>6. ASSUME NEW d \in Conns, HasSocket(d), d # c PROVE HasSocket(d)' /\ io_handle_[d] # h
    BY <1>1, <1>3, <1>6, DemuxerConstants DEF HasSocket
  <1>7. Lifecycle'
    <2>1. callback # NoCallback => callback.handler \in Conns \ {c}
      BY <1>1 DEF TableInv, Lifecycle, StageOf, LineTypeOK
    <2>2. HasSocket(c)'
      BY <1>3 DEF HasSocket
    <2>3. QED
      BY <1>1, <1>3, <1>6, <2>1, <2>2 DEF TableInv, Lifecycle
  <1>8. LineOK'
    <2>1. ASSUME NEW e \in Line PROVE EventOK(e)'
      <3>1. EventOK(e)
        BY DEF TableInv, LineOK
      <3>2. QED
        BY <3>1, <1>1, <1>3 DEF EventOK, Names, Registered
    <2>2. QED
      BY <1>4, <2>1 DEF TableInv, LineOK
  <1>9. TableOK'
    <2>1. ASSUME NEW k \in DOMAIN handlers_
          PROVE  k \in Handles /\ k # h /\ handlers_[k] \in Conns \ {c}
      BY <1>1, DemuxerConstants DEF TableInv, TypeOK, TableOK, TableIsTrue
    <2>2. TableIsTrue'
      BY <1>1, <1>3, <2>1 DEF TableInv, TableOK, TableIsTrue
    <2>3. QED
      BY <1>1, <1>3, <2>1, <2>2 DEF TableInv, TypeOK, TableOK, TimersOfLiveHandlers
  <1>10. QED
    BY <1>2, <1>4, <1>5, <1>7, <1>8, <1>9 DEF TableInv

\* A step that leaves line, table and connections alone.
LEMMA QuietKeeps ==
    ASSUME TableInv,
           UNCHANGED <<wait_thread_id_, queues, open, wait_pc, ctl, return_events, index, table,
                       io_handle_, stage, closed, removing>>,
           TypeOK', Control', Started', armed' \cup expired' \subseteq armed \cup expired,
           \/ callback' \in {callback, NoCallback}
           \/ /\ callback' \in [name : Callbacks, handler : Conns]
              /\ HasSocket(callback'.handler)
              /\ stage[callback'.handler] = StageOf(callback'.name)
    PROVE  TableInv'
  <1>1. Todo' = Todo /\ Line' = Line /\ InLine(NewOwner)'
    BY SameLine DEF TableInv
  <1>2. /\ TableOK' /\ \A e : EventOK(e) => EventOK(e)'
        /\ \A c \in Conns : HasSocket(c) => HasSocket(c)'
    BY SameTable DEF table
  <1>3. LineOK'
    BY <1>1, <1>2 DEF TableInv, LineOK
  <1>4. LineTypeOK'
    BY DEF TableInv, LineTypeOK, queues
  <1>5. Lifecycle'
    <2>1. \A c \in Conns : stage'[c] \in {"opened", "raised", "registered", "shutdown"} => HasSocket(c)'
      BY <1>2 DEF TableInv, Lifecycle
    <2>2. CASE callback' = NoCallback
      BY <2>1, <2>2 DEF Lifecycle
    <2>3. CASE callback' = callback /\ callback # NoCallback
      BY <1>2, <2>1, <2>3 DEF TableInv, Lifecycle, LineTypeOK
    <2>4. CASE /\ callback' \in [name : Callbacks, handler : Conns]
               /\ HasSocket(callback'.handler)
               /\ stage[callback'.handler] = StageOf(callback'.name)
      BY <1>2, <2>1, <2>4 DEF Lifecycle
    <2>5. QED
      BY <2>2, <2>3, <2>4
  <1>6. QED
    BY <1>1, <1>2, <1>3, <1>4, <1>5 DEF TableInv

LEMMA PeerActsKeeps ==
    ASSUME TableInv, NEW h \in Handles, PeerActs(h), UNCHANGED reactor_vars
    PROVE  TableInv'
  <1> USE DEF reactor_vars, table, timers, stopping, told
  <1>1. UNCHANGED <<wait_thread_id_, queues, open, wait_pc, ctl, return_events>>
    BY DEF PeerActs
  <1>2. TypeOK' /\ Control' /\ Started'
    BY <1>1, SameLine DEF TableInv, TypeOK, Control, Late, Started, queues
  <1>3. QED
    BY <1>1, <1>2, QuietKeeps

\* Inside wait() only the line changes.
LEMMA WaitKeeps ==
    ASSUME TableInv,
           UNCHANGED <<open, table, timers, callback, told>>,
           TypeOK', LineTypeOK', Control', Started', InLine(NewOwner)',
           \A e \in Line' : EventOK(e), \A e \in Todo' : e.return
    PROVE  TableInv'
  <1> USE DEF table, timers, told
  <1>1. /\ TableOK' /\ \A e : EventOK(e) => EventOK(e)'
        /\ \A c \in Conns : HasSocket(c) => HasSocket(c)'
    BY SameTable
  <1>2. LineOK'
    BY <1>1 DEF LineOK
  <1>3. Lifecycle'
    BY <1>1 DEF TableInv, Lifecycle, LineTypeOK
  <1>4. QED
    BY <1>1, <1>2, <1>3 DEF TableInv

\* The thread that made the Reactor stops it: its STOP is in the line at once while the
\* loop is outside wait(), and otherwise when wait() returns, if it has not been cleared.
LEMMA OwnerKeeps ==
    ASSUME TableInv, owner_stop_tests \/ owner_stop_queues
    PROVE  TableInv'
  <1> USE DEF inside_wait, demuxer_vars, kernel, table, timers, told
  <1>1. /\ UNCHANGED <<inside_wait, pipe, kernel, return_events, run_pc, index, table, timers,
                       is_stop_event, stop_, callback, told, calls>>
        /\ stop_raised' \in StopStates /\ stop_raised # "late"
    BY DEF owner_stop_tests, owner_stop_queues, queues, StopStates
  <1>2. TypeOK'
    BY <1>1 DEF TableInv, TypeOK
  <1>3. CASE owner_stop_tests
    <2>1. UNCHANGED queues
      BY <1>3 DEF owner_stop_tests
    <2>2. Control' /\ Started'
      BY <1>1, <2>1, SameLine DEF TableInv, Control, Late, Started, queues
    <2>3. QED
      BY <1>1, <1>2, <2>1, <2>2, QuietKeeps
  <1>4. CASE owner_stop_queues /\ wait_pc = "out"
    <2>1. Raise(wait_thread_id_, StopEvent)
      BY <1>4 DEF owner_stop_queues, Raise
    <2>2. calls' \in Nat /\ removing' \subseteq Conns
      BY <1>1 DEF TableInv, TypeOK, LineTypeOK
    <2>3. QED
      BY <1>1, <1>4, <2>1, <2>2, StopIsFree, StopOK, RaiseKeeps
  <1>5. CASE owner_stop_queues /\ wait_pc # "out"
    <2>1. wait_events_' = Append(wait_events_, StopEvent)
      BY <1>5 DEF owner_stop_queues
    <2>2. wait_thread_id_ = Loop /\ run_pc = "wait"
      BY <1>5 DEF TableInv, Control, Late, Started
    <2>3. Todo' = Todo /\ Line' = Line /\ InLine(NewOwner)'
      BY <1>1, <1>5 DEF Todo, Line, Behind, Queue, InLine, TableInv
    <2>4. LineTypeOK'
      BY <1>1, <2>1, StopIsFree DEF TableInv, LineTypeOK
    <2>5. wait_pc \in {"epoll", "scan", "pipe"} => Late'
      <3>1. SUFFICES ASSUME wait_pc \in {"epoll", "scan", "pipe"} PROVE Late'
        OBVIOUS
      <3>2. wait_events_ = <<>>
        BY <1>1, <3>1 DEF TableInv, Control, Late
      <3>3. wait_events_' = <<StopEvent>>
        BY <2>1, <3>2
      <3>4. stop_raised' = "late"
        BY <1>5, <2>2, DemuxerConstants DEF owner_stop_queues
      <3>5. QED
        BY <3>3, <3>4 DEF Late
    <2>6. Control' /\ Started'
      BY <1>1, <2>2, <2>5 DEF TableInv, Control, Late, Started
    <2>7. QED
      BY <1>1, <1>2, <2>3, <2>4, <2>6, WaitKeeps DEF TableInv, LineOK
  <1>6. QED
    BY <1>3, <1>4, <1>5

\* handle_removed closes the socket: by then the table has forgotten the handle, and no
\* registration for it can be waiting.
LEMMA RemovedReturnsKeeps ==
    ASSUME TableInv, CallbackReturns, callback.name = "handle_removed"
    PROVE  TableInv'
  <1> USE DEF inside_wait, queues, table, timers, stopping, told
  <1>0. PICK c, h : c = callback.handler /\ h = io_handle_[c]
    OBVIOUS
  <1>1. /\ callback # NoCallback /\ callback' = NoCallback
        /\ open' = [open EXCEPT ![h] = Null]
        /\ UNCHANGED <<inside_wait, queues, return_events, run_pc, index, table, timers, stopping,
                       told, calls>>
    BY <1>0 DEF CallbackReturns, KernelClose
  <1>2. c \in Conns /\ h \in Handles /\ open[h] = c /\ stage[c] = "removed"
    BY <1>0, <1>1 DEF TableInv, Lifecycle, HasSocket, StageOf, LineTypeOK
  <1>3. /\ open' \in [Handles -> Conns \cup {Null}]
        /\ \A k \in Handles \ {h} : open'[k] = open[k]
    BY <1>1, <1>2 DEF TableInv, LineTypeOK
  <1>4. TypeOK' /\ LineTypeOK'
    BY <1>1, <1>3 DEF TableInv, TypeOK, LineTypeOK
  <1>5. Todo' = Todo /\ Line' = Line /\ InLine(NewOwner)'
    BY <1>1, SameLine DEF TableInv
  <1>6. Control' /\ Started'
    BY <1>1, <1>5 DEF TableInv, Control, Late, Started
  <1>7. Lifecycle'
    BY <1>1, <1>2, <1>3 DEF TableInv, Lifecycle, HasSocket
  <1>8. LineOK'
    BY <1>1, <1>5 DEF TableInv, LineOK, EventOK, Names, Registered
  <1>9. TableOK'
    <2>1. \A k \in DOMAIN handlers_ : k # h /\ k \in Handles
      BY <1>2 DEF TableInv, TypeOK, TableOK, TableIsTrue
    <2>2. QED
      BY <1>1, <1>3, <2>1 DEF TableInv, TableOK, TableIsTrue, TimersOfLiveHandlers
  <1>10. QED
    BY <1>4, <1>5, <1>6, <1>7, <1>8, <1>9 DEF TableInv

LEMMA CallbackReturnsKeeps ==
    ASSUME TableInv, CallbackReturns
    PROVE  TableInv'
  <1> USE DEF inside_wait, queues, table, timers, stopping, told, kernel
  <1>1. CASE callback.name = "handle_removed"
    BY <1>1, RemovedReturnsKeeps
  <1>2. CASE callback.name = "handle_shutdown"
    <2>0. PICK c, f : c = callback.handler /\ f = Event("REMOVE_ALL", io_handle_[c], Null, FALSE, Null)
      OBVIOUS
    <2>1. /\ callback # NoCallback /\ callback' = NoCallback /\ Raise(Loop, f)
          /\ UNCHANGED <<inside_wait, kernel, return_events, run_pc, index, table, timers,
                         stopping, told, calls>>
      BY <1>2, <2>0 DEF CallbackReturns
    <2>2. c \in Conns /\ io_handle_[c] \in Handles /\ run_pc = "shutdown"
      BY <1>2, <2>0, <2>1 DEF TableInv, Lifecycle, HasSocket, LineTypeOK, Control
    <2>3. f \in Events /\ ~IsRegister(f) /\ ~IsRemoval(f) /\ ~IsIo(f)
      BY <2>0, <2>2 DEF Event, Events, EventNames, IsRegister, IsRemoval, IsIo, IoEvents
    <2>4. EventOK(f) /\ \A x \in Line : <<x, f>> \in NewOwner
      BY <2>3, LineTyped DEF EventOK, NewOwner, TableInv
    <2>5. wait_thread_id_ = Loop
      BY <2>2 DEF TableInv, Started
    <2>6. /\ calls' \in Nat /\ removing' \subseteq Conns /\ wait_pc = "out"
          /\ stop_raised' \in StopStates /\ stop_raised' = stop_raised
      BY <2>1, <2>2 DEF TableInv, TypeOK, LineTypeOK, Control
    <2>7. QED
      BY <2>1, <2>2, <2>3, <2>4, <2>5, <2>6, RaiseKeeps
  <1>3. CASE callback.name \notin {"handle_removed", "handle_shutdown"}
    <2>1. /\ callback # NoCallback /\ callback' = NoCallback
          /\ UNCHANGED <<inside_wait, open, queues, return_events, run_pc, index, table, timers,
                         stopping, told, calls>>
      BY <1>3 DEF CallbackReturns
    <2>2. TypeOK' /\ Control' /\ Started'
      BY <2>1, SameLine DEF TableInv, TypeOK, Control, Late, Started
    <2>3. QED
      BY <2>1, <2>2, QuietKeeps
  <1>4. QED
    BY <1>1, <1>2, <1>3

\* The steps of run() around wait() and dispatch().
LEMMA RunKeeps ==
    ASSUME TableInv,
           \/ RunStart \/ TimeoutsDone \/ WaitReturned \/ DispatchDone \/ RunEnds
           \/ RunTop /\ run_pc' = "timeouts"
           \/ \E c \in Conns : HandleTimeout(c)
    PROVE  TableInv'
  <1> USE DEF demuxer_vars, queues, kernel, table, timers, stopping, told
  <1>1. CASE RunStart
    <2>1. TypeOK' /\ Control' /\ Started'
      BY <1>1, SameLine DEF RunStart, TableInv, TypeOK, Control, Started
    <2>2. QED
      BY <1>1, <2>1, QuietKeeps DEF RunStart
  <1>2. CASE TimeoutsDone
    <2>1. TypeOK' /\ Control' /\ Started'
      BY <1>2, SameLine DEF TimeoutsDone, TableInv, TypeOK, Control, Started
    <2>2. QED
      BY <1>2, <2>1, QuietKeeps DEF TimeoutsDone
  <1>3. CASE WaitReturned
    <2>1. armed' \cup expired' \subseteq armed \cup expired
      BY <1>3 DEF WaitReturned, ExtractExpired
    <2>2. TypeOK'
      BY <1>3 DEF WaitReturned, ExtractExpired, TableInv, TypeOK
    <2>3. Control'
      BY <1>3 DEF WaitReturned, ExtractExpired, TableInv, TypeOK, Control, LineTypeOK
    <2>4. Started'
      BY <1>3, SameLine DEF WaitReturned, TableInv, Started
    <2>5. QED
      BY <1>3, <2>1, <2>2, <2>3, <2>4, QuietKeeps DEF WaitReturned
  <1>4. CASE DispatchDone
    <2>1. TypeOK' /\ Control' /\ Started'
      BY <1>4, SameLine DEF DispatchDone, TableInv, TypeOK, Control, Started
    <2>2. QED
      BY <1>4, <2>1, QuietKeeps DEF DispatchDone
  <1>5. CASE RunEnds
    <2>1. TypeOK' /\ Control' /\ Started'
      BY <1>5, SameLine DEF RunEnds, TableInv, TypeOK, Control, Started
    <2>2. QED
      BY <1>5, <2>1, QuietKeeps DEF RunEnds
  <1>6. CASE RunTop /\ run_pc' = "timeouts"
    <2>1. /\ run_pc = "top" /\ UNCHANGED <<demuxer_vars, index, table, stopping, callback, told, calls>>
          /\ \E S \in SUBSET armed : S # {} /\ ExtractExpired(S)
      BY <1>6 DEF RunTop
    <2>2. armed' \cup expired' \subseteq armed /\ armed # {}
      BY <2>1 DEF ExtractExpired
    <2>3. wait_thread_id_ = Loop
      <3>1. \E c \in Conns : stage[c] \in {"registered", "shutdown"}
        BY <2>2 DEF TableInv, TypeOK, TableOK, TimersOfLiveHandlers, TableIsTrue
      <3>2. QED
        BY <3>1 DEF TableInv, Started
    <2>4. TypeOK'
      BY <1>6, <2>1, <2>2 DEF TableInv, TypeOK
    <2>5. Control' /\ Started'
      BY <1>6, <2>1, <2>3 DEF TableInv, Control, Late, Started
    <2>6. QED
      BY <2>1, <2>2, <2>4, <2>5, QuietKeeps
  <1>7. ASSUME NEW c \in Conns, HandleTimeout(c) PROVE TableInv'
    <2>1. /\ run_pc = "timeouts" /\ callback = NoCallback /\ c \in expired
          /\ expired' = expired \ {c} /\ callback' = [name |-> "handle_timeout", handler |-> c]
          /\ UNCHANGED <<demuxer_vars, run_pc, index, table, armed, stopping, told, calls>>
      BY <1>7 DEF HandleTimeout, Begin
    <2>2. stage[c] = "registered" /\ HasSocket(c)
      BY <2>1 DEF TableInv, TypeOK, TableOK, TimersOfLiveHandlers, TableIsTrue, Control, Lifecycle
    <2>3. TypeOK' /\ Started'
      BY <2>1, SameLine DEF TableInv, TypeOK, Started
    <2>4. /\ callback' \in [name : Callbacks, handler : Conns] /\ callback'.handler = c
          /\ callback'.name = "handle_timeout" /\ StageOf(callback'.name) = "registered"
      BY <2>1 DEF Callbacks, StageOf
    <2>5. Control'
      BY <2>1, <2>4 DEF TableInv, Control
    <2>6. QED
      BY <2>1, <2>2, <2>3, <2>4, <2>5, QuietKeeps
  <1>8. QED
    BY <1>1, <1>2, <1>3, <1>4, <1>5, <1>6, <1>7

LEMMA ShutdownKeeps ==
    ASSUME TableInv, NEW h \in Handles, Shutdown(h)
    PROVE  TableInv'
  <1> USE DEF demuxer_vars, queues, kernel, table, timers, stopping
  <1>0. PICK c : c = handlers_[h]
    OBVIOUS
  <1>1. /\ run_pc = "shutdown" /\ callback = NoCallback /\ h \in DOMAIN handlers_
        /\ stage[c] = "registered" /\ armed' = armed \ {c}
        /\ stage' = [stage EXCEPT ![c] = "shutdown"]
        /\ callback' = [name |-> "handle_shutdown", handler |-> c]
        /\ UNCHANGED <<demuxer_vars, run_pc, index, table, expired,
                       stopping, io_handle_, closed, removing, calls>>
    BY <1>0 DEF Shutdown, Registered, Untimed, Begin
  <1>2. c \in Conns /\ HasSocket(c)
    BY <1>0, <1>1 DEF TableInv, TypeOK, Lifecycle
  <1>3. stage' \in [Conns -> Stages] /\ stage'[c] = "shutdown" /\ \A d \in Conns \ {c} : stage'[d] = stage[d]
    BY <1>1, <1>2 DEF TableInv, TypeOK, Stages
  <1>4. /\ callback' \in [name : Callbacks, handler : Conns] /\ callback'.handler = c
        /\ callback'.name = "handle_shutdown" /\ StageOf(callback'.name) = "shutdown"
    BY <1>1, <1>2 DEF Callbacks, StageOf
  <1>5. TypeOK' /\ LineTypeOK'
    BY <1>1, <1>3, <1>4 DEF TableInv, TypeOK, LineTypeOK
  <1>6. Todo' = Todo /\ Line' = Line /\ InLine(NewOwner)'
    BY <1>1, SameLine DEF TableInv
  <1>7. Control' /\ Started'
    BY <1>1, <1>3, <1>4, <1>6 DEF TableInv, Control, Late, Started
  <1>8. Lifecycle'
    BY <1>1, <1>2, <1>3, <1>4 DEF TableInv, Lifecycle, HasSocket
  <1>9. LineOK'
    BY <1>1, <1>3, <1>6 DEF TableInv, LineOK, EventOK, Names, Registered
  <1>10. TableOK'
    BY <1>1, <1>2, <1>3 DEF TableInv, TypeOK, TableOK, TableIsTrue, TimersOfLiveHandlers
  <1>11. QED
    BY <1>5, <1>6, <1>7, <1>8, <1>9, <1>10 DEF TableInv

LEMMA WaitBeginKeeps ==
    ASSUME TableInv, RunTop, run_pc' = "wait"
    PROVE  TableInv'
  <1> USE DEF queues, kernel, table, timers, stopping, told
  <1>1. /\ run_pc = "top" /\ WaitBegin(ClearedBatch) /\ index' = 1
        /\ UNCHANGED <<open, table, timers, stopping, callback, told, calls>>
    BY DEF RunTop, WaitBegin
  <1>2. ctl = <<>> /\ index > Len(return_events)
    BY <1>1 DEF TableInv, Control
  <1>3. /\ InLine(NewOwner)' /\ Todo' = {} /\ Line' = Line
        /\ ctl' \in Seq(Events) /\ return_events' = <<>> /\ wait_events_' = wait_events_ /\ UNCHANGED pipe
    BY <1>1, <1>2, BeginLine DEF TableInv
  <1>4. wait_pc' = "drain" /\ wait_thread_id_' = Loop
    BY <1>1 DEF WaitBegin
  <1>5. TypeOK' /\ LineTypeOK'
    BY <1>1, <1>3, <1>4 DEF TableInv, TypeOK, LineTypeOK
  <1>6. Control' /\ Started'
    BY <1>1, <1>3, <1>4 DEF TableInv, Control, Late, Started
  <1>7. QED
    BY <1>1, <1>3, <1>5, <1>6, WaitKeeps DEF TableInv, LineOK

LEMMA ProcessKeeps ==
    ASSUME TableInv, run_pc = "wait", process_ctrl_event, UNCHANGED reactor_vars
    PROVE  TableInv'
  <1> USE DEF reactor_vars, queues, kernel, table, timers, stopping, told
  <1>0. PICK e : e = Head(ctl)
    OBVIOUS
  <1>1. index = 1 /\ index <= Len(return_events) + 1
    BY DEF TableInv, Control, LineTypeOK
  <1>2. /\ e \in Events /\ Elems(ctl, 1) = {e} \cup Elems(ctl', 1) /\ UNCHANGED <<Queue, pipe>>
        /\ InLine(NewOwner)' /\ Todo' = IF e.return THEN Todo \cup {e} ELSE Todo
        /\ return_events' \in Seq(Events) /\ ctl' \in Seq(Events)
    BY <1>0, <1>1, ProcessLine DEF TableInv
  <1>3. Line' \subseteq Line /\ \A x \in Todo' : x.return
    BY <1>2 DEF TableInv, LineOK, Line, Behind
  <1>4. UNCHANGED <<wait_thread_id_, wait_events_, pipe, open, wait_pc>> /\ wait_pc \in {"drain", "pipe"}
    BY DEF process_ctrl_event
  <1>5. TypeOK' /\ LineTypeOK'
    BY <1>2, <1>4 DEF TableInv, TypeOK, LineTypeOK
  <1>6. Control' /\ Started'
    BY <1>3, <1>4 DEF TableInv, Control, Late, Started
  <1>7. QED
    BY <1>2, <1>3, <1>4, <1>5, <1>6, WaitKeeps DEF TableInv, LineOK

LEMMA DrainedKeeps ==
    ASSUME TableInv, run_pc = "wait", WaitDrained, UNCHANGED reactor_vars
    PROVE  TableInv'
  <1> USE DEF reactor_vars, queues, kernel, table, timers, stopping, told
  <1>1. /\ wait_pc = "drain" /\ wait_pc' \in {"out", "epoll"} /\ wait_events_' = <<>> /\ ctl = <<>>
        /\ UNCHANGED <<wait_thread_id_, pipe, open, ctl, return_events>>
    BY DEF WaitDrained
  <1>2. Queue = <<>> /\ Queue' = <<>>
    BY <1>1 DEF Queue
  <1>3. Todo' = Todo /\ Line' = Line /\ InLine(NewOwner)'
    BY <1>1, <1>2 DEF Todo, Line, Behind, InLine, TableInv
  <1>4. TypeOK' /\ LineTypeOK'
    BY <1>1 DEF TableInv, TypeOK, LineTypeOK
  <1>5. Control' /\ Started'
    BY <1>1, <1>3 DEF TableInv, Control, Late, Started
  <1>6. QED
    BY <1>1, <1>3, <1>4, <1>5, WaitKeeps DEF TableInv, LineOK

\* wait() goes from one stage to the next with nothing in its hands.
LEMMA StageKeeps ==
    ASSUME TableInv, run_pc = "wait", epoll_wait \/ WaitNothing \/ PipeDone \/ ScanDone,
           UNCHANGED reactor_vars
    PROVE  TableInv'
  <1> USE DEF reactor_vars, queues, kernel, table, timers, stopping, told
  <1>1. /\ wait_pc \in {"epoll", "pipe", "scan"} /\ wait_pc' \in {"out", "scan"} /\ ctl = <<>>
        /\ UNCHANGED <<wait_thread_id_, wait_events_, pipe, open, ctl, return_events>>
    BY DEF epoll_wait, WaitNothing, PipeDone, ScanDone, TableInv, Control
  <1>2. Late /\ wait_thread_id_ = Loop
    BY <1>1 DEF TableInv, Control, Late, Started
  <1>3. Queue = <<>> /\ Queue' \in {<<>>, <<StopEvent>>}
    BY <1>1, <1>2 DEF Queue, Late
  <1>4. Todo' = Todo /\ (\A x \in Line' : x \in Line \/ x = StopEvent) /\ InLine(NewOwner)'
    BY <1>1, <1>3, StopOK, LateLine DEF TableInv
  <1>5. TypeOK' /\ LineTypeOK'
    BY <1>1 DEF TableInv, TypeOK, LineTypeOK
  <1>6. Control' /\ Started'
    BY <1>1, <1>2 DEF TableInv, Control, Late, Started
  <1>7. \A x \in Line' : EventOK(x)
    BY <1>4, StopOK DEF TableInv, LineOK
  <1>8. QED
    BY <1>1, <1>4, <1>5, <1>6, <1>7, WaitKeeps DEF TableInv, LineOK

LEMMA ScanPipeKeeps ==
    ASSUME TableInv, run_pc = "wait", ScanPipe, UNCHANGED reactor_vars
    PROVE  TableInv'
  <1> USE DEF reactor_vars, queues, kernel, table, timers, stopping, told
  <1>1. /\ wait_pc = "scan" /\ wait_pc' = "pipe"
        /\ UNCHANGED <<wait_thread_id_, wait_events_, open, return_events>>
    BY DEF ScanPipe
  <1>2. ctl = <<>> /\ Late
    BY <1>1 DEF TableInv, Control
  <1>3. /\ InLine(NewOwner)' /\ Todo' = Todo /\ Line' = Line
        /\ ctl' \in Seq(Events) /\ pipe' \in Seq(Events)
    BY <1>2, ScanPipeLine DEF TableInv
  <1>4. TypeOK' /\ LineTypeOK'
    BY <1>1, <1>3 DEF TableInv, TypeOK, LineTypeOK
  <1>5. Control' /\ Started'
    BY <1>1, <1>2, <1>3 DEF TableInv, Control, Late, Started
  <1>6. QED
    BY <1>1, <1>3, <1>4, <1>5, WaitKeeps DEF TableInv, LineOK

\* What epoll reports of a handle is about the connection that has it open.
LEMMA ScanHandleKeeps ==
    ASSUME TableInv, run_pc = "wait", NEW h \in Handles, ScanHandle(h), UNCHANGED reactor_vars
    PROVE  TableInv'
  <1> USE DEF reactor_vars, queues, kernel, table, timers, stopping, told
  <1>1. /\ wait_pc = "scan" /\ index = 1 /\ ctl = <<>>
        /\ UNCHANGED <<wait_thread_id_, wait_events_, pipe, open, ctl, wait_pc>>
    BY DEF ScanHandle, TableInv, Control
  <1>2. ASSUME NEW n \in IoEvents
        PROVE  LET e == Report(n, h)
               IN /\ e \in Events /\ e.io_handle = h /\ e.sock = open[h] /\ e.return
                  /\ ~IsRegister(e) /\ ~IsRemoval(e) /\ IsIo(e)
    BY DEF Report, Event, Events, EventNames, IoEvents, IsRegister, IsRemoval, IsIo, TableInv, LineTypeOK
  <1>3. ASSUME NEW n \in IoEvents, NEW x \in Line
        PROVE  <<Report(n, h), x>> \in NewOwner /\ <<x, Report(n, h)>> \in NewOwner
    <2>1. PICK e : e = Report(n, h)
      OBVIOUS
    <2>2. x \in Events
      BY LineTyped DEF TableInv
    <2>3. IsRegister(x) /\ x.io_handle = h => x.sock = open[h]
      BY RegisterOpen
    <2>4. /\ e \in Events /\ e.io_handle = h /\ e.sock = open[h]
          /\ ~IsRegister(e) /\ ~IsRemoval(e)
      BY <1>2, <2>1
    <2>5. <<e, x>> \in NewOwner /\ <<x, e>> \in NewOwner
      BY <2>2, <2>3, <2>4 DEF NewOwner
    <2>6. QED
      BY <2>1, <2>5
  <1>4. \A n, m \in IoEvents : <<Report(n, h), Report(m, h)>> \in NewOwner
    BY <1>2 DEF NewOwner
  <1>5. /\ InLine(NewOwner)' /\ Behind' = Behind /\ return_events' \in Seq(Events)
        /\ \A x \in Todo' : x \in Todo \/ \E n \in IoEvents : x = Report(n, h)
    <2>1. Behind \subseteq Line /\ Todo \subseteq Line
      BY DEF Line
    <2>2. /\ \A n \in IoEvents : \A x \in Behind : <<Report(n, h), x>> \in NewOwner
          /\ \A n \in IoEvents : \A x \in Todo : <<x, Report(n, h)>> \in NewOwner
      BY <1>3, <2>1
    <2>3. LineTypeOK /\ InLine(NewOwner)
      BY DEF TableInv
    <2>4. QED
      BY <1>1, <1>4, <2>2, <2>3, ScanLine
  <1>6. ASSUME NEW n \in IoEvents PROVE EventOK(Report(n, h)) /\ Report(n, h).return
    <2>1. h \in DOMAIN handlers_ => handlers_[h] = open[h]
      BY DEF TableInv, TableOK, TableIsTrue
    <2>2. PICK e : e = Report(n, h)
      OBVIOUS
    <2>3. /\ e.io_handle = h /\ e.sock = open[h] /\ e.return /\ ~IsRegister(e) /\ ~IsRemoval(e)
      BY <1>2, <2>2
    <2>4. EventOK(e)
      BY <2>1, <2>3 DEF EventOK, Registered
    <2>5. QED
      BY <2>2, <2>3, <2>4
  <1>7. (\A e \in Line' : EventOK(e)) /\ \A e \in Todo' : e.return
    <2>1. \A e \in Todo' : EventOK(e) /\ e.return
      BY <1>5, <1>6 DEF TableInv, LineOK, Line
    <2>2. QED
      BY <1>5, <2>1 DEF TableInv, LineOK, Line
  <1>8. wait_thread_id_ = Loop
    BY DEF TableInv, Started
  <1>9. TypeOK' /\ LineTypeOK'
    BY <1>1, <1>5 DEF TableInv, TypeOK, LineTypeOK
  <1>10. Control' /\ Started'
    BY <1>1, <1>8 DEF TableInv, Control, Late, Started
  <1>11. QED
    BY <1>1, <1>5, <1>7, <1>9, <1>10, WaitKeeps

-----------------------------------------------------------------------------
\* dispatch(): e is the event at the front of the line.
LEMMA DispatchHead ==
    ASSUME TableInv, NEW names, Dispatching(names), NEW e, e = return_events[index]
    PROVE  /\ e \in Events /\ e \in Line /\ EventOK(e) /\ e.return /\ e.event \in names
           /\ wait_pc = "out" /\ ctl = <<>> /\ wait_thread_id_ = Loop /\ expired = {}
           /\ run_pc = "dispatch" /\ callback = NoCallback
           /\ index <= Len(return_events) /\ index' = index + 1
           /\ Todo = {e} \cup Todo'
           /\ \A y \in Todo' \cup Behind : y \in Line /\ <<e, y>> \in NewOwner
           /\ UNCHANGED <<wait_thread_id_, wait_pc, ctl, open, return_events, run_pc, stop_,
                          stop_raised, io_handle_, removing, expired, calls>>
  <1>1. /\ run_pc = "dispatch" /\ callback = NoCallback /\ index <= Len(return_events)
        /\ index' = index + 1 /\ e.event \in names
        /\ UNCHANGED <<wait_thread_id_, wait_pc, ctl, open, return_events, run_pc, stop_,
                       stop_raised, io_handle_, removing, expired, calls>>
    BY DEF Dispatching, inside_wait, kernel
  <1>2. /\ e \in Events /\ Todo = {e} \cup Todo'
        /\ \A y \in Todo' \cup Behind : <<e, y>> \in NewOwner
    BY <1>1, DispatchLine DEF TableInv
  <1>3. e \in Line /\ EventOK(e) /\ e.return /\ \A y \in Todo' \cup Behind : y \in Line
    BY <1>2 DEF TableInv, LineOK, Line
  <1>4. wait_pc = "out" /\ ctl = <<>> /\ wait_thread_id_ = Loop /\ expired = {}
    BY <1>1 DEF TableInv, Control, Late, Started
  <1>5. QED
    BY <1>1, <1>2, <1>3, <1>4

\* The steps of dispatch() that leave the table alone: a timer is set or unset, a callback
\* of a registered handler starts, a request without an answer is queued.
LEMMA DispatchKeeps ==
    ASSUME TableInv, NEW names, Dispatching(names),
           UNCHANGED <<handlers_, handler_count_, stage>>,
           is_stop_event' \in BOOLEAN,
           armed' \subseteq armed \cup {handlers_[h] : h \in DOMAIN handlers_},
           \/ UNCHANGED <<callback, closed, handle_close_call_>>
           \/ \E h \in DOMAIN handlers_ : \E n \in Callbacks \ {"handle_removed", "handle_shutdown"} :
                /\ callback' = [name |-> n, handler |-> handlers_[h]]
                /\ closed' \subseteq closed \cup {handlers_[h]}
                /\ \/ UNCHANGED <<closed, handle_close_call_>>
                   \/ handle_close_call_' = handle_close_call_ \cup {h},
           \/ UNCHANGED queues
           \/ \E f \in Events : Raise(Loop, f) /\ ~IsRegister(f) /\ ~IsRemoval(f) /\ ~IsIo(f)
    PROVE  TableInv'
  <1>0. PICK e : e = return_events[index]
    OBVIOUS
  <1>1. /\ Todo = {e} \cup Todo' /\ wait_pc = "out" /\ ctl = <<>> /\ wait_thread_id_ = Loop
        /\ expired = {} /\ run_pc = "dispatch" /\ callback = NoCallback
        /\ index <= Len(return_events) /\ index' = index + 1
        /\ UNCHANGED <<wait_thread_id_, wait_pc, ctl, open, return_events, run_pc, stop_,
                       stop_raised, io_handle_, removing, expired, calls>>
    BY <1>0, DispatchHead
  <1>2. TypeOK /\ LineTypeOK /\ InLine(NewOwner)
    BY DEF TableInv
  <1>3. /\ InLine(NewOwner)' /\ wait_events_' \in Seq(Events) /\ pipe' \in Seq(Events)
        /\ \A y \in Line' : y \in Line \/ (y \in Events /\ ~IsRegister(y) /\ ~IsRemoval(y) /\ ~IsIo(y))
    <2>1. CASE UNCHANGED queues
      <3>1. InLine(NewOwner)' /\ Behind' = Behind
        BY <1>1, <1>2, <2>1, DispatchQuiet
      <3>2. QED
        BY <1>1, <1>2, <2>1, <3>1 DEF Line, LineTypeOK, queues
    <2>2. CASE \E f \in Events : Raise(Loop, f) /\ ~IsRegister(f) /\ ~IsRemoval(f) /\ ~IsIo(f)
      <3>0. PICK f \in Events : Raise(Loop, f) /\ ~IsRegister(f) /\ ~IsRemoval(f) /\ ~IsIo(f)
        BY <2>2
      <3>1. /\ \A y \in Line : <<y, f>> \in NewOwner
            /\ \A y \in Line : <<f, y>> \in NewOwner
        BY <1>2, <3>0, LineTyped DEF NewOwner
      <3>2. /\ \A x \in Todo' \cup Elems(ctl, 1) \cup Elems(Queue, 1) : <<x, f>> \in NewOwner
            /\ \A y \in Elems(pipe, 1) : <<f, y>> \in NewOwner
        BY <1>1, <1>2, <3>1, LineTyped
      <3>3. /\ InLine(NewOwner)' /\ Behind' = Behind \cup {f}
            /\ wait_events_' \in Seq(Events) /\ pipe' = pipe
        BY <1>1, <1>2, <3>0, <3>2, DispatchRaise
      <3>4. QED
        BY <1>1, <1>2, <3>0, <3>3 DEF Line, LineTypeOK
    <2>3. QED
      BY <2>1, <2>2
  <1>4. closed' \subseteq Conns /\ handle_close_call_' \subseteq Handles
    BY <1>2 DEF TypeOK
  <1>5. TypeOK'
    BY <1>1, <1>2, <1>4 DEF TypeOK
  <1>6. \/ callback' = NoCallback
        \/ \E h \in DOMAIN handlers_ : \E n \in Callbacks \ {"handle_removed", "handle_shutdown"} :
             callback' = [name |-> n, handler |-> handlers_[h]]
    BY <1>1
  <1>7. LineTypeOK'
    BY <1>1, <1>2, <1>3, <1>6 DEF TypeOK, LineTypeOK
  <1>8. Control'
    BY <1>1, <1>6 DEF TableInv, Control
  <1>9. Started'
    BY <1>1 DEF Started
  <1>10. \A h \in DOMAIN handlers_ :
           /\ handlers_[h] \in Conns /\ stage[handlers_[h]] = "registered" /\ HasSocket(handlers_[h])
    BY <1>1 DEF TableInv, TypeOK, TableOK, TableIsTrue, Control, Lifecycle
  <1>11. \A c \in Conns : HasSocket(c) => HasSocket(c)'
    BY <1>1 DEF HasSocket
  <1>12. Lifecycle'
    <2>1. \A c \in Conns : stage'[c] \in {"opened", "raised", "registered", "shutdown"} => HasSocket(c)'
      BY <1>11 DEF TableInv, Lifecycle
    <2>2. CASE callback' = NoCallback
      BY <2>1, <2>2 DEF Lifecycle
    <2>3. ASSUME NEW h \in DOMAIN handlers_, NEW n \in Callbacks \ {"handle_removed", "handle_shutdown"},
                 callback' = [name |-> n, handler |-> handlers_[h]]
          PROVE  Lifecycle'
      <3>1. callback'.handler = handlers_[h] /\ StageOf(callback'.name) = "registered"
        BY <2>3 DEF StageOf
      <3>2. QED
        BY <2>1, <3>1, <1>10, <1>11 DEF Lifecycle
    <2>4. QED
      BY <1>6, <2>2, <2>3
  <1>13. LineOK'
    <2>1. \A y \in Line' : EventOK(y)
      BY <1>3 DEF TableInv, LineOK, EventOK
    <2>2. \A y : EventOK(y) => EventOK(y)'
      BY <1>1 DEF EventOK, Names, Registered
    <2>3. \A y \in Todo' : y.return
      BY <1>1 DEF TableInv, LineOK
    <2>4. QED
      BY <2>1, <2>2, <2>3 DEF LineOK
  <1>14. TableOK'
    <2>1. TableIsTrue' /\ IsFiniteSet(DOMAIN handlers_)'
      BY <1>1 DEF TableInv, TableOK, TableIsTrue
    <2>2. TimersOfLiveHandlers'
      BY <1>1 DEF TableInv, TableOK, TimersOfLiveHandlers
    <2>3. /\ \A h \in DOMAIN handlers_ : handlers_[h] \in closed' => h \in handle_close_call_'
          /\ \A c \in closed' : stage[c] \in {"registered", "removed", "shutdown"}
      <3>1. CASE UNCHANGED <<closed, handle_close_call_>>
        BY <3>1 DEF TableInv, TableOK
      <3>2. CASE \E h \in DOMAIN handlers_ : /\ closed' \subseteq closed \cup {handlers_[h]}
                                             /\ handle_close_call_' = handle_close_call_ \cup {h}
        <4>0. PICK h \in DOMAIN handlers_ : /\ closed' \subseteq closed \cup {handlers_[h]}
                                           /\ handle_close_call_' = handle_close_call_ \cup {h}
          BY <3>2
        <4>1. \A k \in DOMAIN handlers_ : handlers_[k] = handlers_[h] => k = h
          BY DEF TableInv, TableOK, TableIsTrue
        <4>2. QED
          BY <4>0, <4>1, <1>10 DEF TableInv, TableOK
      <3>3. QED
        BY <3>1, <3>2
    <2>4. QED
      BY <2>1, <2>2, <2>3 DEF TableOK
  <1>15. QED
    BY <1>3, <1>5, <1>7, <1>8, <1>9, <1>12, <1>13, <1>14 DEF TableInv

LEMMA DispatchOthersKeep ==
    ASSUME TableInv, DispatchStop \/ DispatchTimer \/ DispatchUnknown \/ DispatchIo \/ DispatchClose
    PROVE  TableInv'
  <1> USE DEF table
  <1>0. PICK e : e = return_events[index]
    OBVIOUS
  <1>1. is_stop_event \in BOOLEAN
    BY DEF TableInv, TypeOK
  <1>2. CASE DispatchStop
    BY <1>2, DispatchKeeps DEF DispatchStop
  <1>3. CASE DispatchTimer
    <2>1. armed' \subseteq armed \cup {handlers_[h] : h \in DOMAIN handlers_}
      BY <1>3 DEF DispatchTimer, Registered
    <2>2. QED
      BY <1>1, <1>3, <2>1, DispatchKeeps DEF DispatchTimer
  <1>4. CASE DispatchUnknown
    <2>1. e \in Events /\ IsIo(e)
      BY <1>0, <1>4, DispatchHead DEF DispatchUnknown, IsIo
    <2>2. PICK f : f = Event("REMOVE_ALL", e.io_handle, Null, FALSE, Null)
      OBVIOUS
    <2>3. Raise(Loop, f) /\ Dispatching(IoEvents)
          /\ UNCHANGED <<table, armed, callback, is_stop_event, stage, closed>>
      BY <1>0, <1>4, <2>2 DEF DispatchUnknown
    <2>4. f \in Events /\ ~IsRegister(f) /\ ~IsRemoval(f) /\ ~IsIo(f)
      BY <2>1, <2>2 DEF Event, Events, EventNames, IsRegister, IsRemoval, IsIo, IoEvents
    <2>5. QED
      BY <1>1, <2>3, <2>4, DispatchKeeps
  <1>5. CASE DispatchIo
    <2>1. /\ Dispatching({"READ", "WRITE", "ERROR"}) /\ e.io_handle \in DOMAIN handlers_
          /\ UNCHANGED <<table, armed, is_stop_event, stage, closed>>
      BY <1>0, <1>5 DEF DispatchIo, Registered
    <2>2. PICK c, f : c = handlers_[e.io_handle] /\ f = Event("REMOVE_WRITE", io_handle_[c], Null, FALSE, c)
      OBVIOUS
    <2>3. /\ \E n \in Callbacks \ {"handle_removed", "handle_shutdown"} :
               callback' = [name |-> n, handler |-> c]
          /\ UNCHANGED queues \/ Raise(Loop, f)
      BY <1>0, <1>5, <2>2 DEF DispatchIo, Begin, OneShotWrite, Callbacks
    <2>4. c \in Conns /\ io_handle_[c] \in Handles
      BY <2>1, <2>2 DEF TableInv, TypeOK, TableOK, TableIsTrue
    <2>5. f \in Events /\ ~IsRegister(f) /\ ~IsRemoval(f) /\ ~IsIo(f)
      BY <2>2, <2>4 DEF Event, Events, EventNames, IsRegister, IsRemoval, IsIo, IoEvents
    <2>6. \E h \in DOMAIN handlers_ : \E n \in Callbacks \ {"handle_removed", "handle_shutdown"} :
            /\ callback' = [name |-> n, handler |-> handlers_[h]]
            /\ closed' \subseteq closed \cup {handlers_[h]}
            /\ UNCHANGED <<closed, handle_close_call_>>
      BY <2>1, <2>2, <2>3
    <2>7. QED
      BY <1>1, <2>1, <2>3, <2>5, <2>6, DispatchKeeps
  <1>6. CASE DispatchClose
    <2>1. /\ Dispatching({"CLOSE"}) /\ e.io_handle \in DOMAIN handlers_
          /\ UNCHANGED <<queues, handlers_, handler_count_, armed, is_stop_event, stage>>
      BY <1>0, <1>6 DEF DispatchClose, Registered
    <2>2. PICK h, c : h = e.io_handle /\ c = handlers_[h]
      OBVIOUS
    <2>3. io_handle_[c] = h /\ h \in DOMAIN handlers_
      BY <2>1, <2>2 DEF TableInv, TableOK, TableIsTrue
    <2>4. \/ UNCHANGED <<callback, closed, handle_close_call_>>
          \/ /\ callback' = [name |-> "handle_close", handler |-> c]
             /\ closed' = closed \cup {c} /\ handle_close_call_' = handle_close_call_ \cup {h}
      BY <1>0, <1>6, <2>2, <2>3 DEF DispatchClose, Begin
    <2>5. \/ UNCHANGED <<callback, closed, handle_close_call_>>
          \/ \E k \in DOMAIN handlers_ : \E n \in Callbacks \ {"handle_removed", "handle_shutdown"} :
               /\ callback' = [name |-> n, handler |-> handlers_[k]]
               /\ closed' \subseteq closed \cup {handlers_[k]}
               /\ handle_close_call_' = handle_close_call_ \cup {k}
      BY <2>2, <2>3, <2>4 DEF Callbacks
    <2>6. QED
      BY <1>1, <2>1, <2>5, DispatchKeeps
  <1>7. QED
    BY <1>2, <1>3, <1>4, <1>5, <1>6

LEMMA DispatchRegisterKeeps ==
    ASSUME TableInv, DispatchRegister
    PROVE  TableInv'
  <1>0. PICK e, h, c : e = return_events[index] /\ h = e.io_handle /\ c = e.sock
    OBVIOUS
  <1>1. /\ e \in Events /\ e \in Line /\ IsRegister(e) /\ EventOK(e)
        /\ Todo = {e} \cup Todo' /\ wait_pc = "out" /\ ctl = <<>> /\ wait_thread_id_ = Loop
        /\ expired = {} /\ run_pc = "dispatch" /\ callback = NoCallback
        /\ index <= Len(return_events) /\ index' = index + 1
        /\ \A y \in Todo' \cup Behind : y \in Line /\ <<e, y>> \in NewOwner
        /\ UNCHANGED <<wait_thread_id_, wait_pc, ctl, open, return_events, run_pc, stop_,
                       stop_raised, io_handle_, removing, expired, calls>>
    BY <1>0, DispatchHead DEF DispatchRegister, IsRegister
  <1>2. /\ h \in Handles /\ c \in Conns /\ c = open[h] /\ stage[c] = "raised" /\ e.data = c
        /\ io_handle_[c] = h /\ h \notin DOMAIN handlers_
    BY <1>0, <1>1, RegisterOpen
  <1>3. /\ handler_count_' = handler_count_ + 1
        /\ handlers_' = [k \in DOMAIN handlers_ \cup {h} |-> IF k \in DOMAIN handlers_ THEN handlers_[k] ELSE c]
        /\ stage' = [stage EXCEPT ![c] = "registered"]
        /\ callback' = [name |-> "handle_registered", handler |-> c]
        /\ UNCHANGED <<queues, handle_close_call_, armed, is_stop_event, closed>>
    BY <1>0, <1>2 DEF DispatchRegister, Registered, Begin
  <1>4. TypeOK /\ LineTypeOK /\ InLine(NewOwner)
    BY DEF TableInv
  <1>5. InLine(NewOwner)' /\ Behind' = Behind
    BY <1>1, <1>3, <1>4, DispatchQuiet
  <1>6. /\ DOMAIN handlers_' = DOMAIN handlers_ \cup {h} /\ handlers_'[h] = c
        /\ \A k \in DOMAIN handlers_ : handlers_'[k] = handlers_[k] /\ k # h
    BY <1>2, <1>3
  <1>7. stage' \in [Conns -> Stages] /\ stage'[c] = "registered" /\ \A d \in Conns \ {c} : stage'[d] = stage[d]
    BY <1>2, <1>3, <1>4 DEF TypeOK, Stages
  <1>8. TypeOK'
    <2>1. handlers_' \in [DOMAIN handlers_' -> Conns] /\ DOMAIN handlers_' \subseteq Handles
      BY <1>2, <1>3, <1>4, <1>6 DEF TypeOK
    <2>2. QED
      BY <1>1, <1>3, <1>4, <1>7, <2>1 DEF TypeOK
  <1>9. /\ callback' \in [name : Callbacks, handler : Conns] /\ callback'.handler = c
        /\ callback'.name = "handle_registered" /\ StageOf(callback'.name) = "registered"
    BY <1>2, <1>3 DEF Callbacks, StageOf
  <1>10. LineTypeOK'
    BY <1>1, <1>3, <1>4, <1>9 DEF LineTypeOK, queues
  <1>11. Control'
    BY <1>1, <1>3, <1>7, <1>9 DEF TableInv, Control, queues
  <1>12. Started'
    BY <1>1 DEF Started
  <1>13. Lifecycle'
    BY <1>1, <1>2, <1>7, <1>9 DEF TableInv, Lifecycle, HasSocket
  <1>14. LineOK'
    <2>1. ASSUME NEW y \in Todo' \cup Behind PROVE EventOK(y)'
      <3>1. y \in Line /\ <<e, y>> \in NewOwner /\ EventOK(y)
        BY <1>1 DEF TableInv, LineOK
      <3>2. y.io_handle = h => ~IsRegister(y) /\ ~IsRemoval(y) /\ (IsIo(y) => y.sock = c)
        BY <1>0, <1>1, <3>1 DEF NewOwner
      <3>3. IsRegister(y) => y.sock \in Conns \ {c}
        BY <1>2, <3>1, <3>2 DEF EventOK, Names
      <3>4. IsRemoval(y) => y.sock \in Conns \ {c}
        BY <1>2, <3>1 DEF EventOK, Names
      <3>5. IsRegister(y) => (Names(y) /\ y.return /\ stage[y.sock] = "raised")'
        BY <1>1, <1>7, <3>1, <3>3 DEF EventOK, Names
      <3>6. IsRemoval(y) => (Names(y) /\ stage[y.sock] \in {"registered", "removed", "shutdown"})'
        BY <1>1, <1>7, <3>1, <3>4 DEF EventOK, Names
      <3>7. (IsIo(y) \/ IsRemoval(y)) /\ y.io_handle \in DOMAIN handlers_' => handlers_'[y.io_handle] = y.sock
        BY <1>6, <3>1, <3>2 DEF EventOK, Registered
      <3>8. QED
        BY <3>5, <3>6, <3>7 DEF EventOK, Registered
    <2>2. \A y \in Todo' : y.return
      BY <1>1 DEF TableInv, LineOK
    <2>3. QED
      BY <1>5, <2>1, <2>2 DEF LineOK, Line
  <1>15. TableOK'
    <2>1. IsFiniteSet(DOMAIN handlers_') /\ handler_count_' = Cardinality(DOMAIN handlers_')
      <3>1. /\ IsFiniteSet(DOMAIN handlers_ \cup {h})
            /\ Cardinality(DOMAIN handlers_ \cup {h}) = Cardinality(DOMAIN handlers_) + 1
        BY <1>2, FS_AddElement DEF TableInv, TableOK
      <3>2. QED
        BY <1>3, <1>6, <3>1 DEF TableInv, TableOK, TableIsTrue
    <2>2. \A k \in DOMAIN handlers_ : handlers_[k] \in Conns \ {c}
      BY <1>2 DEF TableInv, TypeOK, TableOK, TableIsTrue
    <2>3. TableIsTrue'
      <3>1. ASSUME NEW k \in DOMAIN handlers_'
            PROVE  /\ io_handle_'[handlers_'[k]] = k /\ open'[k] = handlers_'[k]
                   /\ stage'[handlers_'[k]] \in {"registered", "shutdown"}
        <4>1. CASE k = h
          BY <1>1, <1>2, <1>6, <1>7, <4>1
        <4>2. CASE k \in DOMAIN handlers_
          BY <1>1, <1>6, <1>7, <2>2, <4>2 DEF TableInv, TableOK, TableIsTrue
        <4>3. QED
          BY <1>6, <4>1, <4>2
      <3>2. QED
        BY <2>1, <3>1 DEF TableIsTrue
    <2>4. TimersOfLiveHandlers'
      BY <1>1, <1>3, <1>6 DEF TableInv, TableOK, TimersOfLiveHandlers
    <2>5. c \notin closed
      BY <1>2 DEF TableInv, TableOK
    <2>6. /\ \A k \in DOMAIN handlers_' : handlers_'[k] \in closed' => k \in handle_close_call_'
          /\ \A d \in closed' : stage'[d] \in {"registered", "removed", "shutdown"}
      BY <1>3, <1>4, <1>6, <1>7, <2>5 DEF TableInv, TypeOK, TableOK
    <2>7. QED
      BY <2>1, <2>3, <2>4, <2>6 DEF TableOK
  <1>16. QED
    BY <1>5, <1>8, <1>10, <1>11, <1>12, <1>13, <1>14, <1>15 DEF TableInv

\* A second removal finds the handle unregistered, or the event names the handler that is
\* registered: a removal never takes out the next owner of the handle.
LEMMA RemovalOwns ==
    ASSUME TableInv, Dispatching({"REMOVE_ALL"}), NEW e, e = return_events[index],
           e.io_handle \in DOMAIN handlers_
    PROVE  /\ IsRemoval(e) /\ e.sock \in Conns /\ e.data = e.sock /\ handlers_[e.io_handle] = e.sock
           /\ io_handle_[e.sock] = e.io_handle /\ stage[e.sock] = "registered"
           /\ HasSocket(e.sock) /\ e.io_handle \in Handles
  <1>1. IsRemoval(e) /\ EventOK(e) /\ run_pc = "dispatch"
    BY DispatchHead DEF IsRemoval
  <1>2. /\ e.sock \in Conns /\ e.data = e.sock /\ handlers_[e.io_handle] = e.sock
        /\ io_handle_[e.sock] = e.io_handle
    BY <1>1 DEF EventOK, Names, Registered
  <1>3. stage[e.sock] = "registered"
    BY <1>1, <1>2 DEF TableInv, TableOK, TableIsTrue, Control
  <1>4. HasSocket(e.sock)
    BY <1>2, <1>3 DEF TableInv, Lifecycle
  <1>5. QED
    BY <1>1, <1>2, <1>3, <1>4 DEF HasSocket

LEMMA DispatchRemoveKeeps ==
    ASSUME TableInv, DispatchRemove
    PROVE  TableInv'
  <1>0. PICK e, h, c : e = return_events[index] /\ h = e.io_handle /\ c = e.sock
    OBVIOUS
  <1>1. Dispatching({"REMOVE_ALL"}) /\ UNCHANGED <<queues, is_stop_event, closed>>
    BY DEF DispatchRemove
  <1>2. CASE h \notin DOMAIN handlers_
    <2>1. UNCHANGED <<table, armed, callback, stage>>
      BY <1>0, <1>2 DEF DispatchRemove, Registered
    <2>2. is_stop_event' \in BOOLEAN
      BY <1>1 DEF TableInv, TypeOK
    <2>3. QED
      BY <1>1, <2>1, <2>2, DispatchKeeps DEF table
  <1>3. CASE h \in DOMAIN handlers_
    <2>1. /\ Todo = {e} \cup Todo' /\ wait_pc = "out" /\ ctl = <<>> /\ wait_thread_id_ = Loop
          /\ expired = {} /\ run_pc = "dispatch" /\ callback = NoCallback
          /\ index <= Len(return_events) /\ index' = index + 1
          /\ \A y \in Todo' \cup Behind : y \in Line
          /\ UNCHANGED <<wait_thread_id_, wait_pc, ctl, open, return_events, run_pc, stop_,
                         stop_raised, io_handle_, removing, expired, calls>>
      BY <1>0, <1>1, DispatchHead
    <2>2. /\ IsRemoval(e) /\ c \in Conns /\ e.data = c /\ handlers_[h] = c /\ io_handle_[c] = h
          /\ stage[c] = "registered" /\ HasSocket(c) /\ h \in Handles
      BY <1>0, <1>1, <1>3, RemovalOwns
    <2>3. /\ armed' = armed \ {c}
          /\ handlers_' = [k \in (DOMAIN handlers_ \ {h}) \cap DOMAIN handlers_ |-> handlers_[k]]
          /\ handle_close_call_' = handle_close_call_ \ {h}
          /\ handler_count_' = handler_count_ - 1
          /\ stage' = [stage EXCEPT ![c] = "removed"]
          /\ callback' = [name |-> "handle_removed", handler |-> c]
      BY <1>0, <1>3, <2>2 DEF DispatchRemove, Registered, Untimed, TableWithout, Restrict, ForgetClose, Begin
    <2>4. DOMAIN handlers_' = DOMAIN handlers_ \ {h} /\ \A k \in DOMAIN handlers_' : handlers_'[k] = handlers_[k]
      BY <2>3
    <2>5. TypeOK /\ LineTypeOK /\ InLine(NewOwner)
      BY DEF TableInv
    <2>6. InLine(NewOwner)' /\ Behind' = Behind
      BY <1>1, <2>1, <2>5, DispatchQuiet
    <2>7. stage' \in [Conns -> Stages] /\ stage'[c] = "removed" /\ \A d \in Conns \ {c} : stage'[d] = stage[d]
      BY <2>2, <2>3, <2>5 DEF TypeOK, Stages
    <2>8. /\ IsFiniteSet(DOMAIN handlers_') /\ handler_count_' = Cardinality(DOMAIN handlers_')
          /\ handler_count_' \in Nat
      <3>1. /\ IsFiniteSet(DOMAIN handlers_ \ {h})
            /\ Cardinality(DOMAIN handlers_ \ {h}) = Cardinality(DOMAIN handlers_) - 1
        BY <1>3, FS_RemoveElement DEF TableInv, TableOK
      <3>2. Cardinality(DOMAIN handlers_ \ {h}) \in Nat
        BY <3>1, FS_CardinalityType
      <3>3. QED
        BY <2>3, <2>4, <3>1, <3>2 DEF TableInv, TableOK, TableIsTrue
    <2>9. TypeOK'
      <3>1. handlers_' \in [DOMAIN handlers_' -> Conns] /\ DOMAIN handlers_' \subseteq Handles
        BY <2>3, <2>4, <2>5 DEF TypeOK
      <3>2. QED
        BY <1>1, <2>1, <2>3, <2>5, <2>7, <2>8, <3>1 DEF TypeOK
    <2>10. /\ callback' \in [name : Callbacks, handler : Conns] /\ callback'.handler = c
           /\ callback'.name = "handle_removed" /\ StageOf(callback'.name) = "removed"
      BY <2>2, <2>3 DEF Callbacks, StageOf
    <2>11. LineTypeOK'
      BY <1>1, <2>1, <2>5, <2>10 DEF LineTypeOK, queues
    <2>12. Control'
      BY <1>1, <2>1, <2>7, <2>10 DEF TableInv, Control, queues
    <2>13. Started'
      BY <2>1 DEF Started
    <2>14. Lifecycle'
      BY <2>1, <2>2, <2>7, <2>10 DEF TableInv, Lifecycle, HasSocket
    <2>15. LineOK'
      <3>1. ASSUME NEW y \in Todo' \cup Behind PROVE EventOK(y)'
        <4>1. EventOK(y)
          BY <2>1 DEF TableInv, LineOK
        <4>2. QED
          BY <2>1, <2>2, <2>4, <2>7, <4>1 DEF EventOK, Names, Registered
      <3>2. \A y \in Todo' : y.return
        BY <2>1 DEF TableInv, LineOK
      <3>3. QED
        BY <2>6, <3>1, <3>2 DEF LineOK, Line
    <2>16. \A k \in DOMAIN handlers_' : k \in DOMAIN handlers_ /\ handlers_[k] \in Conns \ {c}
      BY <2>2, <2>4 DEF TableInv, TypeOK, TableOK, TableIsTrue
    <2>17. TableIsTrue'
      BY <2>1, <2>4, <2>7, <2>8, <2>16 DEF TableInv, TableOK, TableIsTrue
    <2>18. TimersOfLiveHandlers'
      BY <2>1, <2>2, <2>3, <2>4 DEF TableInv, TableOK, TimersOfLiveHandlers
    <2>19. /\ \A k \in DOMAIN handlers_' : handlers_'[k] \in closed' => k \in handle_close_call_'
           /\ \A d \in closed' : stage'[d] \in {"registered", "removed", "shutdown"}
      BY <1>1, <2>3, <2>4, <2>5, <2>7 DEF TableInv, TypeOK, TableOK
    <2>20. QED
      BY <2>6, <2>8, <2>9, <2>11, <2>12, <2>13, <2>14, <2>15, <2>17, <2>18, <2>19 DEF TableInv, TableOK
  <1>4. QED
    BY <1>2, <1>3

-----------------------------------------------------------------------------
LEMMA TableInit == Init => TableInv
  <1> SUFFICES ASSUME Init PROVE TableInv
    OBVIOUS
  <1> USE DEF Init, DemuxerInit
  <1>1. Todo = {} /\ Behind = {} /\ Line = {}
    BY DEF Todo, Behind, Line, Elems, Queue
  <1>2. TypeOK /\ LineTypeOK
    <2>1. DOMAIN handlers_ = {} /\ handlers_ \in [DOMAIN handlers_ -> Conns]
      OBVIOUS
    <2>2. io_handle_ \in [Conns -> Handles \cup {Null}] /\ stage \in [Conns -> Stages]
      BY DEF Stages
    <2>3. /\ run_pc \in {"start", "top", "timeouts", "wait", "dispatch", "shutdown", "stopped"}
          /\ handler_count_ \in Nat /\ calls \in Nat /\ index \in Nat \ {0}
          /\ handle_close_call_ = {} /\ armed = {} /\ expired = {} /\ closed = {}
      OBVIOUS
    <2>4. is_stop_event \in BOOLEAN /\ stop_ \in BOOLEAN /\ stop_raised \in StopStates
      BY Zenon DEF StopStates
    <2>5. open \in [Handles -> Conns \cup {Null}]
      OBVIOUS
    <2>6. /\ return_events \in Seq(Events) /\ ctl \in Seq(Events)
          /\ wait_events_ \in Seq(Events) /\ pipe \in Seq(Events)
      OBVIOUS
    <2>7. TypeOK
      BY Zenon, <2>1, <2>2, <2>3, <2>4 DEF TypeOK
    <2>8. QED
      BY <2>5, <2>6, <2>7 DEF LineTypeOK
  <1>3. Control /\ Started /\ Lifecycle /\ LineOK
    BY <1>1 DEF Control, Started, Lifecycle, LineOK
  <1>4. TableOK
    BY FS_EmptySet DEF TableOK, TableIsTrue, TimersOfLiveHandlers
  <1>5. InLine(NewOwner)
    BY DEF InLine, LineOrdered, Ordered, Cross, Elems, Queue
  <1>6. QED
    BY <1>2, <1>3, <1>4, <1>5 DEF TableInv

LEMMA TableNext == TableInv /\ [Next]_vars => TableInv'
  <1> SUFFICES ASSUME TableInv, [Next]_vars PROVE TableInv'
    OBVIOUS
  <1>1. CASE ReactorThread
    <2>1. CASE RunTop
      <3>1. run_pc' = "timeouts" \/ run_pc' = "wait"
        BY <2>1 DEF RunTop
      <3>2. QED
        BY <2>1, <3>1, RunKeeps, WaitBeginKeeps
    <2>2. CASE InWait
      <3>1. run_pc = "wait" /\ WaitStep /\ UNCHANGED reactor_vars
        BY <2>2 DEF InWait
      <3>2. QED
        BY <3>1, ProcessKeeps, DrainedKeeps, StageKeeps, ScanPipeKeeps, ScanHandleKeeps DEF WaitStep
    <2>3. CASE Dispatch
      BY <2>3, RunKeeps, DispatchOthersKeep, DispatchRegisterKeeps, DispatchRemoveKeeps DEF Dispatch
    <2>4. CASE \E h \in Handles : Shutdown(h)
      BY <2>4, ShutdownKeeps
    <2>5. CASE CallbackReturns
      BY <2>5, CallbackReturnsKeeps
    <2>6. QED
      BY <1>1, <2>1, <2>2, <2>3, <2>4, <2>5, RunKeeps DEF ReactorThread
  <1>2. CASE \E c \in Conns : LocalCall(c)
    BY <1>2, LocalCallKeeps
  <1>3. CASE WaitEmpty
    BY <1>3, StageKeeps DEF WaitEmpty
  <1>4. CASE OtherThreads
    BY <1>4, AcceptorOpensKeeps, RegisterKeeps, RemoteCallKeeps, StopKeeps, OwnerKeeps, PeerActsKeeps
    DEF OtherThreads
  <1>5. CASE UNCHANGED vars
    <2> USE <1>5 DEF vars, demuxer_vars, reactor_vars, queues, kernel, table, timers, stopping, told
    <2>1. TypeOK' /\ Control' /\ Started'
      BY SameLine DEF TableInv, TypeOK, Control, Late, Started
    <2>2. QED
      BY <2>1, QuietKeeps
  <1>6. QED
    BY <1>1, <1>2, <1>3, <1>4, <1>5 DEF Next

\* For any handles, connections, threads and calls, also those that come after a removal:
\* the table maps each handle to the live handler registered for it, handler_count_ counts
\* its entries, and no timer outlives its handler (Reactor.cpp dispatch,
\* run_shutdown; Reactor.h register_event_handler).
THEOREM TableCorrect == Spec => [](TableIsTrue /\ TimersOfLiveHandlers)
  <1>1. TableInv => TableIsTrue /\ TimersOfLiveHandlers
    BY DEF TableInv, TableOK
  <1>2. QED
    BY <1>1, TableInit, TableNext, PTL DEF Spec

\* An event queued for an earlier user of a handle number never reaches a later one
\* (Reactor.cpp dispatch), however handles are reused while a batch is dispatched.
THEOREM OwnersReached == Spec => []EventsReachTheirOwner
  <1>1. TableInv => EventsReachTheirOwner
    <2> SUFFICES ASSUME TableInv, NEW i \in index .. Len(return_events),
                        return_events[i].event \in IoEvents, Registered(return_events[i].io_handle)
                 PROVE  handlers_[return_events[i].io_handle] = return_events[i].sock
      BY DEF EventsReachTheirOwner
    <2>1. return_events[i] \in Line
      BY DEF Line, Todo, Elems
    <2>2. EventOK(return_events[i])
      BY <2>1 DEF TableInv, LineOK
    <2>3. QED
      BY <2>2 DEF EventOK, IsIo
  <1>2. QED
    BY <1>1, TableInit, TableNext, PTL DEF Spec

-----------------------------------------------------------------------------
\* What dispatch() and the timeouts find in the table is registered and not shut down.
LEMMA TableRegistered ==
    ASSUME TableInv, run_pc \in {"timeouts", "dispatch"}, NEW h \in DOMAIN handlers_
    PROVE  /\ handlers_[h] \in Conns /\ stage[handlers_[h]] = "registered"
           /\ io_handle_[handlers_[h]] = h
  <1>1. handlers_[h] \in Conns
    BY DEF TableInv, TypeOK
  <1>2. stage[handlers_[h]] # "shutdown"
    BY <1>1 DEF TableInv, Control
  <1>3. QED
    BY <1>1, <1>2 DEF TableInv, TableOK, TableIsTrue

\* The callback that a step begins comes in its turn.
LEMMA CallbackBegins ==
    ASSUME TableInv, Next, callback' # callback, callback' # NoCallback
    PROVE  /\ stage[callback'.handler] =
                IF callback'.name = "handle_registered" THEN "raised" ELSE "registered"
           /\ callback'.name = "handle_close" => callback'.handler \notin closed
  <1>0. PICK e : e = return_events[index]
    OBVIOUS
  <1>1. CASE \E c \in Conns : HandleTimeout(c)
    <2>1. PICK c \in Conns : HandleTimeout(c)
      BY <1>1
    <2>2. c \in expired /\ run_pc = "timeouts" /\ callback' = [name |-> "handle_timeout", handler |-> c]
      BY <2>1 DEF HandleTimeout, Begin
    <2>3. PICK h \in DOMAIN handlers_ : handlers_[h] = c
      BY <2>2 DEF TableInv, TableOK, TimersOfLiveHandlers
    <2>4. stage[c] = "registered"
      BY <2>2, <2>3, TableRegistered
    <2>5. QED
      BY <2>2, <2>4
  <1>2. CASE DispatchIo
    <2>1. /\ run_pc = "dispatch" /\ e.io_handle \in DOMAIN handlers_
          /\ callback'.handler = handlers_[e.io_handle]
          /\ callback'.name \in {"handle_input", "handle_output", "handle_error"}
      BY <1>0, <1>2 DEF DispatchIo, Dispatching, Registered, Begin
    <2>2. stage[callback'.handler] = "registered"
      BY <2>1, TableRegistered
    <2>3. QED
      BY <2>1, <2>2
  <1>3. CASE DispatchClose
    <2>1. PICK c : c = handlers_[e.io_handle]
      OBVIOUS
    <2>2. /\ run_pc = "dispatch" /\ e.io_handle \in DOMAIN handlers_ /\ ~CloseCalled(c)
          /\ callback' = [name |-> "handle_close", handler |-> c]
      BY <1>0, <1>3, <2>1 DEF DispatchClose, Dispatching, Registered, Begin
    <2>3. stage[c] = "registered" /\ io_handle_[c] = e.io_handle
      BY <2>1, <2>2, TableRegistered
    <2>4. c \notin closed
      BY <2>1, <2>2, <2>3 DEF TableInv, TableOK, CloseCalled
    <2>5. QED
      BY <2>2, <2>3, <2>4
  <1>4. CASE DispatchRegister
    <2>1. Dispatching({"REGISTER_READ"}) /\ callback' = [name |-> "handle_registered", handler |-> e.data]
      BY <1>0, <1>4 DEF DispatchRegister, Begin
    <2>2. EventOK(e) /\ IsRegister(e)
      BY <1>0, <2>1, DispatchHead DEF IsRegister
    <2>3. stage[e.data] = "raised"
      BY <2>2 DEF EventOK, Names
    <2>4. QED
      BY <2>1, <2>3
  <1>5. CASE DispatchRemove
    <2>1. /\ Dispatching({"REMOVE_ALL"}) /\ e.io_handle \in DOMAIN handlers_
          /\ callback' = [name |-> "handle_removed", handler |-> e.data]
      BY <1>0, <1>5 DEF DispatchRemove, Registered, Begin
    <2>2. stage[e.data] = "registered"
      BY <1>0, <2>1, RemovalOwns
    <2>3. QED
      BY <2>1, <2>2
  <1>6. CASE \E h \in Handles : Shutdown(h)
    <2>1. PICK h \in Handles : Shutdown(h)
      BY <1>6
    <2>2. QED
      BY <2>1 DEF Shutdown, Begin
  <1>7. CASE ReactorThread
    <2>1. CASE RunTop \/ InWait \/ WaitReturned
      BY <2>1 DEF RunTop, InWait, WaitReturned, reactor_vars
    <2>2. CASE RunStart \/ TimeoutsDone \/ RunEnds \/ CallbackReturns
      BY <2>2 DEF RunStart, TimeoutsDone, RunEnds, CallbackReturns
    <2>3. CASE DispatchStop \/ DispatchTimer \/ DispatchUnknown \/ DispatchDone
      BY <2>3 DEF DispatchStop, DispatchTimer, DispatchUnknown, DispatchDone
    <2>4. QED
      BY <1>1, <1>2, <1>3, <1>4, <1>5, <1>6, <1>7, <2>1, <2>2, <2>3 DEF ReactorThread, Dispatch
  <1>8. CASE (\E c \in Conns : LocalCall(c)) \/ WaitEmpty
    BY <1>8 DEF LocalCall, Call, WaitEmpty, reactor_vars
  <1>9. CASE OtherThreads
    BY <1>9 DEF OtherThreads, AcceptorOpens, register_event_handler, RemoteCall, Call, stop,
       owner_stop_tests, owner_stop_queues, reactor_vars
  <1>10. QED
    BY <1>7, <1>8, <1>9 DEF Next

\* A handler is told handle_registered first, nothing after handle_removed or
\* handle_shutdown, and handle_close at most once (Reactor.cpp dispatch,
\* run_timeout_handler, run_shutdown), whatever other callbacks of the same batch have
\* raised or removed in between and whoever used its handle number before.
THEOREM ToldInTurn == Spec => CallbacksInOrder
  <1>1. TableInv /\ [Next]_vars =>
          [callback' # callback /\ callback' # NoCallback =>
             stage[callback'.handler] =
               IF callback'.name = "handle_registered" THEN "raised" ELSE "registered"]_vars
    BY CallbackBegins
  <1>2. TableInv /\ [Next]_vars => [Starts("handle_close") => callback'.handler \notin closed]_vars
    BY CallbackBegins DEF Starts, NoCallback
  <1>3. QED
    BY <1>1, <1>2, TableInit, TableNext, PTL DEF Spec, CallbacksInOrder, ToldInOrder, CloseOnce
-----------------------------------------------------------------------------
\* What epoll watches.  register_writable has to come from the loop's own thread and
\* before the removal of its handler: one that gets behind a removal makes an entry of
\* the epoll map that nobody takes out, with EPOLLOUT alone.
WritesInTime == ~LateWrites /\ "register_writable" \notin RemoteCalls

IsQuiet(e) == e.event = "REMOVE_ALL" /\ ~e.return
IsWrite(e) == e.event = "REGISTER_WRITE"
IsOneShot(e) == e.event \in {"WRITE", "REMOVE_WRITE"}
Ending == run_pc \in {"shutdown", "stopped"}

\* Nothing is watched for a connection behind its removal, nothing taken from a new
\* owner of a handle, and the one EPOLLOUT asked for is switched off once.
InTime ==
    {p \in Events \X Events :
       /\ IsRemoval(p[1]) /\ IsWrite(p[2]) => p[2].sock # p[1].sock
       /\ IsRegister(p[1]) /\ (IsQuiet(p[2]) \/ p[2].event = "REMOVE_WRITE") =>
            p[2].io_handle # p[1].io_handle
       /\ IsOneShot(p[1]) /\ IsOneShot(p[2]) => p[2].io_handle # p[1].io_handle}

\* A handle is watched from its registration request to its removal request; the table
\* follows when dispatch() comes to these requests.
Interest ==
    /\ interest = watched /\ interest \in [DOMAIN interest -> SUBSET Bits]
    /\ \A h \in DOMAIN interest : "IN" \in interest[h]
    /\ \A h \in DOMAIN interest \ DOMAIN handlers_ : \E e \in Todo : IsRegister(e) /\ e.io_handle = h
    /\ ~Ending =>
         \A h \in DOMAIN handlers_ \ DOMAIN interest : \E e \in Todo : IsRemoval(e) /\ e.io_handle = h
Tabled ==
    \A c \in Conns : stage[c] \in {"registered", "shutdown"} =>
      io_handle_[c] \in DOMAIN handlers_ /\ handlers_[io_handle_[c]] = c

\* What holds of any member of the line, and of the batch.
RequestOK(e) ==
    /\ IsRemoval(e) => e.sock \in removing
    /\ IsQuiet(e) /\ ~Ending => e.io_handle \notin DOMAIN handlers_
    /\ IsWrite(e) => /\ e.sock \in Conns /\ io_handle_[e.sock] = e.io_handle
                     /\ stage[e.sock] \in {"registered", "shutdown"}
    /\ IsOneShot(e) /\ e.io_handle \in DOMAIN interest => "OUT" \in interest[e.io_handle]
    /\ e.event = "REMOVE_WRITE" => ~e.return
BatchOK(e) ==
    /\ IsRegister(e) => e.io_handle \in DOMAIN interest
    /\ IsRemoval(e) /\ stage[e.sock] = "registered" => e.io_handle \notin DOMAIN interest
    /\ IsIo(e) => e.io_handle \notin DOMAIN scan
    /\ IsIo(e) /\ run_pc = "wait" => e.io_handle \in DOMAIN handlers_
Batch ==
    /\ \A e \in Todo : BatchOK(e)
    /\ \A e, f \in Todo : IsIo(e) /\ IsRegister(f) => e.io_handle # f.io_handle

RemovedOK ==
    callback # NoCallback /\ callback.name = "handle_removed" =>
      callback.handler \in removing /\ io_handle_[callback.handler] \notin DOMAIN interest

\* Where the requests come from, and what wait() has in its hands at each stage.
WaitOK ==
    /\ \A e \in Behind : ~IsIo(e)
    /\ \A e \in Elems(pipe, 1) : ~IsWrite(e) /\ e.event # "REMOVE_WRITE"
    /\ wait_pc = "pipe" => \A e \in Elems(ctl, 1) : e.event # "REMOVE_WRITE"
    /\ wait_thread_id_ = Loop => \A e \in Elems(Queue, 1) : ~IsRegister(e)
    /\ wait_pc = "epoll" => return_events = <<>>
    /\ wait_pc = "drain" /\ wait_events_ = <<>> => ctl = <<>> /\ return_events = <<>>
ScanOK ==
    /\ wait_pc \notin {"scan", "pipe"} => DOMAIN scan = {}
    /\ DOMAIN scan \ {PIPE} \subseteq DOMAIN handlers_
    /\ \A h \in (DOMAIN scan \ {PIPE}) \cap DOMAIN interest : "out" \in scan[h] => "OUT" \in interest[h]

WatchInv ==
    /\ Interest /\ Tabled /\ (\A e \in Line : RequestOK(e)) /\ Batch /\ RemovedOK
    /\ WaitOK /\ ScanOK /\ InLine(InTime)

\* A step that leaves epoll, the table and the scan alone: requests may be raised, and an
\* event taken from the batch that no entry waits for.
LEMMA WatchKeeps ==
    ASSUME TableInv, WatchInv,
           UNCHANGED <<interest, watched, handlers_, scan>>,
           Ending => Ending', run_pc' = "wait" => run_pc = "wait" \/ Todo' = {},
           removing \subseteq removing',
           \A c \in Conns : stage[c] \in {"registered", "shutdown"} => io_handle_'[c] = io_handle_[c],
           \A c \in Conns : stage[c] \in {"registered", "shutdown"} <=> stage'[c] \in {"registered", "shutdown"},
           \A c \in Conns : stage'[c] = "registered" => stage[c] = "registered",
           callback' # NoCallback /\ callback'.name = "handle_removed" =>
             callback' = callback /\ io_handle_'[callback.handler] = io_handle_[callback.handler],
           Todo' \subseteq Todo,
           \A e \in Todo \ Todo' :
             ~IsRegister(e) /\ (IsRemoval(e) => e.io_handle \notin DOMAIN handlers_),
           \A e \in Line' : e \in Line \/ RequestOK(e)',
           InLine(InTime)', WaitOK', wait_pc' \notin {"scan", "pipe"} => DOMAIN scan = {}
    PROVE  WatchInv'
  <1>1. Interest'
    <2>1. /\ interest' = watched' /\ interest' \in [DOMAIN interest' -> SUBSET Bits]
          /\ \A h \in DOMAIN interest' : "IN" \in interest'[h]
      BY DEF WatchInv, Interest
    <2>2. ASSUME NEW h \in DOMAIN interest' \ DOMAIN handlers_'
          PROVE  \E e \in Todo' : IsRegister(e) /\ e.io_handle = h
      BY DEF WatchInv, Interest
    <2>3. ASSUME ~Ending', NEW h \in DOMAIN handlers_' \ DOMAIN interest'
          PROVE  \E e \in Todo' : IsRemoval(e) /\ e.io_handle = h
      BY <2>3 DEF WatchInv, Interest
    <2>4. QED
      BY <2>1, <2>2, <2>3 DEF Interest
  <1>2. Tabled'
    BY DEF WatchInv, Tabled
  <1>3. ASSUME NEW e \in Line' PROVE RequestOK(e)'
    <2>1. CASE e \in Line
      <3>1. RequestOK(e)
        BY <2>1 DEF WatchInv
      <3>2. QED
        BY <3>1 DEF RequestOK
    <2>2. QED
      BY <2>1
  <1>4. Batch'
    <2>1. ASSUME NEW e \in Todo' PROVE BatchOK(e)'
      <3>1. e \in Line /\ BatchOK(e)
        BY DEF WatchInv, Batch, Line
      <3>2. IsRemoval(e) => e.sock \in Conns
        BY <3>1 DEF TableInv, LineOK, EventOK, Names
      <3>3. QED
        BY <3>1, <3>2 DEF BatchOK
    <2>2. \A e, f \in Todo' : IsIo(e) /\ IsRegister(f) => e.io_handle # f.io_handle
      BY DEF WatchInv, Batch
    <2>3. QED
      BY <2>1, <2>2 DEF Batch
  <1>5. RemovedOK'
    BY DEF WatchInv, RemovedOK
  <1>6. ScanOK'
    BY DEF WatchInv, ScanOK
  <1>7. QED
    BY <1>1, <1>2, <1>3, <1>4, <1>5, <1>6 DEF WatchInv

\* Nothing is raised and the line stays.
LEMMA WatchSame ==
    ASSUME TableInv, WatchInv,
           UNCHANGED <<interest, watched, handlers_, scan, return_events, index, ctl, queues, wait_pc,
                       wait_thread_id_, removing>>,
           Ending => Ending', run_pc' = "wait" => run_pc = "wait",
           \A c \in Conns : stage[c] \in {"registered", "shutdown"} => io_handle_'[c] = io_handle_[c],
           \A c \in Conns : stage[c] \in {"registered", "shutdown"} <=> stage'[c] \in {"registered", "shutdown"},
           \A c \in Conns : stage'[c] = "registered" => stage[c] = "registered",
           callback' # NoCallback /\ callback'.name = "handle_removed" =>
             callback' = callback /\ io_handle_'[callback.handler] = io_handle_[callback.handler]
    PROVE  WatchInv'
  <1>1. /\ Todo' = Todo /\ Behind' = Behind /\ Line' = Line /\ Queue' = Queue /\ InLine(InTime)'
        /\ pipe' = pipe /\ wait_events_' = wait_events_
    BY SameLine DEF WatchInv, queues
  <1>2. WaitOK'
    BY <1>1 DEF WatchInv, WaitOK
  <1>3. wait_pc' \notin {"scan", "pipe"} => DOMAIN scan = {}
    BY DEF WatchInv, ScanOK
  <1>4. QED
    BY <1>1, <1>2, <1>3, WatchKeeps

LEMMA WatchInit == Init => WatchInv
  <1> SUFFICES ASSUME Init PROVE WatchInv
    OBVIOUS
  <1> USE DEF Init, DemuxerInit
  <1>1. Todo = {} /\ Behind = {} /\ Line = {} /\ Elems(pipe, 1) = {} /\ Elems(Queue, 1) = {}
    BY DEF Todo, Behind, Line, Elems, Queue
  <1>2. DOMAIN interest = {} /\ interest = watched /\ DOMAIN handlers_ = {} /\ DOMAIN scan = {}
    OBVIOUS
  <1>3. Interest /\ Batch /\ RemovedOK /\ WaitOK /\ ScanOK
    BY <1>1, <1>2 DEF Interest, Bits, Batch, RemovedOK, WaitOK, ScanOK
  <1>4. Tabled
    BY DEF Tabled
  <1>5. InLine(InTime)
    BY DEF InLine, LineOrdered, Ordered, Cross, Elems, Queue
  <1>6. QED
    BY <1>1, <1>3, <1>4, <1>5 DEF WatchInv

\* The steps of the loop around wait() and dispatch(), and those of the peer.
LEMMA RunWatch ==
    ASSUME TableInv, WatchInv,
           \/ RunStart \/ TimeoutsDone \/ WaitReturned \/ DispatchDone \/ RunEnds
           \/ RunTop /\ run_pc' = "timeouts"
           \/ \E c \in Conns : HandleTimeout(c)
    PROVE  WatchInv'
  <1> USE DEF demuxer_vars, kernel, table, told, Ending
  <1>1. UNCHANGED <<interest, watched, handlers_, scan, return_events, index, ctl, queues, wait_pc,
                    wait_thread_id_, removing, stage, io_handle_>>
    BY DEF RunStart, TimeoutsDone, WaitReturned, DispatchDone, RunEnds, RunTop, HandleTimeout
  <1>2. (Ending => Ending') /\ run_pc' # "wait"
    BY DEF RunStart, TimeoutsDone, WaitReturned, DispatchDone, RunEnds, RunTop, HandleTimeout
  <1>3. callback' = callback \/ callback'.name = "handle_timeout"
    BY DEF RunStart, TimeoutsDone, WaitReturned, DispatchDone, RunEnds, RunTop, HandleTimeout, Begin
  <1>4. QED
    BY <1>1, <1>2, <1>3, WatchSame

LEMMA ShutdownWatch ==
    ASSUME TableInv, WatchInv, NEW h \in Handles, Shutdown(h)
    PROVE  WatchInv'
  <1> USE DEF demuxer_vars, kernel, table, told, Ending
  <1>1. /\ UNCHANGED <<interest, watched, handlers_, scan, return_events, index, ctl, queues, wait_pc,
                       wait_thread_id_, removing, io_handle_, run_pc>>
        /\ h \in DOMAIN handlers_ /\ stage[handlers_[h]] = "registered"
        /\ stage' = [stage EXCEPT ![handlers_[h]] = "shutdown"]
        /\ callback'.name = "handle_shutdown"
    BY DEF Shutdown, Registered, Begin
  <1>2. handlers_[h] \in Conns /\ stage \in [Conns -> Stages]
    BY <1>1 DEF TableInv, TypeOK
  <1>3. /\ \A c \in Conns : stage[c] \in {"registered", "shutdown"} <=> stage'[c] \in {"registered", "shutdown"}
        /\ \A c \in Conns : stage'[c] = "registered" => stage[c] = "registered"
    BY <1>1, <1>2
  <1>4. QED
    BY <1>1, <1>3, WatchSame

LEMMA AcceptorOpensWatch ==
    ASSUME TableInv, WatchInv, NEW c \in Conns, NEW h \in Handles, AcceptorOpens(c, h)
    PROVE  WatchInv'
  <1> USE DEF inside_wait, table, Ending
  <1>1. /\ stage[c] = "none" /\ io_handle_' = [io_handle_ EXCEPT ![c] = h]
        /\ stage' = [stage EXCEPT ![c] = "opened"]
        /\ UNCHANGED <<interest, watched, handlers_, scan, return_events, index, ctl, queues, wait_pc,
                       wait_thread_id_, removing, run_pc, callback>>
    BY DEF AcceptorOpens
  <1>2. stage \in [Conns -> Stages] /\ io_handle_ \in [Conns -> Handles \cup {Null}]
    BY DEF TableInv, TypeOK
  <1>3. callback # NoCallback => callback.handler \in Conns /\ callback.handler # c
    BY <1>1 DEF TableInv, Lifecycle, StageOf, LineTypeOK
  <1>4. QED
    BY <1>1, <1>2, <1>3, WatchSame

\* To take out what is not in changes nothing.
LEMMA RestrictSame ==
    ASSUME NEW f, NEW D, f = [x \in D |-> f[x]], NEW h, h \notin D
    PROVE  Restrict(f, D \ {h}) = f
  <1>1. D \ {h} = D
    OBVIOUS
  <1>2. QED
    BY <1>1 DEF Restrict

\* Thread t raises f, and nothing else of the line, epoll, table or connections changes.
LEMMA RaiseWatch ==
    ASSUME TableInv, WatchInv, NEW t, NEW f \in Events, Raise(t, f),
           ~IsIo(f), RequestOK(f)', \A x \in Line : <<x, f>> \in InTime,
           t = wait_thread_id_ => wait_pc = "out" /\ \A y \in Elems(pipe, 1) : <<f, y>> \in InTime,
           t # wait_thread_id_ => ~IsWrite(f) /\ f.event # "REMOVE_WRITE",
           wait_thread_id_ = Loop => ~IsRegister(f) \/ t # Loop,
           UNCHANGED <<inside_wait, watched, handlers_, return_events, index, run_pc, io_handle_>>,
           removing \subseteq removing',
           \A c \in Conns : stage[c] \in {"registered", "shutdown"} <=> stage'[c] \in {"registered", "shutdown"},
           \A c \in Conns : stage'[c] = "registered" => stage[c] = "registered",
           callback' # NoCallback => callback' = callback
    PROVE  WatchInv'
  <1> USE DEF inside_wait
  <1>1. /\ InLine(InTime)' /\ Todo' = Todo /\ Behind' = Behind \cup {f}
    <2>1. LineTypeOK /\ InLine(InTime) /\ UNCHANGED <<return_events, index, ctl, wait_pc>>
      BY DEF TableInv, WatchInv
    <2>2. t = wait_thread_id_ =>
             /\ wait_pc = "out"
             /\ \A x \in Todo \cup Elems(ctl, 1) \cup Elems(Queue, 1) : <<x, f>> \in InTime
             /\ \A y \in Elems(pipe, 1) : <<f, y>> \in InTime
      BY LineTyped DEF TableInv
    <2>3. QED
      BY <2>1, <2>2, RaiseLine
  <1>2. Line' = Line \cup {f}
    BY <1>1 DEF Line
  <1>3. LineTypeOK /\ Queue \in Seq(Events) /\ pipe \in Seq(Events)
    BY LineTyped DEF TableInv, LineTypeOK
  <1>4. WaitOK'
    <2>1. CASE t = wait_thread_id_
      <3>1. wait_pc = "out" /\ wait_events_' = Append(wait_events_, f) /\ UNCHANGED pipe
        BY <2>1 DEF Raise
      <3>2. Queue' = Append(Queue, f)
        BY <3>1 DEF Queue
      <3>3. Elems(Append(Queue, f), 1) = Elems(Queue, 1) \cup {f}
        BY <1>3, AppendElems
      <3>4. QED
        BY <1>1, <2>1, <3>1, <3>2, <3>3 DEF WatchInv, WaitOK
    <2>2. CASE t # wait_thread_id_
      <3>1. pipe' = Append(pipe, f) /\ UNCHANGED wait_events_
        BY <2>2 DEF Raise
      <3>2. Queue' = Queue
        BY <3>1 DEF Queue
      <3>3. Elems(Append(pipe, f), 1) = Elems(pipe, 1) \cup {f}
        BY <1>3, AppendElems
      <3>4. QED
        BY <1>1, <2>2, <3>1, <3>2, <3>3 DEF WatchInv, WaitOK
    <2>3. QED
      BY <2>1, <2>2
  <1>5. (Ending => Ending') /\ (run_pc' = "wait" => run_pc = "wait")
    BY DEF Ending
  <1>6. wait_pc' \notin {"scan", "pipe"} => DOMAIN scan = {}
    BY DEF WatchInv, ScanOK
  <1>7. QED
    BY <1>1, <1>2, <1>4, <1>5, <1>6, WatchKeeps

LEMMA RegisterWatch ==
    ASSUME TableInv, WatchInv, NEW t \in Threads, NEW c \in Conns, register_event_handler(t, c)
    PROVE  WatchInv'
  <1> USE DEF table
  <1>0. PICK h, f : h = io_handle_[c] /\ f = Event("REGISTER_READ", h, c, TRUE, c)
    OBVIOUS
  <1>1. /\ stage[c] = "opened" /\ Raise(t, f)
        /\ stage' = [stage EXCEPT ![c] = "raised"]
        /\ UNCHANGED <<inside_wait, watched, handlers_, return_events, run_pc, index, callback, io_handle_,
                       removing>>
    BY <1>0 DEF register_event_handler
  <1>2. h \in Handles
    BY <1>0, <1>1 DEF TableInv, Lifecycle, HasSocket
  <1>3. /\ f \in Events /\ f.event = "REGISTER_READ" /\ ~IsRemoval(f) /\ ~IsIo(f) /\ ~IsQuiet(f)
        /\ ~IsWrite(f) /\ ~IsOneShot(f)
    BY <1>0, <1>2 DEF Events, Event, EventNames, IsRemoval, IsIo, IoEvents, IsQuiet, IsWrite, IsOneShot
  <1>4. \A x \in Line : <<x, f>> \in InTime
    BY <1>3, LineTyped DEF InTime, TableInv
  <1>5. t = wait_thread_id_ => wait_pc = "out" /\ \A y \in Elems(pipe, 1) : <<f, y>> \in InTime
    <2> SUFFICES ASSUME t = wait_thread_id_
                 PROVE  wait_pc = "out" /\ \A y \in Elems(pipe, 1) : <<f, y>> \in InTime
      OBVIOUS
    <2>1. wait_thread_id_ # Loop
      BY DemuxerConstants
    <2>2. wait_pc = "out" /\ \A e \in Line : e.event \in {"REGISTER_READ", "STOP"}
      BY <2>1 DEF TableInv, Started, Control
    <2>3. \A y \in Elems(pipe, 1) : y \in Events /\ y \in Line
      BY LineTyped DEF TableInv
    <2>4. QED
      BY <2>2, <2>3, <1>3 DEF InTime, IsQuiet
  <1>6. RequestOK(f)'
    BY <1>3 DEF RequestOK
  <1>7. stage \in [Conns -> Stages] /\ t # Loop
    BY DemuxerConstants DEF TableInv, TypeOK
  <1>8. QED
    BY <1>1, <1>3, <1>4, <1>5, <1>6, <1>7, RaiseWatch

LEMMA CallWatch ==
    ASSUME TableInv, WatchInv, WritesInTime, NEW t \in Threads \cup {Loop}, NEW c \in Conns,
           NEW names \in SUBSET CallNames, Call(t, c, names), HasSocket(c),
           stage[c] = "registered" \/ (stage[c] = "removed" /\ c \in removing),
           wait_thread_id_ = Loop, t = Loop => wait_pc = "out",
           t # Loop => "register_writable" \notin names
    PROVE  WatchInv'
  <1> USE DEF table, told
  <1>0. PICK name \in names :
             /\ name = "register_writable" => LateWrites \/ c \notin removing
             /\ Raise(t, CallEvent(name, c))
             /\ removing' = IF name = "remove" THEN removing \cup {c} ELSE removing
    BY DEF Call
  <1>1. PICK h, f : h = io_handle_[c] /\ f = CallEvent(name, c)
    OBVIOUS
  <1>2. name \in CallNames /\ h \in Handles
    BY <1>1 DEF HasSocket
  <1>3. /\ f \in Events /\ f.io_handle = h /\ f.sock = c /\ ~IsRegister(f) /\ ~IsIo(f) /\ ~IsQuiet(f)
        /\ ~IsOneShot(f) /\ f.event # "REMOVE_WRITE"
        /\ IsWrite(f) <=> name = "register_writable"
        /\ IsRemoval(f) <=> name = "remove"
    BY <1>1, <1>2 DEF CallEvent, CallNames, Event, Events, EventNames, IsRegister, IsRemoval, IsIo,
       IoEvents, IsQuiet, IsWrite, IsOneShot
  <1>4. /\ UNCHANGED <<inside_wait, watched, handlers_, return_events, index, run_pc, io_handle_,
                       stage, callback>>
    BY DEF Call
  <1>5. IsWrite(f) => c \notin removing /\ stage[c] = "registered"
    BY <1>0, <1>3 DEF WritesInTime
  <1>6. RequestOK(f)'
    BY <1>0, <1>1, <1>3, <1>4, <1>5 DEF RequestOK
  <1>7. ASSUME NEW x \in Line PROVE <<x, f>> \in InTime
    <2>1. x \in Events /\ (IsRemoval(x) => x.sock \in removing)
      BY LineTyped DEF TableInv, WatchInv, RequestOK
    <2>2. QED
      BY <1>3, <1>5, <2>1 DEF InTime
  <1>8. ASSUME NEW y \in Elems(pipe, 1) PROVE <<f, y>> \in InTime
    <2>1. y \in Events /\ ~IsWrite(y)
      BY LineTyped DEF TableInv, WatchInv, WaitOK
    <2>2. QED
      BY <1>3, <2>1 DEF InTime
  <1>9. removing \subseteq removing'
    BY <1>0
  <1>10. t # wait_thread_id_ => ~IsWrite(f)
    BY <1>3
  <1>11. QED
    BY <1>0, <1>1, <1>3, <1>4, <1>6, <1>7, <1>8, <1>9, <1>10, RaiseWatch

LEMMA RemoteCallWatch ==
    ASSUME TableInv, WatchInv, WritesInTime, NEW t \in Threads, NEW c \in Conns, RemoteCall(t, c)
    PROVE  WatchInv'
  <1>1. stage[c] = "registered" /\ Call(t, c, RemoteCalls) /\ t # Loop
    BY DemuxerConstants DEF RemoteCall
  <1>2. HasSocket(c)
    BY <1>1 DEF TableInv, Lifecycle
  <1>3. wait_thread_id_ = Loop /\ "register_writable" \notin RemoteCalls
    BY <1>1 DEF TableInv, Started, WritesInTime
  <1>4. QED
    BY <1>1, <1>2, <1>3, CallWatch, ReactorConstants

LEMMA LocalCallWatch ==
    ASSUME TableInv, WatchInv, WritesInTime, NEW c \in Conns, LocalCall(c)
    PROVE  WatchInv'
  <1>1. /\ callback # NoCallback /\ callback.name # "handle_shutdown"
        /\ c = callback.handler \/ stage[c] = "registered"
        /\ Call(Loop, c, LocalCalls)
    BY DEF LocalCall
  <1>2. HasSocket(c)
    BY <1>1 DEF TableInv, Lifecycle
  <1>3. stage[c] = "registered" \/ (stage[c] = "removed" /\ c \in removing)
    BY <1>1 DEF TableInv, Lifecycle, StageOf, WatchInv, RemovedOK
  <1>4. wait_pc = "out" /\ wait_thread_id_ = Loop
    BY <1>1 DEF TableInv, Control, Late, Started
  <1>5. QED
    BY <1>1, <1>2, <1>3, <1>4, CallWatch, ReactorConstants

LEMMA StopInTime ==
    ASSUME TableInv
    PROVE  /\ ~IsQuiet(StopEvent) /\ ~IsWrite(StopEvent) /\ ~IsOneShot(StopEvent)
           /\ StopEvent.event # "REMOVE_WRITE"
           /\ RequestOK(StopEvent) /\ RequestOK(StopEvent)'
           /\ \A x \in Line : <<x, StopEvent>> \in InTime /\ <<StopEvent, x>> \in InTime
  <1>1. ~IsQuiet(StopEvent) /\ ~IsWrite(StopEvent) /\ ~IsOneShot(StopEvent)
    BY StopIsFree DEF IsQuiet, IsWrite, IsOneShot
  <1>2. QED
    BY <1>1, StopIsFree, LineTyped DEF InTime, TableInv, RequestOK

LEMMA StopWatch ==
    ASSUME TableInv, WatchInv, NEW t \in Threads, stop(t)
    PROVE  WatchInv'
  <1> USE DEF table, told
  <1>1. /\ Raise(t, StopEvent) /\ t # Loop
        /\ UNCHANGED <<inside_wait, watched, handlers_, return_events, index, run_pc, io_handle_,
                       stage, callback, removing>>
    BY DemuxerConstants DEF stop
  <1>2. t = wait_thread_id_ => wait_pc = "out"
    BY <1>1 DEF TableInv, Started, Control
  <1>3. \A y \in Elems(pipe, 1) : <<StopEvent, y>> \in InTime
    BY StopInTime, LineTyped DEF TableInv
  <1>4. QED
    BY <1>1, <1>2, <1>3, StopIsFree, StopInTime, RaiseWatch

LEMMA OwnerWatch ==
    ASSUME TableInv, WatchInv, owner_stop_tests \/ owner_stop_queues
    PROVE  WatchInv'
  <1> USE DEF table, told, inside_wait
  <1>1. UNCHANGED <<inside_wait, pipe, watched, handlers_, return_events, index, run_pc, io_handle_,
                    stage, callback, removing>>
    BY DEF owner_stop_tests, owner_stop_queues, demuxer_vars, queues
  <1>2. CASE owner_stop_tests
    <2>1. UNCHANGED queues
      BY <1>2 DEF owner_stop_tests, demuxer_vars
    <2>2. QED
      BY <1>1, <2>1, WatchSame DEF Ending
  <1>3. CASE owner_stop_queues /\ wait_pc = "out"
    <2>1. Raise(wait_thread_id_, StopEvent)
      BY <1>3 DEF owner_stop_queues, Raise
    <2>2. \A y \in Elems(pipe, 1) : <<StopEvent, y>> \in InTime
      BY StopInTime, LineTyped DEF TableInv
    <2>3. QED
      BY <1>1, <1>3, <2>1, <2>2, StopIsFree, StopInTime, RaiseWatch
  <1>4. CASE owner_stop_queues /\ wait_pc # "out"
    <2>1. wait_events_' # <<>>
      <3>1. wait_events_' = Append(wait_events_, StopEvent) /\ wait_events_ \in Seq(Events)
        BY <1>4 DEF owner_stop_queues, TableInv, LineTypeOK
      <3>2. QED
        BY <3>1
    <2>2. Queue' = Queue /\ Todo' = Todo /\ Line' = Line /\ Behind' = Behind /\ InLine(InTime)'
      BY <1>1, <1>4 DEF Todo, Line, Behind, Queue, InLine, WatchInv
    <2>3. WaitOK'
      BY <1>1, <2>1, <2>2 DEF WatchInv, WaitOK
    <2>4. wait_pc' \notin {"scan", "pipe"} => DOMAIN scan = {}
      BY <1>1 DEF WatchInv, ScanOK
    <2>5. QED
      BY <1>1, <2>2, <2>3, <2>4, WatchKeeps DEF Ending
  <1>5. QED
    BY <1>2, <1>3, <1>4

LEMMA CallbackReturnsWatch ==
    ASSUME TableInv, WatchInv, CallbackReturns
    PROVE  WatchInv'
  <1> USE DEF table, told, inside_wait
  <1>0. PICK c, h : c = callback.handler /\ h = io_handle_[c]
    OBVIOUS
  <1>1. /\ callback # NoCallback /\ callback' = NoCallback
        /\ UNCHANGED <<wait_thread_id_, interest, wait_pc, ctl, scan, return_events, run_pc, index,
                       handlers_, io_handle_, stage, removing>>
    BY DEF CallbackReturns
  <1>2. c \in Conns /\ h \in Handles /\ open[h] = c /\ stage[c] = StageOf(callback.name)
    BY <1>0, <1>1 DEF TableInv, Lifecycle, HasSocket, LineTypeOK
  <1>3. CASE callback.name = "handle_removed"
    <2>1. UNCHANGED queues /\ watched' = Restrict(watched, DOMAIN watched \ {h})
      BY <1>0, <1>1, <1>3 DEF CallbackReturns, KernelClose
    <2>2. /\ interest = watched /\ h \notin DOMAIN watched
          /\ watched = [x \in DOMAIN watched |-> watched[x]]
      BY <1>0, <1>1, <1>3 DEF WatchInv, Interest, RemovedOK
    <2>3. watched' = watched
      BY <2>1, <2>2, RestrictSame
    <2>4. QED
      BY <1>1, <2>1, <2>3, WatchSame DEF Ending
  <1>4. CASE callback.name = "handle_shutdown"
    <2>0. PICK f : f = Event("REMOVE_ALL", h, Null, FALSE, Null)
      OBVIOUS
    <2>1. Raise(Loop, f) /\ UNCHANGED watched
      BY <1>0, <1>1, <1>4, <2>0 DEF CallbackReturns
    <2>2. run_pc = "shutdown" /\ wait_thread_id_ = Loop /\ wait_pc = "out"
      BY <1>1, <1>4 DEF TableInv, Control, Late, Started
    <2>3. /\ f \in Events /\ f.event = "REMOVE_ALL" /\ f.io_handle = h /\ ~IsRegister(f) /\ ~IsRemoval(f)
          /\ ~IsIo(f) /\ ~IsWrite(f) /\ ~IsOneShot(f) /\ IsQuiet(f)
      BY <1>2, <2>0 DEF Event, Events, EventNames, IsRegister, IsRemoval, IsIo, IoEvents, IsQuiet,
         IsWrite, IsOneShot
    <2>4. ASSUME NEW x \in Line PROVE <<x, f>> \in InTime /\ <<f, x>> \in InTime
      <3>1. IsRegister(x) => x.io_handle # h
        BY <1>2, <1>4, RegisterOpen DEF StageOf
      <3>2. QED
        BY <2>3, <3>1, LineTyped DEF InTime, TableInv
    <2>5. RequestOK(f)'
      BY <1>1, <2>2, <2>3 DEF RequestOK, Ending
    <2>6. \A y \in Elems(pipe, 1) : <<f, y>> \in InTime
      BY <2>4, LineTyped DEF TableInv
    <2>7. QED
      BY <1>1, <2>1, <2>2, <2>3, <2>4, <2>5, <2>6, RaiseWatch
  <1>5. CASE callback.name \notin {"handle_removed", "handle_shutdown"}
    <2>1. UNCHANGED <<queues, watched>>
      BY <1>1, <1>5 DEF CallbackReturns
    <2>2. QED
      BY <1>1, <2>1, WatchSame DEF Ending
  <1>6. QED
    BY <1>3, <1>4, <1>5

\* dispatch(), at event e of the batch.
LEMMA DispatchHeadWatch ==
    ASSUME TableInv, WatchInv, NEW names, Dispatching(names), NEW e, e = return_events[index]
    PROVE  /\ e \in Todo /\ BatchOK(e) /\ RequestOK(e) /\ DOMAIN scan = {}
           /\ \A y \in Todo' \cup Behind : <<e, y>> \in InTime
           /\ Todo' \subseteq Todo /\ \A x \in Todo \ Todo' : x = e
           /\ UNCHANGED <<interest, watched, scan>>
  <1>1. /\ Todo = {e} \cup Todo' /\ wait_pc = "out" /\ index <= Len(return_events) /\ index' = index + 1
        /\ UNCHANGED <<return_events, ctl, wait_pc>>
    BY DispatchHead
  <1>2. TypeOK /\ LineTypeOK /\ InLine(InTime)
    BY DEF TableInv, WatchInv
  <1>3. \A y \in Todo' \cup Behind : <<e, y>> \in InTime
    BY <1>1, <1>2, DispatchLine
  <1>4. BatchOK(e) /\ RequestOK(e) /\ DOMAIN scan = {}
    BY <1>1 DEF WatchInv, Batch, ScanOK, Line
  <1>5. UNCHANGED <<interest, watched, scan>>
    BY DEF Dispatching, inside_wait
  <1>6. QED
    BY <1>1, <1>3, <1>4, <1>5

LEMMA DispatchQuietWatch ==
    ASSUME TableInv, WatchInv, NEW names, Dispatching(names), UNCHANGED <<queues, handlers_, stage>>,
           ~IsRegister(return_events[index]),
           IsRemoval(return_events[index]) => return_events[index].io_handle \notin DOMAIN handlers_,
           callback' # NoCallback => callback'.name # "handle_removed"
    PROVE  WatchInv'
  <1>0. PICK e : e = return_events[index]
    OBVIOUS
  <1>1. /\ index <= Len(return_events) /\ index' = index + 1 /\ wait_pc = "out"
        /\ UNCHANGED <<wait_thread_id_, wait_pc, ctl, return_events, run_pc, io_handle_, removing>>
    BY <1>0, DispatchHead
  <1>2. /\ DOMAIN scan = {} /\ Todo' \subseteq Todo /\ \A x \in Todo \ Todo' : x = e
        /\ UNCHANGED <<interest, watched, scan>>
    BY <1>0, DispatchHeadWatch
  <1>3. TypeOK /\ LineTypeOK /\ InLine(InTime)
    BY DEF TableInv, WatchInv
  <1>4. InLine(InTime)' /\ Behind' = Behind
    BY <1>1, <1>3, DispatchQuiet
  <1>5. Queue' = Queue /\ pipe' = pipe /\ wait_events_' = wait_events_
    BY <1>1 DEF Queue, queues
  <1>6. WaitOK'
    BY <1>1, <1>4, <1>5 DEF WatchInv, WaitOK
  <1>7. Line' \subseteq Line
    BY <1>2, <1>4 DEF Line
  <1>8. run_pc' = "wait" => run_pc = "wait"
    BY <1>1
  <1>9. Ending => Ending'
    BY <1>1 DEF Ending
  <1>10. QED
    BY <1>0, <1>1, <1>2, <1>4, <1>6, <1>7, <1>8, <1>9, WatchKeeps

\* The loop raises f while it dispatches an I/O event.
LEMMA DispatchRaiseWatch ==
    ASSUME TableInv, WatchInv, Dispatching(IoEvents), UNCHANGED <<handlers_, stage>>,
           NEW f \in Events, Raise(Loop, f), ~IsIo(f), ~IsRegister(f), RequestOK(f)',
           \A x \in Todo' \cup Elems(ctl, 1) \cup Elems(Queue, 1) : <<x, f>> \in InTime,
           \A y \in Elems(pipe, 1) : <<f, y>> \in InTime,
           callback' # NoCallback => callback'.name # "handle_removed"
    PROVE  WatchInv'
  <1>0. PICK e : e = return_events[index]
    OBVIOUS
  <1>1. /\ e \in Events /\ e.event \in IoEvents
        /\ index <= Len(return_events) /\ index' = index + 1 /\ wait_pc = "out" /\ wait_thread_id_ = Loop
        /\ UNCHANGED <<wait_thread_id_, wait_pc, ctl, return_events, run_pc, io_handle_, removing>>
    BY <1>0, DispatchHead
  <1>2. /\ DOMAIN scan = {} /\ Todo' \subseteq Todo /\ \A x \in Todo \ Todo' : x = e
        /\ UNCHANGED <<interest, watched, scan>>
    BY <1>0, DispatchHeadWatch
  <1>3. TypeOK /\ LineTypeOK /\ InLine(InTime)
    BY DEF TableInv, WatchInv
  <1>4. InLine(InTime)' /\ Behind' = Behind \cup {f}
    BY <1>1, <1>3, DispatchRaise
  <1>5. wait_events_' = Append(wait_events_, f) /\ pipe' = pipe
    BY <1>1 DEF Raise
  <1>6. Queue' = Append(Queue, f) /\ Queue \in Seq(Events)
    BY <1>1, <1>3, <1>5 DEF Queue, LineTypeOK
  <1>7. Elems(Append(Queue, f), 1) = Elems(Queue, 1) \cup {f}
    BY <1>6, AppendElems
  <1>8. WaitOK'
    BY <1>1, <1>4, <1>5, <1>6, <1>7 DEF WatchInv, WaitOK
  <1>9. \A x \in Line' : x \in Line \/ x = f
    BY <1>2, <1>4 DEF Line
  <1>10. ~IsRegister(e) /\ ~IsRemoval(e)
    BY <1>1 DEF IoEvents, IsRegister, IsRemoval
  <1>11. (run_pc' = "wait" => run_pc = "wait") /\ (Ending => Ending')
    BY <1>1 DEF Ending
  <1>12. QED
    BY <1>1, <1>2, <1>4, <1>8, <1>9, <1>10, <1>11, WatchKeeps

LEMMA DispatchOthersWatch ==
    ASSUME TableInv, WatchInv,
           DispatchStop \/ DispatchTimer \/ DispatchUnknown \/ DispatchIo \/ DispatchClose
    PROVE  WatchInv'
  <1> USE DEF table
  <1>0. PICK e, h : e = return_events[index] /\ h = e.io_handle
    OBVIOUS
  <1>1. CASE DispatchStop \/ DispatchTimer
    <2>1. PICK names \in {{"STOP"}, {"TIMEOUT_ADD", "TIMEOUT_DEL"}} :
            /\ Dispatching(names) /\ UNCHANGED <<queues, handlers_, stage, callback>>
      BY <1>1 DEF DispatchStop, DispatchTimer
    <2>2. e.event \in names /\ callback = NoCallback
      BY <1>0, <2>1, DispatchHead
    <2>3. ~IsRegister(e) /\ ~IsRemoval(e)
      BY <2>1, <2>2 DEF IsRegister, IsRemoval
    <2>4. QED
      BY <1>0, <2>1, <2>2, <2>3, DispatchQuietWatch
  <1>2. CASE DispatchUnknown
    <2>1. PICK f : f = Event("REMOVE_ALL", h, Null, FALSE, Null)
      OBVIOUS
    <2>2. /\ Dispatching(IoEvents) /\ h \notin DOMAIN handlers_ /\ Raise(Loop, f)
          /\ UNCHANGED <<handlers_, stage, callback>>
      BY <1>0, <1>2, <2>1 DEF DispatchUnknown, Registered
    <2>3. /\ e \in Events /\ IsIo(e) /\ ctl = <<>> /\ callback = NoCallback /\ wait_thread_id_ = Loop
          /\ UNCHANGED run_pc
      BY <1>0, <2>2, DispatchHead DEF IsIo
    <2>4. h \in Handles \cup {Null}
      BY <1>0, <2>3 DEF Events
    <2>5. /\ f \in Events /\ f.event = "REMOVE_ALL" /\ f.io_handle = h /\ ~IsRegister(f) /\ ~IsRemoval(f)
          /\ ~IsIo(f) /\ ~IsWrite(f) /\ ~IsOneShot(f) /\ IsQuiet(f)
      BY <2>1, <2>4 DEF Event, Events, EventNames, IsRegister, IsRemoval, IsIo, IoEvents, IsQuiet,
         IsWrite, IsOneShot
    <2>6. ASSUME NEW x \in Todo' \cup Elems(ctl, 1) \cup Elems(Queue, 1) PROVE <<x, f>> \in InTime
      <3>1. e \in Todo /\ Todo' \subseteq Todo
        BY <1>0, <2>2, DispatchHeadWatch
      <3>2. Elems(ctl, 1) = {}
        BY <2>3 DEF Elems
      <3>3. IsRegister(x) => x.io_handle # h
        BY <1>0, <2>3, <3>1, <3>2 DEF WatchInv, Batch, WaitOK
      <3>4. x \in Events
        BY <3>1, <3>2, LineTyped DEF TableInv
      <3>5. QED
        BY <2>5, <3>3, <3>4 DEF InTime
    <2>7. \A y \in Elems(pipe, 1) : <<f, y>> \in InTime
      BY <2>5, LineTyped DEF TableInv, InTime
    <2>8. RequestOK(f)'
      BY <2>2, <2>5 DEF RequestOK
    <2>9. QED
      BY <2>2, <2>3, <2>5, <2>6, <2>7, <2>8, DispatchRaiseWatch
  <1>3. CASE DispatchIo /\ e.event # "WRITE"
    <2>1. /\ Dispatching({"READ", "WRITE", "ERROR"}) /\ UNCHANGED <<queues, handlers_, stage>>
          /\ callback'.name \in {"handle_input", "handle_error"}
      BY <1>0, <1>3 DEF DispatchIo, Begin
    <2>2. e.event \in {"READ", "WRITE", "ERROR"}
      BY <1>0, <2>1, DispatchHead
    <2>3. ~IsRegister(e) /\ ~IsRemoval(e)
      BY <2>2 DEF IsRegister, IsRemoval
    <2>4. QED
      BY <1>0, <2>1, <2>3, DispatchQuietWatch
  <1>4. CASE DispatchIo /\ e.event = "WRITE"
    <2>1. PICK f : f = Event("REMOVE_WRITE", h, Null, FALSE, handlers_[h])
      OBVIOUS
    <2>2. /\ Dispatching({"READ", "WRITE", "ERROR"}) /\ h \in DOMAIN handlers_
          /\ UNCHANGED <<handlers_, stage>> /\ callback'.name = "handle_output"
          /\ Raise(Loop, OneShotWrite(handlers_[h]))
      BY <1>0, <1>4 DEF DispatchIo, Begin, Registered
    <2>3. /\ e \in Events /\ wait_thread_id_ = Loop /\ run_pc = "dispatch" /\ UNCHANGED run_pc
      BY <1>0, <2>2, DispatchHead
    <2>4. handlers_[h] \in Conns /\ io_handle_[handlers_[h]] = h /\ h \in Handles
      BY <2>2, <2>3, TableRegistered DEF TableInv, TypeOK
    <2>5. Raise(Loop, f)
      BY <2>1, <2>2, <2>4 DEF OneShotWrite
    <2>6. /\ f \in Events /\ f.event = "REMOVE_WRITE" /\ f.io_handle = h /\ ~f.return
          /\ ~IsRegister(f) /\ ~IsRemoval(f) /\ ~IsIo(f) /\ ~IsWrite(f) /\ ~IsQuiet(f) /\ IsOneShot(f)
      BY <2>1, <2>4 DEF Event, Events, EventNames, IsRegister, IsRemoval, IsIo, IoEvents, IsQuiet,
         IsWrite, IsOneShot
    <2>7. /\ IsOneShot(e) /\ RequestOK(e) /\ Todo' \subseteq Todo
          /\ \A y \in Todo' \cup Behind : <<e, y>> \in InTime
          /\ UNCHANGED interest
      BY <1>0, <1>4, <2>2, DispatchHeadWatch DEF IsOneShot
    <2>8. \A y \in Todo' \cup Behind : y \in Events /\ y \in Line
      BY <2>7, LineTyped DEF TableInv
    <2>9. \A y \in Todo' \cup Behind : IsOneShot(y) => y.io_handle # h
      BY <1>0, <2>7 DEF InTime
    <2>10. \A y \in Todo' \cup Behind : IsRegister(y) => y.io_handle # h
      BY <2>2, <2>8, RegisterOpen
    <2>11. \A y \in Todo' \cup Behind : <<y, f>> \in InTime /\ <<f, y>> \in InTime
      BY <2>6, <2>8, <2>9, <2>10 DEF InTime
    <2>12. RequestOK(f)'
      BY <1>0, <2>6, <2>7 DEF RequestOK
    <2>13. Dispatching(IoEvents)
      BY <2>2 DEF Dispatching, IoEvents
    <2>14. /\ \A x \in Todo' \cup Elems(ctl, 1) \cup Elems(Queue, 1) : <<x, f>> \in InTime
           /\ \A y \in Elems(pipe, 1) : <<f, y>> \in InTime
      BY <2>11 DEF Behind
    <2>15. QED
      BY <2>2, <2>5, <2>6, <2>12, <2>13, <2>14, DispatchRaiseWatch
  <1>5. CASE DispatchClose
    <2>1. /\ Dispatching({"CLOSE"}) /\ UNCHANGED <<queues, handlers_, stage>>
          /\ callback' = callback \/ callback'.name = "handle_close"
      BY <1>5 DEF DispatchClose, Begin
    <2>2. e.event = "CLOSE" /\ callback = NoCallback
      BY <1>0, <2>1, DispatchHead
    <2>3. ~IsRegister(e) /\ ~IsRemoval(e)
      BY <2>2 DEF IsRegister, IsRemoval
    <2>4. QED
      BY <1>0, <2>1, <2>2, <2>3, DispatchQuietWatch
  <1>6. QED
    BY <1>1, <1>2, <1>3, <1>4, <1>5

\* The table takes up a handle that is watched since its request was applied.
LEMMA DispatchRegisterWatch ==
    ASSUME TableInv, WatchInv, DispatchRegister
    PROVE  WatchInv'
  <1> USE DEF table
  <1>0. PICK e, h, c : e = return_events[index] /\ h = e.io_handle /\ c = e.data
    OBVIOUS
  <1>1. /\ Dispatching({"REGISTER_READ"}) /\ UNCHANGED queues
        /\ handlers_' = [k \in DOMAIN handlers_ \cup {h} |->
                           IF k \in DOMAIN handlers_ THEN handlers_[k] ELSE c]
        /\ stage' = [stage EXCEPT ![c] = "registered"]
        /\ callback'.name = "handle_registered"
    BY <1>0 DEF DispatchRegister, Registered, Begin
  <1>2. /\ e \in Line /\ IsRegister(e)
        /\ run_pc = "dispatch" /\ index <= Len(return_events) /\ index' = index + 1
        /\ wait_pc = "out"
        /\ UNCHANGED <<wait_thread_id_, wait_pc, ctl, return_events, run_pc, io_handle_, removing>>
    BY <1>0, <1>1, DispatchHead DEF IsRegister
  <1>3. /\ c \in Conns /\ c = e.sock /\ stage[c] = "raised" /\ io_handle_[c] = h
        /\ h \notin DOMAIN handlers_
    BY <1>0, <1>2, RegisterOpen
  <1>4. /\ BatchOK(e) /\ e \in Todo /\ DOMAIN scan = {} /\ Todo' \subseteq Todo
        /\ \A x \in Todo \ Todo' : x = e
        /\ \A y \in Todo' \cup Behind : <<e, y>> \in InTime
        /\ UNCHANGED <<interest, watched, scan>>
    BY <1>0, <1>1, DispatchHeadWatch
  <1>5. InLine(InTime)' /\ Behind' = Behind
    BY <1>1, <1>2, DispatchQuiet DEF TableInv, WatchInv
  <1>6. Queue' = Queue /\ pipe' = pipe /\ wait_events_' = wait_events_
    BY <1>1, <1>2 DEF Queue, queues
  <1>7. WaitOK'
    BY <1>2, <1>5, <1>6 DEF WatchInv, WaitOK
  <1>8. Line' = Todo' \cup Behind /\ Line' \subseteq Line
    BY <1>4, <1>5 DEF Line
  <1>9. /\ DOMAIN handlers_' = DOMAIN handlers_ \cup {h} /\ handlers_'[h] = c
        /\ \A k \in DOMAIN handlers_ : handlers_'[k] = handlers_[k]
        /\ stage'[c] = "registered" /\ \A d \in Conns \ {c} : stage'[d] = stage[d]
    BY <1>1, <1>3 DEF TableInv, TypeOK
  <1>10. Interest'
    <2>1. /\ interest' = watched' /\ interest' \in [DOMAIN interest' -> SUBSET Bits]
          /\ \A k \in DOMAIN interest' : "IN" \in interest'[k]
      BY <1>4 DEF WatchInv, Interest
    <2>2. ASSUME NEW k \in DOMAIN interest' \ DOMAIN handlers_'
          PROVE  \E x \in Todo' : IsRegister(x) /\ x.io_handle = k
      BY <1>0, <1>4, <1>9 DEF WatchInv, Interest
    <2>3. ASSUME ~Ending', NEW k \in DOMAIN handlers_' \ DOMAIN interest'
          PROVE  \E x \in Todo' : IsRemoval(x) /\ x.io_handle = k
      <3>1. ~Ending
        BY <1>2 DEF Ending
      <3>2. k # h
        BY <1>0, <1>2, <1>4 DEF BatchOK
      <3>3. k \in DOMAIN handlers_ \ DOMAIN interest
        BY <1>4, <1>9, <3>2
      <3>4. PICK x \in Todo : IsRemoval(x) /\ x.io_handle = k
        BY <3>1, <3>3 DEF WatchInv, Interest
      <3>5. QED
        BY <1>0, <1>4, <3>2, <3>4
    <2>4. QED
      BY <2>1, <2>2, <2>3 DEF Interest
  <1>11. Tabled'
    BY <1>2, <1>3, <1>9 DEF WatchInv, Tabled
  <1>12. ASSUME NEW x \in Line' PROVE RequestOK(x)'
    <2>1. RequestOK(x) /\ <<e, x>> \in InTime
      BY <1>4, <1>8 DEF WatchInv
    <2>2. IsQuiet(x) => x.io_handle # h
      BY <1>0, <1>2, <2>1 DEF InTime
    <2>3. QED
      BY <1>2, <1>3, <1>4, <1>9, <2>1, <2>2 DEF RequestOK, Ending
  <1>13. Batch'
    <2>1. ASSUME NEW x \in Todo' PROVE BatchOK(x)'
      <3>1. BatchOK(x) /\ x \in Line
        BY <1>4 DEF WatchInv, Batch, Line
      <3>2. IsRemoval(x) => x.sock \in Conns /\ x.sock # c
        BY <1>3, <3>1 DEF TableInv, LineOK, EventOK, Names
      <3>3. QED
        BY <1>2, <1>4, <1>9, <3>1, <3>2 DEF BatchOK
    <2>2. QED
      BY <1>4, <2>1 DEF WatchInv, Batch
  <1>14. RemovedOK' /\ ScanOK'
    BY <1>1, <1>4 DEF RemovedOK, ScanOK
  <1>15. QED
    BY <1>5, <1>7, <1>10, <1>11, <1>12, <1>13, <1>14 DEF WatchInv

\* A removal reaches the table when epoll has forgotten the handle.
LEMMA DispatchRemoveWatch ==
    ASSUME TableInv, WatchInv, DispatchRemove
    PROVE  WatchInv'
  <1> USE DEF table
  <1>0. PICK e, h, c : e = return_events[index] /\ h = e.io_handle /\ c = e.sock
    OBVIOUS
  <1>1. Dispatching({"REMOVE_ALL"}) /\ UNCHANGED queues
    BY DEF DispatchRemove
  <1>2. /\ e \in Line /\ e.event = "REMOVE_ALL"
        /\ run_pc = "dispatch" /\ index <= Len(return_events) /\ index' = index + 1
        /\ wait_pc = "out" /\ callback = NoCallback
        /\ UNCHANGED <<wait_thread_id_, wait_pc, ctl, return_events, run_pc, io_handle_, removing>>
    BY <1>0, <1>1, DispatchHead
  <1>3. CASE h \notin DOMAIN handlers_
    <2>1. UNCHANGED <<handlers_, callback, stage>>
      BY <1>0, <1>3 DEF DispatchRemove, Registered
    <2>2. ~IsRegister(e)
      BY <1>2 DEF IsRegister
    <2>3. QED
      BY <1>0, <1>1, <1>2, <1>3, <2>1, <2>2, DispatchQuietWatch
  <1>4. CASE h \in DOMAIN handlers_
    <2>1. /\ IsRemoval(e) /\ c \in Conns /\ e.data = c /\ handlers_[h] = c
          /\ io_handle_[c] = h /\ stage[c] = "registered"
      BY <1>0, <1>1, <1>4, RemovalOwns
    <2>2. /\ handlers_' = Restrict(handlers_, DOMAIN handlers_ \ {h})
          /\ stage' = [stage EXCEPT ![c] = "removed"]
          /\ callback' = [name |-> "handle_removed", handler |-> c]
      BY <1>0, <1>4, <2>1 DEF DispatchRemove, Registered, TableWithout, Begin
    <2>3. /\ DOMAIN handlers_' = DOMAIN handlers_ \ {h}
          /\ \A k \in DOMAIN handlers_' : handlers_'[k] = handlers_[k]
          /\ stage'[c] = "removed" /\ \A d \in Conns \ {c} : stage'[d] = stage[d]
      BY <2>1, <2>2 DEF TableInv, TypeOK, Restrict
    <2>4. /\ BatchOK(e) /\ RequestOK(e) /\ e \in Todo /\ DOMAIN scan = {} /\ Todo' \subseteq Todo
          /\ \A x \in Todo \ Todo' : x = e
          /\ \A y \in Todo' \cup Behind : <<e, y>> \in InTime
          /\ UNCHANGED <<interest, watched, scan>>
      BY <1>0, <1>1, DispatchHeadWatch
    <2>5. h \notin DOMAIN interest /\ c \in removing
      BY <1>0, <2>1, <2>4 DEF BatchOK, RequestOK
    <2>6. InLine(InTime)' /\ Behind' = Behind
      BY <1>1, <1>2, DispatchQuiet DEF TableInv, WatchInv
    <2>7. Queue' = Queue /\ pipe' = pipe /\ wait_events_' = wait_events_
      BY <1>1, <1>2 DEF Queue, queues
    <2>8. WaitOK'
      BY <1>2, <2>6, <2>7 DEF WatchInv, WaitOK
    <2>9. Line' = Todo' \cup Behind /\ Line' \subseteq Line
      BY <2>4, <2>6 DEF Line
    <2>10. Interest'
      <3>1. /\ interest' = watched' /\ interest' \in [DOMAIN interest' -> SUBSET Bits]
            /\ \A k \in DOMAIN interest' : "IN" \in interest'[k]
        BY <2>4 DEF WatchInv, Interest
      <3>2. ASSUME NEW k \in DOMAIN interest' \ DOMAIN handlers_'
            PROVE  \E x \in Todo' : IsRegister(x) /\ x.io_handle = k
        <4>1. k \in DOMAIN interest \ DOMAIN handlers_
          BY <2>3, <2>4, <2>5
        <4>2. ~IsRegister(e)
          BY <1>2 DEF IsRegister
        <4>3. QED
          BY <2>4, <4>1, <4>2 DEF WatchInv, Interest
      <3>3. ASSUME ~Ending', NEW k \in DOMAIN handlers_' \ DOMAIN interest'
            PROVE  \E x \in Todo' : IsRemoval(x) /\ x.io_handle = k
        <4>1. ~Ending /\ k \in DOMAIN handlers_ \ DOMAIN interest /\ k # h
          BY <1>2, <2>3, <2>4 DEF Ending
        <4>2. PICK x \in Todo : IsRemoval(x) /\ x.io_handle = k
          BY <4>1 DEF WatchInv, Interest
        <4>3. QED
          BY <1>0, <2>4, <4>1, <4>2
      <3>4. QED
        BY <3>1, <3>2, <3>3 DEF Interest
    <2>11. Tabled'
      BY <1>2, <2>1, <2>3 DEF WatchInv, Tabled
    <2>12. ASSUME NEW x \in Line' PROVE RequestOK(x)'
      <3>1. RequestOK(x) /\ <<e, x>> \in InTime
        BY <2>4, <2>9 DEF WatchInv
      <3>2. IsWrite(x) => x.sock # c
        BY <1>0, <2>1, <3>1 DEF InTime
      <3>3. QED
        BY <1>2, <2>3, <2>4, <3>1, <3>2 DEF RequestOK, Ending
    <2>13. Batch'
      <3>1. ASSUME NEW x \in Todo' PROVE BatchOK(x)'
        <4>1. BatchOK(x) /\ x \in Line
          BY <2>4 DEF WatchInv, Batch, Line
        <4>2. IsRemoval(x) => x.sock \in Conns
          BY <4>1 DEF TableInv, LineOK, EventOK, Names
        <4>3. QED
          BY <1>2, <2>3, <2>4, <4>1, <4>2 DEF BatchOK
      <3>2. QED
        BY <2>4, <3>1 DEF WatchInv, Batch
    <2>14. RemovedOK' /\ ScanOK'
      BY <1>2, <2>1, <2>2, <2>4, <2>5 DEF RemovedOK, ScanOK
    <2>15. QED
      BY <2>6, <2>8, <2>10, <2>11, <2>12, <2>13, <2>14 DEF WatchInv
  <1>5. QED
    BY <1>3, <1>4

LEMMA WaitBeginWatch ==
    ASSUME TableInv, WatchInv, RunTop, run_pc' = "wait"
    PROVE  WatchInv'
  <1> USE DEF table, told, queues
  <1>1. /\ run_pc = "top" /\ WaitBegin(ClearedBatch) /\ index' = 1
        /\ UNCHANGED <<handlers_, callback, io_handle_, stage, removing>>
    BY DEF RunTop
  <1>2. ctl = <<>> /\ index > Len(return_events) /\ wait_pc = "out"
    BY <1>1 DEF TableInv, Control
  <1>3. /\ InLine(InTime)' /\ Todo' = {} /\ Todo = {} /\ Line' = Line
        /\ Elems(Queue', 1) = {} /\ UNCHANGED pipe /\ return_events' = <<>>
    BY <1>1, <1>2, BeginLine DEF TableInv, WatchInv
  <1>4. /\ wait_pc' = "drain" /\ wait_events_' = wait_events_ /\ ctl' = wait_events_
        /\ UNCHANGED <<interest, watched, scan>>
    BY <1>1 DEF WaitBegin
  <1>5. Behind' = Behind
    BY <1>3 DEF Line
  <1>6. WaitOK'
    BY <1>3, <1>4, <1>5 DEF WatchInv, WaitOK
  <1>7. DOMAIN scan = {}
    BY <1>2 DEF WatchInv, ScanOK
  <1>8. ~Ending
    BY <1>1 DEF Ending
  <1>9. QED
    BY <1>1, <1>3, <1>4, <1>6, <1>7, <1>8, WatchKeeps

\* Inside wait(): the line, epoll and the table stay as they are.
LEMMA StageWatch ==
    ASSUME TableInv, WatchInv, run_pc = "wait",
           WaitDrained \/ WaitNothing \/ PipeDone \/ ScanDone, UNCHANGED reactor_vars
    PROVE  WatchInv'
  <1> USE DEF reactor_vars, queues, table, told
  <1>1. /\ wait_pc \in {"drain", "epoll", "pipe", "scan"} /\ wait_pc' \in {"out", "epoll", "scan"}
        /\ ctl = <<>> /\ wait_events_' \in {<<>>, <<StopEvent>>}
        /\ UNCHANGED <<wait_thread_id_, pipe, ctl, return_events, interest, watched, scan>>
    BY DEF WaitDrained, WaitNothing, PipeDone, ScanDone, TableInv, Control, Late
  <1>2. Queue = <<>> /\ Queue' \in {<<>>, <<StopEvent>>}
    BY <1>1 DEF Queue
  <1>3. /\ Todo' = Todo /\ InLine(InTime)' /\ \A x \in Line' : x \in Line \/ x = StopEvent
        /\ \A x \in Behind' : x \in Behind \/ x = StopEvent
        /\ \A x \in Elems(Queue', 1) : x = StopEvent
    BY <1>1, <1>2, StopInTime, LateLine DEF WatchInv
  <1>4. wait_pc' = "epoll" => return_events = <<>>
    BY <1>1 DEF WaitDrained, WaitNothing, PipeDone, ScanDone, WatchInv, WaitOK
  <1>5. WaitOK'
    BY <1>1, <1>3, <1>4, StopIsFree DEF WatchInv, WaitOK
  <1>6. wait_pc' \notin {"scan", "pipe"} => DOMAIN scan = {}
    BY DEF WaitDrained, WaitNothing, PipeDone, ScanDone, WatchInv, ScanOK
  <1>7. Ending <=> Ending'
    BY DEF Ending
  <1>8. QED
    BY <1>1, <1>3, <1>5, <1>6, <1>7, StopInTime, WatchKeeps

\* epoll_wait and the read of the pipe: the scan changes.
LEMMA ScanChanges ==
    ASSUME TableInv, WatchInv,
           UNCHANGED <<interest, watched, handlers_, io_handle_, stage, removing, callback, run_pc>>,
           Todo' = Todo, Line' = Line, InLine(InTime)', WaitOK', ScanOK',
           \A e \in Todo : IsIo(e) => e.io_handle \notin DOMAIN scan'
    PROVE  WatchInv'
  <1> USE DEF Ending
  <1>1. Interest' /\ Tabled' /\ RemovedOK'
    BY DEF WatchInv, Interest, Tabled, RemovedOK
  <1>2. \A e \in Line' : RequestOK(e)'
    BY DEF WatchInv, RequestOK
  <1>3. Batch'
    BY DEF WatchInv, Batch, BatchOK
  <1>4. QED
    BY <1>1, <1>2, <1>3 DEF WatchInv

LEMMA EpollWatch ==
    ASSUME TableInv, WatchInv, run_pc = "wait", epoll_wait, UNCHANGED reactor_vars
    PROVE  WatchInv'
  <1> USE DEF reactor_vars, queues, table, told
  <1>1. /\ wait_pc = "epoll" /\ wait_pc' = "scan" /\ ctl = <<>> /\ index = 1
        /\ UNCHANGED <<wait_thread_id_, wait_events_, pipe, ctl, return_events, interest, watched>>
    BY DEF epoll_wait, TableInv, Control
  <1>2. Queue = <<>> /\ Queue' = <<>>
    BY <1>1 DEF Queue
  <1>3. Todo' = Todo /\ Line' = Line /\ Behind' = Behind /\ InLine(InTime)'
    BY <1>1, <1>2 DEF Todo, Line, Behind, InLine, WatchInv
  <1>4. return_events = <<>>
    BY <1>1 DEF WatchInv, WaitOK
  <1>5. Todo = {}
    BY <1>1, <1>4 DEF Todo, Elems
  <1>6. WaitOK'
    BY <1>1, <1>2, <1>3, <1>4 DEF WatchInv, WaitOK
  <1>7. DOMAIN interest \subseteq DOMAIN handlers_ /\ interest = watched
    BY <1>5 DEF WatchInv, Interest
  <1>8. ASSUME NEW h \in DOMAIN scan' \ {PIPE}
        PROVE  h \in DOMAIN watched /\ scan'[h] = Ready(h)
    BY DEF epoll_wait, ReadyHandles
  <1>9. ScanOK'
    BY <1>1, <1>7, <1>8 DEF ScanOK, Ready
  <1>10. QED
    BY <1>1, <1>3, <1>5, <1>6, <1>9, ScanChanges

LEMMA ScanPipeWatch ==
    ASSUME TableInv, WatchInv, run_pc = "wait", ScanPipe, UNCHANGED reactor_vars
    PROVE  WatchInv'
  <1> USE DEF reactor_vars, queues, table, told
  <1>1. /\ wait_pc = "scan" /\ wait_pc' = "pipe"
        /\ scan' = Restrict(scan, DOMAIN scan \ {PIPE})
        /\ UNCHANGED <<wait_thread_id_, wait_events_, return_events, interest, watched>>
    BY DEF ScanPipe
  <1>2. ctl = <<>>
    BY <1>1 DEF TableInv, Control
  <1>3. /\ InLine(InTime)' /\ Todo' = Todo /\ Line' = Line
        /\ Elems(ctl', 1) \subseteq Elems(pipe, 1) /\ Elems(pipe', 1) \subseteq Elems(pipe, 1)
        /\ Queue' = <<>>
    BY <1>2, ScanPipeLine DEF TableInv, WatchInv
  <1>4. Elems(<<>>, 1) = {}
    BY DEF Elems
  <1>5. Behind' \subseteq Behind
    BY <1>3, <1>4 DEF Behind
  <1>6. WaitOK'
    BY <1>1, <1>3, <1>4, <1>5 DEF WatchInv, WaitOK
  <1>7. DOMAIN scan' = DOMAIN scan \ {PIPE} /\ \A h \in DOMAIN scan' : scan'[h] = scan[h]
    BY <1>1 DEF Restrict
  <1>8. ScanOK'
    BY <1>1, <1>7 DEF WatchInv, ScanOK
  <1>9. \A e \in Todo : IsIo(e) => e.io_handle \notin DOMAIN scan'
    BY <1>7 DEF WatchInv, Batch, BatchOK
  <1>10. QED
    BY <1>1, <1>3, <1>6, <1>8, <1>9, ScanChanges

\* What epoll reports is about a handle of the table, which still has EPOLLOUT asked for
\* when it is reported writable.
LEMMA ScanHandleWatch ==
    ASSUME TableInv, WatchInv, run_pc = "wait", NEW h \in Handles, ScanHandle(h), UNCHANGED reactor_vars
    PROVE  WatchInv'
  <1> USE DEF reactor_vars, queues, table, told
  <1>1. /\ wait_pc = "scan" /\ index = 1 /\ ctl = <<>> /\ h \in DOMAIN scan
        /\ scan' = Restrict(scan, DOMAIN scan \ {h})
        /\ UNCHANGED <<wait_thread_id_, wait_events_, pipe, ctl, wait_pc, interest, watched>>
    BY DEF ScanHandle, TableInv, Control
  <1>2. h # PIPE /\ h \in DOMAIN handlers_
    BY <1>1, DemuxerConstants DEF WatchInv, ScanOK, PIPE
  <1>3. ASSUME NEW n \in IoEvents
        PROVE  LET e == Report(n, h)
               IN /\ e \in Events /\ e.io_handle = h /\ e.event = n /\ IsIo(e) /\ e.return
                  /\ ~IsRegister(e) /\ ~IsRemoval(e) /\ ~IsQuiet(e) /\ ~IsWrite(e)
                  /\ e.event # "REMOVE_WRITE" /\ (IsOneShot(e) <=> n = "WRITE")
    BY DEF Report, Event, Events, EventNames, IoEvents, IsRegister, IsRemoval, IsIo, IsQuiet, IsWrite,
       IsOneShot, TableInv, LineTypeOK
  <1>4. Elems(ctl, 1) = {} /\ Elems(Queue, 1) = {}
    BY <1>1 DEF Elems, Queue
  <1>5. ASSUME NEW x \in Behind PROVE x \in Events /\ ~IsOneShot(x)
    <2>1. x \in Elems(pipe, 1)
      BY <1>4 DEF Behind
    <2>2. QED
      BY <2>1, LineTyped DEF TableInv, WatchInv, WaitOK, IsOneShot, IsIo, IoEvents
  <1>6. ASSUME NEW x \in Todo PROVE x \in Events /\ (IsOneShot(x) => x.io_handle # h)
    <2>1. x \in Events /\ x \in Line /\ x.return
      BY LineTyped DEF TableInv, LineOK
    <2>2. x.event # "REMOVE_WRITE"
      BY <2>1 DEF WatchInv, RequestOK
    <2>3. IsIo(x) => x.io_handle # h
      BY <1>1 DEF WatchInv, Batch, BatchOK
    <2>4. QED
      BY <2>1, <2>2, <2>3 DEF IsOneShot, IsIo, IoEvents
  <1>7. ASSUME NEW n \in IoEvents, NEW x \in Behind PROVE <<Report(n, h), x>> \in InTime
    <2>1. PICK e : e = Report(n, h)
      OBVIOUS
    <2>2. e \in Events /\ ~IsRegister(e) /\ ~IsRemoval(e)
      BY <1>3, <2>1
    <2>3. <<e, x>> \in InTime
      BY <1>5, <2>2 DEF InTime
    <2>4. QED
      BY <2>1, <2>3
  <1>8. ASSUME NEW n \in IoEvents, NEW x \in Todo PROVE <<x, Report(n, h)>> \in InTime
    <2>1. PICK e : e = Report(n, h)
      OBVIOUS
    <2>2. /\ e \in Events /\ e.io_handle = h /\ ~IsQuiet(e) /\ ~IsWrite(e) /\ e.event # "REMOVE_WRITE"
      BY <1>3, <2>1
    <2>3. <<x, e>> \in InTime
      BY <1>6, <2>2 DEF InTime
    <2>4. QED
      BY <2>1, <2>3
  <1>9. ASSUME NEW n \in IoEvents, NEW m \in IoEvents, n # m PROVE <<Report(n, h), Report(m, h)>> \in InTime
    <2>1. PICK e, f : e = Report(n, h) /\ f = Report(m, h)
      OBVIOUS
    <2>2. /\ e \in Events /\ f \in Events /\ ~IsRegister(e) /\ ~IsRemoval(e)
          /\ ~(IsOneShot(e) /\ IsOneShot(f))
      BY <1>3, <1>9, <2>1
    <2>3. <<e, f>> \in InTime
      BY <2>2 DEF InTime
    <2>4. QED
      BY <2>1, <2>3
  <1>10. /\ InLine(InTime)' /\ Behind' = Behind /\ Todo \subseteq Todo'
         /\ \A x \in Todo' : \/ x \in Todo
                             \/ \E n \in IoEvents : /\ x = Report(n, h) /\ x \in Events
                                                    /\ n = "WRITE" => "out" \in scan[h]
    <2>1. LineTypeOK /\ InLine(InTime)
      BY DEF TableInv, WatchInv
    <2>2. QED
      BY <1>1, <1>7, <1>8, <1>9, <2>1, ScanLine
  <1>11. ASSUME NEW x \in Todo', x \notin Todo
         PROVE  /\ x.io_handle = h /\ IsIo(x) /\ ~IsRegister(x) /\ ~IsRemoval(x) /\ ~IsQuiet(x)
                /\ ~IsWrite(x) /\ x.event # "REMOVE_WRITE" /\ (IsOneShot(x) => "out" \in scan[h])
    <2>1. PICK n \in IoEvents : x = Report(n, h) /\ (n = "WRITE" => "out" \in scan[h])
      BY <1>10, <1>11
    <2>2. QED
      BY <1>3, <2>1
  <1>12. DOMAIN scan' = DOMAIN scan \ {h} /\ \A k \in DOMAIN scan' : scan'[k] = scan[k]
    BY <1>1 DEF Restrict
  <1>13. Queue' = Queue
    BY <1>1 DEF Queue
  <1>14. WaitOK'
    BY <1>1, <1>10, <1>13 DEF WatchInv, WaitOK
  <1>15. Interest'
    <2>1. /\ interest' = watched' /\ interest' \in [DOMAIN interest' -> SUBSET Bits]
          /\ \A k \in DOMAIN interest' : "IN" \in interest'[k]
      BY <1>1 DEF WatchInv, Interest
    <2>2. ASSUME NEW k \in DOMAIN interest' \ DOMAIN handlers_'
          PROVE  \E e \in Todo' : IsRegister(e) /\ e.io_handle = k
      BY <1>1, <1>10 DEF WatchInv, Interest
    <2>3. ASSUME ~Ending', NEW k \in DOMAIN handlers_' \ DOMAIN interest'
          PROVE  \E e \in Todo' : IsRemoval(e) /\ e.io_handle = k
      BY <1>1, <1>10, <2>3 DEF WatchInv, Interest, Ending
    <2>4. QED
      BY <2>1, <2>2, <2>3 DEF Interest
  <1>16. Tabled' /\ RemovedOK'
    BY <1>1 DEF WatchInv, Tabled, RemovedOK
  <1>17. ASSUME NEW x \in Line' PROVE RequestOK(x)'
    <2>1. CASE x \in Line
      BY <1>1, <2>1 DEF WatchInv, RequestOK, Ending
    <2>2. CASE x \notin Line
      <3>1. x \in Todo' /\ x \notin Todo
        BY <1>10, <2>2 DEF Line
      <3>2. IsOneShot(x) /\ h \in DOMAIN interest => "OUT" \in interest[h]
        BY <1>1, <1>2, <1>11, <3>1 DEF WatchInv, ScanOK
      <3>3. QED
        BY <1>1, <1>11, <3>1, <3>2 DEF RequestOK
    <2>3. QED
      BY <2>1, <2>2
  <1>18. ASSUME NEW x \in Todo' PROVE BatchOK(x)'
    <2>1. CASE x \in Todo
      BY <1>1, <1>12, <2>1 DEF WatchInv, Batch, BatchOK
    <2>2. CASE x \notin Todo
      BY <1>2, <1>11, <1>12, <2>2 DEF BatchOK
    <2>3. QED
      BY <2>1, <2>2
  <1>19. ASSUME NEW x \in Todo', NEW f \in Todo', IsIo(x), IsRegister(f) PROVE x.io_handle # f.io_handle
    <2>1. f \in Todo /\ f \in Line
      BY <1>11, <1>19 DEF Line
    <2>2. CASE x \in Todo
      BY <1>19, <2>1, <2>2 DEF WatchInv, Batch
    <2>3. CASE x \notin Todo
      BY <1>2, <1>11, <1>19, <2>1, <2>3, RegisterOpen
    <2>4. QED
      BY <2>2, <2>3
  <1>20. ScanOK'
    BY <1>1, <1>12 DEF WatchInv, ScanOK
  <1>21. QED
    BY <1>10, <1>14, <1>15, <1>16, <1>17, <1>18, <1>19, <1>20 DEF WatchInv, Batch

\* What wait() has at the front of its requests, and what is before and behind it.
LEMMA ProcessHead ==
    ASSUME TableInv, WatchInv, run_pc = "wait", process_ctrl_event, UNCHANGED reactor_vars,
           NEW e, e = Head(ctl)
    PROVE  /\ e \in Events /\ e \in Line /\ e \in Elems(ctl, 1) /\ ctl # <<>> /\ index = 1
           /\ wait_pc \in {"drain", "pipe"} /\ EventOK(e) /\ RequestOK(e) /\ ~IsIo(e)
           /\ Elems(ctl', 1) \subseteq Elems(ctl, 1) /\ UNCHANGED <<Queue, pipe>>
           /\ \A x \in Todo : <<x, e>> \in InTime /\ <<x, e>> \in NewOwner
           /\ \A y \in Behind' : <<e, y>> \in InTime
           /\ Todo' = IF e.return THEN Todo \cup {e} ELSE Todo
           /\ Line' \subseteq Line /\ Behind' \subseteq Behind /\ InLine(InTime)'
  <1>1. index = 1 /\ index <= Len(return_events) + 1 /\ UNCHANGED index
    BY DEF TableInv, Control, LineTypeOK, reactor_vars
  <1>2. TypeOK /\ LineTypeOK /\ InLine(InTime) /\ InLine(NewOwner)
    BY DEF TableInv, WatchInv
  <1>3. /\ e \in Events /\ ctl # <<>> /\ wait_pc \in {"drain", "pipe"}
        /\ Elems(ctl, 1) = {e} \cup Elems(ctl', 1) /\ UNCHANGED <<Queue, pipe>>
        /\ Cross(InTime, Todo, {e}) /\ Cross(InTime, {e}, Behind') /\ InLine(InTime)'
        /\ Todo' = IF e.return THEN Todo \cup {e} ELSE Todo
    BY <1>1, <1>2, ProcessLine
  <1>4. Cross(NewOwner, Todo, {e})
    BY <1>1, <1>2, ProcessLine
  <1>5. e \in Behind /\ Behind' \subseteq Behind
    BY <1>3 DEF Behind
  <1>6. e \in Line /\ Line' \subseteq Line
    BY <1>3, <1>5 DEF Line
  <1>7. EventOK(e) /\ RequestOK(e) /\ ~IsIo(e)
    BY <1>5, <1>6 DEF TableInv, LineOK, WatchInv, WaitOK
  <1>8. QED
    BY <1>1, <1>3, <1>4, <1>5, <1>6, <1>7 DEF Cross

\* add_epoll_event and del_epoll_event with the handles they are called for here: the map
\* and the kernel's set stay the same, and keep EPOLLIN.
SameSets == interest' = watched' /\ interest' \in [DOMAIN interest' -> SUBSET Bits]
OnlyAt(h) ==
    \A k : k # h => /\ k \in DOMAIN interest' <=> k \in DOMAIN interest
                    /\ k \in DOMAIN interest => interest'[k] = interest[k]

LEMMA AddRead ==
    ASSUME Interest, NEW h, h \notin DOMAIN interest, open[h] # Null, add_epoll_event({"IN"}, h)
    PROVE  SameSets /\ OnlyAt(h) /\ h \in DOMAIN interest' /\ interest'[h] = {"IN"}
  <1>1. interest = watched /\ interest \in [DOMAIN interest -> SUBSET Bits]
    BY DEF Interest
  <1>2. /\ interest' = [k \in DOMAIN interest \cup {h} |-> IF k = h THEN {"IN"} ELSE interest[k]]
        /\ watched' = [k \in DOMAIN watched \cup {h} |-> IF k = h THEN {"IN"} ELSE watched[k]]
    BY <1>1 DEF add_epoll_event
  <1>3. interest' = watched'
    BY <1>1, <1>2
  <1>4. QED
    BY <1>1, <1>2, <1>3 DEF SameSets, OnlyAt, Bits

LEMMA AddWrite ==
    ASSUME Interest, NEW h, h \in DOMAIN interest, add_epoll_event({"OUT"}, h)
    PROVE  /\ SameSets /\ OnlyAt(h) /\ h \in DOMAIN interest' /\ interest[h] \subseteq interest'[h]
  <1>1. interest = watched /\ interest \in [DOMAIN interest -> SUBSET Bits]
    BY DEF Interest
  <1>2. CASE UNCHANGED <<interest, watched>>
    BY <1>1, <1>2 DEF SameSets, OnlyAt
  <1>3. CASE /\ interest' = [interest EXCEPT ![h] = @ \cup {"OUT"}]
             /\ watched' = [watched EXCEPT ![h] = interest[h] \cup {"OUT"}]
    <2>1. interest' = watched'
      BY <1>1, <1>3
    <2>2. QED
      BY <1>1, <1>3, <2>1 DEF SameSets, OnlyAt, Bits
  <1>4. QED
    BY <1>2, <1>3 DEF add_epoll_event

LEMMA DelWrite ==
    ASSUME Interest, NEW h, h \in DOMAIN interest => "OUT" \in interest[h], del_epoll_event("OUT", h)
    PROVE  /\ SameSets /\ OnlyAt(h)
           /\ h \in DOMAIN interest' <=> h \in DOMAIN interest
           /\ h \in DOMAIN interest => interest'[h] = interest[h] \ {"OUT"}
  <1>1. /\ interest = watched /\ interest \in [DOMAIN interest -> SUBSET Bits]
        /\ \A k \in DOMAIN interest : "IN" \in interest[k]
    BY DEF Interest
  <1>2. CASE h \notin DOMAIN interest
    BY <1>1, <1>2 DEF del_epoll_event, SameSets, OnlyAt
  <1>3. CASE h \in DOMAIN interest
    <2>1. Flip(interest[h], "OUT") = interest[h] \ {"OUT"} /\ Flip(interest[h], "OUT") # {}
      BY <1>1, <1>3 DEF Flip
    <2>2. /\ interest' = [interest EXCEPT ![h] = interest[h] \ {"OUT"}]
          /\ watched' = [watched EXCEPT ![h] = interest[h] \ {"OUT"}]
      BY <1>1, <1>3, <2>1 DEF del_epoll_event
    <2>3. interest' = watched'
      BY <1>1, <2>2
    <2>4. QED
      BY <1>1, <1>3, <2>2, <2>3 DEF SameSets, OnlyAt
  <1>4. QED
    BY <1>2, <1>3

LEMMA DelAll ==
    ASSUME Interest, NEW h, del_epoll_events(h)
    PROVE  SameSets /\ OnlyAt(h) /\ h \notin DOMAIN interest'
  <1>1. interest = watched /\ interest \in [DOMAIN interest -> SUBSET Bits]
    BY DEF Interest
  <1>2. CASE h \notin DOMAIN interest
    BY <1>1, <1>2 DEF del_epoll_events, SameSets, OnlyAt
  <1>3. CASE h \in DOMAIN interest
    <2>1. /\ interest' = [k \in DOMAIN interest \ {h} |-> interest[k]]
          /\ watched' = [k \in DOMAIN watched \ {h} |-> watched[k]]
      BY <1>3 DEF del_epoll_events, Forget, Restrict
    <2>2. interest' = watched'
      BY <1>1, <2>1
    <2>3. QED
      BY <1>1, <2>1, <2>2 DEF SameSets, OnlyAt
  <1>4. QED
    BY <1>2, <1>3

\* The effect of the request e at the front.
LEMMA ProcessEffect ==
    ASSUME TableInv, WatchInv, run_pc = "wait", process_ctrl_event, UNCHANGED reactor_vars,
           NEW e, NEW h, e = Head(ctl), h = e.io_handle
    PROVE  /\ SameSets /\ OnlyAt(h)
           /\ h \in DOMAIN interest' => "IN" \in interest'[h]
           /\ IsRegister(e) => h \notin DOMAIN interest /\ h \in DOMAIN interest'
           /\ e.event = "REMOVE_ALL" => h \notin DOMAIN interest'
           /\ ~IsRegister(e) /\ e.event # "REMOVE_ALL" =>
                (h \in DOMAIN interest' <=> h \in DOMAIN interest)
           /\ e.event = "REMOVE_WRITE" => (h \in DOMAIN interest' => "OUT" \notin interest'[h])
           /\ e.event # "REMOVE_WRITE" /\ h \in DOMAIN interest /\ h \in DOMAIN interest' =>
                interest[h] \subseteq interest'[h]
  <1>1. /\ e \in Events /\ e \in Line /\ EventOK(e) /\ RequestOK(e) /\ ~IsIo(e)
        /\ \A x \in Todo : <<x, e>> \in InTime /\ <<x, e>> \in NewOwner
    BY ProcessHead
  <1>2. Interest
    BY DEF WatchInv
  <1>3. CASE e.event = "REGISTER_READ"
    <2>1. IsRegister(e) /\ h \in Handles /\ e.sock = open[h] /\ e.sock \in Conns /\ h \notin DOMAIN handlers_
      BY <1>1, <1>3, RegisterOpen DEF IsRegister
    <2>2. ~ \E x \in Todo : IsRegister(x) /\ x.io_handle = h
      BY <1>1, <2>1 DEF NewOwner
    <2>3. h \notin DOMAIN interest
      BY <1>2, <2>1, <2>2 DEF Interest
    <2>4. open[h] # Null
      BY <2>1, DemuxerConstants
    <2>5. add_epoll_event({"IN"}, h)
      BY <1>3 DEF process_ctrl_event
    <2>6. SameSets /\ OnlyAt(h) /\ h \in DOMAIN interest' /\ interest'[h] = {"IN"}
      BY <1>2, <2>3, <2>4, <2>5, AddRead
    <2>7. QED
      BY <1>3, <2>1, <2>3, <2>6
  <1>4. CASE e.event = "REGISTER_WRITE"
    <2>1. /\ e.sock \in Conns /\ io_handle_[e.sock] = h /\ stage[e.sock] \in {"registered", "shutdown"}
      BY <1>1, <1>4 DEF RequestOK, IsWrite
    <2>2. h \in DOMAIN handlers_ /\ handlers_[h] = e.sock
      BY <2>1 DEF WatchInv, Tabled
    <2>3. ASSUME NEW x \in Todo, IsRemoval(x), x.io_handle = h PROVE FALSE
      <3>1. EventOK(x)
        BY DEF TableInv, LineOK, Line
      <3>2. x.sock = e.sock
        BY <2>2, <2>3, <3>1 DEF EventOK, Registered
      <3>3. QED
        BY <1>1, <1>4, <2>3, <3>2 DEF InTime, IsWrite
    <2>4. h \in DOMAIN interest
      BY <1>2, <2>2, <2>3 DEF Interest, Ending
    <2>5. add_epoll_event({"OUT"}, h)
      BY <1>4 DEF process_ctrl_event
    <2>6. SameSets /\ OnlyAt(h) /\ h \in DOMAIN interest' /\ interest[h] \subseteq interest'[h]
      BY <1>2, <2>4, <2>5, AddWrite
    <2>7. "IN" \in interest[h]
      BY <1>2, <2>4 DEF Interest
    <2>8. QED
      BY <1>4, <2>4, <2>6, <2>7 DEF IsRegister
  <1>5. CASE e.event = "REMOVE_WRITE"
    <2>1. h \in DOMAIN interest => "OUT" \in interest[h] /\ "IN" \in interest[h]
      BY <1>1, <1>2, <1>5 DEF RequestOK, IsOneShot, Interest
    <2>2. del_epoll_event("OUT", h)
      BY <1>5 DEF process_ctrl_event
    <2>3. /\ SameSets /\ OnlyAt(h)
          /\ h \in DOMAIN interest' <=> h \in DOMAIN interest
          /\ h \in DOMAIN interest => interest'[h] = interest[h] \ {"OUT"}
      BY <1>2, <2>1, <2>2, DelWrite
    <2>4. QED
      BY <1>5, <2>1, <2>3 DEF IsRegister
  <1>6. CASE e.event = "REMOVE_ALL"
    <2>1. del_epoll_events(h)
      BY <1>6 DEF process_ctrl_event
    <2>2. SameSets /\ OnlyAt(h) /\ h \notin DOMAIN interest'
      BY <1>2, <2>1, DelAll
    <2>3. QED
      BY <1>6, <2>2 DEF IsRegister
  <1>7. CASE e.event \notin {"REGISTER_READ", "REGISTER_WRITE", "REMOVE_WRITE", "REMOVE_ALL"}
    <2>1. e.event \in EventNames
      BY <1>1 DEF Events
    <2>2. UNCHANGED <<interest, watched>>
      BY <1>7, <2>1 DEF process_ctrl_event, EventNames, IoEvents
    <2>3. /\ interest' = interest /\ watched' = watched /\ interest = watched
          /\ interest \in [DOMAIN interest -> SUBSET Bits]
          /\ h \in DOMAIN interest => "IN" \in interest[h]
      BY <1>2, <2>2 DEF Interest
    <2>4. SameSets /\ OnlyAt(h)
      BY <2>3 DEF SameSets, OnlyAt
    <2>5. QED
      BY <1>7, <2>3, <2>4 DEF IsRegister
  <1>8. QED
    BY <1>3, <1>4, <1>5, <1>6, <1>7

LEMMA ProcessWatch ==
    ASSUME TableInv, WatchInv, run_pc = "wait", process_ctrl_event, UNCHANGED reactor_vars
    PROVE  WatchInv'
  <1> USE DEF reactor_vars, queues, table, told
  <1>0. PICK e, h : e = Head(ctl) /\ h = e.io_handle
    OBVIOUS
  <1>1. /\ e \in Events /\ e \in Line /\ e \in Elems(ctl, 1) /\ ctl # <<>>
        /\ wait_pc \in {"drain", "pipe"} /\ EventOK(e) /\ RequestOK(e) /\ ~IsIo(e)
        /\ Elems(ctl', 1) \subseteq Elems(ctl, 1) /\ UNCHANGED <<Queue, pipe>>
        /\ \A x \in Todo : <<x, e>> \in InTime /\ <<x, e>> \in NewOwner
        /\ \A y \in Behind' : <<e, y>> \in InTime
        /\ Todo' = IF e.return THEN Todo \cup {e} ELSE Todo
        /\ Line' \subseteq Line /\ Behind' \subseteq Behind /\ InLine(InTime)'
    BY <1>0, ProcessHead
  <1>2. /\ SameSets /\ OnlyAt(h)
        /\ h \in DOMAIN interest' => "IN" \in interest'[h]
        /\ IsRegister(e) => h \notin DOMAIN interest /\ h \in DOMAIN interest'
        /\ e.event = "REMOVE_ALL" => h \notin DOMAIN interest'
        /\ ~IsRegister(e) /\ e.event # "REMOVE_ALL" =>
             (h \in DOMAIN interest' <=> h \in DOMAIN interest)
        /\ e.event # "REMOVE_WRITE" /\ h \in DOMAIN interest /\ h \in DOMAIN interest' =>
             interest[h] \subseteq interest'[h]
    BY <1>0, ProcessEffect
  <1>3. /\ UNCHANGED <<wait_thread_id_, wait_events_, wait_pc, scan, handlers_, io_handle_, stage,
                       removing, callback, run_pc>>
    BY DEF process_ctrl_event
  <1>4. IsRegister(e) => e.return /\ h \notin DOMAIN handlers_
    BY <1>0, <1>1, RegisterOpen DEF EventOK
  <1>5. WaitOK'
    BY <1>1, <1>3 DEF WatchInv, WaitOK
  <1>6. Interest'
    <2>1. \A k \in DOMAIN interest' : "IN" \in interest'[k]
      BY <1>2 DEF OnlyAt, WatchInv, Interest
    <2>2. ASSUME NEW k \in DOMAIN interest' \ DOMAIN handlers_'
          PROVE  \E x \in Todo' : IsRegister(x) /\ x.io_handle = k
      <3>1. CASE k = h /\ IsRegister(e)
        BY <1>0, <1>1, <1>4, <3>1
      <3>2. CASE ~(k = h /\ IsRegister(e))
        <4>1. k \in DOMAIN interest \ DOMAIN handlers_
          BY <1>2, <1>3, <3>2 DEF OnlyAt
        <4>2. QED
          BY <1>1, <4>1 DEF WatchInv, Interest
      <3>3. QED
        BY <3>1, <3>2
    <2>3. ASSUME ~Ending', NEW k \in DOMAIN handlers_' \ DOMAIN interest'
          PROVE  \E x \in Todo' : IsRemoval(x) /\ x.io_handle = k
      <3>1. CASE k = h /\ e.event = "REMOVE_ALL"
        <4>1. ~Ending
          BY <1>3, <2>3 DEF Ending
        <4>2. ~IsQuiet(e)
          BY <1>0, <1>1, <1>3, <3>1, <4>1 DEF RequestOK
        <4>3. IsRemoval(e)
          BY <3>1, <4>2 DEF IsQuiet, IsRemoval
        <4>4. QED
          BY <1>0, <1>1, <3>1, <4>3 DEF IsRemoval
      <3>2. CASE ~(k = h /\ e.event = "REMOVE_ALL")
        <4>1. k \in DOMAIN handlers_ \ DOMAIN interest /\ ~Ending
          BY <1>2, <1>3, <1>4, <2>3, <3>2 DEF OnlyAt, Ending
        <4>2. QED
          BY <1>1, <4>1 DEF WatchInv, Interest
      <3>3. QED
        BY <3>1, <3>2
    <2>4. QED
      BY <1>2, <2>1, <2>2, <2>3 DEF Interest, SameSets
  <1>7. Tabled'
    BY <1>3 DEF WatchInv, Tabled
  <1>8. RemovedOK'
    <2>1. callback = NoCallback
      BY DEF TableInv, Control
    <2>2. QED
      BY <1>3, <2>1 DEF RemovedOK
  <1>9. ASSUME NEW x \in Todo, IsOneShot(x) PROVE IsIo(x)
    <2>1. x \in Line /\ x.return
      BY DEF TableInv, LineOK, Line
    <2>2. RequestOK(x)
      BY <2>1 DEF WatchInv
    <2>3. QED
      BY <1>9, <2>1, <2>2 DEF RequestOK, IsOneShot, IsIo, IoEvents
  <1>10. ASSUME NEW x \in Line', IsOneShot(x), x.io_handle \in DOMAIN interest'
         PROVE  "OUT" \in interest'[x.io_handle]
    <2>1. RequestOK(x)
      BY <1>1 DEF WatchInv
    <2>2. CASE x.io_handle # h
      BY <1>2, <1>10, <2>1, <2>2 DEF RequestOK, OnlyAt
    <2>3. CASE x.io_handle = h
      <3>1. ~IsRegister(e)
        <4>1. CASE x \in Todo
          BY <1>3, <1>4, <1>9, <1>10, <2>3, <4>1 DEF WatchInv, Batch, BatchOK
        <4>2. CASE x \in Behind'
          BY <1>0, <1>1, <1>10, <2>3, <4>2 DEF InTime, IsOneShot, WatchInv, WaitOK, IsIo, IoEvents
        <4>3. CASE x = e
          BY <1>10, <4>3 DEF IsRegister, IsOneShot
        <4>4. QED
          BY <1>1, <4>1, <4>2, <4>3 DEF Line
      <3>2. e.event # "REMOVE_WRITE"
        <4> SUFFICES ASSUME e.event = "REMOVE_WRITE" PROVE FALSE
          OBVIOUS
        <4>1. IsOneShot(e) /\ ~e.return
          BY <1>1 DEF IsOneShot, RequestOK
        <4>2. x \in Todo \/ x \in Behind'
          BY <1>1, <4>1 DEF Line
        <4>3. QED
          BY <1>0, <1>1, <1>10, <2>3, <4>1, <4>2 DEF InTime
      <3>3. h \in DOMAIN interest /\ interest[h] \subseteq interest'[h]
        BY <1>2, <1>10, <2>3, <3>1, <3>2
      <3>4. QED
        BY <1>10, <2>1, <2>3, <3>3 DEF RequestOK
    <2>4. QED
      BY <2>2, <2>3
  <1>11. ASSUME NEW x \in Line' PROVE RequestOK(x)'
    <2>1. RequestOK(x)
      BY <1>1 DEF WatchInv
    <2>2. QED
      BY <1>3, <1>10, <2>1 DEF RequestOK, Ending
  <1>12. ASSUME NEW x \in Todo' PROVE BatchOK(x)'
    <2>1. x \in Line /\ EventOK(x)
      BY <1>1 DEF TableInv, LineOK, Line
    <2>2. CASE x = e
      <3>1. IsRegister(e) => h \in DOMAIN interest'
        BY <1>2
      <3>2. IsRemoval(e) => h \notin DOMAIN interest'
        BY <1>2 DEF IsRemoval
      <3>3. QED
        BY <1>0, <1>1, <2>2, <3>1, <3>2 DEF BatchOK
    <2>3. CASE x # e
      <3>1. x \in Todo /\ BatchOK(x)
        BY <1>1, <2>3 DEF WatchInv, Batch
      <3>2. ASSUME IsRegister(x) PROVE x.io_handle \in DOMAIN interest'
        <4>1. x.io_handle \in DOMAIN interest
          BY <3>1, <3>2 DEF BatchOK
        <4>2. CASE x.io_handle = h /\ e.event = "REMOVE_ALL"
          <5>1. ~IsRemoval(e) /\ ~IsQuiet(e)
            BY <1>0, <1>1, <3>1, <3>2, <4>2 DEF NewOwner, InTime
          <5>2. QED
            BY <4>2, <5>1 DEF IsRemoval, IsQuiet
        <4>3. QED
          BY <1>2, <4>1, <4>2 DEF OnlyAt
      <3>3. ASSUME IsRemoval(x), stage[x.sock] = "registered" PROVE x.io_handle \notin DOMAIN interest'
        <4>1. x.io_handle \notin DOMAIN interest
          BY <3>1, <3>3 DEF BatchOK
        <4>2. CASE x.io_handle = h /\ IsRegister(e)
          <5>1. x.sock \in Conns /\ io_handle_[x.sock] = h
            BY <2>1, <3>3, <4>2 DEF EventOK, Names
          <5>2. h \in DOMAIN handlers_
            BY <3>3, <5>1 DEF WatchInv, Tabled
          <5>3. QED
            BY <1>4, <4>2, <5>2
        <4>3. QED
          BY <1>2, <4>1, <4>2 DEF OnlyAt
      <3>4. QED
        BY <1>3, <3>1, <3>2, <3>3 DEF BatchOK
    <2>4. QED
      BY <2>2, <2>3
  <1>13. ASSUME NEW x \in Todo', NEW f \in Todo', IsIo(x), IsRegister(f) PROVE x.io_handle # f.io_handle
    <2>1. x \in Todo
      BY <1>1, <1>13
    <2>2. CASE f \in Todo
      BY <1>13, <2>1, <2>2 DEF WatchInv, Batch
    <2>3. CASE f = e
      BY <1>0, <1>4, <1>13, <2>1, <2>3 DEF WatchInv, Batch, BatchOK
    <2>4. QED
      BY <1>1, <2>2, <2>3
  <1>14. ScanOK'
    <2>1. ASSUME NEW k \in (DOMAIN scan \ {PIPE}) \cap DOMAIN interest', "out" \in scan[k]
          PROVE  "OUT" \in interest'[k]
      <3>1. k \in DOMAIN handlers_ /\ wait_pc = "pipe"
        BY <1>1, <2>1 DEF WatchInv, ScanOK
      <3>2. e.event # "REMOVE_WRITE"
        BY <1>1, <3>1 DEF WatchInv, WaitOK
      <3>3. ~(k = h /\ IsRegister(e))
        BY <1>4, <3>1
      <3>4. k \in DOMAIN interest /\ interest[k] \subseteq interest'[k]
        BY <1>2, <2>1, <3>2, <3>3 DEF OnlyAt
      <3>5. QED
        BY <2>1, <3>4 DEF WatchInv, ScanOK
    <2>2. QED
      BY <1>3, <2>1 DEF WatchInv, ScanOK
  <1>15. Batch'
    BY <1>12, <1>13 DEF Batch
  <1>16. QED
    BY <1>1, <1>5, <1>6, <1>7, <1>8, <1>11, <1>14, <1>15 DEF WatchInv

LEMMA WatchNext == WritesInTime /\ TableInv /\ WatchInv /\ [Next]_vars => WatchInv'
  <1> SUFFICES ASSUME WritesInTime, TableInv, WatchInv, [Next]_vars PROVE WatchInv'
    OBVIOUS
  <1>1. CASE ReactorThread
    <2>1. CASE RunTop
      <3>1. run_pc' = "timeouts" \/ run_pc' = "wait"
        BY <2>1 DEF RunTop
      <3>2. QED
        BY <2>1, <3>1, RunWatch, WaitBeginWatch
    <2>2. CASE InWait
      <3>1. run_pc = "wait" /\ WaitStep /\ UNCHANGED reactor_vars
        BY <2>2 DEF InWait
      <3>2. QED
        BY <3>1, ProcessWatch, StageWatch, EpollWatch, ScanPipeWatch, ScanHandleWatch DEF WaitStep
    <2>3. CASE Dispatch
      BY <2>3, RunWatch, DispatchOthersWatch, DispatchRegisterWatch, DispatchRemoveWatch DEF Dispatch
    <2>4. CASE \E h \in Handles : Shutdown(h)
      BY <2>4, ShutdownWatch
    <2>5. CASE CallbackReturns
      BY <2>5, CallbackReturnsWatch
    <2>6. QED
      BY <1>1, <2>1, <2>2, <2>3, <2>4, <2>5, RunWatch DEF ReactorThread
  <1>2. CASE \E c \in Conns : LocalCall(c)
    BY <1>2, LocalCallWatch
  <1>3. CASE WaitEmpty
    BY <1>3, StageWatch DEF WaitEmpty
  <1>4. CASE \E h \in Handles : PeerActs(h) /\ UNCHANGED reactor_vars
    <2>1. /\ UNCHANGED <<wait_thread_id_, queues, interest, watched, wait_pc, ctl, scan, return_events,
                         run_pc, index, handlers_, callback, io_handle_, stage, removing>>
      BY <1>4 DEF PeerActs, reactor_vars, table, told
    <2>2. QED
      BY <2>1, WatchSame DEF Ending
  <1>5. CASE OtherThreads
    BY <1>4, <1>5, AcceptorOpensWatch, RegisterWatch, RemoteCallWatch, StopWatch, OwnerWatch
    DEF OtherThreads
  <1>6. CASE UNCHANGED vars
    <2>1. /\ UNCHANGED <<wait_thread_id_, queues, interest, watched, wait_pc, ctl, scan, return_events,
                         run_pc, index, handlers_, callback, io_handle_, stage, removing>>
      BY <1>6 DEF vars, demuxer_vars, reactor_vars, table, told
    <2>2. QED
      BY <2>1, WatchSame DEF Ending
  <1>7. QED
    BY <1>1, <1>2, <1>3, <1>5, <1>6 DEF Next

\* If no register_writable comes from another thread or behind the removal of its handler:
\* the epoll map and the kernel's epoll set are the same, the table maps each handle to the
\* live handler registered for it, handler_count_ counts its entries, and no timer outlives
\* its handler (IoHandleDemuxer.h add_epoll_event, del_epoll_event; Reactor.cpp dispatch).
THEOREM StateCorrect == WritesInTime => (Spec => []StateIsTrue)
  <1> SUFFICES ASSUME WritesInTime PROVE Spec => []StateIsTrue
    OBVIOUS
  <1>1. TableInv /\ WatchInv => StateIsTrue
    BY DEF StateIsTrue, MapMatchesKernel, TableInv, TableOK, WatchInv, Interest
  <1>2. TableInv /\ WatchInv /\ [Next]_vars => WatchInv'
    BY WatchNext
  <1>3. QED
    BY <1>1, <1>2, TableInit, TableNext, WatchInit, PTL DEF Spec

\* Under the same condition: when the thread goes to sleep in epoll_wait, every handler of
\* the table is watched for input (IoHandleDemuxer.h wait, Reactor.cpp dispatch).
THEOREM SleepsWatching == WritesInTime => (Spec => []WatchedWhileAsleep)
  <1> SUFFICES ASSUME WritesInTime PROVE Spec => []WatchedWhileAsleep
    OBVIOUS
  <1>1. TableInv /\ WatchInv => WatchedWhileAsleep
    <2> SUFFICES ASSUME TableInv, WatchInv, wait_pc = "epoll", NEW h \in DOMAIN handlers_
                 PROVE  h \in DOMAIN watched /\ "IN" \in watched[h]
      BY DEF WatchedWhileAsleep
    <2>1. return_events = <<>> /\ index = 1 /\ ~Ending
      BY DEF TableInv, Control, WatchInv, WaitOK, Ending
    <2>2. Todo = {}
      BY <2>1 DEF Todo, Elems
    <2>3. QED
      BY <2>1, <2>2 DEF WatchInv, Interest
  <1>2. TableInv /\ WatchInv /\ [Next]_vars => WatchInv'
    BY WatchNext
  <1>3. QED
    BY <1>1, <1>2, TableInit, TableNext, WatchInit, PTL DEF Spec

\* Under the same condition: the flip by which del_epoll_event takes EPOLLOUT out never
\* puts it in (IoHandleDemuxer.h del_epoll_event, "events ^= epoll_event").
THEOREM FlipClears == WritesInTime => (Spec => RemoveWriteClears)
  <1> SUFFICES ASSUME WritesInTime PROVE Spec => RemoveWriteClears
    OBVIOUS
  <1>1. ASSUME TableInv, WatchInv, process_ctrl_event, Head(ctl).event = "REMOVE_WRITE",
               NEW h, h = Head(ctl).io_handle, h \in DOMAIN interest'
        PROVE  "OUT" \notin interest'[h]
    <2>1. PICK e : e = Head(ctl)
      OBVIOUS
    <2>2. ctl \in Seq(Events) /\ ctl # <<>> /\ del_epoll_event("OUT", h)
      BY <1>1 DEF process_ctrl_event, TableInv, LineTypeOK
    <2>3. e \in Line
      <3>1. e = ctl[1] /\ 1 \in 1 .. Len(ctl)
        BY <2>1, <2>2
      <3>2. QED
        BY <3>1 DEF Line, Behind, Elems
    <2>4. Interest /\ RequestOK(e)
      BY <1>1, <2>3 DEF WatchInv
    <2>5. h \in DOMAIN interest => "OUT" \in interest[h]
      BY <1>1, <2>1, <2>4 DEF RequestOK, IsOneShot
    <2>6. /\ h \in DOMAIN interest' <=> h \in DOMAIN interest
          /\ h \in DOMAIN interest => interest'[h] = interest[h] \ {"OUT"}
      BY <2>2, <2>4, <2>5, DelWrite
    <2>7. QED
      BY <1>1, <2>6
  <1>2. TableInv /\ WatchInv /\ [Next]_vars =>
          [process_ctrl_event /\ Head(ctl).event = "REMOVE_WRITE" =>
             LET h == Head(ctl).io_handle
             IN h \in DOMAIN interest' => "OUT" \notin interest'[h]]_vars
    BY <1>1
  <1>3. TableInv /\ WatchInv /\ [Next]_vars => WatchInv'
    BY WatchNext
  <1>4. QED
    BY <1>2, <1>3, TableInit, TableNext, WatchInit, PTL DEF Spec, RemoveWriteClears
=============================================================================

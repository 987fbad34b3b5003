---------------------------- MODULE ServerProofs ----------------------------
(***************************************************************************)
(* Proofs about a server's life for any number of reactors, acceptors,     *)
(* connections and calls of start(): connections are handed to running     *)
(* reactors only, none is forgotten by stop(), and handler_count() counts. *)
(***************************************************************************)
EXTENDS Server, FiniteSetTheorems, SequenceTheorems, TLAPS

-----------------------------------------------------------------------------
StartPcs == {"prepare_ssl", "listen", "start_reactors", "wait_reactor", "asleep", "woken",
             "start_acceptors", "wait_acceptor"}
StopPcs == {"stop_acceptors", "join_acceptor", "stop_reactors", "stop_local", "join_reactor"}
Pcs == {"idle", "up", "failed", "undo", "undo_local", "undo_join", "stopped"}
         \cup StartPcs \cup StopPcs
AppRecord == [pc : Pcs, i : Nat \ {0}, by : {"owner", "other"}]
USE DEF AppRecord
ThreadStates == {"none", "created", "entering", "looping", "shutdown", "ended"}
AcceptorStates == {"none", "created", "top", "spinning", "poll", "accepted", "selected", "ended"}
PlaceStates == {"none", "backlog", "refused", "accepted", "piped", "handled", "closed",
                "shutdown", "lost", "leaked"}
Requests == Conns \cup {STOP, MONITOR}
ReactorRecord ==
    [thread : ThreadStates, is_run : BOOLEAN, stop : BOOLEAN, pipe : Seq(Requests),
     waited : BOOLEAN, local : BOOLEAN,
     handlers : SUBSET Conns, count : Int, factory : BOOLEAN,
     monitor : {"none", "raised", "registered"},
     spoilt : BOOLEAN, overtaken : BOOLEAN, refused : SUBSET Conns]
AcceptorRecord == [pc : AcceptorStates, conn : Conns \cup {"none"}, index : Nat]

ServerTypeOK ==
    /\ mode \in {"tcp", "https", "parts", "thread"} /\ kind \in {"ipv4", "ipv46", "ipv6", "uds"}
    /\ app \in AppRecord
    /\ starts \in 0 .. MaxStarts /\ stop_ \in BOOLEAN
    /\ waiter \in {"none", "waiting", "returned"}
    /\ n \in Nat /\ n <= NReactors * starts /\ selector_index_ \in Nat
    /\ rt \in [Reactors -> ReactorRecord]
    /\ socket \in [fd : {"none", "socket", "listening", "shut", "closed", "foreign"},
                   family : {"none", "ipv4", "ipv46", "ipv6", "uds"}]
    /\ at \in [Acceptors -> AcceptorRecord]
    /\ timer \in [Acceptors -> {"unset", "armed", "due"}]
    /\ place \in [Conns -> PlaceStates] /\ early \subseteq Conns

\* Where the caller of start() and stop() can be.
CallerOK ==
    /\ app.pc # "idle" => n > 0
    /\ app.pc = "idle" => starts = 0
    /\ mode = "thread" => /\ app.pc \in {"idle", "start_reactors", "wait_reactor", "asleep", "woken",
                                         "up", "stop_reactors", "stop_local", "join_reactor",
                                         "stopped"}
                          /\ app.pc # "idle" => n = 1
    /\ app.pc = "prepare_ssl" => mode = "https"
    /\ app.pc = "undo_join" => mode # "https"
    /\ app.pc \in {"prepare_ssl", "start_reactors", "wait_reactor", "asleep", "woken", "stop_local",
                   "undo_local", "join_reactor", "undo_join"} =>
         app.i <= n
    /\ app.pc \in {"undo", "stop_reactors"} => app.i <= n + 1
    /\ app.pc \in {"start_acceptors", "wait_acceptor", "join_acceptor"} => app.i <= NAcceptors
    /\ app.pc = "stop_acceptors" => app.i <= NAcceptors + 1
    /\ app.pc \in {"idle", "failed", "listen", "up", "stopped"} => app.i = 1

\* A reactor without a thread; one that has not run since it was made or joined, and whose
\* wait_events_ holds a STOP only if that has spoilt it; one that was started; one that
\* runs, or is spoilt and ends; one that was told to stop and can see it.
HasNone(r) == rt[r].thread = "none"
NotRun(r) == rt[r].thread = "none" /\ (rt[r].local <=> rt[r].spoilt)
Serving(r) ==
    IF rt[r].spoilt THEN rt[r].thread \in {"entering", "shutdown", "ended"}
    ELSE Alive(r) /\ STOP \notin Range(rt[r].pipe) /\ ~rt[r].local
Begun(r) == Serving(r) \/ (rt[r].thread = "created" /\ (rt[r].local => rt[r].spoilt))
Stopping(r) == \/ rt[r].thread \in {"shutdown", "ended"} /\ ~rt[r].local
               \/ Alive(r) /\ ~(rt[r].local /\ STOP \in Range(rt[r].pipe))
AllServe == \A r \in 1 .. n : Serving(r)
AllNone == \A r \in 1 .. n : HasNone(r)
AllNotRun == \A r \in 1 .. n : NotRun(r)

\* What the reactors do while the caller is where it is.
ThreadsOK ==
    /\ \A r \in Reactors : r > n => HasNone(r)
    /\ app.pc \in {"idle", "prepare_ssl", "failed"} => AllNotRun
    /\ app.pc = "stopped" => AllNone
    /\ app.pc = "listen" => IF mode = "https" THEN AllNotRun ELSE AllServe
    /\ app.pc = "start_reactors" =>
         \A r \in 1 .. n : IF r < app.i THEN Serving(r) ELSE NotRun(r)
    /\ app.pc \in {"wait_reactor", "asleep", "woken"} =>
         \A r \in 1 .. n : /\ r < app.i => Serving(r)
                           /\ r = app.i => Begun(r)
                           /\ r > app.i => NotRun(r)
    /\ app.pc = "woken" => Serving(app.i)
    /\ app.pc \in {"start_acceptors", "wait_acceptor", "up"} => AllServe
    /\ app.pc \in {"stop_acceptors", "join_acceptor"} => AllServe \/ AllNone
    /\ app.pc \in {"undo", "undo_local"} =>
         \A r \in 1 .. n : IF r >= app.i /\ mode # "https" THEN Serving(r) ELSE NotRun(r)
    /\ app.pc = "undo_join" =>
         \A r \in 1 .. n : /\ r < app.i => NotRun(r)
                           /\ r = app.i => Stopping(r)
                           /\ r > app.i => Serving(r)
    /\ app.pc \in {"stop_reactors", "stop_local"} =>
         \A r \in 1 .. n : HasNone(r) \/ (r >= app.i /\ Serving(r))
    /\ app.pc = "join_reactor" =>
         \A r \in 1 .. n : r # app.i => HasNone(r) \/ (r > app.i /\ Serving(r))

\* A started reactor thread has is_run_ and no stop_, and begins with an empty pipe; that
\* of a spoilt reactor finds the STOP at its first wait().
Sound(v) ==
    /\ v.is_run <=> v.thread \in {"entering", "looping", "shutdown"}
    /\ v.thread \in {"created", "entering", "looping", "shutdown"} => ~v.stop
    /\ v.thread = "created" => v.pipe = <<>>
    /\ v.spoilt => /\ v.thread # "looping"
                   /\ v.thread \in {"created", "entering"} => v.local
                   /\ v.thread \in {"shutdown", "ended"} => v.overtaken
RunsOK == \A r \in Reactors : Sound(rt[r])

\* Only Https1Reactor tells reactors to stop that have no thread, before a stop().
SpoiltOK ==
    mode # "https" /\ app.pc \notin StopPcs \cup {"stopped"} => \A r \in Reactors : ~rt[r].spoilt

\* Acceptor threads live while all reactors serve.
AcceptorsOK ==
    /\ \A a \in Acceptors : at[a].pc # "none" =>
         /\ mode # "thread"
         /\ app.pc \in {"start_acceptors", "wait_acceptor", "up", "stop_acceptors", "join_acceptor"}
         /\ AllServe
    /\ app.pc = "start_acceptors" => \A a \in Acceptors : a >= app.i => at[a].pc = "none"
    /\ app.pc = "wait_acceptor" => \A a \in Acceptors : a > app.i => at[a].pc = "none"
    /\ app.pc \in {"stop_acceptors", "join_acceptor"} =>
         \A a \in Acceptors : a < app.i => at[a].pc = "none"
    /\ \A a \in Acceptors : /\ at[a].pc \in {"accepted", "selected"} => at[a].conn \in Conns
                            /\ at[a].pc = "selected" => at[a].index < n
    /\ IF n = 0 THEN selector_index_ = 0 ELSE selector_index_ < n

\* The socket listens from a successful listen() to the first shutdown().
SocketOK ==
    socket.fd = "listening" =>
        /\ mode # "thread"
        /\ \/ app.pc \in {"start_acceptors", "wait_acceptor", "up"}
           \/ app.pc \in {"start_reactors", "wait_reactor", "asleep", "woken"} /\ mode = "https"
           \/ app.pc = "stop_acceptors" /\ app.i = 1

ControlInv ==
    ServerTypeOK /\ CallerOK /\ ThreadsOK /\ RunsOK /\ SpoiltOK /\ AcceptorsOK /\ SocketOK

-----------------------------------------------------------------------------
Holds(a, c) == at[a].pc \in {"accepted", "selected"} /\ at[a].conn = c
Fresh == {"none", "backlog", "accepted"}
LiveStates == {"created", "entering", "looping"}

\* A reactor that will read its pipe, or that is known never to have.
Keeps(v) == v.thread \in LiveStates \/ v.overtaken
Tells(v) == v.thread \in {"looping", "shutdown"}

\* Nobody of e is behind a STOP in the pipe p; nothing but STOP is in it twice.
StopBehind(p, e) == \A j, k \in 1 .. Len(p) : j < k /\ p[j] = STOP => p[k] \notin e
Distinct(p) == \A j, k \in 1 .. Len(p) : j # k /\ p[j] = p[k] => p[j] = STOP

\* A reactor's table and its handler_count_.
TableOK(v) ==
    /\ v.thread = "created" => v.handlers = {} /\ v.count = 0
    /\ v.thread \in {"entering", "looping"} =>
         /\ Distinct(v.pipe) /\ Range(v.pipe) \cap v.handlers = {}
         /\ MONITOR \in Range(v.pipe) => v.monitor = "raised"
         /\ v.count = Cardinality(v.handlers) + (IF v.monitor = "registered" THEN 1 ELSE 0)

\* A connection that no reactor has been given is in none, and one acceptor thread has
\* the connection it accepted.
FreshOK ==
    \A c \in Conns : place[c] \in Fresh =>
        c \notin early /\ \A r \in Reactors : c \notin Range(rt[r].pipe) /\ c \notin rt[r].handlers
HeldOK ==
    \A a \in Acceptors : \A c \in Conns : Holds(a, c) =>
        place[c] = "accepted" /\ \A b \in Acceptors : Holds(b, c) => a = b

\* Somebody has every connection that is not at its end.
HasPlace(c) ==
    /\ place[c] = "backlog" => socket.fd = "listening"
    /\ place[c] = "accepted" => \E a \in Acceptors : Holds(a, c)
    /\ place[c] = "piped" /\ (c \in early \/ mode # "thread") =>
         \E r \in Reactors : c \in Range(rt[r].pipe) /\ Keeps(rt[r]) /\ (c \in early \/ rt[r].spoilt)
    /\ place[c] = "lost" => \E r \in Reactors : c \in rt[r].refused /\ rt[r].overtaken
    /\ place[c] = "handled" => \E r \in Reactors : c \in rt[r].handlers /\ Tells(rt[r])

\* No connection has come further than the backlog while the reactors are started,
\* or stopped again by a start() that fails.
BeforeAccept ==
    \/ app.pc \in {"idle", "failed", "prepare_ssl", "listen", "start_reactors", "undo",
                   "undo_local", "undo_join"}
    \/ app.pc \in {"wait_reactor", "asleep", "woken"} /\ mode # "thread"
NoneAccepted == BeforeAccept => \A c \in Conns : place[c] \in {"none", "backlog"}

PlacesInv ==
    /\ \A r \in Reactors : StopBehind(rt[r].pipe, early) /\ TableOK(rt[r])
    /\ FreshOK /\ HeldOK
    /\ \A c \in Conns : HasPlace(c)
    /\ NoneAccepted

-----------------------------------------------------------------------------
\* The reactors there are have a place in the table.
LEMMA ReactorsThere ==
    ASSUME ServerTypeOK
    PROVE  n <= NReactors * MaxStarts /\ \A r \in 1 .. n : r \in Reactors
  <1>1. \A a, b, c \in Nat : b <= c => a * b <= a * c /\ a * b \in Nat /\ a * c \in Nat
    OBVIOUS
  <1>2. n <= NReactors * MaxStarts /\ n \in Nat /\ NReactors * MaxStarts \in Nat
    BY <1>1, ServerConstants DEF ServerTypeOK
  <1>3. QED
    BY <1>2 DEF Reactors

\* Nothing has been started.
LEMMA ControlInit == Init => ControlInv
  <1> SUFFICES ASSUME Init PROVE ControlInv
    OBVIOUS
  <1> USE DEF Init
  <1>1. \A r \in Reactors : rt[r] = NewReactor
    OBVIOUS
  <1>2. /\ NewReactor \in ReactorRecord /\ NewReactor.thread = "none" /\ ~NewReactor.is_run
        /\ ~NewReactor.local /\ ~NewReactor.spoilt
    BY DEF NewReactor, ReactorRecord, ThreadStates
  <1>3. NReactors * 0 = 0 /\ 0 \in 0 .. MaxStarts
    BY ServerConstants
  <1>4. ServerTypeOK
    <2>1. /\ mode \in {"tcp", "https", "parts", "thread"}
          /\ kind \in {"ipv4", "ipv46", "ipv6", "uds"}
      BY ServerConstants
    <2>2. app \in AppRecord /\ rt \in [Reactors -> ReactorRecord]
      BY <1>2 DEF Pcs
    <2>3. at \in [Acceptors -> AcceptorRecord] /\ place \in [Conns -> PlaceStates]
      BY DEF AcceptorRecord, AcceptorStates, PlaceStates
    <2>4. n \in Nat /\ n <= NReactors * starts /\ starts \in 0 .. MaxStarts
      BY <1>3
    <2>5. /\ stop_ \in BOOLEAN /\ waiter \in {"none", "waiting", "returned"}
          /\ selector_index_ \in Nat /\ early \subseteq Conns
          /\ timer \in [Acceptors -> {"unset", "armed", "due"}]
      OBVIOUS
    <2>6. socket \in [fd : {"none", "socket", "listening", "shut", "closed", "foreign"},
                      family : {"none", "ipv4", "ipv46", "ipv6", "uds"}]
      OBVIOUS
    <2> HIDE DEF Init
    <2>7. QED
      BY <2>1, <2>2, <2>3, <2>4, <2>5, <2>6 DEF ServerTypeOK
  <1>5. CallerOK
    BY ServerConstants DEF CallerOK
  <1>6. RunsOK /\ SpoiltOK
    BY <1>1, <1>2 DEF RunsOK, SpoiltOK, Sound
  <1>7. ThreadsOK
    BY <1>1, <1>2, <1>4, ReactorsThere DEF ThreadsOK, AllNotRun, NotRun, HasNone
  <1>8. AcceptorsOK /\ SocketOK
    BY DEF AcceptorsOK, SocketOK
  <1>9. QED
    BY <1>4, <1>5, <1>6, <1>7, <1>8 DEF ControlInv

\* How a reactor may change behind the caller's back.
Moves(r) ==
    /\ HasNone(r) => HasNone(r)'
    /\ NotRun(r) => NotRun(r)'
    /\ Serving(r) => Serving(r)'
    /\ Begun(r) => Begun(r)'
    /\ Stopping(r) => Stopping(r)'

\* The caller stays where it is, or is woken by the reactor it waits for.
CallerStays ==
    \/ app' = app
    \/ app.pc = "asleep" /\ app' = [app EXCEPT !.pc = "woken"] /\ Serving(app.i)'

LEMMA ThreadsMove ==
    ASSUME ControlInv, UNCHANGED <<mode, n>>, CallerStays, \A r \in Reactors : Moves(r)
    PROVE  ThreadsOK' /\ (AllServe => AllServe')
  <1>1. \A r \in 1 .. n : r \in Reactors /\ r \in Int
    BY ReactorsThere DEF ControlInv, ServerTypeOK
  <1>2. ThreadsOK /\ app \in AppRecord
    BY DEF ControlInv, ServerTypeOK
  <1>3. (AllServe => AllServe') /\ (AllNone => AllNone') /\ (AllNotRun => AllNotRun')
    BY <1>1 DEF AllServe, AllNone, AllNotRun, Moves
  <1>4. \A r \in Reactors : r > n' => HasNone(r)'
    BY <1>2 DEF ThreadsOK, Moves
  <1>5. app.pc = "start_reactors" =>
          \A r \in 1 .. n : IF r < app.i THEN Serving(r)' ELSE NotRun(r)'
    BY <1>1, <1>2 DEF ThreadsOK, Moves
  <1>6. app.pc \in {"wait_reactor", "asleep", "woken"} =>
          \A r \in 1 .. n : /\ r < app.i => Serving(r)'
                            /\ r = app.i => Begun(r)'
                            /\ r > app.i => NotRun(r)'
    BY <1>1, <1>2 DEF ThreadsOK, Moves
  <1>7. app.pc \in {"undo", "undo_local"} =>
          \A r \in 1 .. n : IF r >= app.i /\ mode # "https" THEN Serving(r)' ELSE NotRun(r)'
    BY <1>1, <1>2 DEF ThreadsOK, Moves
  <1>8. app.pc = "undo_join" =>
          \A r \in 1 .. n : /\ r < app.i => NotRun(r)'
                            /\ r = app.i => Stopping(r)'
                            /\ r > app.i => Serving(r)'
    BY <1>1, <1>2 DEF ThreadsOK, Moves
  <1>9. app.pc \in {"stop_reactors", "stop_local"} =>
          \A r \in 1 .. n : HasNone(r)' \/ (r >= app.i /\ Serving(r)')
    BY <1>1, <1>2 DEF ThreadsOK, Moves
  <1>10. app.pc = "join_reactor" =>
           \A r \in 1 .. n : r # app.i => HasNone(r)' \/ (r > app.i /\ Serving(r)')
    BY <1>1, <1>2 DEF ThreadsOK, Moves
  <1>11. CASE app' = app
    <2>1. app.pc = "woken" => Serving(app.i)'
      <3>1. app.pc = "woken" => app.i \in 1 .. n
        BY <1>2 DEF ControlInv, CallerOK, ServerTypeOK
      <3>2. QED
        BY <1>1, <1>2, <1>11, <3>1 DEF ThreadsOK, Moves, Serving, Alive
    <2>2. QED
      BY <1>2, <1>3, <1>4, <1>5, <1>6, <1>7, <1>8, <1>9, <1>10, <1>11, <2>1 DEF ThreadsOK
  <1>12. CASE app.pc = "asleep" /\ app' = [app EXCEPT !.pc = "woken"] /\ Serving(app.i)'
    <2>1. app'.pc = "woken" /\ app'.i = app.i
      BY <1>2, <1>12
    <2>2. QED
      BY <1>3, <1>4, <1>6, <1>12, <2>1 DEF ThreadsOK
  <1>13. QED
    BY <1>11, <1>12 DEF CallerStays

\* A step of one reactor that leaves the others, the caller and the acceptors alone.
LEMMA OneReactor ==
    ASSUME ControlInv, NEW r \in Reactors, NEW v \in ReactorRecord,
           rt' = [rt EXCEPT ![r] = v], place' \in [Conns -> PlaceStates], early' \subseteq Conns,
           UNCHANGED <<config, starts, stop_, waiter, n, selector_index_, listening>>,
           CallerStays, Moves(r), Sound(v), v.spoilt => rt[r].spoilt
    PROVE  ControlInv'
  <1> USE DEF config, listening
  <1>1. rt'[r] = v /\ \A q \in Reactors : q # r => rt'[q] = rt[q]
    BY DEF ControlInv, ServerTypeOK
  <1>2. app \in AppRecord /\ app' \in AppRecord /\ app'.i = app.i
        /\ (app'.pc = app.pc \/ (app.pc = "asleep" /\ app'.pc = "woken"))
    BY DEF ControlInv, ServerTypeOK, CallerStays, Pcs, StartPcs
  <1>3. ServerTypeOK'
    BY <1>2 DEF ControlInv, ServerTypeOK
  <1>4. RunsOK'
    BY <1>1 DEF ControlInv, RunsOK
  <1>5. SpoiltOK'
    BY <1>1, <1>2 DEF ControlInv, SpoiltOK, StopPcs
  <1>6. \A q \in Reactors : Moves(q)
    BY <1>1 DEF Moves, HasNone, NotRun, Serving, Begun, Stopping, Alive
  <1>7. ThreadsOK' /\ (AllServe => AllServe')
    BY <1>6, ThreadsMove
  <1>8. CallerOK' /\ SocketOK'
    BY <1>2 DEF ControlInv, CallerOK, SocketOK
  <1>9. AcceptorsOK'
    BY <1>2, <1>7 DEF ControlInv, AcceptorsOK
  <1>10. QED
    BY <1>3, <1>4, <1>5, <1>7, <1>8, <1>9 DEF ControlInv

-----------------------------------------------------------------------------
\* A batch is the front of the pipe; the rest stays.
LEMMA PipeCut ==
    ASSUME NEW s \in Seq(Requests), NEW k \in 1 .. Len(s)
    PROVE  LET b == SubSeq(s, 1, k)
               c == SubSeq(s, Len(b) + 1, Len(s))
           IN /\ b \in Seq(Requests) /\ c \in Seq(Requests)
              /\ Len(b) = k /\ Len(c) = Len(s) - k
              /\ \A i \in 1 .. k : b[i] = s[i]
              /\ \A i \in 1 .. Len(s) - k : c[i] = s[k + i]
              /\ Range(b) \subseteq Range(s) /\ Range(c) \subseteq Range(s)
              /\ \A x \in Range(s) : x \in Range(b) \/ x \in Range(c)
  <1> DEFINE b == SubSeq(s, 1, k)
             c == SubSeq(s, k + 1, Len(s))
             m == Len(s) - k
  <1>1. k \in Nat /\ Len(s) \in Nat /\ m \in Nat /\ k <= Len(s) /\ 1 <= k
    OBVIOUS
  <1>2. b \in Seq(Requests) /\ Len(b) = k /\ \A i \in 1 .. k : b[i] = s[i] /\ i \in 1 .. Len(s)
    OBVIOUS
  <1>3. /\ c \in Seq(Requests) /\ Len(c) = m
        /\ \A i \in 1 .. m : c[i] = s[k + i] /\ k + i \in 1 .. Len(s)
    OBVIOUS
  <1>4. c = SubSeq(s, Len(b) + 1, Len(s))
    BY <1>2
  <1>5. \A i \in 1 .. Len(s) : i \in 1 .. k \/ (i - k \in 1 .. m /\ k + (i - k) = i)
    BY <1>1
  <1> HIDE DEF b, c, m
  <1>6. DOMAIN b = 1 .. k /\ DOMAIN c = 1 .. m /\ DOMAIN s = 1 .. Len(s)
    BY <1>2, <1>3
  <1>7. Range(b) \subseteq Range(s)
    BY <1>2, <1>6 DEF Range
  <1>8. Range(c) \subseteq Range(s)
    BY <1>3, <1>6 DEF Range
  <1>9. ASSUME NEW x \in Range(s) PROVE x \in Range(b) \/ x \in Range(c)
    <2>1. PICK i \in 1 .. Len(s) : x = s[i]
      BY <1>6 DEF Range
    <2>2. CASE i \in 1 .. k
      BY <1>2, <1>6, <2>1, <2>2 DEF Range
    <2>3. CASE i - k \in 1 .. m /\ k + (i - k) = i
      BY <1>3, <1>6, <2>1, <2>3 DEF Range
    <2>4. QED
      BY <1>5, <2>2, <2>3
  <1>10. QED
    BY <1>2, <1>3, <1>4, <1>7, <1>8, <1>9 DEF b, c, m

\* What a pipe holds after a write.
LEMMA PipeWrite ==
    ASSUME NEW s \in Seq(Requests), NEW x \in Requests
    PROVE  /\ Append(s, x) \in Seq(Requests) /\ Len(Append(s, x)) = Len(s) + 1
           /\ \A i \in 1 .. Len(s) : Append(s, x)[i] = s[i]
           /\ Append(s, x)[Len(s) + 1] = x
           /\ Range(Append(s, x)) = Range(s) \cup {x}
  <1>1. /\ Append(s, x) \in Seq(Requests) /\ Len(Append(s, x)) = Len(s) + 1
        /\ \A i \in 1 .. Len(s) : Append(s, x)[i] = s[i]
        /\ Append(s, x)[Len(s) + 1] = x
    OBVIOUS
  <1>2. DOMAIN Append(s, x) = 1 .. Len(s) + 1 /\ DOMAIN s = 1 .. Len(s) /\ Len(s) \in Nat
    BY <1>1
  <1>3. Range(Append(s, x)) \subseteq Range(s) \cup {x}
    BY <1>1, <1>2 DEF Range
  <1>4. Range(s) \cup {x} \subseteq Range(Append(s, x))
    BY <1>1, <1>2 DEF Range
  <1>5. QED
    BY <1>1, <1>3, <1>4

\* A reactor's thread begins to run.
LEMMA RunBeginControl ==
    ASSUME ControlInv, NEW r \in Reactors, RunBegin(r)
    PROVE  ControlInv'
  <1>1. rt[r].thread = "created" /\ rt[r] \in ReactorRecord /\ rt[r].pipe = <<>> /\ Sound(rt[r])
    BY DEF RunBegin, ControlInv, ServerTypeOK, RunsOK, Sound
  <1>2. PICK created \in {FALSE, rt[r].factory} : rt' = [rt EXCEPT ![r] = Running(r, created)]
    BY DEF RunBegin
  <1> DEFINE p == IF created THEN <<MONITOR>> ELSE <<>>
             v == Running(r, created)
  <1>3. p \in Seq(Requests) /\ STOP \notin Range(p)
    <2>1. Range(<<>>) = {} /\ Range(<<MONITOR>>) = {MONITOR} /\ STOP # MONITOR
      BY DEF Range, STOP, MONITOR
    <2>2. MONITOR \in Requests
      BY DEF Requests
    <2>3. QED
      BY <2>1, <2>2
  <1>4. (IF created THEN Append(<<>>, MONITOR) ELSE <<>>) = p
    OBVIOUS
  <1> HIDE DEF p
  <1>5. /\ v \in ReactorRecord /\ v.thread = "entering" /\ v.is_run /\ ~v.stop /\ v.pipe = p
        /\ v.local = rt[r].local /\ v.spoilt = rt[r].spoilt
    BY <1>1, <1>3, <1>4 DEF ReactorRecord, ThreadStates, Running
  <1> HIDE DEF v
  <1>6. rt'[r] = v
    BY <1>2 DEF ControlInv, ServerTypeOK, v
  <1>7. Moves(r) /\ (Begun(r) => Serving(r)')
    BY <1>1, <1>3, <1>5, <1>6 DEF Moves, HasNone, NotRun, Serving, Begun, Stopping, Alive
  <1>8. Sound(v)
    BY <1>1, <1>5 DEF Sound
  <1>9. UNCHANGED <<config, starts, stop_, waiter, n, selector_index_, listening, place, early>>
    BY DEF RunBegin
  <1>10. CallerStays
    <2>1. CASE app.pc = "asleep" /\ app.i = r
      <3>1. app' = [app EXCEPT !.pc = "woken"] /\ app \in AppRecord
        BY <2>1 DEF RunBegin, ControlInv, ServerTypeOK
      <3>2. r \in 1 .. n
        BY <2>1, <3>1 DEF ControlInv, CallerOK, ServerTypeOK
      <3>3. Begun(r)
        BY <2>1, <3>2 DEF ControlInv, ThreadsOK
      <3>4. app'.i = r
        BY <2>1, <3>1
      <3>5. Serving(app.i)'
        BY <1>7, <3>3, <3>4 DEF Serving, Alive
      <3>6. QED
        BY <2>1, <3>1, <3>5 DEF CallerStays
    <2>2. CASE ~(app.pc = "asleep" /\ app.i = r)
      BY <2>2 DEF RunBegin, CallerStays
    <2>3. QED
      BY <2>1, <2>2
  <1>11. QED
    BY <1>2, <1>5, <1>7, <1>8, <1>9, <1>10, OneReactor DEF ControlInv, ServerTypeOK, v

\* What wait() makes of a reactor as it looks into wait_events_.
LEMMA LookIs ==
    ASSUME NEW x \in ReactorRecord
    PROVE  LET v == LookIntoWaitEvents(x)
           IN /\ v \in ReactorRecord /\ v.is_run = x.is_run /\ v.stop = x.stop /\ v.pipe = x.pipe
              /\ v.handlers = x.handlers /\ v.count = x.count /\ v.monitor = x.monitor
              /\ v.spoilt = x.spoilt /\ v.refused = x.refused /\ v.waited = x.waited
              /\ ~v.local /\ (v.overtaken <=> x.overtaken \/ x.local)
              /\ v.thread = IF x.local THEN "shutdown" ELSE x.thread
  BY DEF LookIntoWaitEvents, ReactorRecord, ThreadStates

\* The first wait(): a reactor spoilt by a failed start() ends here.
LEMMA FirstWaitControl ==
    ASSUME ControlInv, NEW r \in Reactors, FirstWait(r)
    PROVE  ControlInv'
  <1> DEFINE x == [rt[r] EXCEPT !.waited = TRUE, !.thread = "looping"]
             v == LookIntoWaitEvents(x)
  <1>1. /\ rt[r].thread = "entering" /\ rt[r] \in ReactorRecord /\ Sound(rt[r])
        /\ rt' = [rt EXCEPT ![r] = v]
        /\ UNCHANGED <<config, app, starts, stop_, waiter, n, selector_index_, listening, place, early>>
    BY DEF FirstWait, ControlInv, ServerTypeOK, RunsOK, caller
  <1>2. /\ x \in ReactorRecord /\ x.is_run = rt[r].is_run /\ x.stop = rt[r].stop
        /\ x.pipe = rt[r].pipe /\ x.local = rt[r].local /\ x.spoilt = rt[r].spoilt
        /\ x.thread = "looping"
    BY <1>1 DEF ReactorRecord, ThreadStates
  <1> HIDE DEF x
  <1>3. /\ v \in ReactorRecord /\ v.is_run = x.is_run /\ v.stop = x.stop /\ v.pipe = x.pipe
        /\ v.spoilt = x.spoilt /\ ~v.local /\ (v.overtaken <=> x.overtaken \/ x.local)
        /\ v.thread = IF x.local THEN "shutdown" ELSE x.thread
    BY <1>2, LookIs
  <1> HIDE DEF v
  <1>4. rt'[r] = v
    BY <1>1 DEF ControlInv, ServerTypeOK
  <1>5. Moves(r) /\ Sound(v)
    BY <1>1, <1>2, <1>3, <1>4
       DEF Moves, HasNone, NotRun, Serving, Begun, Stopping, Alive, Sound
  <1>6. CallerStays
    BY <1>1 DEF CallerStays
  <1>7. QED
    BY <1>1, <1>2, <1>3, <1>5, <1>6, OneReactor DEF ControlInv, ServerTypeOK

\* A later one, after a reactor has handled what woke it and has become x.
LEMMA LoopControl ==
    ASSUME ControlInv, NEW r \in Reactors, NEW x \in ReactorRecord,
           rt[r].thread = "looping", x.thread = "looping",
           x.is_run = rt[r].is_run, x.stop = rt[r].stop, x.local = rt[r].local,
           x.spoilt = rt[r].spoilt, Range(x.pipe) \subseteq Range(rt[r].pipe),
           rt' = [rt EXCEPT ![r] = LookIntoWaitEvents(x)],
           place' \in [Conns -> PlaceStates],
           UNCHANGED <<config, caller, n, selector_index_, listening, early>>
    PROVE  ControlInv'
  <1> DEFINE v == LookIntoWaitEvents(x)
  <1>1. /\ v \in ReactorRecord /\ v.is_run = x.is_run /\ v.stop = x.stop /\ v.pipe = x.pipe
        /\ v.spoilt = x.spoilt /\ ~v.local /\ (v.overtaken <=> x.overtaken \/ x.local)
        /\ v.thread = IF x.local THEN "shutdown" ELSE x.thread
    BY LookIs
  <1>2. rt' = [rt EXCEPT ![r] = v]
    OBVIOUS
  <1> HIDE DEF v
  <1>3. rt'[r] = v /\ Sound(rt[r])
    BY <1>2 DEF ControlInv, ServerTypeOK, RunsOK
  <1>4. Moves(r) /\ Sound(v)
    BY <1>1, <1>3 DEF Moves, HasNone, NotRun, Serving, Begun, Stopping, Alive, Sound
  <1>5. CallerStays
    BY DEF CallerStays, caller
  <1>6. QED
    BY <1>1, <1>2, <1>4, <1>5, OneReactor DEF ControlInv, ServerTypeOK, caller

LEMMA LoopWakesControl ==
    ASSUME ControlInv, NEW r \in Reactors, LoopWakes(r)
    PROVE  ControlInv'
  <1>1. /\ rt[r] \in ReactorRecord /\ rt[r].thread = "looping"
        /\ rt' = [rt EXCEPT ![r] = LookIntoWaitEvents(rt[r])]
        /\ place' \in [Conns -> PlaceStates]
        /\ UNCHANGED <<config, caller, n, selector_index_, listening, early>>
    BY DEF LoopWakes, ControlInv, ServerTypeOK
  <1>2. QED
    BY <1>1, LoopControl

\* What a dispatch makes of a reactor.
LEMMA DispatchedIs ==
    ASSUME NEW r \in Reactors, rt[r] \in ReactorRecord, NEW k \in 1 .. Len(rt[r].pipe)
    PROVE  LET b == SubSeq(rt[r].pipe, 1, k)
               v == Dispatched(r, b)
           IN /\ v \in ReactorRecord /\ v.is_run = rt[r].is_run /\ v.stop = rt[r].stop
              /\ v.local = rt[r].local /\ v.spoilt = rt[r].spoilt
              /\ v.overtaken = rt[r].overtaken /\ v.refused = rt[r].refused
              /\ v.pipe = SubSeq(rt[r].pipe, Len(b) + 1, Len(rt[r].pipe))
              /\ v.thread = (IF STOP \in Range(b) THEN "shutdown" ELSE rt[r].thread)
              /\ v.handlers = rt[r].handlers \cup (Range(b) \cap Conns)
              /\ v.monitor = (IF MONITOR \in Range(b) THEN "registered" ELSE rt[r].monitor)
              /\ v.count = rt[r].count + Cardinality(Range(b) \cap (Conns \cup {MONITOR}))
              /\ IsFiniteSet(Range(b) \cap (Conns \cup {MONITOR}))
  <1> DEFINE b == SubSeq(rt[r].pipe, 1, k)
             v == Dispatched(r, b)
             p == SubSeq(rt[r].pipe, Len(b) + 1, Len(rt[r].pipe))
             all == Range(b) \cap (Conns \cup {MONITOR})
             cnt == rt[r].count + Cardinality(all)
             th == IF STOP \in Range(b) THEN "shutdown" ELSE rt[r].thread
             mon == IF MONITOR \in Range(b) THEN "registered" ELSE rt[r].monitor
             hs == rt[r].handlers \cup (Range(b) \cap Conns)
  <1>1. rt[r].pipe \in Seq(Requests) /\ rt[r].count \in Int
    BY DEF ReactorRecord
  <1>2. p \in Seq(Requests)
    BY <1>1, PipeCut
  <1>3. IsFiniteSet(all) /\ Cardinality(all) \in Nat
    <2>1. IsFiniteSet(Conns \cup {MONITOR})
      BY ServerConstants, FS_AddElement
    <2>2. QED
      BY <2>1, FS_Subset, FS_CardinalityType
  <1>4. cnt \in Int
    BY <1>1, <1>3
  <1>5. th \in ThreadStates /\ mon \in {"none", "raised", "registered"} /\ hs \in SUBSET Conns
    BY DEF ReactorRecord, ThreadStates
  <1>6. v = [rt[r] EXCEPT !.pipe = p, !.handlers = hs, !.count = cnt, !.monitor = mon, !.thread = th]
    BY DEF Dispatched, ReactorRecord
  <1> HIDE DEF v, p, cnt, th, mon, hs, all
  <1>7. /\ v \in ReactorRecord /\ v.is_run = rt[r].is_run /\ v.stop = rt[r].stop /\ v.pipe = p
        /\ v.local = rt[r].local /\ v.spoilt = rt[r].spoilt
        /\ v.overtaken = rt[r].overtaken /\ v.refused = rt[r].refused
        /\ v.thread = th /\ v.handlers = hs /\ v.monitor = mon /\ v.count = cnt
    BY <1>2, <1>4, <1>5, <1>6 DEF ReactorRecord
  <1>8. QED
    BY <1>3, <1>7 DEF v, p, cnt, th, mon, hs, all

LEMMA DispatchControl ==
    ASSUME ControlInv, NEW r \in Reactors, Dispatch(r)
    PROVE  ControlInv'
  <1>1. /\ rt[r].thread = "looping" /\ rt[r] \in ReactorRecord /\ rt[r].pipe \in Seq(Requests)
        /\ Sound(rt[r])
    BY DEF Dispatch, ControlInv, ServerTypeOK, RunsOK, ReactorRecord
  <1>2. PICK k \in 1 .. Len(rt[r].pipe) : DispatchBatch(r, SubSeq(rt[r].pipe, 1, k))
    BY DEF Dispatch
  <1> DEFINE b == SubSeq(rt[r].pipe, 1, k)
             v == Dispatched(r, b)
  <1>3. rt' = [rt EXCEPT ![r] = IF STOP \in Range(b) THEN v ELSE LookIntoWaitEvents(v)]
    BY <1>2 DEF DispatchBatch
  <1>4. /\ v \in ReactorRecord /\ v.is_run = rt[r].is_run /\ v.stop = rt[r].stop
        /\ v.local = rt[r].local /\ v.spoilt = rt[r].spoilt
        /\ v.pipe = SubSeq(rt[r].pipe, Len(b) + 1, Len(rt[r].pipe))
        /\ v.thread = (IF STOP \in Range(b) THEN "shutdown" ELSE "looping")
    BY <1>1, DispatchedIs
  <1>5. /\ Range(v.pipe) \subseteq Range(rt[r].pipe) /\ Range(b) \subseteq Range(rt[r].pipe)
        /\ \A x \in Range(rt[r].pipe) : x \in Range(b) \/ x \in Range(v.pipe)
    <2>1. v.pipe = SubSeq(rt[r].pipe, Len(b) + 1, Len(rt[r].pipe))
      BY <1>4
    <2> HIDE DEF v
    <2>2. QED
      BY <1>1, <2>1, PipeCut
  <1> HIDE DEF v, b
  <1>6. place' \in [Conns -> PlaceStates]
    BY <1>2 DEF DispatchBatch, PlaceStates, ControlInv, ServerTypeOK
  <1>7. UNCHANGED <<config, caller, n, selector_index_, listening, early>>
    BY DEF Dispatch
  <1>8. CASE STOP \in Range(b)
    <2>1. rt' = [rt EXCEPT ![r] = v] /\ rt'[r] = v
      BY <1>3, <1>8 DEF ControlInv, ServerTypeOK
    <2>2. Moves(r) /\ Sound(v)
      BY <1>1, <1>4, <1>5, <1>8, <2>1
         DEF Moves, HasNone, NotRun, Serving, Begun, Stopping, Alive, Sound
    <2>3. CallerStays
      BY <1>7 DEF CallerStays, caller
    <2>4. QED
      BY <1>4, <1>6, <1>7, <2>1, <2>2, <2>3, OneReactor DEF ControlInv, ServerTypeOK, caller
  <1>9. CASE STOP \notin Range(b)
    <2>1. rt' = [rt EXCEPT ![r] = LookIntoWaitEvents(v)] /\ v.thread = "looping"
      BY <1>3, <1>4, <1>9
    <2>2. QED
      BY <1>1, <1>4, <1>5, <1>6, <1>7, <2>1, LoopControl
  <1>10. QED
    BY <1>8, <1>9

LEMMA LeaveControl ==
    ASSUME ControlInv, NEW r \in Reactors, NEW c \in Conns, HandlerLeaves(r, c)
    PROVE  ControlInv'
  <1> DEFINE v == Without(r, c)
  <1>1. /\ rt[r].thread = "looping" /\ rt[r] \in ReactorRecord
        /\ rt' = [rt EXCEPT ![r] = LookIntoWaitEvents(v)]
        /\ UNCHANGED <<config, caller, n, selector_index_, listening, early>>
    <2>1. rt \in [Reactors -> ReactorRecord]
      BY DEF ControlInv, ServerTypeOK
    <2>2. rt[r].thread = "looping" /\ rt[r] \in ReactorRecord
      BY <2>1 DEF HandlerLeaves
    <2>3. UNCHANGED <<config, caller, n, selector_index_, listening, early>>
      BY DEF HandlerLeaves
    <2>4. rt' = [rt EXCEPT ![r] = LookIntoWaitEvents(v)]
      BY <2>2 DEF HandlerLeaves
    <2>5. QED
      BY <2>2, <2>3, <2>4
  <1>2. /\ v \in ReactorRecord /\ v.thread = "looping" /\ v.is_run = rt[r].is_run
        /\ v.stop = rt[r].stop /\ v.local = rt[r].local /\ v.spoilt = rt[r].spoilt
        /\ v.pipe = rt[r].pipe
    <2> DEFINE hs == rt[r].handlers \ {c}
               cnt == rt[r].count - 1
    <2>1. hs \in SUBSET Conns /\ cnt \in Int
      BY <1>1 DEF ReactorRecord
    <2>2. v = [rt[r] EXCEPT !.handlers = hs, !.count = cnt]
      BY <1>1 DEF ReactorRecord, Without
    <2> HIDE DEF hs, cnt, v
    <2>3. QED
      BY <1>1, <2>1, <2>2 DEF ReactorRecord
  <1> HIDE DEF v
  <1>3. place' \in [Conns -> PlaceStates]
    BY DEF HandlerLeaves, PlaceStates, ControlInv, ServerTypeOK
  <1>4. QED
    BY <1>1, <1>2, <1>3, LoopControl

LEMMA ShutdownControl ==
    ASSUME ControlInv, NEW r \in Reactors, RunShutdown(r)
    PROVE  ControlInv'
  <1> DEFINE v == [rt[r] EXCEPT !.monitor = "none", !.thread = "ended",
                                !.stop = TRUE, !.is_run = FALSE]
  <1>1. /\ rt[r].thread = "shutdown" /\ rt[r] \in ReactorRecord /\ Sound(rt[r])
        /\ rt' = [rt EXCEPT ![r] = v]
        /\ UNCHANGED <<config, caller, n, selector_index_, listening, early>>
    BY DEF RunShutdown, ControlInv, ServerTypeOK, RunsOK
  <1>2. /\ v \in ReactorRecord /\ v.thread = "ended" /\ ~v.is_run /\ v.local = rt[r].local
        /\ v.spoilt = rt[r].spoilt /\ v.overtaken = rt[r].overtaken
    BY <1>1 DEF ReactorRecord, ThreadStates
  <1> HIDE DEF v
  <1>3. rt'[r] = v
    BY <1>1 DEF ControlInv, ServerTypeOK
  <1>4. Moves(r) /\ Sound(v)
    BY <1>1, <1>2, <1>3 DEF Moves, HasNone, NotRun, Serving, Begun, Stopping, Alive, Sound
  <1>5. place' \in [Conns -> PlaceStates]
    BY DEF RunShutdown, PlaceStates, ControlInv, ServerTypeOK
  <1>6. CallerStays
    BY <1>1 DEF CallerStays, caller
  <1>7. QED
    BY <1>1, <1>2, <1>4, <1>5, <1>6, OneReactor DEF ControlInv, ServerTypeOK, caller

\* A registration: into the pipe, or refused by a reactor that has ended.
LEMMA RegisterIs ==
    ASSUME ServerTypeOK, NEW r \in Reactors, NEW c \in Conns, Register(r, c)
    PROVE  /\ place' \in [Conns -> PlaceStates] /\ early' \subseteq Conns
           /\ \E v \in ReactorRecord :
                /\ rt' = [rt EXCEPT ![r] = v]
                /\ v.thread = rt[r].thread /\ v.is_run = rt[r].is_run /\ v.stop = rt[r].stop
                /\ v.local = rt[r].local /\ v.spoilt = rt[r].spoilt
                /\ v.overtaken = rt[r].overtaken
                /\ v.handlers = rt[r].handlers /\ v.count = rt[r].count
                /\ v.monitor = rt[r].monitor
                /\ STOP \in Range(v.pipe) => STOP \in Range(rt[r].pipe)
                /\ \/ /\ rt[r].stop /\ v.pipe = rt[r].pipe
                      /\ v.refused = rt[r].refused \cup {c}
                      /\ place' = [place EXCEPT ![c] = "lost"]
                   \/ /\ ~rt[r].stop /\ v.pipe = Append(rt[r].pipe, c)
                      /\ v.refused = rt[r].refused
                      /\ Range(v.pipe) = Range(rt[r].pipe) \cup {c}
                      /\ place' = [place EXCEPT ![c] = "piped"]
  <1> DEFINE p == Append(rt[r].pipe, c)
             q == rt[r].refused \cup {c}
             v == [rt[r] EXCEPT !.pipe = p]
             w == [rt[r] EXCEPT !.refused = q]
  <1>1. rt[r] \in ReactorRecord /\ rt[r].pipe \in Seq(Requests) /\ q \in SUBSET Conns
    BY DEF ServerTypeOK, ReactorRecord
  <1>2. c \in Requests /\ c # STOP
    BY ServerConstants DEF Requests
  <1>3. p \in Seq(Requests) /\ Range(p) = Range(rt[r].pipe) \cup {c}
    BY <1>1, <1>2, PipeWrite
  <1>4. /\ rt[r].stop => rt' = [rt EXCEPT ![r] = w] /\ place' = [place EXCEPT ![c] = "lost"]
        /\ ~rt[r].stop => rt' = [rt EXCEPT ![r] = v] /\ place' = [place EXCEPT ![c] = "piped"]
    BY <1>1 DEF Register, ServerTypeOK, ReactorRecord
  <1>5. place' \in [Conns -> PlaceStates] /\ early' \subseteq Conns
    BY <1>4 DEF Register, ServerTypeOK, PlaceStates
  <1> HIDE DEF p, q
  <1>6. /\ v \in ReactorRecord /\ v.pipe = p /\ v.refused = rt[r].refused
        /\ v.thread = rt[r].thread /\ v.is_run = rt[r].is_run /\ v.stop = rt[r].stop
        /\ v.local = rt[r].local /\ v.spoilt = rt[r].spoilt /\ v.overtaken = rt[r].overtaken
        /\ v.handlers = rt[r].handlers /\ v.count = rt[r].count
        /\ v.monitor = rt[r].monitor
    BY <1>1, <1>3 DEF ReactorRecord
  <1>7. /\ w \in ReactorRecord /\ w.pipe = rt[r].pipe /\ w.refused = q
        /\ w.thread = rt[r].thread /\ w.is_run = rt[r].is_run /\ w.stop = rt[r].stop
        /\ w.local = rt[r].local /\ w.spoilt = rt[r].spoilt /\ w.overtaken = rt[r].overtaken
        /\ w.handlers = rt[r].handlers /\ w.count = rt[r].count
        /\ w.monitor = rt[r].monitor
    BY <1>1, <1>3 DEF ReactorRecord
  <1> HIDE DEF v, w
  <1>8. CASE rt[r].stop
    BY <1>4, <1>5, <1>7, <1>8 DEF q
  <1>9. CASE ~rt[r].stop
    BY <1>2, <1>3, <1>4, <1>5, <1>6, <1>9 DEF p
  <1>10. QED
    BY <1>8, <1>9

LEMMA RegisterMoves ==
    ASSUME ServerTypeOK, RunsOK, NEW r \in Reactors, NEW c \in Conns, Register(r, c),
           rt[r].thread # "created"
    PROVE  \E v \in ReactorRecord :
              rt' = [rt EXCEPT ![r] = v] /\ Moves(r) /\ Sound(v) /\ v.spoilt = rt[r].spoilt
  <1>1. PICK v \in ReactorRecord :
          /\ rt' = [rt EXCEPT ![r] = v]
          /\ v.thread = rt[r].thread /\ v.is_run = rt[r].is_run /\ v.stop = rt[r].stop
          /\ v.local = rt[r].local /\ v.spoilt = rt[r].spoilt /\ v.overtaken = rt[r].overtaken
          /\ STOP \in Range(v.pipe) => STOP \in Range(rt[r].pipe)
    BY RegisterIs
  <1>2. rt'[r] = v /\ Sound(rt[r])
    BY <1>1 DEF ServerTypeOK, RunsOK
  <1>3. Moves(r) /\ Sound(v)
    BY <1>1, <1>2 DEF Moves, HasNone, NotRun, Serving, Begun, Stopping, Alive, Sound
  <1>4. QED
    BY <1>1, <1>3

LEMMA ClientControl ==
    ASSUME ControlInv, NEW c \in Conns, ClientRegisters(c)
    PROVE  ControlInv'
  <1>1. 1 \in Reactors /\ ServerTypeOK /\ RunsOK
    BY ReactorsThere DEF ClientRegisters, ControlInv, ServerTypeOK
  <1>2. /\ rt[1].thread # "created"
        /\ Register(1, c) /\ UNCHANGED <<config, caller, n, selector_index_, listening>>
    BY <1>1 DEF ClientRegisters, RunsOK, Sound
  <1>3. PICK v \in ReactorRecord :
          rt' = [rt EXCEPT ![1] = v] /\ Moves(1) /\ Sound(v) /\ v.spoilt = rt[1].spoilt
    BY <1>1, <1>2, RegisterMoves
  <1>4. place' \in [Conns -> PlaceStates] /\ early' \subseteq Conns
    BY <1>1, <1>2, RegisterIs
  <1>5. CallerStays
    BY <1>2 DEF CallerStays, caller
  <1>6. QED
    BY <1>1, <1>2, <1>3, <1>4, <1>5, OneReactor DEF caller

-----------------------------------------------------------------------------
\* A step of one acceptor thread that leaves the reactors and the caller alone.
LEMMA OneAcceptor ==
    ASSUME ControlInv, NEW a \in Acceptors, NEW w \in AcceptorRecord,
           at' = [at EXCEPT ![a] = w], at[a].pc # "none",
           w.pc \in {"accepted", "selected"} => w.conn \in Conns,
           w.pc = "selected" => w.index < n,
           UNCHANGED <<config, caller, threads, early>>,
           timer' \in [Acceptors -> {"unset", "armed", "due"}],
           place' \in [Conns -> PlaceStates],
           socket' = socket \/ socket' = [socket EXCEPT !.fd = "closed"]
    PROVE  ControlInv'
  <1> USE DEF config, caller, threads
  <1>1. at'[a] = w /\ \A b \in Acceptors : b # a => at'[b] = at[b]
    BY DEF ControlInv, ServerTypeOK
  <1>2. ServerTypeOK'
    BY DEF ControlInv, ServerTypeOK
  <1>3. RunsOK' /\ CallerOK' /\ SpoiltOK' /\ CallerStays
    BY DEF ControlInv, RunsOK, CallerOK, SpoiltOK, CallerStays
  <1>4. \A r \in Reactors : Moves(r)
    BY DEF Moves, HasNone, NotRun, Serving, Begun, Stopping, Alive
  <1>5. ThreadsOK' /\ (AllServe => AllServe')
    BY <1>3, <1>4, ThreadsMove
  <1>6. SocketOK'
    BY DEF ControlInv, SocketOK, ServerTypeOK
  <1>7. AcceptorsOK'
    <2>1. /\ AllServe /\ mode # "thread"
          /\ app.pc \in {"start_acceptors", "wait_acceptor", "up", "stop_acceptors", "join_acceptor"}
      BY DEF ControlInv, AcceptorsOK
    <2>2. \A b \in Acceptors : at[b].pc = "none" => at'[b].pc = "none"
      BY <1>1
    <2>3. \A b \in Acceptors : /\ at'[b].pc \in {"accepted", "selected"} => at'[b].conn \in Conns
                               /\ at'[b].pc = "selected" => at'[b].index < n
      BY <1>1 DEF ControlInv, AcceptorsOK
    <2>4. QED
      BY <1>5, <2>1, <2>2, <2>3 DEF ControlInv, AcceptorsOK
  <1>8. QED
    BY <1>2, <1>3, <1>5, <1>6, <1>7 DEF ControlInv

\* The steps of acceptor threads up to the choice of a reactor.
LEMMA AcceptorControl ==
    ASSUME ControlInv, NEW a \in Acceptors,
           \/ AcceptorRuns(a) \/ AcceptorTop(a) \/ PollAccepts(a) \/ PollTimesOut(a)
           \/ PollEnds(a) \/ PollInterrupted(a) \/ AcceptLeaks(a) \/ SelectReactor(a)
    PROVE  ControlInv'
  <1>1. /\ at \in [Acceptors -> AcceptorRecord] /\ at[a] \in AcceptorRecord
        /\ timer \in [Acceptors -> {"unset", "armed", "due"}] /\ place \in [Conns -> PlaceStates]
    BY DEF ControlInv, ServerTypeOK
  <1> DEFINE To(pc) == [at[a] EXCEPT !.pc = pc]
  <1>2. ASSUME NEW pc \in {"top", "poll", "spinning", "ended"}
        PROVE  To(pc) \in AcceptorRecord /\ To(pc).pc = pc
    BY <1>1, <1>2 DEF AcceptorRecord, AcceptorStates
  <1>3. CASE AcceptorRuns(a)
    <2>1. /\ at' = [at EXCEPT ![a] = To("top")] /\ at[a].pc # "none"
          /\ timer' \in [Acceptors -> {"unset", "armed", "due"}]
          /\ UNCHANGED <<config, caller, threads, socket, place, early>>
      BY <1>1, <1>3 DEF AcceptorRuns
    <2> HIDE DEF To
    <2>2. QED
      BY <1>1, <1>2, <2>1, OneAcceptor
  <1>4. CASE AcceptorTop(a)
    <2>1. PICK pc \in {"poll", "spinning"} :
             /\ at' = [at EXCEPT ![a] = To(pc)] /\ at[a].pc # "none"
             /\ timer' \in [Acceptors -> {"unset", "armed", "due"}]
             /\ UNCHANGED <<config, caller, threads, socket, place, early>>
      BY <1>1, <1>4 DEF AcceptorTop
    <2> HIDE DEF To
    <2>2. QED
      BY <1>1, <1>2, <2>1, OneAcceptor
  <1>5. CASE PollTimesOut(a) \/ PollInterrupted(a)
    <2>1. PICK pc \in {"top", "ended"} :
             /\ at' = [at EXCEPT ![a] = To(pc)] /\ at[a].pc # "none"
             /\ UNCHANGED <<config, caller, threads, socket, timer, place, early>>
      BY <1>1, <1>5 DEF PollTimesOut, PollInterrupted
    <2> HIDE DEF To
    <2>2. QED
      BY <1>1, <1>2, <2>1, OneAcceptor
  <1>6. CASE PollEnds(a)
    <2>1. /\ at' = [at EXCEPT ![a] = To("ended")] /\ at[a].pc # "none"
          /\ socket' = [socket EXCEPT !.fd = "closed"]
          /\ UNCHANGED <<config, caller, threads, timer, place, early>>
      BY <1>1, <1>6 DEF PollEnds
    <2> HIDE DEF To
    <2>2. QED
      BY <1>1, <1>2, <2>1, OneAcceptor
  <1>7. CASE PollAccepts(a)
    <2>1. PICK c \in Conns :
             /\ at' = [at EXCEPT ![a] = [at[a] EXCEPT !.pc = "accepted", !.conn = c]]
             /\ place' = [place EXCEPT ![c] = "accepted"]
      BY <1>1, <1>7 DEF PollAccepts, Backlog
    <2>2. at[a].pc # "none" /\ UNCHANGED <<config, caller, threads, socket, timer, early>>
      BY <1>7 DEF PollAccepts
    <2> DEFINE w == [at[a] EXCEPT !.pc = "accepted", !.conn = c]
    <2>3. w \in AcceptorRecord /\ w.pc = "accepted" /\ w.conn = c
      BY <1>1 DEF AcceptorRecord, AcceptorStates
    <2>4. place' \in [Conns -> PlaceStates]
      BY <1>1, <2>1 DEF PlaceStates
    <2> HIDE DEF w
    <2>5. at' = [at EXCEPT ![a] = w]
      BY <2>1 DEF w
    <2>6. QED
      BY <1>1, <2>2, <2>3, <2>4, <2>5, OneAcceptor
  <1>8. CASE SelectReactor(a)
    <2> DEFINE w == [at[a] EXCEPT !.pc = "selected", !.index = selector_index_]
    <2>1. at' = [at EXCEPT ![a] = w]
      BY <1>1, <1>8 DEF SelectReactor
    <2>2. at[a].pc = "accepted" /\ UNCHANGED <<config, caller, threads, socket, timer, place, early>>
      BY <1>8 DEF SelectReactor
    <2>3. w \in AcceptorRecord /\ w.pc = "selected" /\ w.conn = at[a].conn /\ w.index = selector_index_
      BY <1>1 DEF AcceptorRecord, AcceptorStates, ControlInv, ServerTypeOK
    <2>4. at[a].conn \in Conns
      BY <2>2 DEF ControlInv, AcceptorsOK
    <2>5. selector_index_ < n
      BY <2>2 DEF ControlInv, AcceptorsOK, CallerOK
    <2> HIDE DEF w
    <2>6. QED
      BY <1>1, <2>1, <2>2, <2>3, <2>4, <2>5, OneAcceptor
  <1>9. CASE AcceptLeaks(a)
    <2>1. /\ at' = [at EXCEPT ![a] = To("ended")] /\ at[a].pc # "none"
          /\ place' \in [Conns -> PlaceStates]
          /\ UNCHANGED <<config, caller, threads, socket, timer, early>>
      BY <1>1, <1>9 DEF AcceptLeaks, PlaceStates, Backlog
    <2> HIDE DEF To
    <2>2. QED
      BY <1>1, <1>2, <2>1, OneAcceptor
  <1>10. QED
    BY <1>3, <1>4, <1>5, <1>6, <1>7, <1>8, <1>9

\* The surroundings.
LEMMA SurroundingsControl ==
    ASSUME ControlInv,
           \/ \E a \in Acceptors : TimeoutPasses(a) \/ AcceptFails(a)
           \/ \E c \in Conns : PeerConnects(c)
           \/ DescriptorReused \/ Wait \/ UNCHANGED vars
    PROVE  ControlInv'
  <1> USE DEF config, threads, listening
  <1>1. UNCHANGED <<mode, kind, app, starts, stop_, n, rt, selector_index_, at, early>>
    BY DEF TimeoutPasses, AcceptFails, PeerConnects, DescriptorReused, Wait, vars, caller
  <1>2. ServerTypeOK'
    <2>1. waiter' \in {"none", "waiting", "returned"}
      BY DEF ControlInv, ServerTypeOK, TimeoutPasses, AcceptFails, PeerConnects, DescriptorReused, Wait, vars, caller
    <2>2. timer' \in [Acceptors -> {"unset", "armed", "due"}]
      BY DEF ControlInv, ServerTypeOK, TimeoutPasses, AcceptFails, PeerConnects, DescriptorReused, Wait, vars
    <2>3. place' \in [Conns -> PlaceStates]
      BY DEF ControlInv, ServerTypeOK, TimeoutPasses, AcceptFails, PeerConnects, DescriptorReused, Wait, vars,
             PlaceStates, Backlog
    <2>4. socket' = socket \/ socket' = [socket EXCEPT !.fd = "foreign"]
      BY DEF ControlInv, ServerTypeOK, TimeoutPasses, AcceptFails, PeerConnects, DescriptorReused, Wait, vars
    <2>5. QED
      BY <1>1, <2>1, <2>2, <2>3, <2>4 DEF ControlInv, ServerTypeOK
  <1>3. \A r \in Reactors : Moves(r)
    BY <1>1 DEF Moves, HasNone, NotRun, Serving, Begun, Stopping, Alive
  <1>4. ThreadsOK' /\ (AllServe => AllServe')
    BY <1>1, <1>3, ThreadsMove DEF CallerStays
  <1>5. SocketOK'
    <2>1. socket'.fd = "listening" => socket.fd = "listening"
      BY DEF ControlInv, ServerTypeOK, TimeoutPasses, AcceptFails, PeerConnects, DescriptorReused, Wait, vars
    <2>2. QED
      BY <1>1, <2>1 DEF ControlInv, SocketOK
  <1>6. RunsOK' /\ CallerOK' /\ SpoiltOK' /\ AcceptorsOK'
    BY <1>1, <1>4 DEF ControlInv, RunsOK, CallerOK, SpoiltOK, AcceptorsOK
  <1>7. QED
    BY <1>2, <1>4, <1>5, <1>6 DEF ControlInv

\* An acceptor thread hands its connection to the reactor it chose, or closes it.
LEMMA CreateControl ==
    ASSUME ControlInv, NEW a \in Acceptors, CreateHandler(a)
    PROVE  ControlInv'
  <1> USE DEF config, caller
  <1>1. /\ at[a].pc = "selected" /\ at[a] \in AcceptorRecord /\ at[a].conn \in Conns
        /\ at[a].index \in Nat /\ at[a].index < n /\ n \in Nat /\ AllServe
        /\ mode # "thread"
        /\ app.pc \in {"start_acceptors", "wait_acceptor", "up", "stop_acceptors", "join_acceptor"}
    BY DEF CreateHandler, ControlInv, AcceptorsOK, ServerTypeOK, AcceptorRecord
  <1> DEFINE r == at[a].index + 1
             c == at[a].conn
             w == [pc |-> "top", conn |-> "none", index |-> 0]
  <1>2. r \in 1 .. n /\ r \in Reactors /\ rt[r].thread # "created"
    <2>1. r \in 1 .. n
      BY <1>1
    <2>2. r \in Reactors /\ Serving(r)
      BY <1>1, <2>1, ReactorsThere DEF ControlInv, AllServe
    <2>3. QED
      BY <2>1, <2>2 DEF Serving, Alive
  <1>3. /\ selector_index_' = (at[a].index + 1) % n /\ at' = [at EXCEPT ![a] = w]
        /\ UNCHANGED <<config, caller, n, socket, timer>>
        /\ \/ Register(r, c)
           \/ place' = [place EXCEPT ![c] = "closed"] /\ UNCHANGED <<rt, early>>
    BY DEF CreateHandler, NextIndex
  <1> HIDE DEF r, c
  <1>4. ServerTypeOK /\ RunsOK /\ c \in Conns
    BY <1>1 DEF ControlInv, c
  <1>5. w \in AcceptorRecord /\ w.pc = "top"
    BY DEF AcceptorRecord, AcceptorStates
  <1> HIDE DEF w
  <1>6. at'[a] = w /\ \A b \in Acceptors : b # a => at'[b] = at[b]
    BY <1>3, <1>4 DEF ServerTypeOK
  <1>7. selector_index_' \in Nat /\ selector_index_' < n
    BY <1>1, <1>3
  <1>8. /\ rt' \in [Reactors -> ReactorRecord] /\ place' \in [Conns -> PlaceStates]
        /\ early' \subseteq Conns /\ RunsOK' /\ \A q \in Reactors : Moves(q)
        /\ \A q \in Reactors : rt'[q].spoilt = rt[q].spoilt
    <2>1. CASE Register(r, c)
      <3>1. PICK v \in ReactorRecord :
              rt' = [rt EXCEPT ![r] = v] /\ Moves(r) /\ Sound(v) /\ v.spoilt = rt[r].spoilt
        BY <1>2, <1>4, <2>1, RegisterMoves
      <3>2. rt'[r] = v /\ \A q \in Reactors : q # r => rt'[q] = rt[q]
        BY <1>2, <1>4, <3>1 DEF ServerTypeOK
      <3>3. RunsOK' /\ \A q \in Reactors : rt'[q].spoilt = rt[q].spoilt
        BY <1>4, <3>1, <3>2 DEF RunsOK
      <3>4. ASSUME NEW q \in Reactors PROVE Moves(q)
        <4>1. q # r => Moves(q)
          BY <3>2 DEF Moves, HasNone, NotRun, Serving, Begun, Stopping, Alive
        <4>2. QED
          BY <3>1, <4>1
      <3>5. rt' \in [Reactors -> ReactorRecord]
        BY <1>2, <1>4, <3>1 DEF ServerTypeOK
      <3>6. place' \in [Conns -> PlaceStates] /\ early' \subseteq Conns
        BY <1>2, <1>4, <2>1, RegisterIs
      <3>7. QED
        BY <3>3, <3>4, <3>5, <3>6
    <2>2. CASE place' = [place EXCEPT ![c] = "closed"] /\ UNCHANGED <<rt, early>>
      <3>1. place' \in [Conns -> PlaceStates]
        BY <1>4, <2>2 DEF ServerTypeOK, PlaceStates
      <3>2. RunsOK' /\ \A q \in Reactors : Moves(q)
        BY <2>2 DEF ControlInv, RunsOK, Moves, HasNone, NotRun, Serving, Begun, Stopping, Alive
      <3>3. QED
        BY <1>4, <2>2, <3>1, <3>2 DEF ServerTypeOK
    <2>3. QED
      BY <1>3, <2>1, <2>2
  <1>9. at' \in [Acceptors -> AcceptorRecord]
    BY <1>3, <1>4, <1>5 DEF ServerTypeOK
  <1>10. ServerTypeOK'
    BY <1>3, <1>4, <1>7, <1>8, <1>9 DEF ServerTypeOK
  <1>11. ThreadsOK' /\ (AllServe => AllServe')
    BY <1>3, <1>8, ThreadsMove DEF CallerStays
  <1>12. CallerOK' /\ SocketOK' /\ SpoiltOK'
    BY <1>3, <1>8 DEF ControlInv, CallerOK, SocketOK, SpoiltOK
  <1>13. AcceptorsOK'
    <2>1. \A b \in Acceptors : at[b].pc = "none" => at'[b].pc = "none"
      BY <1>1, <1>6
    <2>2. \A b \in Acceptors : /\ at'[b].pc \in {"accepted", "selected"} => at'[b].conn \in Conns
                               /\ at'[b].pc = "selected" => at'[b].index < n
      BY <1>5, <1>6 DEF ControlInv, AcceptorsOK
    <2>3. QED
      BY <1>1, <1>3, <1>7, <1>11, <2>1, <2>2 DEF ControlInv, AcceptorsOK
  <1>14. QED
    BY <1>8, <1>10, <1>11, <1>12, <1>13 DEF ControlInv

-----------------------------------------------------------------------------
\* Where the caller is after a step.
LEMMA CallerGoes ==
    ASSUME app \in AppRecord
    PROVE  /\ \A pc \in Pcs :
                /\ Goto(pc) => app' \in AppRecord /\ app'.pc = pc /\ app'.i = 1 /\ app'.by = app.by
                /\ GotoNext(pc) => /\ app' \in AppRecord /\ app'.pc = pc /\ app'.i = app.i + 1
                                   /\ app'.by = app.by
                /\ app' = [app EXCEPT !.pc = pc] =>
                     app' \in AppRecord /\ app'.pc = pc /\ app'.i = app.i /\ app'.by = app.by
  <1> SUFFICES ASSUME NEW pc \in Pcs
               PROVE  /\ Goto(pc) => app' \in AppRecord /\ app'.pc = pc /\ app'.i = 1 /\ app'.by = app.by
                      /\ GotoNext(pc) => /\ app' \in AppRecord /\ app'.pc = pc /\ app'.i = app.i + 1
                                         /\ app'.by = app.by
                      /\ app' = [app EXCEPT !.pc = pc] =>
                           app' \in AppRecord /\ app'.pc = pc /\ app'.i = app.i /\ app'.by = app.by
    OBVIOUS
  <1>1. app.i \in Nat \ {0} /\ app.i + 1 \in Nat \ {0} /\ 1 \in Nat \ {0}
    OBVIOUS
  <1> DEFINE k == app.i + 1
  <1>2. k \in Nat \ {0} /\ k = app.i + 1
    BY <1>1
  <1> HIDE DEF k
  <1>3. GotoNext(pc) => app' \in AppRecord /\ app'.pc = pc /\ app'.i = k /\ app'.by = app.by
    BY <1>2 DEF GotoNext
  <1>4. QED
    BY <1>1, <1>2, <1>3 DEF Goto

\* A step of start() or stop() that only moves the caller on, or listens.
LEMMA CallerMoves ==
    ASSUME ControlInv, UNCHANGED <<config, starts, threads, at, timer, place, early>>,
           app' \in AppRecord, stop_' \in BOOLEAN,
           waiter' \in {"none", "waiting", "returned"},
           socket' \in [fd : {"none", "socket", "listening", "shut", "closed", "foreign"},
                        family : {"none", "ipv4", "ipv46", "ipv6", "uds"}],
           app.pc \in StopPcs \cup {"stopped"} => app'.pc \in StopPcs \cup {"stopped"},
           CallerOK', ThreadsOK', AcceptorsOK', SocketOK'
    PROVE  ControlInv'
  BY DEF ControlInv, ServerTypeOK, RunsOK, SpoiltOK, config, threads

LEMMA ListenControl ==
    ASSUME ControlInv, Listen
    PROVE  ControlInv'
  <1> USE DEF config, threads
  <1>1. /\ app.pc = "listen" /\ app'.i = 1
        /\ \/ app'.pc = AfterListen /\ HasV6Only(kind) /\ socket' = [fd |-> "listening", family |-> kind]
           \/ app'.pc = "undo" /\ socket' = [socket EXCEPT !.fd = "socket"]
        /\ app' \in AppRecord
        /\ UNCHANGED <<config, starts, stop_, waiter, threads, at, timer, place, early>>
    <2>1. app \in AppRecord /\ AfterListen \in Pcs /\ "undo" \in Pcs
      BY DEF AfterListen, Pcs, StartPcs, ControlInv, ServerTypeOK
    <2>2. QED
      BY <2>1, CallerGoes DEF Listen, ListenOk, ListenFails
  <1>2. ServerTypeOK /\ mode # "thread" /\ n > 0 /\ n \in Nat
    BY <1>1 DEF ControlInv, CallerOK, ServerTypeOK
  <1>3. socket' \in [fd : {"none", "socket", "listening", "shut", "closed", "foreign"},
                     family : {"none", "ipv4", "ipv46", "ipv6", "uds"}]
    BY <1>1, <1>2 DEF ServerTypeOK
  <1>4. socket'.fd = "listening" => app'.pc = AfterListen
    BY <1>1, <1>2 DEF ServerTypeOK
  <1>5. \A a \in Acceptors : at[a].pc = "none"
    BY <1>1 DEF ControlInv, AcceptorsOK
  <1>6. CallerOK'
    BY <1>1, <1>2, ServerConstants DEF CallerOK, AfterListen
  <1>7. ThreadsOK'
    BY <1>1, <1>2
       DEF ControlInv, ThreadsOK, AfterListen, AllNotRun, AllServe, HasNone, NotRun, Serving, Alive
  <1>8. AcceptorsOK'
    BY <1>1, <1>5 DEF ControlInv, AcceptorsOK
  <1>9. SocketOK'
    BY <1>1, <1>2, <1>4 DEF SocketOK, AfterListen
  <1>10. QED
    BY <1>1, <1>2, <1>3, <1>6, <1>7, <1>8, <1>9, CallerMoves DEF ServerTypeOK, StopPcs

\* The other steps that only move the caller on.
LEMMA MoveOnControl ==
    ASSUME ControlInv,
           \/ PrepareSsl \/ ReactorStarted \/ AwaitReactor \/ AcceptorStarted \/ StopBegin
           \/ AcceptorsStopped \/ StartFailed \/ StopEnd
    PROVE  ControlInv'
  <1> USE DEF config, threads, Pcs, StartPcs, StopPcs
  <1>1. /\ UNCHANGED <<config, starts, threads, listening, place, early>>
        /\ UNCHANGED <<at, timer, socket>>
    BY DEF PrepareSsl, ReactorStarted, AwaitReactor, AcceptorStarted, StopBegin, AcceptorsStopped, StartFailed,
           StopEnd, listening
  <1>2. /\ app \in AppRecord /\ app.i \in Nat \ {0} /\ n \in Nat /\ starts \in Nat
        /\ stop_ \in BOOLEAN /\ waiter \in {"none", "waiting", "returned"}
        /\ mode \in {"tcp", "https", "parts", "thread"} /\ NAcceptors \in Nat \ {0}
    BY ServerConstants DEF ControlInv, ServerTypeOK
  <1>3. stop_' \in BOOLEAN /\ waiter' \in {"none", "waiting", "returned"}
    BY <1>2 DEF PrepareSsl, ReactorStarted, AwaitReactor, AcceptorStarted, StopBegin, AcceptorsStopped,
                StartFailed, StopEnd, Woken
  <1>4. /\ \A r \in Reactors : r > n' => HasNone(r)'
        /\ \A r : /\ HasNone(r)' <=> HasNone(r)
                  /\ Serving(r)' <=> Serving(r)
                  /\ NotRun(r)' <=> NotRun(r)
                  /\ Begun(r)' <=> Begun(r)
        /\ AllServe' <=> AllServe
        /\ AllNone' <=> AllNone
        /\ AllNotRun' <=> AllNotRun
        /\ AllNotRun => AllNone
    BY <1>1 DEF ControlInv, ThreadsOK, HasNone, NotRun, Serving, Alive, Begun, AllServe, AllNone, AllNotRun
  <1>5. IF n = 0 THEN selector_index_ = 0 ELSE selector_index_ < n
    BY DEF ControlInv, AcceptorsOK
  <1>6. ASSUME app' \in AppRecord, CallerOK', ThreadsOK', AcceptorsOK', SocketOK',
               app.pc \in StopPcs \cup {"stopped"} => app'.pc \in StopPcs \cup {"stopped"}
        PROVE  ControlInv'
    BY <1>1, <1>3, <1>6, CallerMoves DEF ControlInv, ServerTypeOK
  <1>7. CASE PrepareSsl
    <2>1. /\ app.pc = "prepare_ssl" /\ app' \in AppRecord /\ mode = "https" /\ app.i <= n /\ n > 0
          /\ \/ app'.pc = "failed" /\ app'.i = 1
             \/ app'.pc = "listen" /\ app'.i = 1
             \/ app.i # n /\ app'.pc = "prepare_ssl" /\ app'.i = app.i + 1
      BY <1>2, <1>7, CallerGoes DEF PrepareSsl, ControlInv, CallerOK
    <2>2. app' \in AppRecord /\ CallerOK'
      BY <1>1, <1>2, <2>1 DEF CallerOK
    <2>3. ThreadsOK' /\ AcceptorsOK'
      BY <1>1, <1>4, <1>5, <2>1 DEF ControlInv, ThreadsOK, AcceptorsOK
    <2>4. SocketOK'
      BY <1>1, <2>1 DEF ControlInv, SocketOK
    <2>5. QED
      BY <1>6, <2>1, <2>2, <2>3, <2>4
  <1>8. CASE ReactorStarted
    <2>1. /\ app.i <= n /\ n > 0 /\ app' \in AppRecord
          /\ (app.pc = "wait_reactor" /\ rt[app.i].is_run) \/ app.pc = "woken"
          /\ \/ app.i = n /\ app'.pc = AfterReactors /\ app'.i = 1
             \/ app.i # n /\ app'.pc = "start_reactors" /\ app'.i = app.i + 1
      BY <1>2, <1>8, CallerGoes DEF ReactorStarted, AfterReactors, ControlInv, CallerOK
    <2>2. \/ mode = "https" /\ AfterReactors = "start_acceptors"
          \/ mode = "thread" /\ AfterReactors = "up"
          \/ mode \in {"tcp", "parts"} /\ AfterReactors = "listen"
      BY <1>2 DEF AfterReactors
    <2>3. app' \in AppRecord /\ CallerOK'
      BY <1>1, <1>2, <2>1, <2>2 DEF CallerOK, ControlInv
    <2>4. Serving(app.i)
      <3>1. app.i \in 1 .. n
        BY <1>2, <2>1
      <3>2. /\ Begun(app.i) /\ app.i \in Reactors
            /\ app.pc = "woken" => Serving(app.i)
        BY <2>1, <3>1, ReactorsThere DEF ControlInv, ThreadsOK
      <3>3. QED
        BY <2>1, <3>2 DEF ControlInv, RunsOK, Sound, Begun
    <2>5. \A r \in 1 .. n : /\ r <= app.i => Serving(r)
                            /\ r > app.i => NotRun(r)
      BY <1>2, <2>1, <2>4 DEF ControlInv, ThreadsOK
    <2>6. ThreadsOK'
      <3>1. CASE app.i = n
        <4>1. AllServe
          BY <1>2, <2>5, <3>1 DEF AllServe
        <4>2. QED
          BY <1>1, <1>4, <2>1, <2>2, <3>1, <4>1 DEF ThreadsOK
      <3>2. CASE app.i # n
        <4>1. app'.pc = "start_reactors" /\ app'.i = app.i + 1
          BY <2>1, <3>2
        <4>2. \A r \in 1 .. n : IF r < app.i + 1 THEN Serving(r)' ELSE NotRun(r)'
          BY <1>2, <1>4, <2>5
        <4>3. QED
          BY <1>1, <1>4, <4>1, <4>2 DEF ThreadsOK
      <3>3. QED
        BY <3>1, <3>2
    <2>7. AcceptorsOK'
      BY <1>1, <1>5, <2>1, <2>2 DEF ControlInv, AcceptorsOK
    <2>8. SocketOK'
      BY <1>1, <2>1, <2>2 DEF ControlInv, SocketOK
    <2>9. QED
      BY <1>6, <2>1, <2>3, <2>6, <2>7, <2>8
  <1>14. CASE AwaitReactor
    <2>1. app.pc = "wait_reactor" /\ app' = [app EXCEPT !.pc = "asleep"]
      BY <1>14 DEF AwaitReactor
    <2>2. app' \in AppRecord /\ app'.pc = "asleep" /\ app'.i = app.i
      BY <1>2, <2>1
    <2>3. CallerOK' /\ AcceptorsOK' /\ SocketOK'
      BY <1>1, <1>4, <2>1, <2>2 DEF ControlInv, CallerOK, AcceptorsOK, SocketOK
    <2>4. ThreadsOK'
      BY <1>1, <1>4, <2>1, <2>2 DEF ControlInv, ThreadsOK
    <2>5. QED
      BY <1>6, <2>1, <2>2, <2>3, <2>4
  <1>9. CASE AcceptorStarted
    <2>1. /\ app.pc = "wait_acceptor" /\ app' \in AppRecord /\ app.i <= NAcceptors /\ n > 0 /\ mode # "thread"
          /\ \/ app'.pc = "up" /\ app'.i = 1
             \/ app.i # NAcceptors /\ app'.pc = "start_acceptors" /\ app'.i = app.i + 1
      BY <1>2, <1>9, CallerGoes DEF AcceptorStarted, ControlInv, CallerOK
    <2>2. app' \in AppRecord /\ CallerOK'
      BY <1>1, <1>2, <2>1 DEF CallerOK
    <2>3. ThreadsOK'
      BY <1>1, <1>4, <2>1 DEF ControlInv, ThreadsOK
    <2>4. AcceptorsOK'
      <3>1. \A a \in Acceptors : a >= app.i + 1 => at[a].pc = "none"
        BY <1>2, <2>1 DEF ControlInv, AcceptorsOK, Acceptors
      <3>2. \A a \in Acceptors : at[a].pc # "none" => AllServe'
        BY <1>4 DEF ControlInv, AcceptorsOK
      <3>3. QED
        BY <1>1, <1>5, <2>1, <3>1, <3>2 DEF ControlInv, AcceptorsOK
    <2>5. SocketOK'
      BY <1>1, <2>1 DEF ControlInv, SocketOK
    <2>6. QED
      BY <1>6, <2>1, <2>2, <2>3, <2>4, <2>5
  <1>10. CASE StopBegin
    <2>1. /\ app.pc \in {"up", "failed"} /\ app'.i = 1 /\ n > 0
          /\ app' \in AppRecord
          /\ \/ mode = "thread" /\ app.pc = "up" /\ app'.pc = "stop_reactors"
             \/ mode # "thread" /\ app'.pc = "stop_acceptors"
      BY <1>2, <1>10 DEF StopBegin, FirstStopped, ControlInv, CallerOK
    <2>2. app' \in AppRecord /\ CallerOK'
      BY <1>1, <1>2, <2>1 DEF CallerOK, ControlInv
    <2>3. ThreadsOK'
      <3>1. AllServe \/ AllNone
        BY <1>4, <2>1 DEF ControlInv, ThreadsOK
      <3>2. app.pc = "up" => \A r \in 1 .. n : Serving(r)' /\ r >= 1
        BY <1>2, <1>4, <2>1 DEF ControlInv, ThreadsOK, AllServe
      <3>3. QED
        BY <1>1, <1>4, <2>1, <3>1, <3>2 DEF ThreadsOK
    <2>4. AcceptorsOK'
      <3>1. \A a \in Acceptors : ~(a < 1)
        BY DEF Acceptors
      <3>2. mode = "thread" => \A a \in Acceptors : at[a].pc = "none"
        BY DEF ControlInv, AcceptorsOK
      <3>3. QED
        BY <1>1, <1>4, <1>5, <2>1, <3>1, <3>2 DEF ControlInv, AcceptorsOK
    <2>5. SocketOK'
      BY <1>1, <2>1 DEF ControlInv, SocketOK
    <2>6. QED
      BY <1>6, <2>1, <2>2, <2>3, <2>4, <2>5
  <1>11. CASE AcceptorsStopped
    <2>1. /\ app.pc = "stop_acceptors" /\ app' \in AppRecord /\ app.i > NAcceptors /\ n > 0
          /\ app'.pc = "stop_reactors" /\ app'.i = 1
      BY <1>2, <1>11, CallerGoes DEF AcceptorsStopped, ControlInv, CallerOK
    <2>2. app' \in AppRecord /\ CallerOK'
      BY <1>1, <1>2, <2>1 DEF CallerOK, ControlInv
    <2>3. ThreadsOK'
      <3>1. \A r \in 1 .. n : HasNone(r)' \/ (r >= 1 /\ Serving(r)')
        BY <1>2, <1>4, <2>1 DEF ControlInv, ThreadsOK, AllServe, AllNone
      <3>2. QED
        BY <1>1, <1>4, <2>1, <3>1 DEF ThreadsOK
    <2>4. AcceptorsOK'
      <3>1. \A a \in Acceptors : a < app.i
        BY <1>2, <2>1 DEF Acceptors
      <3>2. \A a \in Acceptors : at[a].pc = "none"
        BY <2>1, <3>1 DEF ControlInv, AcceptorsOK
      <3>3. QED
        BY <1>1, <1>5, <2>1, <3>2 DEF ControlInv, AcceptorsOK
    <2>5. SocketOK'
      BY <1>1, <1>2, <2>1 DEF ControlInv, SocketOK
    <2>6. QED
      BY <1>6, <2>1, <2>2, <2>3, <2>4, <2>5
  <1>12. CASE StartFailed \/ StopEnd
    <2>1. /\ app.i > n /\ n > 0 /\ app' \in AppRecord
          /\ \/ app.pc = "undo" /\ app'.pc = "failed" /\ app'.i = 1
             \/ app.pc = "stop_reactors" /\ app'.pc = "stopped" /\ app'.i = 1
      BY <1>2, <1>12, CallerGoes DEF StartFailed, StopEnd, ControlInv, CallerOK
    <2>2. app' \in AppRecord /\ CallerOK'
      BY <1>1, <1>2, <2>1 DEF CallerOK, ControlInv
    <2>3. ThreadsOK'
      <3>1. /\ app.pc = "undo" => AllNotRun
            /\ app.pc = "stop_reactors" => AllNone
        BY <1>2, <2>1 DEF ControlInv, ThreadsOK, AllNone, AllNotRun
      <3>2. QED
        BY <1>1, <1>4, <2>1, <3>1 DEF ThreadsOK
    <2>4. AcceptorsOK' /\ SocketOK'
      BY <1>1, <1>5, <2>1 DEF ControlInv, AcceptorsOK, SocketOK
    <2>5. QED
      BY <1>6, <2>1, <2>2, <2>3, <2>4
  <1>13. QED
    BY <1>7, <1>8, <1>9, <1>10, <1>11, <1>12, <1>14

\* AcceptorThread::start and stop.
LEMMA AcceptorsControl ==
    ASSUME ControlInv, StartAcceptor \/ StopAcceptor \/ JoinAcceptor
    PROVE  ControlInv'
  <1> USE DEF config, threads, Pcs, StartPcs, StopPcs
  <1>1. UNCHANGED <<config, starts, stop_, waiter, threads, timer, early>>
    BY DEF StartAcceptor, StopAcceptor, JoinAcceptor
  <1>2. /\ app \in AppRecord /\ app.i \in Nat \ {0} /\ n \in Nat
        /\ NAcceptors \in Nat \ {0} /\ at \in [Acceptors -> AcceptorRecord]
        /\ place \in [Conns -> PlaceStates]
        /\ socket \in [fd : {"none", "socket", "listening", "shut", "closed", "foreign"},
                       family : {"none", "ipv4", "ipv46", "ipv6", "uds"}]
    BY ServerConstants DEF ControlInv, ServerTypeOK
  <1>3. /\ \A r \in Reactors : r > n' => HasNone(r)'
        /\ AllServe' <=> AllServe
        /\ AllNone' <=> AllNone
        /\ RunsOK'
    BY <1>1 DEF ControlInv, ThreadsOK, HasNone, Serving, Alive, AllServe, AllNone, RunsOK
  <1>4. IF n = 0 THEN selector_index_ = 0 ELSE selector_index_ < n
    BY DEF ControlInv, AcceptorsOK
  <1>5. ASSUME NEW a \in Acceptors, NEW pc \in {"created", "none"}
        PROVE  /\ [at EXCEPT ![a].pc = pc] \in [Acceptors -> AcceptorRecord]
               /\ [at EXCEPT ![a].pc = pc][a].pc = pc
               /\ \A b \in Acceptors : b # a => [at EXCEPT ![a].pc = pc][b] = at[b]
    BY <1>2, <1>5 DEF AcceptorRecord, AcceptorStates
  <1>6. ASSUME app' \in AppRecord, at' \in [Acceptors -> AcceptorRecord],
               place' \in [Conns -> PlaceStates],
               socket' = socket \/ socket' = [socket EXCEPT !.fd = Shut(@)]
        PROVE  ServerTypeOK'
    BY <1>1, <1>6 DEF ControlInv, ServerTypeOK, Shut
  <1>11. SpoiltOK'
    <2>1. app'.pc \in StopPcs \/ app.pc \notin StopPcs \cup {"stopped"}
      BY <1>2, CallerGoes DEF StartAcceptor, StopAcceptor, JoinAcceptor
    <2>2. QED
      BY <1>1, <2>1 DEF ControlInv, SpoiltOK
  <1>7. CASE StartAcceptor
    <2>1. /\ app.pc = "start_acceptors" /\ app.i <= NAcceptors /\ n > 0 /\ mode # "thread"
          /\ at' = [at EXCEPT ![app.i].pc = "created"]
          /\ app' = [app EXCEPT !.pc = "wait_acceptor"]
          /\ UNCHANGED <<socket, place>>
      BY <1>7 DEF StartAcceptor, ControlInv, CallerOK
    <2>2. app.i \in Acceptors
      BY <1>2, <2>1 DEF Acceptors
    <2>3. /\ at' \in [Acceptors -> AcceptorRecord] /\ at'[app.i].pc = "created"
          /\ \A b \in Acceptors : b # app.i => at'[b] = at[b]
      BY <1>5, <2>1, <2>2
    <2>4. /\ app' \in AppRecord /\ CallerOK'
          /\ app'.i = app.i /\ app'.pc = "wait_acceptor"
      BY <1>1, <1>2, <2>1 DEF CallerOK
    <2>5. AllServe
      BY <2>1 DEF ControlInv, ThreadsOK
    <2>6. ThreadsOK'
      BY <1>1, <1>3, <2>4, <2>5 DEF ThreadsOK
    <2>7. AcceptorsOK'
      <3>1. \A a \in Acceptors : a > app.i => a >= app.i /\ a # app.i
        BY <1>2 DEF Acceptors
      <3>2. \A a \in Acceptors : a > app.i => at'[a].pc = "none"
        BY <2>1, <2>3, <3>1 DEF ControlInv, AcceptorsOK
      <3>3. \A a \in Acceptors :
              /\ at'[a].pc \in {"accepted", "selected"} => at'[a].conn \in Conns
              /\ at'[a].pc = "selected" => at'[a].index < n
        BY <2>3 DEF ControlInv, AcceptorsOK
      <3>4. QED
        BY <1>1, <1>3, <1>4, <2>1, <2>4, <2>5, <3>2, <3>3 DEF AcceptorsOK
    <2>8. SocketOK'
      BY <1>1, <2>1, <2>4 DEF ControlInv, SocketOK
    <2>9. ServerTypeOK'
      BY <1>2, <1>6, <2>1, <2>3, <2>4
    <2>10. QED
      BY <1>3, <1>11, <2>4, <2>6, <2>7, <2>8, <2>9 DEF ControlInv
  <1>8. CASE StopAcceptor
    <2>1. /\ app.pc = "stop_acceptors" /\ app' \in AppRecord /\ app.i <= NAcceptors /\ n > 0 /\ mode # "thread"
          /\ \/ /\ at[app.i].pc = "none"
                /\ app'.pc = "stop_acceptors" /\ app'.i = app.i + 1
             \/ app'.pc = "join_acceptor" /\ app'.i = app.i
          /\ socket' = [socket EXCEPT !.fd = Shut(@)] /\ UNCHANGED at
          /\ place' = IF socket.fd = "listening" THEN Closed ELSE place
      BY <1>2, <1>8, CallerGoes DEF StopAcceptor, ControlInv, CallerOK
    <2>2. /\ app' \in AppRecord /\ CallerOK'
          /\ \/ app'.pc = "stop_acceptors" /\ app'.i = app.i + 1 /\ at[app.i].pc = "none"
             \/ app'.pc = "join_acceptor" /\ app'.i = app.i
      BY <1>1, <1>2, <2>1 DEF CallerOK
    <2>3. place' \in [Conns -> PlaceStates]
      BY <1>2, <2>1 DEF Closed, PlaceStates
    <2>4. socket'.fd # "listening"
      BY <1>2, <2>1 DEF Shut
    <2>5. SocketOK'
      BY <2>4 DEF SocketOK
    <2>6. ThreadsOK'
      BY <1>1, <1>3, <2>1, <2>2 DEF ControlInv, ThreadsOK
    <2>7. AcceptorsOK'
      <3>1. \A a \in Acceptors : a < app'.i => a < app.i \/ (a = app.i /\ at[app.i].pc = "none")
        BY <1>2, <2>2 DEF Acceptors
      <3>2. QED
        BY <1>1, <1>3, <1>4, <2>1, <2>2, <3>1 DEF ControlInv, AcceptorsOK
    <2>8. ServerTypeOK'
      BY <1>2, <1>6, <2>1, <2>2, <2>3
    <2>9. QED
      BY <1>3, <1>11, <2>2, <2>5, <2>6, <2>7, <2>8 DEF ControlInv
  <1>9. CASE JoinAcceptor
    <2>1. /\ app.pc = "join_acceptor" /\ app' \in AppRecord /\ app.i <= NAcceptors /\ n > 0 /\ mode # "thread"
          /\ at' = [at EXCEPT ![app.i].pc = "none"]
          /\ app'.pc = "stop_acceptors" /\ app'.i = app.i + 1
          /\ UNCHANGED <<socket, place>>
      BY <1>2, <1>9, CallerGoes DEF JoinAcceptor, ControlInv, CallerOK
    <2>2. app.i \in Acceptors
      BY <1>2, <2>1 DEF Acceptors
    <2>3. /\ at' \in [Acceptors -> AcceptorRecord] /\ at'[app.i].pc = "none"
          /\ \A b \in Acceptors : b # app.i => at'[b] = at[b]
      BY <1>5, <2>1, <2>2
    <2>4. /\ app' \in AppRecord /\ CallerOK'
          /\ app'.i = app.i + 1 /\ app'.pc = "stop_acceptors"
      BY <1>1, <1>2, <2>1 DEF CallerOK
    <2>5. ThreadsOK'
      BY <1>1, <1>3, <2>1, <2>4 DEF ControlInv, ThreadsOK
    <2>6. AcceptorsOK'
      <3>1. \A a \in Acceptors : a < app.i + 1 => a < app.i \/ a = app.i
        BY <1>2 DEF Acceptors
      <3>2. \A a \in Acceptors : a < app.i + 1 => at'[a].pc = "none"
        BY <2>1, <2>3, <3>1 DEF ControlInv, AcceptorsOK
      <3>3. \A a \in Acceptors :
              /\ at'[a].pc \in {"accepted", "selected"} => at'[a].conn \in Conns
              /\ at'[a].pc = "selected" => at'[a].index < n
              /\ at'[a].pc # "none" => AllServe
        BY <2>3 DEF ControlInv, AcceptorsOK
      <3>4. QED
        BY <1>1, <1>3, <1>4, <2>1, <2>4, <3>2, <3>3 DEF AcceptorsOK
    <2>7. SocketOK'
      BY <1>1, <2>1 DEF ControlInv, SocketOK
    <2>8. ServerTypeOK'
      BY <1>2, <1>6, <2>1, <2>3, <2>4
    <2>9. QED
      BY <1>3, <1>11, <2>4, <2>5, <2>6, <2>7, <2>8 DEF ControlInv
  <1>10. QED
    BY <1>7, <1>8, <1>9

-----------------------------------------------------------------------------
\* start() makes new reactors.
LEMMA StartControl ==
    ASSUME ControlInv, Start
    PROVE  ControlInv'
  <1> USE DEF config, Pcs, StartPcs
  <1>1. /\ app.pc \in {"idle", "failed"} /\ starts < MaxStarts /\ (mode = "thread" => starts = 0)
        /\ starts' = starts + 1 /\ stop_' = FALSE /\ n' = n + NewReactors
        /\ app'.pc = AfterInit /\ app'.i = 1 /\ app' \in AppRecord
        /\ UNCHANGED <<mode, kind, waiter, selector_index_, socket, at, timer, place, early>>
    <2>1. app \in AppRecord /\ AfterInit \in Pcs
      BY DEF ControlInv, ServerTypeOK, AfterInit
    <2>2. QED
      BY <2>1, CallerGoes DEF Start, listening
  <1>2. /\ ServerTypeOK /\ n \in Nat /\ starts \in Nat /\ n <= NReactors * starts
        /\ NReactors \in Nat \ {0} /\ MaxStarts \in Nat
        /\ rt \in [Reactors -> ReactorRecord]
    BY ServerConstants DEF ControlInv, ServerTypeOK
  <1>3. NewReactors \in 1 .. NReactors /\ (mode = "thread" => NewReactors = 1)
    BY <1>2 DEF NewReactors
  <1>4. n' \in Nat /\ n' > 0 /\ n' >= n /\ n' <= NReactors * starts'
    <2>1. \A a, b \in Nat : a * (b + 1) = a * b + a /\ a * b \in Nat
      OBVIOUS
    <2>2. NReactors * starts' = NReactors * starts + NReactors /\ NReactors * starts \in Nat
      BY <1>1, <1>2, <2>1
    <2>3. QED
      BY <1>1, <1>2, <1>3, <2>2
  <1>5. mode = "thread" => n' = 1
    <2>1. NReactors * 0 = 0
      BY <1>2
    <2>2. mode = "thread" => n = 0
      BY <1>1, <1>2, <2>1
    <2>3. QED
      BY <1>1, <1>3, <2>2
  <1> DEFINE v == [NewReactor EXCEPT !.factory = TRUE]
  <1>6. v \in ReactorRecord /\ v.thread = "none" /\ ~v.is_run /\ ~v.local /\ ~v.spoilt
    <2>1. /\ NewReactor \in ReactorRecord /\ NewReactor.thread = "none" /\ ~NewReactor.is_run
          /\ ~NewReactor.local /\ ~NewReactor.spoilt
      BY DEF NewReactor, ReactorRecord, ThreadStates
    <2> HIDE DEF NewReactor
    <2>2. QED
      BY <2>1 DEF ReactorRecord
  <1> HIDE DEF v
  <1>7. \A r \in Reactors : rt'[r] \in {v, rt[r]}
    BY DEF Start, v
  <1>8. rt' \in [Reactors -> ReactorRecord]
    BY <1>2, <1>6 DEF Start, v
  <1>9. \A r \in Reactors : HasNone(r)' /\ (r \in 1 .. n' => NotRun(r)')
    <2>1. \A r \in Reactors : r > n \/ r \in 1 .. n
      BY <1>2, ServerConstants DEF Reactors
    <2>2. \A r \in Reactors : rt[r].thread = "none" /\ (r \in 1 .. n => NotRun(r))
      BY <1>1, <2>1 DEF ControlInv, ThreadsOK, AllNotRun, NotRun, HasNone
    <2>3. \A r \in Reactors : r \in 1 .. n' => r \in 1 .. n \/ rt'[r] = v
      BY <1>1, <1>2, <1>3 DEF Start, v
    <2>4. QED
      BY <1>6, <1>7, <2>2, <2>3 DEF HasNone, NotRun
  <1>10. \/ mode = "https" /\ AfterInit = "prepare_ssl"
         \/ mode # "https" /\ AfterInit = "start_reactors"
    BY DEF AfterInit
  <1>11. ServerTypeOK'
    <2>1. starts' \in 0 .. MaxStarts
      BY <1>1, <1>2
    <2>2. app' \in AppRecord
      BY <1>1
    <2>3. QED
      BY <1>1, <1>2, <1>4, <1>8, <2>1, <2>2 DEF ServerTypeOK
  <1>12. CallerOK'
    BY <1>1, <1>2, <1>4, <1>5, <1>10 DEF CallerOK, ServerTypeOK
  <1>13. ThreadsOK'
    <2>1. \A r \in 1 .. n' : NotRun(r)' /\ ~(r < 1)
      <3>1. \A a, b, c \in Nat : b <= c => a * b <= a * c /\ a * b \in Nat /\ a * c \in Nat
        OBVIOUS
      <3>2. NReactors * starts' <= NReactors * MaxStarts /\ NReactors * starts' \in Nat
            /\ NReactors * MaxStarts \in Nat
        BY <1>1, <1>2, <3>1
      <3>3. \A r \in 1 .. n' : r \in Reactors /\ ~(r < 1)
        BY <1>4, <3>2 DEF Reactors
      <3>4. QED
        BY <1>9, <3>3
    <2>2. QED
      BY <1>1, <1>2, <1>9, <1>10, <2>1 DEF ThreadsOK, AllNotRun, ServerTypeOK
  <1>14. RunsOK'
    <2>1. \A r \in Reactors : rt'[r].thread = "none"
      BY <1>9 DEF HasNone
    <2>2. QED
      BY <1>6, <1>7, <2>1 DEF ControlInv, RunsOK, Sound
  <1>15. AcceptorsOK'
    BY <1>1, <1>2, <1>4, <1>10 DEF ControlInv, AcceptorsOK, ServerTypeOK
  <1>16. SocketOK'
    BY <1>1 DEF ControlInv, SocketOK
  <1>17. SpoiltOK'
    BY <1>1, <1>6, <1>7 DEF ControlInv, SpoiltOK, StopPcs
  <1>18. QED
    BY <1>11, <1>12, <1>13, <1>14, <1>15, <1>16, <1>17 DEF ControlInv

\* ReactorThread::start initialises the reactor again.
LEMMA InitAgainIs ==
    ASSUME NEW r \in Reactors, rt[r] \in ReactorRecord
    PROVE  /\ InitAgain(r) \in ReactorRecord /\ InitAgain(r).is_run = rt[r].is_run
           /\ InitAgain(r).pipe = <<>> /\ ~InitAgain(r).stop /\ InitAgain(r).count = 0
           /\ InitAgain(r).handlers = rt[r].handlers /\ InitAgain(r).monitor = rt[r].monitor
           /\ InitAgain(r).local = rt[r].local /\ InitAgain(r).spoilt = rt[r].spoilt
           /\ ~InitAgain(r).overtaken /\ InitAgain(r).refused = rt[r].refused
  <1> DEFINE p == <<>>
             f == StartFactory
  <1>1. p \in Seq(Requests) /\ f \in BOOLEAN
    BY DEF StartFactory
  <1>2. InitAgain(r) = [rt[r] EXCEPT !.stop = FALSE, !.pipe = p, !.count = 0, !.factory = f,
                               !.overtaken = FALSE]
    BY DEF InitAgain
  <1> HIDE DEF p, f
  <1>3. /\ InitAgain(r) \in ReactorRecord /\ InitAgain(r).is_run = rt[r].is_run
        /\ InitAgain(r).pipe = p /\ ~InitAgain(r).stop /\ InitAgain(r).count = 0
        /\ InitAgain(r).handlers = rt[r].handlers /\ InitAgain(r).monitor = rt[r].monitor
        /\ InitAgain(r).local = rt[r].local /\ InitAgain(r).spoilt = rt[r].spoilt
        /\ ~InitAgain(r).overtaken /\ InitAgain(r).refused = rt[r].refused
    <2> DEFINE s == FALSE
               v == [rt[r] EXCEPT !.stop = s, !.pipe = p, !.count = 0, !.factory = f,
                             !.overtaken = s]
    <2>1. s \in BOOLEAN /\ 0 \in Int
      OBVIOUS
    <2> HIDE DEF s
    <2>2. v \in ReactorRecord
      BY <1>1, <2>1 DEF ReactorRecord
    <2>3. /\ v.is_run = rt[r].is_run /\ v.pipe = p /\ v.stop = s /\ v.count = 0
          /\ v.handlers = rt[r].handlers /\ v.monitor = rt[r].monitor
          /\ v.local = rt[r].local /\ v.spoilt = rt[r].spoilt
          /\ v.overtaken = s /\ v.refused = rt[r].refused
      BY DEF ReactorRecord
    <2> HIDE DEF v
    <2>4. InitAgain(r) = v
      BY <1>2 DEF v, s
    <2>5. QED
      BY <2>2, <2>3, <2>4 DEF s
  <1>4. QED
    BY <1>3 DEF p

\* A step of the caller that changes the reactor it is at.
LEMMA CallerAtReactor ==
    ASSUME ControlInv, app.i \in 1 .. n, NEW v \in ReactorRecord, rt' = [rt EXCEPT ![app.i] = v],
           UNCHANGED <<config, starts, stop_, waiter, n, selector_index_, listening, place, early>>,
           app.pc \in {"start_reactors", "stop_reactors", "stop_local", "join_reactor", "undo",
                       "undo_local", "undo_join"},
           app' \in AppRecord,
           app'.pc \in {"start_reactors", "wait_reactor", "stop_reactors", "stop_local", "join_reactor",
                        "undo", "undo_local", "undo_join"},
           Sound(v), SpoiltOK'
    PROVE  /\ rt'[app.i] = v
           /\ \A q \in Reactors : q # app.i =>
                rt'[q] = rt[q] /\ (HasNone(q) => HasNone(q)') /\ (NotRun(q) => NotRun(q)')
                               /\ (Serving(q) => Serving(q)')
           /\ \A q \in Reactors : q > n => HasNone(q)'
           /\ CallerOK' /\ ThreadsOK' /\ SocketOK' => ControlInv'
  <1> USE DEF config, listening
  <1>1. /\ ServerTypeOK /\ app \in AppRecord /\ n \in Nat /\ rt \in [Reactors -> ReactorRecord]
    BY DEF ControlInv, ServerTypeOK
  <1>2. app.i \in Reactors
    BY <1>1, ReactorsThere
  <1>3. rt' \in [Reactors -> ReactorRecord] /\ rt'[app.i] = v
        /\ \A q \in Reactors : q # app.i => rt'[q] = rt[q]
    BY <1>1, <1>2
  <1>4. \A q \in Reactors : q # app.i => (HasNone(q) => HasNone(q)') /\ (NotRun(q) => NotRun(q)')
                                         /\ (Serving(q) => Serving(q)')
    BY <1>3 DEF HasNone, NotRun, Serving, Alive
  <1>5. \A q \in Reactors : q > n => q # app.i
    BY <1>1 DEF Reactors
  <1>6. \A q \in Reactors : q > n => HasNone(q)'
    BY <1>4, <1>5 DEF ControlInv, ThreadsOK
  <1>7. RunsOK'
    BY <1>3 DEF ControlInv, RunsOK
  <1>8. \A a \in Acceptors : at[a].pc = "none"
    BY DEF ControlInv, AcceptorsOK
  <1>9. AcceptorsOK'
    BY <1>8 DEF ControlInv, AcceptorsOK
  <1>10. ServerTypeOK'
    BY <1>1, <1>3 DEF ServerTypeOK
  <1>11. QED
    BY <1>3, <1>4, <1>6, <1>7, <1>9, <1>10 DEF ControlInv

\* ReactorThread::start.
LEMMA StartReactorControl ==
    ASSUME ControlInv, StartReactor
    PROVE  ControlInv'
  <1> USE DEF config, listening
  <1> DEFINE r == app.i
             v == [InitAgain(r) EXCEPT !.thread = "created"]
  <1>1. /\ app.pc = "start_reactors" /\ r \in 1 .. n /\ n > 0 /\ rt' = [rt EXCEPT ![r] = v]
        /\ app \in AppRecord /\ r \in Reactors /\ rt[r] \in ReactorRecord /\ Sound(rt[r])
        /\ UNCHANGED <<config, starts, stop_, waiter, n, selector_index_, listening, place, early>>
    <2>1. /\ app.pc = "start_reactors" /\ r \in 1 .. n /\ app \in AppRecord /\ ServerTypeOK /\ n > 0
      BY DEF StartReactor, ControlInv, CallerOK, ServerTypeOK
    <2>2. r \in Reactors /\ rt[r] \in ReactorRecord /\ Sound(rt[r])
      BY <2>1, ReactorsThere DEF ControlInv, RunsOK, ServerTypeOK
    <2>3. QED
      BY <2>1, <2>2 DEF StartReactor
  <1>2. app' \in AppRecord /\ app'.pc = "wait_reactor" /\ app'.i = r
    BY <1>1, CallerGoes DEF StartReactor, Pcs, StartPcs
  <1>3. NotRun(r)
    <2>1. ~(r < r)
      BY <1>1
    <2>2. QED
      BY <1>1, <2>1 DEF ControlInv, ThreadsOK
  <1>4. /\ v \in ReactorRecord /\ v.thread = "created" /\ v.is_run = rt[r].is_run
        /\ v.pipe = <<>> /\ ~v.stop /\ v.local = rt[r].local /\ v.spoilt = rt[r].spoilt
    <2>1. /\ InitAgain(r) \in ReactorRecord /\ InitAgain(r).is_run = rt[r].is_run
          /\ InitAgain(r).pipe = <<>> /\ ~InitAgain(r).stop
          /\ InitAgain(r).local = rt[r].local /\ InitAgain(r).spoilt = rt[r].spoilt
      BY <1>1, InitAgainIs
    <2>2. QED
      BY <2>1 DEF ReactorRecord, ThreadStates
  <1> HIDE DEF v
  <1>5. Sound(v)
    BY <1>1, <1>3, <1>4 DEF Sound, NotRun
  <1>6. SpoiltOK'
    <2>1. \A q \in Reactors : rt'[q].spoilt = rt[q].spoilt
      BY <1>1, <1>4 DEF ControlInv, ServerTypeOK
    <2>2. QED
      BY <1>1, <1>2, <2>1 DEF ControlInv, SpoiltOK, StopPcs
  <1>7. /\ rt'[app.i] = v
        /\ \A q \in Reactors : q # app.i => (NotRun(q) => NotRun(q)') /\ (Serving(q) => Serving(q)')
        /\ \A q \in Reactors : q > n => HasNone(q)'
        /\ CallerOK' /\ ThreadsOK' /\ SocketOK' => ControlInv'
    BY <1>1, <1>2, <1>4, <1>5, <1>6, CallerAtReactor
  <1> HIDE DEF r
  <1>8. CallerOK' /\ SocketOK'
    BY <1>1, <1>2 DEF ControlInv, CallerOK, SocketOK
  <1>9. ASSUME NEW q \in 1 .. n
        PROVE  /\ q < r => Serving(q)'
               /\ q = r => Begun(q)'
               /\ q > r => NotRun(q)'
    <2>1. q \in Reactors /\ q \in Int /\ r \in Int
      BY <1>1, ReactorsThere DEF ControlInv
    <2>2. q < r => Serving(q)'
      BY <1>1, <1>7, <2>1 DEF ControlInv, ThreadsOK, r
    <2>3. q > r => NotRun(q)'
      <3>1. q > r => ~(q < r) /\ q # r
        BY <2>1
      <3>2. QED
        BY <1>1, <1>7, <2>1, <3>1 DEF ControlInv, ThreadsOK, r
    <2>4. q = r => Begun(q)'
      BY <1>3, <1>4, <1>7 DEF Begun, NotRun, r
    <2>5. QED
      BY <2>2, <2>3, <2>4
  <1>10. ThreadsOK'
    BY <1>1, <1>2, <1>7, <1>9 DEF ThreadsOK
  <1>11. QED
    BY <1>7, <1>8, <1>10

\* A STOP has been put where it goes, and stop() joins the thread if there is one.
LEMMA StopControl ==
    ASSUME ControlInv, app.i \in 1 .. n, NEW v \in ReactorRecord, rt' = [rt EXCEPT ![app.i] = v],
           UNCHANGED <<config, starts, stop_, waiter, n, selector_index_, listening, place, early>>,
           app.pc \in {"stop_reactors", "stop_local", "undo", "undo_local"}, ThenJoin,
           v.thread = rt[app.i].thread, Sound(v), SpoiltOK',
           app.pc \in {"undo", "undo_local"} /\ NotRun(app.i) => (v.local <=> v.spoilt),
           app.pc \in {"undo", "undo_local"} /\ Serving(app.i) /\ mode # "https" =>
               Alive(app.i) /\ ~(v.local /\ STOP \in Range(v.pipe))
    PROVE  ControlInv'
  <1> USE DEF config, listening
  <1> DEFINE r == app.i
  <1>1. app \in AppRecord /\ r \in Reactors /\ n \in Nat /\ n > 0
    BY ReactorsThere DEF ControlInv, ServerTypeOK
  <1>2. /\ app' \in AppRecord
        /\ \/ /\ rt[r].thread = "none" /\ app'.i = r + 1
              /\ app'.pc = StopOf(app.pc)
           \/ rt[r].thread # "none" /\ app'.i = r /\ app'.pc = JoinOf(app.pc)
    BY <1>1, CallerGoes DEF ThenJoin, StopOf, JoinOf, Pcs, StopPcs
  <1>3. /\ StopOf(app.pc) = IF app.pc \in {"undo", "undo_local"} THEN "undo" ELSE "stop_reactors"
        /\ JoinOf(app.pc) = IF app.pc \in {"undo", "undo_local"} THEN "undo_join" ELSE "join_reactor"
    BY DEF StopOf, JoinOf
  <1>4. /\ rt'[r] = v
        /\ \A q \in Reactors : q # r => /\ HasNone(q) => HasNone(q)'
                                        /\ NotRun(q) => NotRun(q)'
                                        /\ Serving(q) => Serving(q)'
        /\ \A q \in Reactors : q > n => HasNone(q)'
        /\ CallerOK' /\ ThreadsOK' /\ SocketOK' => ControlInv'
    BY <1>2, <1>3, CallerAtReactor
  <1>5. \A q \in 1 .. n : q \in Reactors /\ q \in Int /\ r \in Int
    BY <1>1, ReactorsThere DEF ControlInv
  <1> HIDE DEF r
  <1>6. SocketOK'
    BY <1>2, <1>3 DEF ControlInv, SocketOK, r
  <1>7. CASE app.pc \in {"stop_reactors", "stop_local"}
    <2>1. \A q \in 1 .. n : q # r => HasNone(q)' \/ (q > r /\ Serving(q)')
      <3>1. \A q \in 1 .. n : HasNone(q) \/ (q >= r /\ Serving(q))
        BY <1>7 DEF ControlInv, ThreadsOK, r
      <3>2. QED
        BY <1>4, <1>5, <3>1
    <2>2. CallerOK'
      BY <1>1, <1>2, <1>3, <1>7 DEF ControlInv, CallerOK, r
    <2>3. CASE rt[r].thread = "none"
      <3>1. app'.pc = "stop_reactors" /\ app'.i = r + 1
        BY <1>2, <1>3, <1>7, <2>3
      <3>2. \A q \in 1 .. n : HasNone(q)' \/ (q >= r + 1 /\ Serving(q)')
        BY <1>4, <1>5, <2>1, <2>3 DEF HasNone, r
      <3>3. ThreadsOK'
        BY <1>4, <3>1, <3>2 DEF ThreadsOK
      <3>4. QED
        BY <1>4, <1>6, <2>2, <3>3
    <2>4. CASE rt[r].thread # "none"
      <3>1. app'.pc = "join_reactor" /\ app'.i = r
        BY <1>2, <1>3, <1>7, <2>4
      <3>2. ThreadsOK'
        BY <1>4, <2>1, <3>1 DEF ThreadsOK
      <3>3. QED
        BY <1>4, <1>6, <2>2, <3>2
    <2>5. QED
      BY <2>3, <2>4
  <1>8. CASE app.pc \in {"undo", "undo_local"}
    <2>1. \A q \in 1 .. n : IF q >= r /\ mode # "https" THEN Serving(q) ELSE NotRun(q)
      BY <1>8 DEF ControlInv, ThreadsOK, r
    <2>2. r \in 1 .. n /\ r >= r
      BY <1>5 DEF r
    <2>3. CASE rt[r].thread = "none"
      <3>1. app'.pc = "undo" /\ app'.i = r + 1
        BY <1>2, <1>3, <1>8, <2>3
      <3>2. ~Serving(r)
        BY <2>3 DEF Serving, Alive
      <3>3. mode = "https" /\ NotRun(r)
        BY <2>1, <2>2, <3>2
      <3>4. \A q : q = r => NotRun(q)'
        BY <1>4, <1>8, <2>3, <3>3 DEF NotRun, r
      <3>5. \A q \in 1 .. n : NotRun(q)'
        BY <1>4, <1>5, <2>1, <3>3, <3>4
      <3>6. ThreadsOK'
        BY <1>4, <3>1, <3>3, <3>5 DEF ThreadsOK
      <3>7. CallerOK'
        BY <1>1, <1>2, <1>3, <1>8, <3>1 DEF ControlInv, CallerOK, r
      <3>8. QED
        BY <1>4, <1>6, <3>6, <3>7
    <2>4. CASE rt[r].thread # "none"
      <3>1. app'.pc = "undo_join" /\ app'.i = r
        BY <1>2, <1>3, <1>8, <2>4
      <3>2. mode # "https" /\ Serving(r)
        BY <2>1, <2>2, <2>4 DEF NotRun
      <3>3. \A q : q = r => Stopping(q)'
        BY <1>4, <1>8, <3>2 DEF Stopping, Alive, r
      <3>4. ASSUME NEW q \in 1 .. n
            PROVE  /\ q < r => NotRun(q)'
                   /\ q = r => Stopping(q)'
                   /\ q > r => Serving(q)'
        <4>1. q \in Reactors /\ q \in Int /\ r \in Int
          BY <1>5
        <4>2. (q < r => ~(q >= r) /\ q # r) /\ (q > r => q >= r /\ q # r)
          BY <4>1
        <4>3. QED
          BY <1>4, <2>1, <3>2, <3>3, <4>1, <4>2
      <3>5. ThreadsOK'
        BY <1>4, <3>1, <3>4 DEF ThreadsOK
      <3>6. CallerOK'
        BY <1>1, <1>2, <1>3, <1>8, <3>1, <3>2 DEF ControlInv, CallerOK, r
      <3>7. QED
        BY <1>4, <1>6, <3>5, <3>6
    <2>5. QED
      BY <2>3, <2>4
  <1>9. QED
    BY <1>7, <1>8

\* ReactorThread::stop, as far as the STOP.
LEMMA StopsControl ==
    ASSUME ControlInv, StopReactor \/ StopInWaitEvents
    PROVE  ControlInv'
  <1> USE DEF config, listening
  <1> DEFINE r == app.i
  <1>1. /\ app.pc \in {"stop_reactors", "undo", "stop_local", "undo_local"} /\ r \in 1 .. n
        /\ app \in AppRecord /\ r \in Reactors /\ rt[r] \in ReactorRecord /\ Sound(rt[r]) /\ n > 0
        /\ rt \in [Reactors -> ReactorRecord]
        /\ UNCHANGED <<config, starts, stop_, waiter, n, selector_index_, listening, place, early>>
    <2>1. /\ app.pc \in {"stop_reactors", "undo", "stop_local", "undo_local"} /\ r \in 1 .. n
          /\ app \in AppRecord /\ ServerTypeOK /\ n > 0
      BY DEF StopReactor, StopInWaitEvents, ControlInv, CallerOK, ServerTypeOK
    <2>2. r \in Reactors /\ rt[r] \in ReactorRecord /\ Sound(rt[r]) /\ rt \in [Reactors -> ReactorRecord]
      BY <2>1, ReactorsThere DEF ControlInv, RunsOK, ServerTypeOK
    <2>3. QED
      BY <2>1, <2>2 DEF StopReactor, StopInWaitEvents
  <1>2. /\ rt[r].thread # "created"
        /\ app.pc \in {"undo", "undo_local"} /\ Serving(r) /\ mode # "https" =>
             Alive(r) /\ ~rt[r].local /\ STOP \notin Range(rt[r].pipe) /\ ~rt[r].spoilt
        /\ mode # "https" /\ app.pc \in {"undo", "undo_local"} => rt[r].thread # "none" /\ ~rt[r].spoilt
    <2>1. HasNone(r) \/ Serving(r) \/ NotRun(r)
      BY <1>1 DEF ControlInv, ThreadsOK
    <2>2. rt[r].thread # "created"
      BY <2>1 DEF HasNone, Serving, NotRun, Alive
    <2>3. mode # "https" /\ app.pc \in {"undo", "undo_local"} => Serving(r) /\ ~rt[r].spoilt
      <3>1. r >= r
        BY <1>1
      <3>2. QED
        BY <1>1, <3>1 DEF ControlInv, ThreadsOK, SpoiltOK, StopPcs
    <2>4. QED
      BY <2>2, <2>3 DEF Serving, Alive
  <1>3. CASE StopReactor /\ ToWaitEvents(r)
    <2>1. /\ app' \in AppRecord /\ app'.i = r /\ rt' = rt
          /\ \/ app.pc = "undo" /\ app'.pc = "undo_local"
             \/ app.pc = "stop_reactors" /\ app'.pc = "stop_local"
      BY <1>1, <1>3, CallerGoes DEF StopReactor, Pcs, StopPcs
    <2>2. rt' = [rt EXCEPT ![app.i] = rt[r]]
      BY <1>1, <2>1
    <2>3. SpoiltOK'
      BY <1>1, <2>1 DEF ControlInv, SpoiltOK, StopPcs
    <2>4. CallerOK' /\ ThreadsOK' /\ SocketOK' => ControlInv'
      BY <1>1, <2>1, <2>2, <2>3, CallerAtReactor
    <2>5. CallerOK' /\ SocketOK'
      BY <1>1, <2>1 DEF ControlInv, CallerOK, SocketOK
    <2>6. ThreadsOK'
      <3>1. \A q : /\ HasNone(q)' <=> HasNone(q)
                   /\ NotRun(q)' <=> NotRun(q)
                   /\ Serving(q)' <=> Serving(q)
        BY <2>1 DEF HasNone, NotRun, Serving, Alive
      <3>2. QED
        BY <1>1, <2>1, <3>1 DEF ControlInv, ThreadsOK
    <2>7. QED
      BY <2>4, <2>5, <2>6
  <1>4. CASE StopReactor /\ ~ToWaitEvents(r)
    <2> DEFINE p == Append(rt[r].pipe, STOP)
               v == [rt[r] EXCEPT !.pipe = p]
    <2>1. rt' = [rt EXCEPT ![app.i] = v] /\ ThenJoin
      BY <1>1, <1>4 DEF StopReactor
    <2>2. p \in Seq(Requests)
      BY <1>1, PipeWrite DEF ReactorRecord, Requests
    <2> HIDE DEF p
    <2>3. /\ v \in ReactorRecord /\ v.thread = rt[r].thread /\ v.is_run = rt[r].is_run
          /\ v.stop = rt[r].stop /\ v.local = rt[r].local /\ v.spoilt = rt[r].spoilt
          /\ v.overtaken = rt[r].overtaken
      BY <1>1, <2>2 DEF ReactorRecord
    <2> HIDE DEF v
    <2>4. Sound(v)
      BY <1>1, <1>2, <2>3 DEF Sound
    <2>5. SpoiltOK'
      <3>1. \A q \in Reactors : rt'[q].spoilt = rt[q].spoilt
        BY <1>1, <2>1, <2>3
      <3>2. app'.pc \in {"undo", "undo_join"} => app.pc \in {"undo", "undo_local"}
        BY <1>1, <2>1, CallerGoes DEF ThenJoin, StopOf, JoinOf, Pcs, StopPcs
      <3>3. app'.pc \in {"undo", "undo_join", "stop_reactors", "join_reactor"}
        BY <1>1, <2>1, CallerGoes DEF ThenJoin, StopOf, JoinOf, Pcs, StopPcs
      <3>4. QED
        BY <1>1, <3>1, <3>2, <3>3 DEF ControlInv, SpoiltOK, StopPcs
    <2>6. QED
      BY <1>1, <1>2, <2>1, <2>3, <2>4, <2>5, StopControl DEF NotRun
  <1>5. CASE StopInWaitEvents
    <2> DEFINE f == rt[r].spoilt \/ rt[r].thread = "none"
               v == ToldEarly(r)
    <2>1. /\ rt' = [rt EXCEPT ![app.i] = v] /\ ThenJoin
          /\ app.pc \in {"stop_local", "undo_local"}
      <3>1. rt' = [rt EXCEPT ![app.i] = v]
        BY <1>5 DEF StopInWaitEvents
      <3>2. QED
        BY <1>5, <3>1 DEF StopInWaitEvents
    <2>2. f \in BOOLEAN
      OBVIOUS
    <2>0. v = [rt[r] EXCEPT !.local = TRUE, !.spoilt = f]
      BY DEF ToldEarly
    <2> HIDE DEF f, v
    <2>3. /\ v \in ReactorRecord /\ v.thread = rt[r].thread /\ v.is_run = rt[r].is_run
          /\ v.stop = rt[r].stop /\ v.pipe = rt[r].pipe /\ v.local /\ v.spoilt = f
          /\ v.overtaken = rt[r].overtaken
      BY <1>1, <2>0, <2>2 DEF ReactorRecord
    <2>4. Sound(v)
      BY <1>1, <1>2, <2>3 DEF Sound, f
    <2>5. SpoiltOK'
      <3>1. app.pc = "undo_local" /\ mode # "https" => \A q \in Reactors : rt'[q].spoilt => rt[q].spoilt
        BY <1>1, <1>2, <2>1, <2>3 DEF f
      <3>2. app'.pc \in {"undo", "undo_join"} => app.pc = "undo_local"
        BY <1>1, <2>1, CallerGoes DEF ThenJoin, StopOf, JoinOf, Pcs, StopPcs
      <3>3. app'.pc \in {"undo", "undo_join", "stop_reactors", "join_reactor"}
        BY <1>1, <2>1, CallerGoes DEF ThenJoin, StopOf, JoinOf, Pcs, StopPcs
      <3>4. QED
        BY <1>1, <3>1, <3>2, <3>3 DEF ControlInv, SpoiltOK, StopPcs
    <2>6. NotRun(app.i) => (v.local <=> v.spoilt)
      BY <2>3 DEF NotRun, f
    <2>7. QED
      BY <1>1, <1>2, <2>1, <2>3, <2>4, <2>5, <2>6, StopControl
  <1>6. QED
    BY <1>3, <1>4, <1>5

\* ReactorThread::stop, its join.
LEMMA JoinControl ==
    ASSUME ControlInv, JoinReactor
    PROVE  ControlInv'
  <1> USE DEF config, listening
  <1> DEFINE r == app.i
             v == [rt[r] EXCEPT !.thread = "none"]
  <1>1. /\ app.pc \in {"join_reactor", "undo_join"} /\ r \in 1 .. n
        /\ app \in AppRecord /\ r \in Reactors /\ rt[r] \in ReactorRecord /\ Sound(rt[r]) /\ n > 0
        /\ rt \in [Reactors -> ReactorRecord] /\ rt[r].thread = "ended"
        /\ rt' = [rt EXCEPT ![r] = v]
        /\ UNCHANGED <<config, starts, stop_, waiter, n, selector_index_, listening, place, early>>
    <2>1. /\ app.pc \in {"join_reactor", "undo_join"} /\ r \in 1 .. n
          /\ app \in AppRecord /\ ServerTypeOK /\ n > 0
      BY DEF JoinReactor, ControlInv, CallerOK, ServerTypeOK
    <2>2. r \in Reactors /\ rt[r] \in ReactorRecord /\ Sound(rt[r]) /\ rt \in [Reactors -> ReactorRecord]
      BY <2>1, ReactorsThere DEF ControlInv, RunsOK, ServerTypeOK
    <2>3. QED
      BY <2>1, <2>2 DEF JoinReactor
  <1>2. /\ v \in ReactorRecord /\ v.thread = "none" /\ v.is_run = rt[r].is_run
        /\ v.local = rt[r].local /\ v.spoilt = rt[r].spoilt
    BY <1>1 DEF ReactorRecord, ThreadStates
  <1> HIDE DEF v
  <1>3. Sound(v)
    BY <1>1, <1>2 DEF Sound
  <1>4. /\ app' \in AppRecord /\ app'.i = r + 1
        /\ app'.pc = IF app.pc = "undo_join" THEN "undo" ELSE "stop_reactors"
    BY <1>1, CallerGoes DEF JoinReactor, Pcs, StopPcs
  <1>5. SpoiltOK'
    <2>1. \A q \in Reactors : rt'[q].spoilt = rt[q].spoilt
      BY <1>1, <1>2
    <2>2. QED
      BY <1>1, <1>4, <2>1 DEF ControlInv, SpoiltOK, StopPcs
  <1>6. /\ rt'[r] = v
        /\ \A q \in Reactors : q # r => /\ HasNone(q) => HasNone(q)'
                                        /\ NotRun(q) => NotRun(q)'
                                        /\ Serving(q) => Serving(q)'
        /\ \A q \in Reactors : q > n => HasNone(q)'
        /\ CallerOK' /\ ThreadsOK' /\ SocketOK' => ControlInv'
    BY <1>1, <1>2, <1>3, <1>4, <1>5, CallerAtReactor
  <1>7. \A q \in 1 .. n : q \in Reactors /\ q \in Int /\ r \in Int
    BY <1>1, ReactorsThere DEF ControlInv
  <1> HIDE DEF r
  <1>8. CallerOK' /\ SocketOK'
    BY <1>1, <1>4 DEF ControlInv, CallerOK, SocketOK, ServerTypeOK, r
  <1>9. CASE app.pc = "join_reactor"
    <2>1. \A q \in 1 .. n : q # r => HasNone(q) \/ (q > r /\ Serving(q))
      BY <1>9 DEF ControlInv, ThreadsOK, r
    <2>2. \A q \in 1 .. n : HasNone(q)' \/ (q >= r + 1 /\ Serving(q)')
      BY <1>2, <1>6, <1>7, <2>1 DEF HasNone
    <2>3. ThreadsOK'
      BY <1>1, <1>4, <1>6, <1>9, <2>2 DEF ThreadsOK
    <2>4. QED
      BY <1>6, <1>8, <2>3
  <1>10. CASE app.pc = "undo_join"
    <2>1. /\ mode # "https"
          /\ \A q \in 1 .. n : /\ q < r => NotRun(q)
                               /\ q = r => Stopping(q)
                               /\ q > r => Serving(q)
      BY <1>10 DEF ControlInv, ThreadsOK, CallerOK, r
    <2>2. \A q : q = r => NotRun(q)'
      <3>1. Stopping(r) /\ ~rt[r].spoilt
        BY <1>1, <1>10, <2>1 DEF ControlInv, SpoiltOK, StopPcs, r
      <3>2. ~rt[r].local
        BY <1>1, <3>1 DEF Stopping, Alive
      <3>3. QED
        BY <1>2, <1>6, <3>1, <3>2 DEF NotRun
    <2>3. ASSUME NEW q \in 1 .. n PROVE IF q >= r + 1 THEN Serving(q)' ELSE NotRun(q)'
      <3>1. q \in Reactors /\ q \in Int /\ r \in Int
        BY <1>7
      <3>2. /\ q >= r + 1 => q > r /\ q # r
            /\ ~(q >= r + 1) => q = r \/ (q < r /\ q # r)
        BY <3>1
      <3>3. QED
        BY <1>6, <2>1, <2>2, <3>1, <3>2
    <2>4. ThreadsOK'
      BY <1>1, <1>4, <1>6, <1>10, <2>1, <2>3 DEF ThreadsOK
    <2>5. QED
      BY <1>6, <1>8, <2>4
  <1>11. QED
    BY <1>1, <1>9, <1>10

\* Every step keeps the threads in step with the caller.
LEMMA ControlNext ==
    ASSUME ControlInv, [Next]_vars
    PROVE  ControlInv'
  <1>1. CASE Start \/ StopBegin \/ Wait \/ CallerSteps
    BY <1>1, StartControl, MoveOnControl, SurroundingsControl, ListenControl, AcceptorsControl,
       StartReactorControl, StopsControl, JoinControl DEF CallerSteps
  <1>2. CASE \E r \in Reactors : ReactorThread(r) \/ LoopWakes(r) \/ \E c \in Conns : HandlerLeaves(r, c)
    BY <1>2, RunBeginControl, FirstWaitControl, LoopWakesControl, DispatchControl, ShutdownControl,
       LeaveControl DEF ReactorThread
  <1>3. CASE \E a \in Acceptors : \/ AcceptorThread(a) \/ AcceptFails(a) \/ PollInterrupted(a)
                                  \/ AcceptLeaks(a) \/ TimeoutPasses(a)
    BY <1>3, AcceptorControl, CreateControl, SurroundingsControl DEF AcceptorThread
  <1>4. CASE \E c \in Conns : PeerConnects(c) \/ ClientRegisters(c)
    BY <1>4, SurroundingsControl, ClientControl
  <1>5. CASE DescriptorReused \/ UNCHANGED vars
    BY <1>5, SurroundingsControl
  <1>6. QED
    BY <1>1, <1>2, <1>3, <1>4, <1>5 DEF Next

\* For any number of reactors, acceptor threads and connections, and whatever start() was
\* tried and failed before: when start() has returned true every reactor runs and none
\* has been told to stop, and no acceptor thread hands a connection to a reactor that
\* does not run (TCPReactor, Https1Reactor, Reactors, AcceptorThread, ReactorThread).
\* Only a reactor that a failed start() told to stop before it had a thread is exempt: it
\* ends at its first wait().
THEOREM HandedOver == Spec => []ReactorsServe
  <1>1. ControlInv => ReactorsServe
    <2> SUFFICES ASSUME ControlInv PROVE ReactorsServe
      OBVIOUS
    <2>1. ServerTypeOK /\ n <= NReactors * MaxStarts /\ \A r \in 1 .. n : r \in Reactors
      BY ReactorsThere DEF ControlInv
    <2>2. /\ n \in Nat /\ starts \in 0 .. MaxStarts /\ app.i \in Nat \ {0} /\ app.pc \in Pcs
          /\ NReactors * MaxStarts \in Nat /\ NAcceptors \in Nat \ {0}
      <3>1. \A a, b \in Nat : a * b \in Nat
        OBVIOUS
      <3>2. QED
        BY <2>1, <3>1, ServerConstants DEF ServerTypeOK
    <2>3. Cardinality(Reactors) = NReactors * MaxStarts
      BY <2>2, FS_Interval DEF Reactors
    <2>4. app.i <= n + 1 \/ app.i <= NAcceptors + 1
      BY <2>2 DEF ControlInv, CallerOK, Pcs, StartPcs, StopPcs
    <2>5. TypeOK
      <3>1. app.i \in 1 .. Cardinality(Reactors) + NAcceptors + 1
        BY <2>1, <2>2, <2>3, <2>4
      <3>2. \A r \in Reactors :
              /\ rt[r].thread \in {"none", "created", "entering", "looping", "shutdown", "ended"}
              /\ rt[r].pipe \in Seq(Conns \cup {STOP, MONITOR})
              /\ rt[r].handlers \subseteq Conns
        BY <2>1 DEF ServerTypeOK, ReactorRecord, ThreadStates, Requests
      <3>3. /\ socket.fd \in {"none", "socket", "listening", "shut", "closed", "foreign"}
            /\ \A a \in Acceptors :
                 /\ at[a].pc \in {"none", "created", "top", "spinning", "poll", "accepted",
                                  "selected", "ended"}
                 /\ timer[a] \in {"unset", "armed", "due"}
        BY <2>1 DEF ServerTypeOK, AcceptorRecord, AcceptorStates
      <3>4. place \in [Conns -> {"none", "backlog", "refused", "accepted", "piped", "handled",
                                "closed", "shutdown", "lost", "leaked"}]
        BY <2>1 DEF ServerTypeOK, PlaceStates
      <3>5. starts \in 0 .. MaxStarts /\ n \in 0 .. NReactors * MaxStarts
        BY <2>1, <2>2
      <3>6. stop_ \in BOOLEAN /\ waiter \in {"none", "waiting", "returned"}
        BY <2>1 DEF ServerTypeOK
      <3>7. QED
        BY <3>1, <3>2, <3>3, <3>4, <3>5, <3>6 DEF TypeOK
    <2>6. UpMeansServing
      BY DEF ControlInv, ThreadsOK, AllServe, Serving, UpMeansServing
    <2>7. HandedToRunning
      <3>1. ASSUME NEW a \in Acceptors, at[a].pc = "selected"
            PROVE  LET r == at[a].index + 1
                   IN at[a].index < n /\ (rt[r].spoilt \/ (Alive(r) /\ ~rt[r].stop))
        <4>1. at[a].index \in Nat /\ at[a].index < n /\ AllServe
          BY <2>1, <3>1 DEF ControlInv, AcceptorsOK, ServerTypeOK, AcceptorRecord
        <4>2. at[a].index + 1 \in 1 .. n
          BY <2>2, <4>1
        <4>3. Serving(at[a].index + 1) /\ at[a].index + 1 \in Reactors
          BY <2>1, <4>1, <4>2 DEF AllServe
        <4>4. QED
          BY <4>1, <4>3 DEF ControlInv, RunsOK, Sound, Serving, Alive
      <3>2. n > 0 => selector_index_ < n
        BY <2>2 DEF ControlInv, AcceptorsOK
      <3>3. QED
        BY <3>1, <3>2 DEF HandedToRunning
    <2>8. QED
      BY <2>5, <2>6, <2>7 DEF ReactorsServe
  <1>2. ControlInv /\ [Next]_vars => ControlInv'
    BY ControlNext
  <1>3. QED
    BY <1>1, <1>2, ControlInit, PTL DEF Spec

-----------------------------------------------------------------------------
\* What a dispatch and a write do to the order in a pipe.
LEMMA CutOrder ==
    ASSUME NEW s \in Seq(Requests), NEW k \in 1 .. Len(s), NEW e
    PROVE  LET b == SubSeq(s, 1, k)
               c == SubSeq(s, Len(b) + 1, Len(s))
           IN /\ StopBehind(s, e) => StopBehind(c, e)
              /\ StopBehind(s, e) /\ STOP \in Range(b) => \A x \in Range(c) : x \notin e
              /\ Distinct(s) => Distinct(c)
              /\ Distinct(s) => \A x \in Range(b) : x \in Range(c) => x = STOP
  <1> DEFINE b == SubSeq(s, 1, k)
             c == SubSeq(s, Len(b) + 1, Len(s))
             m == Len(s) - k
             h(i) == k + i
  <1>1. /\ b \in Seq(Requests) /\ c \in Seq(Requests) /\ Len(b) = k /\ Len(c) = m
        /\ \A i \in 1 .. k : b[i] = s[i]
        /\ \A i \in 1 .. m : c[i] = s[h(i)]
    BY PipeCut
  <1>2. k \in Nat /\ Len(s) \in Nat /\ m \in Nat /\ k <= Len(s)
    OBVIOUS
  <1>3. \A i \in 1 .. m : h(i) \in 1 .. Len(s) /\ \A j \in 1 .. k : j < h(i) /\ j # h(i)
    BY <1>2
  <1>4. \A i, j \in 1 .. m : (i < j => h(i) < h(j)) /\ (i # j => h(i) # h(j))
    BY <1>2
  <1>5. \A i \in 1 .. k : i \in 1 .. Len(s)
    BY <1>2
  <1> HIDE DEF b, c, m, h
  <1>6. DOMAIN b = 1 .. k /\ DOMAIN c = 1 .. m
    BY <1>1
  <1>7. StopBehind(s, e) => StopBehind(c, e)
    BY <1>1, <1>3, <1>4 DEF StopBehind
  <1>8. StopBehind(s, e) /\ STOP \in Range(b) => \A x \in Range(c) : x \notin e
    BY <1>1, <1>3, <1>5, <1>6 DEF StopBehind, Range
  <1>9. Distinct(s) => Distinct(c)
    BY <1>1, <1>3, <1>4 DEF Distinct
  <1>10. ASSUME Distinct(s), NEW x \in Range(b), x \in Range(c) PROVE x = STOP
    <2>1. PICK i \in 1 .. k : x = s[i]
      BY <1>1, <1>6 DEF Range
    <2>2. PICK j \in 1 .. m : x = s[h(j)]
      BY <1>1, <1>6, <1>10 DEF Range
    <2>3. i \in 1 .. Len(s) /\ h(j) \in 1 .. Len(s) /\ i # h(j)
      BY <1>2, <1>3, <1>5
    <2>4. QED
      BY <1>10, <2>1, <2>2, <2>3 DEF Distinct
  <1>11. QED
    BY <1>7, <1>8, <1>9, <1>10 DEF b, c

LEMMA WriteOrder ==
    ASSUME NEW s \in Seq(Requests), NEW x \in Requests, NEW e, NEW f,
           StopBehind(s, e), STOP \in Range(s) => x \notin f,
           \A y \in Range(s) : y \in f => y \in e
    PROVE  /\ StopBehind(Append(s, x), f)
           /\ Distinct(s) /\ (x \notin Range(s) \/ x = STOP) => Distinct(Append(s, x))
  <1> DEFINE p == Append(s, x)
             m == Len(s) + 1
  <1>1. /\ Len(p) = m /\ p[m] = x /\ Len(s) \in Nat
        /\ \A i \in 1 .. Len(s) : p[i] = s[i]
    BY PipeWrite
  <1>2. \A i \in 1 .. m : i = m \/ i \in 1 .. Len(s)
    BY <1>1
  <1>3. \A i \in 1 .. m : ~(m < i)
    BY <1>1
  <1>4. DOMAIN s = 1 .. Len(s)
    OBVIOUS
  <1> HIDE DEF p, m
  <1>5. \A i \in 1 .. Len(s) : s[i] \in Range(s)
    BY <1>4 DEF Range
  <1>6. StopBehind(p, f)
    <2> SUFFICES ASSUME NEW j \in 1 .. m, NEW k \in 1 .. m, j < k, p[j] = STOP
                 PROVE  p[k] \notin f
      BY <1>1 DEF StopBehind
    <2>1. j \in 1 .. Len(s) /\ s[j] = STOP
      BY <1>1, <1>2, <1>3
    <2>2. CASE k = m
      BY <1>1, <1>5, <2>1, <2>2
    <2>3. CASE k \in 1 .. Len(s)
      BY <1>1, <1>5, <2>1, <2>3 DEF StopBehind
    <2>4. QED
      BY <1>2, <2>2, <2>3
  <1>7. Distinct(s) /\ (x \notin Range(s) \/ x = STOP) => Distinct(p)
    BY <1>1, <1>2, <1>5 DEF Distinct
  <1>8. QED
    BY <1>6, <1>7 DEF p

-----------------------------------------------------------------------------
\* Where a connection is no longer in anybody's care.
Final == {"refused", "closed", "leaked"}

\* A step that changes no reactor.
LEMMA QuietPlaces ==
    ASSUME ControlInv, PlacesInv, UNCHANGED <<mode, rt, early>>,
           \A c \in Conns : IF place[c] \in Fresh THEN place'[c] \in Fresh \cup Final
                                                  ELSE place'[c] = place[c],
           HeldOK', NoneAccepted',
           \A c \in Conns : place'[c] = "backlog" => socket'.fd = "listening",
           \A c \in Conns : place'[c] = "accepted" => \E a \in Acceptors : Holds(a, c)'
    PROVE  PlacesInv'
  <1>1. FreshOK'
    BY DEF PlacesInv, FreshOK
  <1>2. \A r \in Reactors : StopBehind(rt'[r].pipe, early') /\ TableOK(rt'[r])
    BY DEF PlacesInv
  <1>3. ASSUME NEW c \in Conns PROVE HasPlace(c)'
    <2>1. HasPlace(c)
      BY DEF PlacesInv
    <2>2. place'[c] \in {"piped", "lost", "handled"} => place[c] = place'[c]
      BY DEF Fresh, Final
    <2>3. QED
      BY <2>1, <2>2 DEF HasPlace
  <1>4. QED
    BY <1>1, <1>2, <1>3 DEF PlacesInv

\* A step of one reactor that gives it no new connection.
LEMMA ReactorPlaces ==
    ASSUME ControlInv, PlacesInv, NEW r \in Reactors, NEW v \in ReactorRecord,
           rt' = [rt EXCEPT ![r] = v], UNCHANGED <<mode, at, socket, early>>,
           BeforeAccept' => BeforeAccept,
           StopBehind(v.pipe, early), TableOK(v),
           \A c \in Conns : c \in Range(v.pipe) \/ c \in v.handlers =>
               c \in Range(rt[r].pipe) \/ c \in rt[r].handlers,
           \A c \in Conns : IF place[c] \in Fresh THEN place'[c] = place[c]
                                                  ELSE place'[c] \notin Fresh,
           \A c \in Conns : place'[c] = "piped" =>
               /\ place[c] = "piped"
               /\ c \in Range(rt[r].pipe) /\ Keeps(rt[r]) /\ (c \in early \/ rt[r].spoilt) =>
                    c \in Range(v.pipe) /\ Keeps(v) /\ (c \in early \/ v.spoilt),
           \A c \in Conns : place'[c] = "lost" =>
               /\ place[c] = "lost"
               /\ c \in rt[r].refused /\ rt[r].overtaken => c \in v.refused /\ v.overtaken,
           \A c \in Conns : place'[c] = "handled" =>
               \/ c \in v.handlers /\ Tells(v)
               \/ place[c] = "handled" /\ ~(c \in rt[r].handlers /\ Tells(rt[r]))
    PROVE  PlacesInv'
  <1>1. rt'[r] = v /\ \A q \in Reactors : q # r => rt'[q] = rt[q]
    BY DEF ControlInv, ServerTypeOK
  <1>2. FreshOK'
    BY <1>1 DEF PlacesInv, FreshOK
  <1>3. \A q \in Reactors : StopBehind(rt'[q].pipe, early') /\ TableOK(rt'[q])
    BY <1>1 DEF PlacesInv
  <1>4. NoneAccepted'
    BY DEF PlacesInv, NoneAccepted, Fresh
  <1>5. HeldOK'
    BY DEF PlacesInv, HeldOK, Holds, Fresh
  <1>6. ASSUME NEW c \in Conns PROVE HasPlace(c)'
    <2>1. HasPlace(c)
      BY DEF PlacesInv
    <2>2. place'[c] \in {"backlog", "accepted"} => place[c] = place'[c]
      BY DEF Fresh
    <2>3. place'[c] = "backlog" => socket'.fd = "listening"
      BY <2>1, <2>2 DEF HasPlace
    <2>4. place'[c] = "accepted" => \E a \in Acceptors : Holds(a, c)'
      BY <2>1, <2>2 DEF HasPlace, Holds
    <2>5. ASSUME place'[c] = "lost"
          PROVE  \E q \in Reactors : c \in rt'[q].refused /\ rt'[q].overtaken
      <3>1. PICK q \in Reactors : c \in rt[q].refused /\ rt[q].overtaken
        BY <2>1, <2>5 DEF HasPlace
      <3>2. QED
        BY <1>1, <2>5, <3>1
    <2>6. ASSUME place'[c] = "piped", c \in early \/ mode # "thread"
          PROVE  \E q \in Reactors : /\ c \in Range(rt'[q].pipe) /\ Keeps(rt'[q])
                                     /\ c \in early \/ rt'[q].spoilt
      <3>1. PICK q \in Reactors : /\ c \in Range(rt[q].pipe) /\ Keeps(rt[q])
                                  /\ c \in early \/ rt[q].spoilt
        BY <2>1, <2>6 DEF HasPlace
      <3>2. QED
        BY <1>1, <2>6, <3>1
    <2>7. ASSUME place'[c] = "handled"
          PROVE  \E q \in Reactors : c \in rt'[q].handlers /\ Tells(rt'[q])
      <3>1. CASE c \in v.handlers /\ Tells(v)
        BY <1>1, <3>1
      <3>2. CASE place[c] = "handled" /\ ~(c \in rt[r].handlers /\ Tells(rt[r]))
        <4>1. PICK q \in Reactors : c \in rt[q].handlers /\ Tells(rt[q])
          BY <2>1, <3>2 DEF HasPlace
        <4>2. QED
          BY <1>1, <3>2, <4>1
      <3>3. QED
        BY <2>7, <3>1, <3>2
    <2>8. QED
      BY <2>3, <2>4, <2>5, <2>6, <2>7 DEF HasPlace
  <1>7. QED
    BY <1>2, <1>3, <1>4, <1>5, <1>6 DEF PlacesInv

\* A reactor has handled what woke it, has become x, and looks into wait_events_: if it
\* finds a STOP, it will not read its pipe and is known as one that does not.
LEMMA LookPlaces ==
    ASSUME ControlInv, PlacesInv, NEW r \in Reactors, NEW x \in ReactorRecord,
           x.thread = "looping", rt' = [rt EXCEPT ![r] = LookIntoWaitEvents(x)],
           UNCHANGED <<mode, app, at, socket, early>>,
           StopBehind(x.pipe, early), TableOK(x),
           \A c \in Conns : c \in Range(x.pipe) \/ c \in x.handlers =>
               c \in Range(rt[r].pipe) \/ c \in rt[r].handlers,
           \A c \in Conns : IF place[c] \in Fresh THEN place'[c] = place[c]
                                                  ELSE place'[c] \notin Fresh,
           \A c \in Conns : place'[c] = "piped" =>
               place[c] = "piped" /\ (c \in Range(rt[r].pipe) => c \in Range(x.pipe)),
           rt[r].spoilt => x.spoilt, rt[r].refused \subseteq x.refused,
           rt[r].overtaken => x.overtaken,
           \A c \in Conns : place'[c] = "lost" => place[c] = "lost",
           \A c \in Conns : place'[c] = "handled" =>
               \/ c \in x.handlers
               \/ place[c] = "handled" /\ ~(c \in rt[r].handlers /\ Tells(rt[r]))
    PROVE  PlacesInv'
  <1> DEFINE v == LookIntoWaitEvents(x)
  <1>1. /\ v \in ReactorRecord /\ v.pipe = x.pipe /\ v.handlers = x.handlers /\ v.count = x.count
        /\ v.monitor = x.monitor /\ v.spoilt = x.spoilt /\ v.refused = x.refused
        /\ (v.overtaken <=> x.overtaken \/ x.local)
        /\ v.thread = IF x.local THEN "shutdown" ELSE x.thread
    BY LookIs
  <1>2. rt' = [rt EXCEPT ![r] = v]
    OBVIOUS
  <1> HIDE DEF v
  <1>3. Keeps(v) /\ Tells(v)
    BY <1>1 DEF Keeps, Tells, LiveStates
  <1>4. TableOK(v)
    BY <1>1 DEF TableOK
  <1>5. BeforeAccept' => BeforeAccept
    BY DEF BeforeAccept
  <1>6. QED
    BY <1>1, <1>2, <1>3, <1>4, <1>5, ReactorPlaces

\* A registration of a connection that no reactor has, and that no acceptor thread holds
\* any longer.
LEMMA RegisterPlaces ==
    ASSUME ControlInv, PlacesInv, NEW r \in Reactors, NEW c \in Conns, Register(r, c),
           place[c] \in Fresh, UNCHANGED <<mode, app, socket>>, ~BeforeAccept,
           \A a \in Acceptors : ~Holds(a, c)',
           \A d \in Conns : d # c => \A a \in Acceptors : Holds(a, d)' <=> Holds(a, d),
           mode # "thread" => Serving(r), mode = "thread" => rt[r].thread # "ended",
           rt[r].thread \in {"entering", "looping", "shutdown", "ended"}
    PROVE  PlacesInv'
  <1> DEFINE Refused(v) ==
               /\ rt[r].stop /\ v.pipe = rt[r].pipe /\ v.refused = rt[r].refused \cup {c}
               /\ place' = [place EXCEPT ![c] = "lost"]
             Taken(v) ==
               /\ ~rt[r].stop /\ v.pipe = Append(rt[r].pipe, c) /\ v.refused = rt[r].refused
               /\ Range(v.pipe) = Range(rt[r].pipe) \cup {c}
               /\ place' = [place EXCEPT ![c] = "piped"]
  <1>1. PICK v \in ReactorRecord :
          /\ rt' = [rt EXCEPT ![r] = v]
          /\ v.thread = rt[r].thread /\ v.spoilt = rt[r].spoilt /\ v.overtaken = rt[r].overtaken
          /\ v.handlers = rt[r].handlers /\ v.count = rt[r].count /\ v.monitor = rt[r].monitor
          /\ Refused(v) \/ Taken(v)
    BY RegisterIs DEF ControlInv
  <1>2. /\ rt'[r] = v /\ \A q \in Reactors : q # r => rt'[q] = rt[q]
        /\ place'[c] \in {"piped", "lost"} /\ \A d \in Conns : d # c => place'[d] = place[d]
    BY <1>1 DEF ControlInv, ServerTypeOK
  <1>3. /\ c \notin early /\ \A q \in Reactors : c \notin Range(rt[q].pipe) /\ c \notin rt[q].handlers
        /\ rt[r].pipe \in Seq(Requests) /\ c \in Requests /\ c # MONITOR /\ c # STOP
        /\ Sound(rt[r])
    BY ServerConstants DEF PlacesInv, FreshOK, ControlInv, ServerTypeOK, ReactorRecord, Requests,
                           RunsOK
  <1>4. /\ early' = early \/ early' = early \cup {c}
        /\ STOP \in Range(rt[r].pipe) => early' = early
        /\ c \in early' => rt[r].thread # "shutdown" /\ ~rt[r].stop
        /\ mode # "thread" => c \in early' \/ rt[r].spoilt
    BY <1>3 DEF Register, Serving, AskedToStop, Alive, Sound
  <1>5. c \in early' \/ mode # "thread" =>
          IF rt[r].stop THEN rt[r].overtaken ELSE Keeps(rt[r])
    BY <1>3, <1>4 DEF Serving, Alive, Sound, Keeps, LiveStates
  <1>6. rt[r].stop => rt[r].overtaken /\ early' = early
    <2>1. rt[r].stop => mode # "thread"
      BY <1>3 DEF Sound
    <2>2. QED
      BY <1>3, <1>4, <1>5, <2>1
  <1>7. StopBehind(v.pipe, early') /\ (Distinct(rt[r].pipe) => Distinct(v.pipe))
    <2>1. CASE Refused(v)
      BY <1>6, <2>1 DEF PlacesInv
    <2>2. CASE Taken(v)
      <3>1. \A y \in Range(rt[r].pipe) : y \in early' => y \in early
        BY <1>3, <1>4
      <3>2. STOP \in Range(rt[r].pipe) => c \notin early'
        BY <1>3, <1>4
      <3>3. QED
        BY <1>3, <2>2, <3>1, <3>2, WriteOrder DEF PlacesInv
    <2>3. QED
      BY <1>1, <2>1, <2>2
  <1>8. Range(rt[r].pipe) \subseteq Range(v.pipe) /\ Range(v.pipe) \subseteq Range(rt[r].pipe) \cup {c}
    BY <1>1
  <1>9. TableOK(v)
    BY <1>1, <1>3, <1>7, <1>8 DEF PlacesInv, TableOK
  <1>10. \A q \in Reactors : StopBehind(rt'[q].pipe, early') /\ TableOK(rt'[q])
    <2>1. ASSUME NEW q \in Reactors, q # r PROVE StopBehind(rt[q].pipe, early')
      <3>1. StopBehind(rt[q].pipe, early) /\ c \notin Range(rt[q].pipe) /\ rt[q].pipe \in Seq(Requests)
        BY <1>3 DEF PlacesInv, ControlInv, ServerTypeOK, ReactorRecord
      <3>2. \A k \in 1 .. Len(rt[q].pipe) : rt[q].pipe[k] # c
        BY <3>1 DEF Range
      <3>3. QED
        BY <1>4, <3>1, <3>2 DEF StopBehind
    <2>2. QED
      BY <1>2, <1>7, <1>9, <2>1 DEF PlacesInv
  <1>11. FreshOK'
    <2>1. "piped" \notin Fresh /\ "lost" \notin Fresh
      BY DEF Fresh
    <2>2. ASSUME NEW d \in Conns, place'[d] \in Fresh
          PROVE  d \notin early' /\ \A q \in Reactors : d \notin Range(rt'[q].pipe)
                                                        /\ d \notin rt'[q].handlers
      <3>1. d # c /\ place[d] \in Fresh
        BY <1>2, <2>1, <2>2
      <3>2. d \notin early /\ \A q \in Reactors : d \notin Range(rt[q].pipe) /\ d \notin rt[q].handlers
        BY <3>1 DEF PlacesInv, FreshOK
      <3>3. QED
        BY <1>1, <1>2, <1>4, <1>8, <3>1, <3>2
    <2>3. QED
      BY <2>2 DEF FreshOK
  <1>12. HeldOK'
    BY <1>2 DEF PlacesInv, HeldOK
  <1>13. NoneAccepted'
    BY DEF NoneAccepted, BeforeAccept
  <1>14. ASSUME NEW d \in Conns PROVE HasPlace(d)'
    <2>1. CASE d = c
      <3>1. CASE Refused(v)
        <4>1. place'[c] = "lost" /\ c \in rt'[r].refused /\ rt'[r].overtaken
          BY <1>1, <1>2, <1>6, <3>1 DEF ControlInv, ServerTypeOK
        <4>2. QED
          BY <2>1, <4>1 DEF HasPlace
      <3>2. CASE Taken(v)
        <4>1. /\ place'[c] = "piped" /\ c \in Range(rt'[r].pipe)
              /\ Keeps(rt'[r]) <=> Keeps(rt[r])
              /\ rt'[r].spoilt <=> rt[r].spoilt
          BY <1>1, <1>2, <3>2 DEF ControlInv, ServerTypeOK, Keeps
        <4>2. QED
          BY <1>4, <1>5, <2>1, <3>2, <4>1 DEF HasPlace
      <3>3. QED
        BY <1>1, <3>1, <3>2
    <2>2. CASE d # c
      <3>1. HasPlace(d) /\ place'[d] = place[d] /\ (d \in early' <=> d \in early)
        BY <1>2, <1>4, <2>2 DEF PlacesInv
      <3>2. rt[r].refused \subseteq rt'[r].refused
        BY <1>1, <1>2
      <3>3. \A q \in Reactors : /\ Keeps(rt[q]) => Keeps(rt'[q])
                                /\ Tells(rt[q]) => Tells(rt'[q])
                                /\ rt[q].spoilt => rt'[q].spoilt
                                /\ rt[q].overtaken => rt'[q].overtaken
                                /\ rt'[q].handlers = rt[q].handlers
                                /\ rt[q].refused \subseteq rt'[q].refused
                                /\ Range(rt[q].pipe) \subseteq Range(rt'[q].pipe)
        BY <1>1, <1>2, <1>8, <3>2 DEF Keeps, Tells
      <3>4. QED
        BY <2>2, <3>1, <3>3 DEF HasPlace
    <2>3. QED
      BY <2>1, <2>2
  <1>15. QED
    BY <1>10, <1>11, <1>12, <1>13, <1>14 DEF PlacesInv

LEMMA PlacesInit == Init => PlacesInv
  <1> SUFFICES ASSUME Init PROVE PlacesInv
    OBVIOUS
  <1>1. /\ Range(<<>>) = {} /\ Len(<<>>) = 0 /\ 1 .. 0 = {}
    BY DEF Range
  <1>2. \A r \in Reactors : /\ rt[r].pipe = <<>> /\ rt[r].handlers = {} /\ rt[r].thread = "none"
    BY DEF Init, NewReactor
  <1>3. \A r \in Reactors : StopBehind(rt[r].pipe, early) /\ TableOK(rt[r])
    BY <1>1, <1>2 DEF StopBehind, TableOK
  <1>4. FreshOK
    BY <1>1, <1>2 DEF Init, FreshOK
  <1>5. HeldOK
    BY DEF Init, HeldOK, Holds
  <1>6. (\A c \in Conns : HasPlace(c)) /\ NoneAccepted
    BY DEF Init, HasPlace, NoneAccepted
  <1>7. QED
    BY <1>3, <1>4, <1>5, <1>6 DEF PlacesInv

LEMMA RunBeginPlaces ==
    ASSUME ControlInv, PlacesInv, NEW r \in Reactors, RunBegin(r)
    PROVE  PlacesInv'
  <1>1. rt[r].thread = "created" /\ rt[r] \in ReactorRecord /\ rt[r].pipe = <<>>
    BY DEF RunBegin, ControlInv, ServerTypeOK, RunsOK, Sound
  <1>2. PICK created \in {FALSE, rt[r].factory} : rt' = [rt EXCEPT ![r] = Running(r, created)]
    BY DEF RunBegin
  <1> DEFINE p == IF created THEN <<MONITOR>> ELSE <<>>
             v == Running(r, created)
  <1>3. p \in Seq(Requests) /\ Len(p) \in {0, 1} /\ Range(p) = IF created THEN {MONITOR} ELSE {}
    <2>1. Range(<<>>) = {} /\ Range(<<MONITOR>>) = {MONITOR}
      BY DEF Range
    <2>2. MONITOR \in Requests
      BY DEF Requests
    <2>3. CASE created
      BY <2>1, <2>2, <2>3
    <2>4. CASE ~created
      BY <2>1, <2>2, <2>4
    <2>5. QED
      BY <2>3, <2>4
  <1>4. (IF created THEN Append(<<>>, MONITOR) ELSE <<>>) = p
    OBVIOUS
  <1> HIDE DEF p
  <1>5. /\ v \in ReactorRecord /\ v.thread = "entering" /\ v.pipe = p
        /\ v.monitor = IF created THEN "raised" ELSE "none"
        /\ v.handlers = rt[r].handlers /\ v.count = rt[r].count
        /\ v.refused = rt[r].refused /\ v.overtaken = rt[r].overtaken
    BY <1>1, <1>3, <1>4 DEF ReactorRecord, ThreadStates, Running
  <1> HIDE DEF v
  <1>6. \A j, k \in 1 .. Len(p) : j = k
    <2>1. CASE Len(p) = 0
      BY <2>1
    <2>2. CASE Len(p) = 1
      BY <2>2
    <2>3. QED
      BY <1>3, <2>1, <2>2
  <1>7. StopBehind(v.pipe, early)
    <2>1. \A j, k \in 1 .. Len(p) : ~(j < k)
      <3> TAKE j, k \in 1 .. Len(p)
      <3>1. j = k /\ j \in Int
        BY <1>6
      <3>2. QED
        BY <3>1
    <2>2. QED
      BY <1>5, <2>1 DEF StopBehind
  <1>8. TableOK(v)
    <2>1. rt[r].handlers = {} /\ rt[r].count = 0
      BY <1>1 DEF PlacesInv, TableOK
    <2>2. Cardinality(v.handlers) = 0 /\ v.count = 0 /\ v.monitor # "registered"
      BY <1>5, <2>1, FS_EmptySet
    <2>3. Distinct(v.pipe)
      BY <1>5, <1>6 DEF Distinct
    <2>4. QED
      BY <1>3, <1>5, <2>1, <2>2, <2>3 DEF TableOK
  <1>9. \A c \in Conns : c \notin Range(p)
    BY <1>3, ServerConstants
  <1>10. UNCHANGED <<mode, at, socket, place, early>>
    BY DEF RunBegin, config, listening
  <1>11. BeforeAccept' => BeforeAccept
    <2>1. app' = app \/ (app.pc = "asleep" /\ app' = [app EXCEPT !.pc = "woken"])
      BY DEF RunBegin
    <2>2. app' = app \/ (app.pc = "asleep" /\ app'.pc = "woken")
      BY <2>1 DEF ControlInv, ServerTypeOK
    <2>3. QED
      BY <1>10, <2>2 DEF BeforeAccept
  <1>12. Range(<<>>) = {}
    BY DEF Range
  <1>13. rt' = [rt EXCEPT ![r] = v]
    BY <1>2 DEF v
  <1>14. QED
    BY <1>1, <1>5, <1>7, <1>8, <1>9, <1>10, <1>11, <1>12, <1>13, ReactorPlaces DEF Tells

LEMMA ShutdownPlaces ==
    ASSUME ControlInv, PlacesInv, NEW r \in Reactors, RunShutdown(r)
    PROVE  PlacesInv'
  <1> DEFINE v == [rt[r] EXCEPT !.monitor = "none", !.thread = "ended",
                                !.stop = TRUE, !.is_run = FALSE]
  <1>1. /\ rt[r].thread = "shutdown" /\ rt[r] \in ReactorRecord
        /\ rt' = [rt EXCEPT ![r] = v]
        /\ UNCHANGED <<mode, app, at, socket, early>>
    BY DEF RunShutdown, ControlInv, ServerTypeOK, config, caller, listening
  <1>2. /\ v \in ReactorRecord /\ v.thread = "ended" /\ v.pipe = rt[r].pipe
        /\ v.handlers = rt[r].handlers /\ v.refused = rt[r].refused
        /\ v.overtaken = rt[r].overtaken /\ v.spoilt = rt[r].spoilt
    BY <1>1 DEF ReactorRecord, ThreadStates
  <1> HIDE DEF v
  <1>3. StopBehind(v.pipe, early) /\ TableOK(v)
    BY <1>2 DEF PlacesInv, TableOK
  <1>4. BeforeAccept' => BeforeAccept
    BY <1>1 DEF BeforeAccept
  <1>5. \A c \in Conns : place'[c] = IF c \in rt[r].handlers THEN "shutdown" ELSE place[c]
    BY DEF RunShutdown
  <1>6. \A c \in rt[r].handlers : c \in Conns => place[c] \notin Fresh
    BY DEF PlacesInv, FreshOK
  <1>7. "shutdown" \notin Fresh /\ (Keeps(rt[r]) => Keeps(v))
    BY <1>1, <1>2 DEF Fresh, Keeps, LiveStates
  <1>8. QED
    BY <1>1, <1>2, <1>3, <1>4, <1>5, <1>6, <1>7, ReactorPlaces

\* A later wait(), or the first.
LEMMA WaitPlaces ==
    ASSUME ControlInv, PlacesInv, NEW r \in Reactors, FirstWait(r) \/ LoopWakes(r)
    PROVE  PlacesInv'
  <1>1. rt[r] \in ReactorRecord /\ UNCHANGED <<mode, app, at, socket, place, early>>
    BY DEF FirstWait, LoopWakes, ControlInv, ServerTypeOK, config, caller, listening
  <1>2. CASE LoopWakes(r)
    BY <1>1, <1>2, LookPlaces DEF LoopWakes, PlacesInv
  <1>3. CASE FirstWait(r)
    <2> DEFINE x == [rt[r] EXCEPT !.waited = TRUE, !.thread = "looping"]
    <2>1. /\ rt[r].thread = "entering" /\ rt' = [rt EXCEPT ![r] = LookIntoWaitEvents(x)]
      BY <1>3 DEF FirstWait
    <2>2. /\ x \in ReactorRecord /\ x.thread = "looping" /\ x.pipe = rt[r].pipe
          /\ x.handlers = rt[r].handlers /\ x.count = rt[r].count /\ x.monitor = rt[r].monitor
          /\ x.spoilt = rt[r].spoilt /\ x.refused = rt[r].refused
          /\ x.overtaken = rt[r].overtaken
      BY <1>1 DEF ReactorRecord, ThreadStates
    <2> HIDE DEF x
    <2>3. StopBehind(x.pipe, early) /\ TableOK(x) /\ ~Tells(rt[r])
      BY <2>1, <2>2 DEF PlacesInv, TableOK, Tells
    <2>4. QED
      BY <1>1, <2>1, <2>2, <2>3, LookPlaces
  <1>4. QED
    BY <1>2, <1>3

LEMMA LeavePlaces ==
    ASSUME ControlInv, PlacesInv, NEW r \in Reactors, NEW c \in Conns, HandlerLeaves(r, c)
    PROVE  PlacesInv'
  <1> DEFINE hs == rt[r].handlers \ {c}
             cnt == rt[r].count - 1
             v == Without(r, c)
  <1>1. /\ rt[r].thread = "looping" /\ c \in rt[r].handlers /\ rt[r] \in ReactorRecord
        /\ place[c] = "handled" /\ rt[r].count \in Int /\ rt[r].handlers \in SUBSET Conns
    BY DEF HandlerLeaves, ControlInv, ServerTypeOK, ReactorRecord
  <1>2. /\ rt' = [rt EXCEPT ![r] = LookIntoWaitEvents(v)]
        /\ UNCHANGED <<mode, app, at, socket, early>>
    BY DEF HandlerLeaves, config, caller, listening
  <1>3. hs \in SUBSET Conns /\ cnt \in Int
    BY <1>1
  <1>4. Cardinality(hs) = Cardinality(rt[r].handlers) - 1 /\ Cardinality(rt[r].handlers) \in Nat
    <2>1. IsFiniteSet(rt[r].handlers)
      BY <1>1, ServerConstants, FS_Subset
    <2>2. QED
      BY <1>1, <2>1, FS_RemoveElement, FS_CardinalityType
  <1>v. v = [rt[r] EXCEPT !.handlers = hs, !.count = cnt]
    BY <1>1 DEF Without, ReactorRecord
  <1> HIDE DEF hs, cnt, v
  <1>5. /\ v \in ReactorRecord /\ v.thread = "looping" /\ v.pipe = rt[r].pipe /\ v.handlers = hs
        /\ v.count = cnt /\ v.monitor = rt[r].monitor /\ v.spoilt = rt[r].spoilt
        /\ v.refused = rt[r].refused /\ v.overtaken = rt[r].overtaken
    BY <1>1, <1>3, <1>v DEF ReactorRecord
  <1>6. TableOK(v)
    <2>1. /\ Distinct(v.pipe) /\ Range(v.pipe) \cap v.handlers = {}
          /\ MONITOR \in Range(v.pipe) => v.monitor = "raised"
      BY <1>1, <1>5 DEF PlacesInv, TableOK, hs
    <2>2. rt[r].count = Cardinality(rt[r].handlers) + (IF rt[r].monitor = "registered" THEN 1 ELSE 0)
      BY <1>1 DEF PlacesInv, TableOK
    <2>3. v.count = Cardinality(v.handlers) + (IF v.monitor = "registered" THEN 1 ELSE 0)
      BY <1>1, <1>4, <1>5, <2>2 DEF cnt
    <2>4. QED
      BY <1>5, <2>1, <2>3 DEF TableOK
  <1>7. StopBehind(v.pipe, early)
    BY <1>5 DEF PlacesInv
  <1>8. \A d \in Conns : place'[d] = IF d = c THEN "closed" ELSE place[d]
    BY DEF HandlerLeaves, ControlInv, ServerTypeOK
  <1>9. "closed" \notin Fresh /\ "handled" \notin Fresh
    BY DEF Fresh
  <1>10. \A d \in Conns : d \in v.handlers <=> d \in rt[r].handlers /\ d # c
    BY <1>5 DEF hs
  <1>11. \A d \in Conns : place'[d] = "handled" =>
            d \in v.handlers \/ (place[d] = "handled" /\ ~(d \in rt[r].handlers /\ Tells(rt[r])))
    BY <1>8, <1>10
  <1>12. QED
    BY <1>1, <1>2, <1>5, <1>6, <1>7, <1>8, <1>9, <1>10, <1>11, LookPlaces

LEMMA DispatchPlaces ==
    ASSUME ControlInv, PlacesInv, NEW r \in Reactors, Dispatch(r)
    PROVE  PlacesInv'
  <1>1. /\ rt[r].thread = "looping" /\ rt[r] \in ReactorRecord /\ rt[r].pipe \in Seq(Requests)
        /\ rt[r].handlers \in SUBSET Conns /\ rt[r].count \in Int
    BY DEF Dispatch, ControlInv, ServerTypeOK, ReactorRecord
  <1>2. PICK k \in 1 .. Len(rt[r].pipe) : DispatchBatch(r, SubSeq(rt[r].pipe, 1, k))
    BY DEF Dispatch
  <1> DEFINE b == SubSeq(rt[r].pipe, 1, k)
             v == Dispatched(r, b)
             new == Range(b) \cap Conns
  <1>3. /\ rt' = [rt EXCEPT ![r] = IF STOP \in Range(b) THEN v ELSE LookIntoWaitEvents(v)]
        /\ UNCHANGED <<mode, app, at, socket, early>>
    BY <1>2 DEF DispatchBatch, Dispatch, config, caller, listening
  <1>4. \A c \in Conns : place'[c] = IF c \in Range(b) THEN "handled" ELSE place[c]
    BY <1>2 DEF DispatchBatch
  <1>5. /\ v \in ReactorRecord
        /\ v.pipe = SubSeq(rt[r].pipe, Len(b) + 1, Len(rt[r].pipe))
        /\ v.thread = (IF STOP \in Range(b) THEN "shutdown" ELSE "looping")
        /\ v.handlers = rt[r].handlers \cup new
        /\ v.monitor = (IF MONITOR \in Range(b) THEN "registered" ELSE rt[r].monitor)
        /\ v.count = rt[r].count + Cardinality(Range(b) \cap (Conns \cup {MONITOR}))
        /\ v.spoilt = rt[r].spoilt /\ v.overtaken = rt[r].overtaken /\ v.refused = rt[r].refused
    BY <1>1, DispatchedIs
  <1>6. /\ Range(v.pipe) \subseteq Range(rt[r].pipe) /\ Range(b) \subseteq Range(rt[r].pipe)
        /\ \A x \in Range(rt[r].pipe) : x \in Range(b) \/ x \in Range(v.pipe)
    <2> HIDE DEF v
    <2>1. QED
      BY <1>1, <1>5, PipeCut
  <1>7. StopBehind(rt[r].pipe, early) /\ Distinct(rt[r].pipe)
    BY <1>1 DEF PlacesInv, TableOK
  <1>8. /\ StopBehind(v.pipe, early) /\ Distinct(v.pipe)
        /\ STOP \in Range(b) => \A x \in Range(v.pipe) : x \notin early
        /\ \A x \in Range(b) : x \in Range(v.pipe) => x = STOP
    <2> HIDE DEF v
    <2>1. QED
      BY <1>1, <1>5, <1>7, CutOrder
  <1> HIDE DEF v, b
  <1>9. TableOK(v)
    <2>1. /\ Range(rt[r].pipe) \cap rt[r].handlers = {}
          /\ MONITOR \in Range(rt[r].pipe) => rt[r].monitor = "raised"
          /\ rt[r].count = Cardinality(rt[r].handlers)
                             + (IF rt[r].monitor = "registered" THEN 1 ELSE 0)
      BY <1>1 DEF PlacesInv, TableOK
    <2>2. STOP \notin Conns /\ MONITOR \notin Conns /\ STOP # MONITOR
      BY ServerConstants DEF STOP, MONITOR
    <2>3. Range(v.pipe) \cap v.handlers = {}
      BY <1>5, <1>6, <1>8, <2>1, <2>2
    <2>4. MONITOR \in Range(v.pipe) => v.monitor = "raised"
      BY <1>5, <1>6, <1>8, <2>1, <2>2
    <2>5. IsFiniteSet(rt[r].handlers) /\ IsFiniteSet(new) /\ rt[r].handlers \cap new = {}
      BY <1>1, <1>6, <2>1, ServerConstants, FS_Subset
    <2>6. /\ Cardinality(v.handlers) = Cardinality(rt[r].handlers) + Cardinality(new)
          /\ Cardinality(rt[r].handlers) \in Nat /\ Cardinality(new) \in Nat
      <3>1. Cardinality({}) = 0
        BY FS_EmptySet
      <3>2. Cardinality(rt[r].handlers) \in Nat /\ Cardinality(new) \in Nat
        BY <2>5, FS_CardinalityType
      <3> HIDE DEF new
      <3>3. Cardinality(rt[r].handlers \cup new) =
              Cardinality(rt[r].handlers) + Cardinality(new) - Cardinality(rt[r].handlers \cap new)
        BY <2>5, FS_Union
      <3>4. Cardinality(rt[r].handlers \cap new) = 0
        BY <2>5, <3>1
      <3>5. Cardinality(rt[r].handlers \cup new) = Cardinality(rt[r].handlers) + Cardinality(new)
        BY <3>2, <3>3, <3>4
      <3>6. QED
        BY <1>5, <3>2, <3>5
    <2>7. Cardinality(Range(b) \cap (Conns \cup {MONITOR})) =
            Cardinality(new) + (IF MONITOR \in Range(b) THEN 1 ELSE 0)
      <3>1. CASE MONITOR \in Range(b)
        <4>1. Range(b) \cap (Conns \cup {MONITOR}) = new \cup {MONITOR} /\ MONITOR \notin new
          BY <2>2, <3>1
        <4> HIDE DEF new
        <4>2. Cardinality(new \cup {MONITOR}) = Cardinality(new) + 1
          BY <2>5, <4>1, FS_AddElement
        <4>3. QED
          BY <3>1, <4>1, <4>2
      <3>2. CASE MONITOR \notin Range(b)
        <4>1. Range(b) \cap (Conns \cup {MONITOR}) = new
          BY <3>2
        <4> HIDE DEF new
        <4>2. Cardinality(new) = Cardinality(new) + (IF MONITOR \in Range(b) THEN 1 ELSE 0)
          BY <2>6, <3>2
        <4>3. QED
          BY <4>1, <4>2
      <3>3. QED
        BY <3>1, <3>2
    <2>8. v.count = Cardinality(v.handlers) + (IF v.monitor = "registered" THEN 1 ELSE 0)
      <3>1. CASE MONITOR \in Range(b)
        <4>1. rt[r].monitor = "raised" /\ v.monitor = "registered"
          BY <1>5, <1>6, <2>1, <3>1
        <4>2. QED
          BY <1>5, <2>1, <2>6, <2>7, <3>1, <4>1
      <3>2. CASE MONITOR \notin Range(b)
        BY <1>5, <2>1, <2>6, <2>7, <3>2
      <3>3. QED
        BY <3>1, <3>2
    <2>9. QED
      BY <1>5, <1>8, <2>3, <2>4, <2>8 DEF TableOK
  <1>10. BeforeAccept' => BeforeAccept
    BY <1>3 DEF BeforeAccept
  <1>11. "handled" \notin Fresh /\ \A c \in Conns : c \in Range(b) => place[c] \notin Fresh
    BY <1>6 DEF Fresh, PlacesInv, FreshOK
  <1>12. \A c \in Conns : c \in Range(v.pipe) \/ c \in v.handlers =>
            c \in Range(rt[r].pipe) \/ c \in rt[r].handlers
    BY <1>5, <1>6
  <1>13. \A c \in Conns : IF place[c] \in Fresh THEN place'[c] = place[c] ELSE place'[c] \notin Fresh
    BY <1>4, <1>11
  <1>14. ~rt[r].spoilt
    BY <1>1 DEF ControlInv, RunsOK, Sound
  <1>15. \A c \in Conns : place'[c] \in {"piped", "lost"} => place[c] = place'[c] /\ c \notin Range(b)
    BY <1>4
  <1>16. \A c \in Conns : place'[c] = "handled" =>
           c \in v.handlers \/ (place[c] = "handled" /\ ~(c \in rt[r].handlers /\ Tells(rt[r])))
    BY <1>4, <1>5
  <1>17. CASE STOP \in Range(b)
    <2>1. rt' = [rt EXCEPT ![r] = v] /\ Tells(v)
      BY <1>3, <1>5, <1>17 DEF Tells
    <2>2. \A c \in early : c \in Range(rt[r].pipe) => c \in Range(b)
      BY <1>6, <1>8, <1>17
    <2>3. QED
      BY <1>3, <1>5, <1>8, <1>9, <1>10, <1>12, <1>13, <1>14, <1>15, <1>16, <2>1, <2>2, ReactorPlaces
  <1>18. CASE STOP \notin Range(b)
    <2>1. rt' = [rt EXCEPT ![r] = LookIntoWaitEvents(v)] /\ v.thread = "looping"
      BY <1>3, <1>5, <1>18
    <2>2. QED
      BY <1>3, <1>5, <1>6, <1>8, <1>9, <1>12, <1>13, <1>15, <1>16, <2>1, LookPlaces
  <1>19. QED
    BY <1>17, <1>18

LEMMA ReactorsPlaces ==
    ASSUME ControlInv, PlacesInv, StartReactor \/ StopReactor \/ StopInWaitEvents \/ JoinReactor
    PROVE  PlacesInv'
  <1> DEFINE r == app.i
  <1>1. UNCHANGED <<mode, at, socket, place, early>>
    BY DEF StartReactor, StopReactor, StopInWaitEvents, JoinReactor, listening, config
  <1>2. /\ ServerTypeOK /\ app \in AppRecord /\ app.i \in Nat \ {0} /\ n \in Nat
        /\ rt \in [Reactors -> ReactorRecord]
    BY DEF ControlInv, ServerTypeOK
  <1>3. r \in 1 .. n
    BY <1>2 DEF StartReactor, StopReactor, StopInWaitEvents, JoinReactor, ControlInv, CallerOK
  <1>4. r \in Reactors /\ rt[r] \in ReactorRecord /\ rt[r].pipe \in Seq(Requests)
    BY <1>2, <1>3, ReactorsThere DEF ReactorRecord
  <1>5. StopBehind(rt[r].pipe, early) /\ TableOK(rt[r])
    BY <1>4 DEF PlacesInv
  <1>6. BeforeAccept' => BeforeAccept
    <2>1. CASE StartReactor
      BY <1>1, <2>1 DEF StartReactor, BeforeAccept
    <2>2. CASE app.pc \in {"undo", "undo_local", "undo_join"}
      BY <1>1, <2>2 DEF BeforeAccept
    <2>3. CASE StopReactor /\ app.pc = "stop_reactors"
      <3>1. app'.pc \in {"stop_local", "stop_reactors", "join_reactor"}
        BY <1>2, <2>3, CallerGoes DEF StopReactor, ThenJoin, StopOf, JoinOf, Pcs, StopPcs
      <3>2. QED
        BY <3>1 DEF BeforeAccept
    <2>4. CASE StopInWaitEvents /\ app.pc = "stop_local"
      <3>1. app'.pc \in {"stop_reactors", "join_reactor"}
        BY <1>2, <2>4, CallerGoes DEF StopInWaitEvents, ThenJoin, StopOf, JoinOf, Pcs, StopPcs
      <3>2. QED
        BY <3>1 DEF BeforeAccept
    <2>5. CASE JoinReactor /\ app.pc = "join_reactor"
      <3>1. app'.pc = "stop_reactors"
        BY <1>2, <2>5, CallerGoes DEF JoinReactor, Pcs, StopPcs
      <3>2. QED
        BY <3>1 DEF BeforeAccept
    <2>6. QED
      BY <2>1, <2>2, <2>3, <2>4, <2>5 DEF StopReactor, StopInWaitEvents, JoinReactor
  <1>7. CASE StartReactor
    <2> DEFINE v == [InitAgain(r) EXCEPT !.thread = "created"]
    <2>1. app.pc = "start_reactors" /\ rt' = [rt EXCEPT ![r] = v]
      BY <1>7 DEF StartReactor
    <2>2. ~(r < r)
      BY <1>2
    <2>3. HasNone(r)
      BY <1>3, <2>1, <2>2 DEF ControlInv, ThreadsOK, NotRun, HasNone
    <2>4. /\ v \in ReactorRecord /\ v.thread = "created" /\ v.pipe = <<>> /\ v.count = 0
          /\ v.handlers = rt[r].handlers
      <3>1. /\ InitAgain(r) \in ReactorRecord /\ InitAgain(r).handlers = rt[r].handlers
            /\ InitAgain(r).pipe = <<>> /\ InitAgain(r).count = 0
        BY <1>4, InitAgainIs
      <3>2. QED
        BY <3>1 DEF ReactorRecord, ThreadStates
    <2> HIDE DEF v, r
    <2>5. \A c \in Conns : place[c] \in {"none", "backlog"}
      BY <2>1 DEF PlacesInv, NoneAccepted, BeforeAccept
    <2>6. v.handlers = {}
      <3>1. rt[r].handlers \subseteq Conns
        BY <1>4 DEF ReactorRecord
      <3>2. \A c \in Conns : c \notin rt[r].handlers
        BY <1>4, <2>5 DEF PlacesInv, FreshOK, Fresh
      <3>3. QED
        BY <2>4, <3>1, <3>2
    <2>7. Range(<<>>) = {} /\ Len(<<>>) = 0 /\ 1 .. 0 = {}
      BY DEF Range
    <2>8. StopBehind(v.pipe, early) /\ TableOK(v)
      BY <2>4, <2>6, <2>7 DEF StopBehind, TableOK
    <2>9. QED
      BY <1>1, <1>4, <1>6, <2>1, <2>4, <2>5, <2>6, <2>7, <2>8, ReactorPlaces
  <1>8. CASE StopReactor /\ ToWaitEvents(r)
    <2>1. rt' = [rt EXCEPT ![r] = rt[r]]
      BY <1>2, <1>8 DEF StopReactor
    <2> HIDE DEF r
    <2>2. QED
      BY <1>1, <1>4, <1>5, <1>6, <2>1, ReactorPlaces
  <1>9. CASE StopReactor /\ ~ToWaitEvents(r)
    <2> DEFINE p == Append(rt[r].pipe, STOP)
               v == [rt[r] EXCEPT !.pipe = p]
    <2>1. rt' = [rt EXCEPT ![r] = v]
      BY <1>2, <1>4, <1>9 DEF StopReactor
    <2>2. STOP \in Requests /\ STOP \notin Conns /\ STOP # MONITOR /\ early \subseteq Conns
      BY <1>2, ServerConstants DEF Requests, ServerTypeOK, STOP, MONITOR
    <2>3. p \in Seq(Requests) /\ Range(p) = Range(rt[r].pipe) \cup {STOP}
      BY <1>4, <2>2, PipeWrite
    <2>4. StopBehind(p, early) /\ (Distinct(rt[r].pipe) => Distinct(p))
      BY <1>4, <1>5, <2>2, WriteOrder
    <2> HIDE DEF p
    <2>5. /\ v \in ReactorRecord /\ v.thread = rt[r].thread /\ v.pipe = p /\ v.count = rt[r].count
          /\ v.handlers = rt[r].handlers /\ v.monitor = rt[r].monitor /\ v.handlers \in SUBSET Conns
          /\ v.spoilt = rt[r].spoilt /\ v.refused = rt[r].refused /\ v.overtaken = rt[r].overtaken
      BY <1>4, <2>3 DEF ReactorRecord
    <2> HIDE DEF v, r
    <2>6. TableOK(v)
      BY <1>5, <2>2, <2>3, <2>4, <2>5 DEF TableOK
    <2>7. QED
      BY <1>1, <1>4, <1>6, <2>1, <2>2, <2>3, <2>4, <2>5, <2>6, ReactorPlaces DEF Keeps, Tells
  <1>10. CASE StopInWaitEvents
    <2> DEFINE f == rt[r].spoilt \/ rt[r].thread = "none"
               v == ToldEarly(r)
    <2>1. rt' = [rt EXCEPT ![r] = v]
      BY <1>10 DEF StopInWaitEvents
    <2>2. f \in BOOLEAN /\ (rt[r].spoilt => f)
      BY <1>4 DEF ReactorRecord
    <2>3. v = [rt[r] EXCEPT !.local = TRUE, !.spoilt = f]
      BY DEF ToldEarly
    <2> HIDE DEF f, v
    <2>4. /\ v \in ReactorRecord /\ v.thread = rt[r].thread /\ v.pipe = rt[r].pipe
          /\ v.count = rt[r].count /\ v.handlers = rt[r].handlers /\ v.monitor = rt[r].monitor
          /\ v.spoilt = f /\ v.refused = rt[r].refused /\ v.overtaken = rt[r].overtaken
      BY <1>4, <2>2, <2>3 DEF ReactorRecord
    <2> HIDE DEF r
    <2>5. StopBehind(v.pipe, early) /\ TableOK(v)
      BY <1>5, <2>4 DEF TableOK
    <2>6. (Keeps(rt[r]) => Keeps(v)) /\ (Tells(rt[r]) => Tells(v))
      BY <2>4 DEF Keeps, Tells
    <2>7. QED
      BY <1>1, <1>4, <1>6, <2>1, <2>2, <2>4, <2>5, <2>6, ReactorPlaces
  <1>11. CASE JoinReactor
    <2> DEFINE v == [rt[r] EXCEPT !.thread = "none"]
    <2>1. rt' = [rt EXCEPT ![r] = v] /\ rt[r].thread = "ended"
      BY <1>2, <1>4, <1>11 DEF JoinReactor
    <2>2. /\ v \in ReactorRecord /\ v.thread = "none" /\ v.pipe = rt[r].pipe
          /\ v.handlers = rt[r].handlers /\ v.spoilt = rt[r].spoilt
          /\ v.refused = rt[r].refused /\ v.overtaken = rt[r].overtaken
      BY <1>4 DEF ReactorRecord, ThreadStates
    <2> HIDE DEF v, r
    <2>3. StopBehind(v.pipe, early) /\ TableOK(v)
      BY <1>5, <2>2 DEF TableOK
    <2>4. (Keeps(rt[r]) => Keeps(v)) /\ ~Tells(rt[r])
      BY <2>1, <2>2 DEF Keeps, LiveStates, Tells
    <2>5. QED
      BY <1>1, <1>4, <1>6, <2>1, <2>2, <2>3, <2>4, ReactorPlaces
  <1>12. QED
    BY <1>7, <1>8, <1>9, <1>10, <1>11

\* start() adds reactors that have no thread.
LEMMA StartPlaces ==
    ASSUME ControlInv, PlacesInv, Start
    PROVE  PlacesInv'
  <1>1. /\ app.pc \in {"idle", "failed"}
        /\ UNCHANGED <<mode, at, socket, place, early>>
    BY DEF Start, config, listening
  <1>2. /\ Range(<<>>) = {} /\ Len(<<>>) = 0 /\ 1 .. 0 = {}
    BY DEF Range
  <1>3. \A r \in Reactors : /\ rt'[r].pipe = <<>> /\ rt'[r].handlers = {} /\ rt'[r].thread = "none"
                            \/ rt'[r] = rt[r]
    BY DEF Start, NewReactor
  <1>4. \A r \in Reactors : StopBehind(rt'[r].pipe, early') /\ TableOK(rt'[r])
    BY <1>1, <1>2, <1>3 DEF PlacesInv, StopBehind, TableOK
  <1>5. FreshOK'
    BY <1>1, <1>2, <1>3 DEF PlacesInv, FreshOK
  <1>6. HeldOK'
    BY <1>1 DEF PlacesInv, HeldOK, Holds
  <1>7. NoneAccepted' /\ \A c \in Conns : place[c] \in {"none", "backlog"}
    BY <1>1 DEF PlacesInv, NoneAccepted, BeforeAccept
  <1>8. \A c \in Conns : HasPlace(c)'
    BY <1>1, <1>7 DEF PlacesInv, HasPlace
  <1>9. QED
    BY <1>4, <1>5, <1>6, <1>7, <1>8 DEF PlacesInv

\* The steps of the caller that change no reactor.
LEMMA CallerPlaces ==
    ASSUME ControlInv, ControlInv', PlacesInv,
           \/ Listen \/ PrepareSsl \/ ReactorStarted \/ AwaitReactor \/ StartAcceptor \/ AcceptorStarted
           \/ StopBegin \/ StopAcceptor \/ JoinAcceptor \/ AcceptorsStopped \/ StartFailed \/ StopEnd
           \/ Wait
    PROVE  PlacesInv'
  <1> USE DEF config, threads, listening
  <1>1. UNCHANGED <<mode, rt, n, early>>
    BY DEF Listen, PrepareSsl, ReactorStarted, AwaitReactor, StartAcceptor, AcceptorStarted, StopBegin,
           StopAcceptor, JoinAcceptor, AcceptorsStopped, StartFailed, StopEnd, Wait
  <1>2. \A a \in Acceptors : \A c \in Conns : Holds(a, c)' <=> Holds(a, c)
    <2>1. at' = at \/ StartAcceptor \/ JoinAcceptor
      BY DEF Listen, PrepareSsl, ReactorStarted, AwaitReactor, AcceptorStarted, StopBegin,
             StopAcceptor, AcceptorsStopped, StartFailed, StopEnd, Wait
    <2>2. CASE at' = at
      BY <2>2 DEF Holds
    <2>3. CASE StartAcceptor
      <3>1. /\ at \in [Acceptors -> AcceptorRecord] /\ app.i \in Acceptors /\ at[app.i].pc = "none"
            /\ at' = [at EXCEPT ![app.i].pc = "created"]
        BY <2>3 DEF StartAcceptor, ControlInv, ServerTypeOK, CallerOK, AcceptorsOK, Acceptors
      <3>2. QED
        BY <3>1 DEF Holds, AcceptorRecord
    <2>4. CASE JoinAcceptor
      <3>1. /\ at \in [Acceptors -> AcceptorRecord] /\ at[app.i].pc = "ended"
            /\ at' = [at EXCEPT ![app.i].pc = "none"]
        BY <2>4 DEF JoinAcceptor, ControlInv, ServerTypeOK
      <3>2. QED
        BY <3>1 DEF Holds, AcceptorRecord
    <2>5. QED
      BY <2>1, <2>2, <2>3, <2>4
  <1>3. \A c \in Conns : place'[c] = place[c] \/ (place[c] = "backlog" /\ place'[c] = "refused")
    BY DEF Listen, PrepareSsl, ReactorStarted, AwaitReactor, StartAcceptor, AcceptorStarted, StopBegin,
           StopAcceptor, JoinAcceptor, AcceptorsStopped, StartFailed, StopEnd, Wait, Closed
  <1>4. HeldOK'
    BY <1>2, <1>3 DEF PlacesInv, HeldOK
  <1>5. \A c \in Conns : place'[c] = "accepted" => \E a \in Acceptors : Holds(a, c)'
    BY <1>2, <1>3 DEF PlacesInv, HasPlace
  <1>6. \A c \in Conns : place'[c] = "backlog" => socket'.fd = "listening"
    <2>1. CASE socket' = socket /\ place' = place
      BY <2>1 DEF PlacesInv, HasPlace
    <2>2. CASE Listen
      BY <2>2 DEF Listen, PlacesInv, HasPlace, ControlInv, SocketOK
    <2>3. CASE StopAcceptor
      <3>1. socket.fd = "listening" => \A c \in Conns : place'[c] # "backlog"
        BY <2>3 DEF StopAcceptor, Closed
      <3>2. socket.fd # "listening" => place' = place
        BY <2>3 DEF StopAcceptor
      <3>3. QED
        BY <3>1, <3>2 DEF PlacesInv, HasPlace
    <2>4. QED
      BY <2>1, <2>2, <2>3
         DEF PrepareSsl, ReactorStarted, AwaitReactor, StartAcceptor, AcceptorStarted, StopBegin,
             JoinAcceptor, AcceptorsStopped, StartFailed, StopEnd, Wait
  <1>7. NoneAccepted'
    <2> SUFFICES ASSUME BeforeAccept' PROVE \A c \in Conns : place'[c] \in {"none", "backlog"}
      BY DEF NoneAccepted
    <2>1. place' = place
      <3>1. ~StopAcceptor
        <4>1. StopAcceptor => app'.pc \in {"stop_acceptors", "join_acceptor"}
          <5>1. app \in AppRecord
            BY DEF ControlInv, ServerTypeOK
          <5>2. QED
            BY <5>1, CallerGoes DEF StopAcceptor, Pcs, StopPcs
        <4>2. QED
          BY <4>1 DEF BeforeAccept
      <3>2. QED
        BY <3>1 DEF Listen, PrepareSsl, ReactorStarted, AwaitReactor, StartAcceptor, AcceptorStarted, StopBegin,
             JoinAcceptor, AcceptorsStopped, StartFailed, StopEnd, Wait
    <2>2. BeforeAccept
      <3>1. app \in AppRecord
        BY DEF ControlInv, ServerTypeOK
      <3>2. CASE ReactorStarted
        <4>1. mode = "thread" => n = 1 /\ app.i = 1
          <5>1. app.i \in Nat \ {0} /\ app.i <= n /\ (mode = "thread" => n = 1)
            BY <3>1, <3>2 DEF ControlInv, CallerOK, ReactorStarted
          <5>2. QED
            BY <5>1
        <4>2. /\ app.pc \in {"wait_reactor", "woken"}
              /\ app.i = n => app'.pc = AfterReactors
          BY <3>1, <3>2, CallerGoes DEF ReactorStarted, AfterReactors, Pcs, StartPcs
        <4>3. QED
          BY <1>1, <4>1, <4>2 DEF BeforeAccept, AfterReactors
      <3>3. CASE AwaitReactor
        BY <1>1, <3>1, <3>3, CallerGoes DEF AwaitReactor, BeforeAccept, Pcs, StartPcs
      <3>4. CASE Wait
        BY <1>1, <3>4 DEF Wait, BeforeAccept
      <3>5. CASE ~ReactorStarted /\ ~AwaitReactor /\ ~Wait
        <4>1. app.pc \in {"listen", "prepare_ssl", "start_acceptors", "wait_acceptor", "up", "failed",
                          "stop_acceptors", "join_acceptor", "undo", "stop_reactors"}
          BY <3>5 DEF Listen, PrepareSsl, StartAcceptor, AcceptorStarted, StopBegin, StopAcceptor,
                      JoinAcceptor, AcceptorsStopped, StartFailed, StopEnd
        <4>2. app.pc \in {"start_acceptors", "wait_acceptor", "up", "stop_acceptors",
                          "join_acceptor", "stop_reactors"} =>
                app'.pc \in {"start_acceptors", "wait_acceptor", "up", "stop_acceptors",
                             "join_acceptor", "stop_reactors", "stopped"}
          BY <3>1, <3>5, CallerGoes
             DEF Listen, PrepareSsl, StartAcceptor, AcceptorStarted, StopBegin, StopAcceptor,
                 JoinAcceptor, AcceptorsStopped, StartFailed, StopEnd, FirstStopped, Pcs, StartPcs,
                 StopPcs
        <4>3. QED
          BY <1>1, <4>1, <4>2 DEF BeforeAccept
      <3>6. QED
        BY <3>2, <3>3, <3>4, <3>5
    <2>3. QED
      BY <2>1, <2>2 DEF PlacesInv, NoneAccepted
  <1>8. \A c \in Conns : IF place[c] \in Fresh THEN place'[c] \in Fresh \cup Final
                                               ELSE place'[c] = place[c]
    BY <1>3 DEF Fresh, Final
  <1>9. QED
    BY <1>1, <1>4, <1>5, <1>6, <1>7, <1>8, QuietPlaces

\* An acceptor thread takes a connection from the backlog.
LEMMA AcceptPlaces ==
    ASSUME ControlInv, PlacesInv, NEW a \in Acceptors, PollAccepts(a)
    PROVE  PlacesInv'
  <1>1. /\ at \in [Acceptors -> AcceptorRecord] /\ at[a].pc = "poll" /\ socket.fd = "listening"
        /\ UNCHANGED <<mode, app, rt, early, socket>> /\ place \in [Conns -> PlaceStates]
    BY DEF PollAccepts, ControlInv, ServerTypeOK, config, caller, threads
  <1>2. PICK c \in Conns :
          /\ place[c] = "backlog" /\ place' = [place EXCEPT ![c] = "accepted"]
          /\ at' = [at EXCEPT ![a] = [at[a] EXCEPT !.pc = "accepted", !.conn = c]]
    BY <1>1 DEF PollAccepts, Backlog
  <1>3. /\ at'[a].pc = "accepted" /\ at'[a].conn = c
        /\ \A b \in Acceptors : b # a => at'[b] = at[b]
    BY <1>1, <1>2 DEF AcceptorRecord
  <1>4. /\ Holds(a, c)' /\ \A d \in Conns : d # c => ~Holds(a, d)' /\ ~Holds(a, d)
        /\ \A b \in Acceptors : b # a => \A d \in Conns : Holds(b, d)' <=> Holds(b, d)
    BY <1>1, <1>3 DEF Holds
  <1>5. \A d \in Conns : place'[d] = IF d = c THEN "accepted" ELSE place[d]
    BY <1>1, <1>2
  <1>6. \A b \in Acceptors : ~Holds(b, c)
    BY <1>2 DEF PlacesInv, HeldOK
  <1>7. HeldOK'
    BY <1>4, <1>5, <1>6 DEF PlacesInv, HeldOK
  <1>8. \A d \in Conns : place'[d] = "accepted" => \E b \in Acceptors : Holds(b, d)'
    BY <1>1, <1>4, <1>5 DEF PlacesInv, HasPlace
  <1>9. NoneAccepted'
    <2>1. app.pc \in {"start_acceptors", "wait_acceptor", "up", "stop_acceptors", "join_acceptor"}
      BY <1>1 DEF ControlInv, AcceptorsOK
    <2>2. QED
      BY <1>1, <2>1 DEF NoneAccepted, BeforeAccept
  <1>10. \A d \in Conns : IF place[d] \in Fresh THEN place'[d] \in Fresh \cup Final
                                                ELSE place'[d] = place[d]
    BY <1>2, <1>5 DEF Fresh, Final
  <1>11. QED
    BY <1>1, <1>7, <1>8, <1>9, <1>10, QuietPlaces

\* The other steps of acceptor threads that keep their connection, and the surroundings.
LEMMA KeepPlaces ==
    ASSUME ControlInv, PlacesInv,
           \/ \E a \in Acceptors : \/ AcceptorRuns(a) \/ AcceptorTop(a) \/ PollTimesOut(a)
                                   \/ PollEnds(a) \/ AcceptFails(a) \/ PollInterrupted(a) \/ AcceptLeaks(a)
                                   \/ SelectReactor(a) \/ TimeoutPasses(a)
           \/ \E c \in Conns : PeerConnects(c)
           \/ DescriptorReused \/ UNCHANGED vars
    PROVE  PlacesInv'
  <1> USE DEF config, threads, listening, caller
  <1>1. UNCHANGED <<mode, app, rt, early>>
    BY DEF AcceptorRuns, AcceptorTop, PollTimesOut, PollEnds, AcceptFails, PollInterrupted,
           AcceptLeaks, SelectReactor,
           TimeoutPasses, PeerConnects, DescriptorReused, vars
  <1>2. at \in [Acceptors -> AcceptorRecord] /\ place \in [Conns -> PlaceStates]
    BY DEF ControlInv, ServerTypeOK
  <1>3. \A b \in Acceptors : \A c \in Conns : Holds(b, c)' <=> Holds(b, c)
    <2>1. CASE at' = at
      BY <2>1 DEF Holds
    <2>2. ASSUME NEW a \in Acceptors,
                 \/ AcceptorRuns(a) \/ AcceptorTop(a) \/ PollTimesOut(a)
                 \/ PollEnds(a) \/ PollInterrupted(a) \/ AcceptLeaks(a)
          PROVE  \A b \in Acceptors : \A c \in Conns : Holds(b, c)' <=> Holds(b, c)
      <3>1. /\ at[a].pc \in {"created", "top", "poll"}
            /\ \E pc \in {"top", "poll", "spinning", "ended"} : at' = [at EXCEPT ![a].pc = pc]
        BY <2>2 DEF AcceptorRuns, AcceptorTop, PollTimesOut, PollEnds, PollInterrupted, AcceptLeaks
      <3>2. QED
        BY <1>2, <3>1 DEF Holds, AcceptorRecord
    <2>3. ASSUME NEW a \in Acceptors, SelectReactor(a)
          PROVE  \A b \in Acceptors : \A c \in Conns : Holds(b, c)' <=> Holds(b, c)
      <3>1. /\ at[a].pc = "accepted"
            /\ at' = [at EXCEPT ![a] = [at[a] EXCEPT !.pc = "selected", !.index = selector_index_]]
        BY <1>2, <2>3 DEF SelectReactor
      <3>2. QED
        BY <1>2, <3>1 DEF Holds, AcceptorRecord
    <2>4. QED
      BY <2>1, <2>2, <2>3 DEF AcceptFails, TimeoutPasses, PeerConnects, listening, DescriptorReused, vars
  <1>4. \A c \in Conns : \/ place'[c] = place[c]
                         \/ place[c] = "none" /\ place'[c] = "backlog" /\ socket'.fd = "listening"
                         \/ place[c] = "backlog" /\ place'[c] \in {"refused", "leaked"}
    BY <1>2 DEF Backlog, AcceptorRuns, AcceptorTop, PollTimesOut, PollEnds, AcceptFails, PollInterrupted,
           AcceptLeaks, SelectReactor,
           TimeoutPasses, PeerConnects, DescriptorReused, vars
  <1>5. socket.fd = "listening" => socket'.fd = "listening"
    BY DEF AcceptorRuns, AcceptorTop, PollTimesOut, PollEnds, AcceptFails, PollInterrupted,
           AcceptLeaks, SelectReactor,
           TimeoutPasses, PeerConnects, DescriptorReused, vars
  <1>6. HeldOK'
    BY <1>3, <1>4 DEF PlacesInv, HeldOK
  <1>7. \A c \in Conns : place'[c] = "accepted" => \E a \in Acceptors : Holds(a, c)'
    BY <1>3, <1>4 DEF PlacesInv, HasPlace
  <1>8. \A c \in Conns : place'[c] = "backlog" => socket'.fd = "listening"
    BY <1>4, <1>5 DEF PlacesInv, HasPlace
  <1>9. NoneAccepted'
    <2>1. (\E a \in Acceptors : AcceptFails(a) \/ AcceptLeaks(a)) => ~BeforeAccept
      BY DEF AcceptFails, AcceptLeaks, ControlInv, AcceptorsOK, BeforeAccept
    <2>2. ~(\E a \in Acceptors : AcceptFails(a) \/ AcceptLeaks(a)) =>
             \A c \in Conns : place[c] \in {"none", "backlog"} => place'[c] \in {"none", "backlog"}
      BY <1>2 DEF AcceptorRuns, AcceptorTop, PollTimesOut, PollEnds, PollInterrupted, SelectReactor,
                  TimeoutPasses, PeerConnects, DescriptorReused, vars
    <2>3. UNCHANGED <<mode, app>>
      BY <1>1
    <2>4. BeforeAccept' <=> BeforeAccept
      BY <2>3 DEF BeforeAccept
    <2>5. QED
      BY <2>1, <2>2, <2>4 DEF PlacesInv, NoneAccepted
  <1>10. \A c \in Conns : IF place[c] \in Fresh THEN place'[c] \in Fresh \cup Final
                                                ELSE place'[c] = place[c]
    BY <1>4 DEF Fresh, Final
  <1>11. QED
    BY <1>1, <1>6, <1>7, <1>8, <1>9, <1>10, QuietPlaces

\* An acceptor thread hands its connection over, or closes it.
LEMMA CreatePlaces ==
    ASSUME ControlInv, PlacesInv, NEW a \in Acceptors, CreateHandler(a)
    PROVE  PlacesInv'
  <1>1. /\ at[a].pc = "selected" /\ at[a].conn \in Conns
        /\ at[a].index \in Nat /\ at[a].index < n /\ n \in Nat /\ AllServe
        /\ app.pc \in {"start_acceptors", "wait_acceptor", "up", "stop_acceptors", "join_acceptor"}
        /\ at \in [Acceptors -> AcceptorRecord] /\ place \in [Conns -> PlaceStates]
    BY DEF CreateHandler, ControlInv, AcceptorsOK, ServerTypeOK, AcceptorRecord
  <1> DEFINE r == at[a].index + 1
  <1>c. PICK c : c = at[a].conn
    OBVIOUS
  <1>2. r \in Reactors /\ Serving(r)
    <2>1. r \in 1 .. n
      BY <1>1
    <2>2. QED
      BY <1>1, <2>1, ReactorsThere DEF ControlInv, AllServe
  <1>3. /\ at' = [at EXCEPT ![a] = [pc |-> "top", conn |-> "none", index |-> 0]]
        /\ UNCHANGED <<mode, app, socket>>
        /\ \/ Register(r, c)
           \/ place' = [place EXCEPT ![c] = "closed"] /\ UNCHANGED <<rt, early>>
    BY <1>c DEF CreateHandler, config, caller
  <1> HIDE DEF r
  <1>4. /\ c \in Conns /\ Holds(a, c) /\ place[c] = "accepted"
        /\ \A b \in Acceptors : Holds(b, c) => b = a
    BY <1>1, <1>c DEF Holds, PlacesInv, HeldOK
  <1>5. \A d \in Conns : d # c => ~Holds(a, d)
    BY <1>c DEF Holds
  <1>6. /\ \A d : ~Holds(a, d)'
        /\ \A b \in Acceptors : b # a => \A d : Holds(b, d)' <=> Holds(b, d)
    BY <1>1, <1>3 DEF Holds
  <1>7. /\ \A b \in Acceptors : ~Holds(b, c)'
        /\ \A d \in Conns : d # c => \A b \in Acceptors : Holds(b, d)' <=> Holds(b, d)
    BY <1>4, <1>5, <1>6
  <1>8. ~BeforeAccept /\ ~BeforeAccept'
    BY <1>1, <1>3 DEF BeforeAccept
  <1>9. CASE Register(r, c)
    <2>1. /\ place[c] \in Fresh /\ mode # "thread"
          /\ rt[r].thread \in {"entering", "looping", "shutdown", "ended"}
      BY <1>1, <1>2, <1>4 DEF Fresh, Serving, Alive, ControlInv, AcceptorsOK
    <2>2. QED
      BY <1>2, <1>3, <1>4, <1>7, <1>8, <1>9, <2>1, RegisterPlaces
  <1>10. CASE place' = [place EXCEPT ![c] = "closed"] /\ UNCHANGED <<rt, early>>
    <2>1. \A d \in Conns : place'[d] = IF d = c THEN "closed" ELSE place[d]
      BY <1>1, <1>10
    <2>2. HeldOK'
      BY <1>7, <2>1 DEF PlacesInv, HeldOK
    <2>3. \A d \in Conns : place'[d] = "accepted" => \E b \in Acceptors : Holds(b, d)'
      BY <1>7, <2>1 DEF PlacesInv, HasPlace
    <2>4. \A d \in Conns : place'[d] = "backlog" => socket'.fd = "listening"
      BY <1>3, <2>1 DEF PlacesInv, HasPlace
    <2>5. \A d \in Conns : IF place[d] \in Fresh THEN place'[d] \in Fresh \cup Final
                                                 ELSE place'[d] = place[d]
      BY <1>4, <2>1 DEF Fresh, Final
    <2>6. NoneAccepted'
      BY <1>8 DEF NoneAccepted
    <2>7. QED
      BY <1>3, <1>10, <2>2, <2>3, <2>4, <2>5, <2>6, QuietPlaces
  <1>11. QED
    BY <1>3, <1>9, <1>10

LEMMA ClientPlaces ==
    ASSUME ControlInv, PlacesInv, NEW c \in Conns, ClientRegisters(c)
    PROVE  PlacesInv'
  <1>1. 1 \in Reactors
    BY ReactorsThere DEF ClientRegisters, ControlInv, ServerTypeOK
  <1>2. /\ rt[1].is_run /\ rt[1].thread \in {"entering", "looping", "shutdown"}
        /\ Register(1, c) /\ mode = "thread" /\ n = 1 /\ place[c] = "none"
        /\ UNCHANGED <<mode, app, socket, at>>
    BY <1>1 DEF ClientRegisters, ControlInv, RunsOK, Sound, config, caller, listening
  <1>3. ~BeforeAccept
    <2>1. 1 \in 1 .. n /\ ~HasNone(1) /\ n \in Nat
      BY <1>2 DEF HasNone, ControlInv, ServerTypeOK
    <2>2. app.pc \in {"idle", "start_reactors", "wait_reactor", "asleep", "woken", "up",
                      "stop_reactors", "stop_local", "join_reactor", "stopped"}
      BY <1>2 DEF ControlInv, CallerOK
    <2>3. app.pc # "idle"
      BY <2>1 DEF ControlInv, ThreadsOK, AllNotRun, NotRun, HasNone
    <2>4. app.pc # "start_reactors"
      <3>1. app.pc = "start_reactors" => app.i = 1
        BY <1>2 DEF ControlInv, CallerOK, ServerTypeOK
      <3>2. QED
        BY <2>1, <3>1 DEF ControlInv, ThreadsOK, NotRun, HasNone
    <2>5. QED
      BY <1>2, <2>2, <2>3, <2>4 DEF BeforeAccept
  <1>4. \A a \in Acceptors : \A d \in Conns : Holds(a, d)' <=> Holds(a, d)
    BY <1>2 DEF Holds
  <1>5. \A a \in Acceptors : ~Holds(a, c)'
    BY <1>2, <1>4 DEF PlacesInv, HeldOK
  <1>6. place[c] \in Fresh
    BY <1>2 DEF Fresh
  <1>7. QED
    BY <1>1, <1>2, <1>3, <1>4, <1>5, <1>6, RegisterPlaces

\* Every step keeps connections where somebody has them.
LEMMA PlacesNext ==
    ASSUME ControlInv, PlacesInv, [Next]_vars
    PROVE  PlacesInv'
  <1>1. ControlInv'
    BY ControlNext
  <1>2. CASE Start \/ StopBegin \/ Wait \/ CallerSteps
    BY <1>1, <1>2, StartPlaces, CallerPlaces, ReactorsPlaces DEF CallerSteps
  <1>3. CASE \E r \in Reactors : ReactorThread(r) \/ LoopWakes(r) \/ \E c \in Conns : HandlerLeaves(r, c)
    BY <1>3, RunBeginPlaces, WaitPlaces, DispatchPlaces, ShutdownPlaces, LeavePlaces DEF ReactorThread
  <1>4. CASE \E a \in Acceptors : \/ AcceptorThread(a) \/ AcceptFails(a) \/ PollInterrupted(a)
                                  \/ AcceptLeaks(a) \/ TimeoutPasses(a)
    BY <1>4, AcceptPlaces, KeepPlaces, CreatePlaces DEF AcceptorThread
  <1>5. CASE \E c \in Conns : PeerConnects(c) \/ ClientRegisters(c)
    BY <1>5, KeepPlaces, ClientPlaces
  <1>6. CASE DescriptorReused \/ UNCHANGED vars
    BY <1>6, KeepPlaces
  <1>7. QED
    BY <1>2, <1>3, <1>4, <1>5, <1>6 DEF Next

\* For any number of reactors, acceptor threads and connections: when stop() of a server
\* has returned, every connection it accepted has been closed or told of the shutdown,
\* and a registration made before its reactor was asked to stop is never left in the
\* pipe of a reactor that has stopped (TCPReactor::stop, Reactor::run_shutdown).  The
\* exceptions are those the code makes: a connection that accept() forgot, and what was
\* in the pipe of a reactor, or refused by it, whose STOP went to wait_events_ and so
\* overtook the pipe.
THEOREM StopForgetsNone == Spec => []NoneForgotten
  <1>1. ControlInv /\ PlacesInv => NoneForgotten
    <2> SUFFICES ASSUME ControlInv, PlacesInv PROVE NoneForgotten
      OBVIOUS
    <2>1. EarlyOnesAreTold
      BY DEF EarlyOnesAreTold, PlacesInv, HasPlace, Keeps, LiveStates, Alive, ControlInv, ServerTypeOK
    <2>2. ASSUME app.pc = "stopped", mode # "thread", NEW c \in Conns \ Overlooked
          PROVE  place[c] \in {"none", "refused", "closed", "shutdown", "leaked"}
      <3>1. \A r \in Reactors : rt[r].thread = "none"
        <4>1. n \in Nat /\ \A r \in Reactors : r \in Nat /\ (r > n \/ r \in 1 .. n)
          BY DEF ControlInv, ServerTypeOK, Reactors
        <4>2. QED
          BY <2>2, <4>1 DEF ControlInv, ThreadsOK, AllNone, HasNone
      <3>2. (\A a \in Acceptors : at[a].pc = "none") /\ socket.fd # "listening"
        BY <2>2 DEF ControlInv, AcceptorsOK, SocketOK
      <3>3. place[c] \in PlaceStates /\ HasPlace(c)
        BY DEF ControlInv, ServerTypeOK, PlacesInv
      <3>4. place[c] \notin {"backlog", "accepted", "handled"}
        BY <3>1, <3>2, <3>3 DEF HasPlace, Holds, Tells
      <3>5. \A r \in Reactors : rt[r].overtaken => c \notin Range(rt[r].pipe) /\ c \notin rt[r].refused
        BY DEF Overlooked
      <3>6. place[c] \notin {"piped", "lost"}
        BY <2>2, <3>1, <3>3, <3>5 DEF HasPlace, Keeps, LiveStates
      <3>7. QED
        BY <3>3, <3>4, <3>6 DEF PlaceStates
    <2>3. QED
      BY <2>1, <2>2 DEF NoneForgotten, NoOrphans
  <1>2. ControlInv /\ PlacesInv /\ [Next]_vars => ControlInv' /\ PlacesInv'
    BY ControlNext, PlacesNext
  <1>3. QED
    BY <1>1, <1>2, ControlInit, PlacesInit, PTL DEF Spec

\* As long as there are fewer connections than a size_t can count, handler_count() of a
\* running reactor is the number of the application's handlers (Reactor.h).
THEOREM CountCorrect ==
    ASSUME Cardinality(Conns) < SizeT
    PROVE  Spec => []CountIsOfHandlers
  <1>1. ControlInv /\ PlacesInv => CountIsOfHandlers
    <2> SUFFICES ASSUME ControlInv, PlacesInv, NEW r \in Reactors,
                        rt[r].thread = "looping", rt[r].monitor # "raised"
                 PROVE  HandlerCount(r) = Cardinality(rt[r].handlers)
      BY DEF CountIsOfHandlers
    <2>1. rt[r].handlers \subseteq Conns /\ rt[r].monitor \in {"none", "raised", "registered"}
      BY DEF ControlInv, ServerTypeOK, ReactorRecord
    <2>2. Cardinality(rt[r].handlers) \in Nat /\ Cardinality(rt[r].handlers) < SizeT
      <3>1. IsFiniteSet(rt[r].handlers) /\ Cardinality(rt[r].handlers) <= Cardinality(Conns)
        BY <2>1, ServerConstants, FS_Subset
      <3>2. Cardinality(rt[r].handlers) \in Nat /\ Cardinality(Conns) \in Nat
        BY <3>1, ServerConstants, FS_CardinalityType
      <3>3. QED
        BY <3>1, <3>2 DEF SizeT
    <2>3. rt[r].count = Cardinality(rt[r].handlers) + (IF rt[r].monitor = "registered" THEN 1 ELSE 0)
      BY DEF PlacesInv, TableOK
    <2>4. CASE rt[r].monitor = "none"
      BY <2>2, <2>3, <2>4 DEF HandlerCount
    <2>5. CASE rt[r].monitor = "registered"
      <3>1. rt[r].count - 1 = Cardinality(rt[r].handlers)
        BY <2>2, <2>3, <2>5
      <3>2. \A x \in Nat : x < 65536 => x % 65536 = x
        OBVIOUS
      <3>3. QED
        BY <2>2, <2>5, <3>1, <3>2 DEF HandlerCount, SizeT
    <2>6. QED
      BY <2>1, <2>4, <2>5
  <1>2. ControlInv /\ PlacesInv /\ [Next]_vars => ControlInv' /\ PlacesInv'
    BY ControlNext, PlacesNext
  <1>3. QED
    BY <1>1, <1>2, ControlInit, PlacesInit, PTL DEF Spec
=============================================================================

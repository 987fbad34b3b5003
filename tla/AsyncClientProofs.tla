------------------------- MODULE AsyncClientProofs -------------------------
(***************************************************************************)
(* Proofs about TcpAsyncClient and TcpAsyncSSLClient, for any number of    *)
(* connects, sends and disconnects from callbacks and other threads: the   *)
(* handler table and the connect timer fit the client's socket, what a     *)
(* send() queues for the connection it found goes out on no other, and     *)
(* each connect() is answered once.                                        *)
(***************************************************************************)
EXTENDS AsyncClient, SequenceTheorems, WellFoundedInduction, TLAPS

-----------------------------------------------------------------------------
\* The queues and what the demuxer knows of the socket.
QueueTypeOK ==
    /\ local \in Seq(Requests) /\ pipe \in Seq(Requests) /\ batch \in Seq(Events)
    /\ run_pc \in {"wait", "top"} => batch = <<>>
    /\ watched \in BOOLEAN

\* Connected is who is registered, and handle_connect is called for them.
ConnectedOK ==
    /\ is_connect_ \in BOOLEAN
    /\ is_connect_ => in_table
    /\ run_pc = "on_connect" => is_connect_

\* A TLS server speaks only when spoken to: what is read in a batch was read for a
\* connection that is established, and no other gets into the table before the batch ends.
ReadOK ==
    Tls => /\ in => is_connect_
           /\ "READ" \in Range(batch) => ~Registers(batch) /\ (in_table => is_connect_)

ClientInv == SocketKnown /\ QueueTypeOK /\ ConnectedOK /\ ReadOK

\* Units of the stream of sends, in the order in which they were handed to send().
Unit == [of : Nat, part : {1, 2}]
Less(u, v) == u.of < v.of \/ (u.of = v.of /\ u.part < v.part)
Rising(s) == \A i, j \in DOMAIN s : i < j => Less(s[i], s[j])
Below(s, t) == \A i \in DOMAIN s, j \in DOMAIN t : Less(s[i], t[j])
Within(s, M) == \A i \in DOMAIN s : s[i].of \in M

\* The sends of this connection, and those that missed theirs.
Mine == {m \in 1 .. sent : before < m} \cup spanned

\* The buffers hold sends of this connection, behind what is on the wire: for a TLS client
\* always, for a plain one once on_connect has emptied them.  Without a connection a TLS
\* client holds only what has missed one.
InUse == Tls \/ (is_connect_ /\ run_pc # "on_connect")
Lined(w, s, p) == /\ Rising(w) /\ Rising(s) /\ Rising(p)
                  /\ Below(w, s) /\ Below(w, p) /\ Below(s, p)
StreamInv ==
    /\ wire \in Seq(Unit) /\ send_buffer_ \in Seq(Unit) /\ prepare \in Seq(Unit)
    /\ sent \in Nat /\ before \in Nat /\ before <= sent /\ spanned \subseteq 1 .. sent
    /\ Rising(wire) /\ Within(wire, Mine)
    /\ Tls /\ ~is_connect_ => send_buffer_ = <<>> /\ Within(prepare, spanned)
    /\ InUse => /\ Lined(wire, send_buffer_, prepare)
                /\ Within(send_buffer_, Mine) /\ Within(prepare, Mine)

-----------------------------------------------------------------------------
\* Apply() handles its requests one after the other: what holds of the state before the
\* first and is passed on by each of them holds of the result.

\* Induction up to n, over a set.
LEMMA UpTo ==
    ASSUME NEW n \in Nat, NEW S, 0 \in S, \A i \in 1 .. n : i - 1 \in S => i \in S
    PROVE  n \in S
  <1> DEFINE out == {i \in Nat : i <= n /\ i \notin S}
  <1> SUFFICES ASSUME n \notin S PROVE FALSE
    OBVIOUS
  <1>1. out \in SUBSET Nat /\ n \in out
    OBVIOUS
  <1> DEFINE Smaller == {p \in Nat \X Nat : p[1] < p[2]}
  <1>2. PICK m \in out : \A k \in out : ~(<<k, m>> \in Smaller)
    <2>1. IsWellFoundedOn(Smaller, Nat)
      BY NatLessThanWellFounded DEF OpToRel
    <2> HIDE DEF Smaller, out
    <2>2. QED
      BY <1>1, <2>1, WFMin
  <1>3. m \in 1 .. n /\ m - 1 \in Nat /\ m - 1 <= n /\ m - 1 < m
    BY <1>2
  <1>4. m - 1 \notin out
    BY <1>2, <1>3
  <1>5. QED
    BY <1>2, <1>3, <1>4

Unapplied == [entry |-> entry, watched |-> watched, bits |-> bits, ev |-> <<>>]

\* The function by which Apply() is defined exists.
LEMMA ApplyExists ==
    ASSUME NEW reqs \in Seq(Requests)
    PROVE  \E f : f = [i \in 0 .. Len(reqs) |->
                         IF i = 0 THEN Unapplied ELSE ApplyOne(f[i - 1], reqs[i])]
  <1> DEFINE n == Len(reqs)
             Right(g, m) == /\ g = [i \in 0 .. n |-> g[i]] /\ g[0] = Unapplied
                            /\ \A i \in 1 .. m : g[i] = ApplyOne(g[i - 1], reqs[i])
             S == {m \in 0 .. n : \E g : Right(g, m)}
  <1>1. n \in Nat
    OBVIOUS
  <1>2. 0 \in S
    <2>1. Right([i \in 0 .. n |-> Unapplied], 0)
      BY <1>1
    <2> HIDE DEF Right
    <2>2. QED
      BY <1>1, <2>1
  <1>3. ASSUME NEW m \in 1 .. n, m - 1 \in S PROVE m \in S
    <2>1. PICK g : Right(g, m - 1)
      BY <1>3
    <2> DEFINE h == [i \in 0 .. n |-> IF i = m THEN ApplyOne(g[m - 1], reqs[m]) ELSE g[i]]
    <2>2. m \in 0 .. n /\ m - 1 \in 0 .. n /\ m # 0 /\ m - 1 # m /\ 0 \in 0 .. n
      BY <1>1
    <2>3. h = [i \in 0 .. n |-> h[i]]
      OBVIOUS
    <2>4. h[m] = ApplyOne(h[m - 1], reqs[m]) /\ h[0] = Unapplied
      BY <2>1, <2>2
    <2>5. ASSUME NEW i \in 1 .. m - 1 PROVE h[i] = ApplyOne(h[i - 1], reqs[i])
      <3>1. i \in 0 .. n /\ i - 1 \in 0 .. n /\ i # m /\ i - 1 # m
        BY <1>1
      <3>2. QED
        BY <2>1, <3>1
    <2>6. \A i \in 1 .. m : i = m \/ i \in 1 .. m - 1
      BY <1>1
    <2> HIDE DEF h
    <2>7. Right(h, m)
      BY <2>3, <2>4, <2>5, <2>6
    <2> HIDE DEF Right
    <2>8. QED
      BY <2>2, <2>7
  <1>4. n \in S
    <2> HIDE DEF S, n
    <2>1. QED
      BY <1>1, <1>2, <1>3, UpTo
  <1>5. PICK f : Right(f, n)
    BY <1>4
  <1>6. \A i \in 0 .. n : f[i] = IF i = 0 THEN Unapplied ELSE ApplyOne(f[i - 1], reqs[i])
    <2>1. \A i \in 0 .. n : i = 0 \/ i \in 1 .. n
      BY <1>1
    <2>2. QED
      BY <1>5, <2>1
  <1>7. f = [i \in 0 .. n |-> IF i = 0 THEN Unapplied ELSE ApplyOne(f[i - 1], reqs[i])]
    BY <1>5, <1>6
  <1>8. QED
    BY <1>7

LEMMA ApplyPasses ==
    ASSUME NEW reqs \in Seq(Requests), NEW J, <<0, Unapplied>> \in J,
           \A i \in 1 .. Len(reqs) : \A w : <<i - 1, w>> \in J => <<i, ApplyOne(w, reqs[i])>> \in J
    PROVE  <<Len(reqs), Apply(reqs)>> \in J
  <1> DEFINE n == Len(reqs)
             f == CHOOSE f : f = [i \in 0 .. n |->
                                    IF i = 0 THEN Unapplied ELSE ApplyOne(f[i - 1], reqs[i])]
             S == {i \in 0 .. n : <<i, f[i]>> \in J}
  <1>1. Apply(reqs) = f[n]
    BY DEF Apply, Unapplied
  <1>2. f = [i \in 0 .. n |-> IF i = 0 THEN Unapplied ELSE ApplyOne(f[i - 1], reqs[i])]
    BY ApplyExists
  <1>3. n \in Nat
    OBVIOUS
  <1> HIDE DEF f
  <1>4. 0 \in S
    BY <1>2, <1>3
  <1>5. ASSUME NEW i \in 1 .. n, i - 1 \in S PROVE i \in S
    <2>1. i \in 0 .. n /\ i # 0 /\ <<i - 1, f[i - 1]>> \in J
      BY <1>3, <1>5
    <2>2. f[i] = ApplyOne(f[i - 1], reqs[i])
      BY <1>2, <2>1
    <2>3. <<i, ApplyOne(f[i - 1], reqs[i])>> \in J
      BY <2>1
    <2>4. QED
      BY <2>1, <2>2, <2>3
  <1>6. n \in S
    <2> HIDE DEF S, n
    <2>1. QED
      BY <1>3, <1>4, <1>5, UpTo
  <1>7. QED
    BY <1>1, <1>6

\* What one request does.
Returned == {"REGISTER", "REMOVE", "TIMEOUT_ADD", "TIMEOUT_DEL"}
Interests == {w \in [entry : BOOLEAN, watched : BOOLEAN, bits : SUBSET {"IN", "OUT"},
                     ev : Seq(Returned)] : w.watched => w.entry}

LEMMA OneIs ==
    ASSUME NEW w \in Interests, NEW req \in Requests
    PROVE  /\ ApplyOne(w, req) \in Interests
           /\ ApplyOne(w, req).ev = IF req \in Returned THEN Append(w.ev, req) ELSE w.ev
  <1>1. /\ w.entry \in BOOLEAN /\ w.watched \in BOOLEAN /\ w.bits \in SUBSET {"IN", "OUT"}
        /\ w.ev \in Seq(Returned) /\ (w.watched => w.entry)
        /\ w = [entry |-> w.entry, watched |-> w.watched, bits |-> w.bits, ev |-> w.ev]
    BY DEF Interests
  <1>2. ASSUME NEW bit \in {"IN", "OUT"}
        PROVE  AddInterest(w, bit) \in Interests /\ AddInterest(w, bit).ev = w.ev
    <2>1. CASE w.entry /\ w.watched
      BY <1>1, <2>1 DEF AddInterest, Interests
    <2>2. CASE ~w.entry /\ sock # "none"
      BY <1>1, <2>2 DEF AddInterest, Interests
    <2>3. CASE ~(w.entry /\ w.watched) /\ ~(~w.entry /\ sock # "none")
      BY <1>1, <2>3 DEF AddInterest, Interests
    <2>4. QED
      BY <2>1, <2>2, <2>3
  <1>3. Forgotten(w) \in Interests /\ Forgotten(w).ev = w.ev
    BY <1>1 DEF Forgotten, Interests
  <1>4. DropInterest(w, "OUT") \in Interests /\ DropInterest(w, "OUT").ev = w.ev
    <2>1. CASE ~w.entry
      BY <1>1, <2>1 DEF DropInterest, Interests
    <2>2. CASE w.entry /\ w.bits = {"OUT"}
      BY <1>3, <2>2 DEF DropInterest
    <2>3. CASE w.entry /\ w.bits # {"OUT"}
      BY <1>1, <2>3 DEF DropInterest, Interests
    <2>4. QED
      BY <2>1, <2>2, <2>3
  <1>5. ASSUME NEW v \in Interests, v.ev = w.ev, req \in Returned
        PROVE  /\ [v EXCEPT !.ev = Append(@, req)] \in Interests
               /\ [v EXCEPT !.ev = Append(@, req)].ev = Append(w.ev, req)
    <2>1. Append(w.ev, req) \in Seq(Returned)
      BY <1>1, <1>5
    <2>2. QED
      BY <1>5, <2>1 DEF Interests
  <1>6. CASE req = "REGISTER"
    <2>1. ApplyOne(w, req) = [AddInterest(w, "IN") EXCEPT !.ev = Append(@, req)]
      BY <1>6 DEF ApplyOne
    <2>2. QED
      BY <1>2, <1>5, <1>6, <2>1 DEF Returned
  <1>7. CASE req = "REMOVE"
    <2>1. ApplyOne(w, req) = [Forgotten(w) EXCEPT !.ev = Append(@, req)]
      BY <1>7 DEF ApplyOne
    <2>2. QED
      BY <1>3, <1>5, <1>7, <2>1 DEF Returned
  <1>8. CASE req \in {"FORGET", "WRITABLE", "UNWRITABLE"}
    BY <1>2, <1>3, <1>4, <1>8 DEF ApplyOne, Returned
  <1>9. CASE req \in {"TIMEOUT_ADD", "TIMEOUT_DEL"}
    <2>1. ApplyOne(w, req) = [w EXCEPT !.ev = Append(@, req)]
      BY <1>9 DEF ApplyOne
    <2>2. QED
      BY <1>5, <1>9, <2>1 DEF Returned
  <1>10. QED
    BY <1>6, <1>7, <1>8, <1>9 DEF Requests

\* A queue with one element more.
LEMMA AppendRegisters ==
    ASSUME NEW T, NEW s \in Seq(T), NEW e \in T
    PROVE  /\ Registers(Append(s, e)) <=> Registers(s) \/ e = "REGISTER"
           /\ RegistersOnce(Append(s, e)) <=>
                RegistersOnce(s) /\ (e = "REGISTER" => ~Registers(s))
  <1> DEFINE a == Append(s, e)
             n == Len(s)
  <1>1. /\ n \in Nat /\ DOMAIN s = 1 .. n /\ DOMAIN a = 1 .. n + 1
        /\ a[n + 1] = e /\ \A i \in 1 .. n : a[i] = s[i]
    OBVIOUS
  <1>2. \A i \in 1 .. n + 1 : i \in 1 .. n \/ i = n + 1
    BY <1>1
  <1>3. \A i \in 1 .. n : i \in 1 .. n + 1 /\ i # n + 1
    BY <1>1
  <1>4. n + 1 \in 1 .. n + 1
    BY <1>1
  <1> HIDE DEF a, n
  <1>5. QED
    BY <1>1, <1>2, <1>3, <1>4 DEF Registers, RegistersOnce, Range, a

\* The requests of a queue, and the events they give.
LEMMA ApplyIs ==
    ASSUME NEW reqs \in Seq(Requests), RegistersOnce(reqs), TypeOK, watched \in BOOLEAN
    PROVE  /\ Apply(reqs) \in Interests
           /\ RegistersOnce(Apply(reqs).ev)
           /\ Registers(Apply(reqs).ev) <=> Registers(reqs)
  <1> DEFINE n == Len(reqs)
             Seen(i) == \E k \in 1 .. i : reqs[k] = "REGISTER"
             J == {p \in (0 .. n) \X Interests :
                     /\ RegistersOnce(p[2].ev)
                     /\ Registers(p[2].ev) <=> Seen(p[1])}
  <1>1. n \in Nat /\ DOMAIN reqs = 1 .. n
    OBVIOUS
  <1>2. <<0, Unapplied>> \in J
    <2>1. Unapplied \in Interests /\ Unapplied.ev = <<>>
      BY DEF Unapplied, Interests, TypeOK
    <2>2. RegistersOnce(<<>>) /\ ~Registers(<<>>) /\ ~Seen(0)
      BY DEF RegistersOnce, Registers, Range
    <2>3. QED
      BY <1>1, <2>1, <2>2
  <1>3. ASSUME NEW i \in 1 .. n, NEW w, <<i - 1, w>> \in J
        PROVE  <<i, ApplyOne(w, reqs[i])>> \in J
    <2> DEFINE r == ApplyOne(w, reqs[i])
    <2>1. /\ w \in Interests /\ RegistersOnce(w.ev) /\ (Registers(w.ev) <=> Seen(i - 1))
          /\ reqs[i] \in Requests
      BY <1>3
    <2>2. r \in Interests /\ r.ev = IF reqs[i] \in Returned THEN Append(w.ev, reqs[i]) ELSE w.ev
      BY <2>1, OneIs
    <2>3. Seen(i) <=> Seen(i - 1) \/ reqs[i] = "REGISTER"
      <3>1. \A k \in 1 .. i : k = i \/ k \in 1 .. i - 1
        BY <1>1
      <3>2. i \in 1 .. i /\ \A k \in 1 .. i - 1 : k \in 1 .. i
        BY <1>1
      <3>3. QED
        BY <3>1, <3>2
    <2>4. reqs[i] = "REGISTER" => ~Seen(i - 1)
      <3>1. \A k \in 1 .. i - 1 : k \in 1 .. n /\ k # i
        BY <1>1
      <3>2. QED
        BY <1>1, <3>1 DEF RegistersOnce
    <2> HIDE DEF r, Seen
    <2>5. RegistersOnce(r.ev) /\ (Registers(r.ev) <=> Seen(i))
      <3>1. CASE reqs[i] \in Returned
        <4>1. w.ev \in Seq(Returned)
          BY <2>1 DEF Interests
        <4>2. QED
          BY <2>1, <2>2, <2>3, <2>4, <3>1, <4>1, AppendRegisters
      <3>2. CASE reqs[i] \notin Returned
        BY <2>1, <2>2, <2>3, <3>2 DEF Returned
      <3>3. QED
        BY <3>1, <3>2
    <2>6. i \in 0 .. n
      BY <1>1
    <2>7. <<i, r>> \in J
      BY <2>2, <2>5, <2>6
    <2>8. QED
      BY <2>7 DEF r
  <1>4. <<n, Apply(reqs)>> \in J
    <2> HIDE DEF J
    <2>1. QED
      BY <1>2, <1>3, ApplyPasses
  <1>5. Seen(n) <=> Registers(reqs)
    BY <1>1 DEF Registers, Range
  <1> HIDE DEF Seen
  <1>6. QED
    BY <1>4, <1>5

-----------------------------------------------------------------------------
\* The queues when they grow and when the batch is dispatched.

LEMMA JoinRegisters ==
    ASSUME NEW T, NEW s \in Seq(T), NEW t \in Seq(T)
    PROVE  /\ Registers(s \o t) <=> Registers(s) \/ Registers(t)
           /\ RegistersOnce(s \o t) <=>
                RegistersOnce(s) /\ RegistersOnce(t) /\ ~(Registers(s) /\ Registers(t))
  <1> DEFINE m == Len(s)
             n == Len(t)
             st == s \o t
  <1>1. /\ m \in Nat /\ n \in Nat /\ DOMAIN s = 1 .. m /\ DOMAIN t = 1 .. n /\ DOMAIN st = 1 .. m + n
        /\ \A i \in 1 .. m : st[i] = s[i]
    BY ConcatProperties
  <1>2. \A i \in 1 .. n : st[m + i] = t[i]
    <2> TAKE i \in 1 .. n
    <2>1. m + i \in 1 .. m + n /\ ~(m + i <= m) /\ (m + i) - m = i
      BY <1>1
    <2>2. QED
      BY <2>1, ConcatProperties
  <1> HIDE DEF m, n, st
  <1>3. \A i \in 1 .. m + n : i \in 1 .. m \/ \E j \in 1 .. n : i = m + j
    <2> TAKE i \in 1 .. m + n
    <2>1. CASE i <= m
      BY <1>1, <2>1
    <2>2. CASE ~(i <= m)
      <3>1. i - m \in 1 .. n /\ i = m + (i - m)
        BY <1>1, <2>2
      <3>2. QED
        BY <3>1
    <2>3. QED
      BY <2>1, <2>2
  <1>4. /\ \A i \in 1 .. m : i \in 1 .. m + n
        /\ \A j \in 1 .. n : m + j \in 1 .. m + n /\ m + j \notin 1 .. m
        /\ \A i, j \in 1 .. n : m + i = m + j <=> i = j
    BY <1>1
  <1>5. Registers(st) <=> Registers(s) \/ Registers(t)
    <2>1. ASSUME Registers(st), ~Registers(s) PROVE Registers(t)
      <3>1. PICK i \in 1 .. m + n : st[i] = "REGISTER"
        BY <1>1, <2>1 DEF Registers, Range
      <3>2. i \notin 1 .. m
        BY <1>1, <2>1, <3>1 DEF Registers, Range
      <3>3. PICK j \in 1 .. n : i = m + j
        BY <1>3, <3>2
      <3>4. t[j] = "REGISTER"
        BY <1>2, <3>1, <3>3
      <3>5. QED
        BY <1>1, <3>4 DEF Registers, Range
    <2>2. Registers(s) => Registers(st)
      BY <1>1, <1>4 DEF Registers, Range
    <2>3. Registers(t) => Registers(st)
      BY <1>1, <1>2, <1>4 DEF Registers, Range
    <2>4. QED
      BY <2>1, <2>2, <2>3
  <1>6. ASSUME RegistersOnce(st)
        PROVE  RegistersOnce(s) /\ RegistersOnce(t) /\ ~(Registers(s) /\ Registers(t))
    <2>1. RegistersOnce(s)
      BY <1>1, <1>4, <1>6 DEF RegistersOnce
    <2>2. ASSUME NEW i \in 1 .. n, NEW j \in 1 .. n, t[i] = "REGISTER", t[j] = "REGISTER"
          PROVE  i = j
      <3>1. /\ m + i \in DOMAIN st /\ m + j \in DOMAIN st
            /\ st[m + i] = "REGISTER" /\ st[m + j] = "REGISTER"
        BY <1>1, <1>2, <1>4, <2>2
      <3>2. m + i = m + j
        BY <1>6, <3>1 DEF RegistersOnce
      <3>3. QED
        BY <1>4, <3>2
    <2>3. ~(Registers(s) /\ Registers(t))
      BY <1>1, <1>2, <1>4, <1>6 DEF RegistersOnce, Registers, Range
    <2>4. QED
      BY <1>1, <2>1, <2>2, <2>3 DEF RegistersOnce
  <1>7. ASSUME RegistersOnce(s), RegistersOnce(t), ~(Registers(s) /\ Registers(t)),
               NEW i \in 1 .. m + n, NEW j \in 1 .. m + n, st[i] = "REGISTER", st[j] = "REGISTER"
        PROVE  i = j
    <2>1. CASE i \in 1 .. m /\ j \in 1 .. m
      BY <1>1, <1>7, <2>1 DEF RegistersOnce
    <2>2. ASSUME NEW k \in 1 .. n, NEW l \in 1 .. n, i = m + k, j = m + l
          PROVE  i = j
      BY <1>1, <1>2, <1>7, <2>2 DEF RegistersOnce
    <2>3. ASSUME NEW x \in 1 .. m, NEW l \in 1 .. n, st[x] = "REGISTER", st[m + l] = "REGISTER"
          PROVE  FALSE
      BY <1>1, <1>2, <1>7, <2>3 DEF Registers, Range
    <2>4. QED
      BY <1>3, <1>7, <2>1, <2>2, <2>3
  <1>8. QED
    BY <1>1, <1>5, <1>6, <1>7 DEF RegistersOnce, st

LEMMA TailRegisters ==
    ASSUME NEW T, NEW s \in Seq(T), s # <<>>
    PROVE  /\ Tail(s) \in Seq(T) /\ Range(Tail(s)) \subseteq Range(s) /\ Head(s) \in Range(s)
           /\ Registers(s) <=> Head(s) = "REGISTER" \/ Registers(Tail(s))
           /\ RegistersOnce(s) => RegistersOnce(Tail(s))
           /\ RegistersOnce(s) /\ Head(s) = "REGISTER" => ~Registers(Tail(s))
  <1> DEFINE n == Len(s)
             t == Tail(s)
  <1>1. /\ n \in Nat /\ n >= 1 /\ DOMAIN s = 1 .. n /\ t \in Seq(T) /\ DOMAIN t = 1 .. n - 1
        /\ Head(s) = s[1] /\ \A i \in 1 .. n - 1 : t[i] = s[i + 1]
    BY HeadTailProperties
  <1>2. /\ 1 \in 1 .. n /\ \A i \in 1 .. n - 1 : i + 1 \in 1 .. n /\ i + 1 # 1
        /\ \A i, j \in 1 .. n - 1 : i + 1 = j + 1 => i = j
    BY <1>1
  <1>3. \A i \in 1 .. n : i = 1 \/ \E j \in 1 .. n - 1 : i = j + 1
    <2> TAKE i \in 1 .. n
    <2>1. i # 1 => i - 1 \in 1 .. n - 1 /\ i = (i - 1) + 1
      BY <1>1
    <2>2. QED
      BY <2>1
  <1> HIDE DEF n, t
  <1>4. Range(t) \subseteq Range(s) /\ Head(s) \in Range(s)
    BY <1>1, <1>2 DEF Range
  <1>5. Registers(s) <=> Head(s) = "REGISTER" \/ Registers(t)
    <2>1. ASSUME Registers(s), s[1] # "REGISTER" PROVE Registers(t)
      <3>1. PICK i \in 1 .. n : s[i] = "REGISTER"
        BY <1>1, <2>1 DEF Registers, Range
      <3>2. PICK j \in 1 .. n - 1 : i = j + 1
        BY <1>3, <2>1, <3>1
      <3>3. t[j] = "REGISTER"
        BY <1>1, <3>1, <3>2
      <3>4. QED
        BY <1>1, <3>3 DEF Registers, Range
    <2>2. Registers(t) => Registers(s)
      BY <1>4 DEF Registers
    <2>3. s[1] = "REGISTER" => Registers(s)
      BY <1>1, <1>4 DEF Registers
    <2>4. QED
      BY <1>1, <2>1, <2>2, <2>3
  <1>6. ASSUME RegistersOnce(s),
               NEW i \in 1 .. n - 1, NEW j \in 1 .. n - 1, t[i] = "REGISTER", t[j] = "REGISTER"
        PROVE  i = j
    <2>1. i + 1 \in DOMAIN s /\ j + 1 \in DOMAIN s /\ s[i + 1] = "REGISTER" /\ s[j + 1] = "REGISTER"
      BY <1>1, <1>2, <1>6
    <2>2. i + 1 = j + 1
      BY <1>6, <2>1 DEF RegistersOnce
    <2>3. QED
      BY <1>2, <2>2
  <1>7. RegistersOnce(s) /\ Head(s) = "REGISTER" => ~Registers(t)
    BY <1>1, <1>2 DEF RegistersOnce, Registers, Range
  <1>8. RegistersOnce(s) => RegistersOnce(t)
    BY <1>1, <1>6 DEF RegistersOnce
  <1>9. QED
    BY <1>1, <1>4, <1>5, <1>7, <1>8 DEF t

\* A queue to which requests are added that are no registrations.
Others == Requests \ {"REGISTER"}
Grows(queue, queue2) == \E more \in Seq(Others) : queue2 = queue \o more

LEMMA OthersAreQuiet ==
    ASSUME NEW more \in Seq(Others)
    PROVE  more \in Seq(Requests) /\ ~Registers(more) /\ RegistersOnce(more)
  <1>1. \A i \in DOMAIN more : more[i] \in Others
    OBVIOUS
  <1>2. more \in Seq(Requests)
    BY DEF Others
  <1>3. QED
    BY <1>1, <1>2 DEF Registers, RegistersOnce, Range, Others

LEMMA GrownQueue ==
    ASSUME NEW queue \in Seq(Requests), NEW queue2, Grows(queue, queue2)
    PROVE  /\ queue2 \in Seq(Requests) /\ (Registers(queue2) <=> Registers(queue))
           /\ RegistersOnce(queue) => RegistersOnce(queue2)
  <1>1. PICK more \in Seq(Others) : queue2 = queue \o more
    BY DEF Grows
  <1>2. more \in Seq(Requests) /\ ~Registers(more) /\ RegistersOnce(more)
    BY OthersAreQuiet
  <1>3. queue \o more \in Seq(Requests)
    BY <1>2
  <1>4. QED
    BY <1>1, <1>2, <1>3, JoinRegisters

LEMMA GrowsBy ==
    ASSUME NEW queue \in Seq(Requests)
    PROVE  /\ Grows(queue, queue)
           /\ \A e \in Others : Grows(queue, Append(queue, e))
           /\ \A more \in Seq(Others) : Grows(queue, queue \o more)
  <1>1. <<>> \in Seq(Others) /\ queue \o <<>> = queue
    OBVIOUS
  <1>2. ASSUME NEW e \in Others PROVE Append(queue, e) = queue \o <<e>> /\ <<e>> \in Seq(Others)
    <2>1. e \in Requests
      BY DEF Others
    <2>2. QED
      BY <2>1, AppendIsConcat
  <1>3. QED
    BY <1>1, <1>2 DEF Grows

-----------------------------------------------------------------------------
\* The invariant of the client, step by step.

\* The part of it that is about one variable or two, and the part about the queues.
PlainOK ==
    /\ sock \in {"none", "connecting", "unreachable", "open", "reset"} /\ in \in BOOLEAN /\ hup \in BOOLEAN
    /\ (sock = "none") <=> ~io_handle_
    /\ bits \subseteq {"IN", "OUT"} /\ entry \in BOOLEAN /\ (watched => entry)
    /\ run_pc \in {"top", "wait", "dispatch", "on_connect"} /\ timer \in {"off", "on", "due"}
    /\ ssl_state_ \in {"NONE", "READ", "WRITE"}
    /\ reported \in [Messages -> {"no", "early", "sent", "failed"}]
    /\ watched \in BOOLEAN
    /\ TimerOfRegistered

LEMMA ClientParts ==
    ClientInv <=> PlainOK /\ OneRegistration /\ QueueTypeOK /\ ConnectedOK /\ ReadOK
  <1>1. ASSUME QueueTypeOK
        PROVE  Range(local) \cup Range(pipe) \subseteq Requests /\ Range(batch) \subseteq Events
    <2>1. /\ \A i \in DOMAIN local : local[i] \in Requests
          /\ \A i \in DOMAIN pipe : pipe[i] \in Requests
          /\ \A i \in DOMAIN batch : batch[i] \in Events
      BY <1>1 DEF QueueTypeOK
    <2>2. QED
      BY <2>1 DEF Range
  <1>2. ClientInv => PlainOK
    BY DEF ClientInv, SocketKnown, TypeOK, QueueTypeOK, PlainOK
  <1>3. PlainOK /\ OneRegistration /\ QueueTypeOK => SocketKnown
    BY <1>1 DEF SocketKnown, TypeOK, PlainOK
  <1>4. QED
    BY <1>2, <1>3 DEF ClientInv, SocketKnown

LEMMA ClientPartsNext ==
    (PlainOK /\ OneRegistration /\ QueueTypeOK /\ ConnectedOK /\ ReadOK)' => ClientInv'
  BY ClientParts, PTL

\* Most steps register nothing: they add other requests and take at most the first
\* event from the batch.
QuietQueues ==
    /\ Grows(local, local') /\ Grows(pipe, pipe')
    /\ \/ batch' = batch
       \/ batch # <<>> /\ Head(batch) # "REGISTER" /\ batch' = Tail(batch)
    /\ in_table' = in_table /\ io_handle_' = io_handle_

LEMMA QuietStep ==
    ASSUME ClientInv, PlainOK', QuietQueues, transport' = transport,
           run_pc' \in {"wait", "top"} => batch' = <<>>,
           ConnectedOK', is_connect_ => is_connect_',
           Tls /\ in' => in \/ is_connect_
    PROVE  ClientInv'
  <1>1. PlainOK /\ OneRegistration /\ QueueTypeOK /\ ConnectedOK /\ ReadOK
    BY ClientParts
  <1>2. /\ local' \in Seq(Requests) /\ (Registers(local') <=> Registers(local))
        /\ RegistersOnce(local')
    BY <1>1, GrownQueue DEF QuietQueues, QueueTypeOK, OneRegistration
  <1>3. /\ pipe' \in Seq(Requests) /\ (Registers(pipe') <=> Registers(pipe))
        /\ RegistersOnce(pipe')
    BY <1>1, GrownQueue DEF QuietQueues, QueueTypeOK, OneRegistration
  <1>4. /\ batch' \in Seq(Events) /\ (Registers(batch') <=> Registers(batch))
        /\ RegistersOnce(batch') /\ Range(batch') \subseteq Range(batch)
    <2>1. CASE batch' = batch
      BY <1>1, <2>1 DEF QueueTypeOK, OneRegistration
    <2>2. CASE batch # <<>> /\ Head(batch) # "REGISTER" /\ batch' = Tail(batch)
      BY <1>1, <2>2, TailRegisters DEF QueueTypeOK, OneRegistration
    <2>3. QED
      BY <2>1, <2>2 DEF QuietQueues
  <1>5. OneRegistration'
    BY <1>1, <1>2, <1>3, <1>4 DEF OneRegistration, QuietQueues
  <1>6. QueueTypeOK'
    BY <1>2, <1>3, <1>4 DEF QueueTypeOK, PlainOK
  <1>7. ReadOK'
    BY <1>1, <1>4, <1>5 DEF ReadOK, QuietQueues, Tls, OneRegistration
  <1>8. QED
    BY <1>5, <1>6, <1>7, ClientPartsNext

LEMMA InitInv == ASSUME Init PROVE ClientInv
  <1>1. ~Registers(<<>>) /\ RegistersOnce(<<>>) /\ Range(<<>>) = {}
    BY DEF Registers, RegistersOnce, Range
  <1>2. PlainOK /\ ConnectedOK /\ ReadOK
    BY <1>1 DEF Init, PlainOK, ConnectedOK, ReadOK, TimerOfRegistered, Registers
  <1>3. QueueTypeOK
    <2>1. <<>> \in Seq(Requests) /\ <<>> \in Seq(Events)
      OBVIOUS
    <2>2. local = <<>> /\ pipe = <<>> /\ batch = <<>> /\ watched = FALSE
      BY DEF Init
    <2>3. QED
      BY <2>1, <2>2 DEF QueueTypeOK
  <1>4. OneRegistration
    <2>1. /\ ~Registers(batch) /\ ~Registers(local) /\ ~Registers(pipe)
          /\ RegistersOnce(batch) /\ RegistersOnce(local) /\ RegistersOnce(pipe)
      BY <1>1 DEF Init
    <2>2. QED
      BY <2>1 DEF Init, OneRegistration
  <1>5. QED
    BY <1>2, <1>3, <1>4, ClientParts

\* What is added to a queue, by name.
LEMMA Added ==
    /\ {"REMOVE", "FORGET", "WRITABLE", "UNWRITABLE", "TIMEOUT_ADD", "TIMEOUT_DEL"} \subseteq Others
    /\ {<<>>, <<"REMOVE">>, <<"WRITABLE">>, <<"UNWRITABLE">>, <<"UNWRITABLE", "WRITABLE">>,
        <<"UNWRITABLE", "TIMEOUT_DEL">>, <<"TIMEOUT_ADD">>} \subseteq Seq(Others)
  <1>1. {"REMOVE", "FORGET", "WRITABLE", "UNWRITABLE", "TIMEOUT_ADD", "TIMEOUT_DEL"} \subseteq Others
    BY DEF Others, Requests
  <1>2. <<>> \in Seq(Others) /\ \A e, f \in Others : <<e>> \in Seq(Others) /\ <<e, f>> \in Seq(Others)
    OBVIOUS
  <1>3. QED
    BY <1>1, <1>2

LEMMA RaiseGrows ==
    ASSUME ClientInv, NEW e \in Others, Raise(<<e>>)
    PROVE  Grows(local, local') /\ Grows(pipe, pipe')
  <1>1. local \in Seq(Requests) /\ pipe \in Seq(Requests)
    BY DEF ClientInv, QueueTypeOK
  <1>2. <<e>> \in Seq(Others)
    OBVIOUS
  <1>3. QED
    BY <1>1, <1>2, GrowsBy DEF Raise

\* The calls of the program, the peer and the clock.
LEMMA ConnectInv == ASSUME ClientInv, Connect PROVE ClientInv'
  <1>1. PlainOK /\ OneRegistration /\ QueueTypeOK /\ ConnectedOK /\ ReadOK
    BY ClientParts
  <1>2. ~in_table /\ ~Registers(batch) /\ ~Registers(local) /\ ~Registers(pipe)
    BY <1>1 DEF Connect, OneRegistration
  <1>3. /\ <<"REGISTER">> \in Seq(Requests) /\ Registers(<<"REGISTER">>)
        /\ RegistersOnce(<<"REGISTER">>)
    <2>1. <<"REGISTER">> \in Seq(Requests)
      BY DEF Requests
    <2>2. QED
      BY <2>1 DEF Registers, RegistersOnce, Range
  <1>4. ASSUME NEW queue \in Seq(Requests), RegistersOnce(queue), ~Registers(queue)
        PROVE  /\ queue \o <<"REGISTER">> \in Seq(Requests)
               /\ Registers(queue \o <<"REGISTER">>) /\ RegistersOnce(queue \o <<"REGISTER">>)
    <2>1. queue \o <<"REGISTER">> \in Seq(Requests)
      BY <1>3, <1>4
    <2> DEFINE one == <<"REGISTER">>
    <2>2. one \in Seq(Requests) /\ Registers(one) /\ RegistersOnce(one)
      BY <1>3
    <2> HIDE DEF one
    <2>3. Registers(queue \o one) /\ RegistersOnce(queue \o one)
      BY <1>4, <2>2, JoinRegisters
    <2>4. QED
      BY <2>1, <2>3 DEF one
  <1>5. OneRegistration' /\ local' \in Seq(Requests) /\ pipe' \in Seq(Requests)
    <2>1. CASE local' = local \o <<"REGISTER">> /\ UNCHANGED pipe
      BY <1>1, <1>2, <1>4, <2>1 DEF OneRegistration, QueueTypeOK, Connect
    <2>2. CASE pipe' = pipe \o <<"REGISTER">> /\ UNCHANGED local
      BY <1>1, <1>2, <1>4, <2>2 DEF OneRegistration, QueueTypeOK, Connect
    <2>3. QED
      BY <2>1, <2>2 DEF Connect, Raise
  <1>6. QueueTypeOK'
    BY <1>1, <1>5 DEF QueueTypeOK, Connect
  <1>7. PlainOK'
    BY <1>1 DEF PlainOK, Connect, TimerOfRegistered
  <1>8. ConnectedOK' /\ ReadOK'
    BY <1>1 DEF ConnectedOK, ReadOK, Connect, Tls
  <1>9. QED
    BY <1>5, <1>6, <1>7, <1>8, ClientPartsNext

LEMMA DisconnectInv == ASSUME ClientInv, Disconnect PROVE ClientInv'
  <1>1. PlainOK /\ QueueTypeOK /\ ConnectedOK
    BY ClientParts
  <1>2. QuietQueues
    BY RaiseGrows, Added DEF Disconnect, QuietQueues, handler
  <1>3. PlainOK' /\ ConnectedOK'
    BY <1>1 DEF PlainOK, ConnectedOK, TimerOfRegistered, Disconnect, kernel, handler, ssl, history
  <1>4. QED
    BY <1>1, <1>2, <1>3, QuietStep DEF Disconnect, kernel, handler, QueueTypeOK, Tls

LEMMA CloseInv == ASSUME ClientInv, Close PROVE ClientInv'
  <1>1. PlainOK /\ QueueTypeOK /\ ConnectedOK
    BY ClientParts
  <1>2. QuietQueues
    <2>1. local' = local /\ (pipe' = pipe \/ pipe' = Append(pipe, "REMOVE"))
      BY DEF Close
    <2>2. QED
      BY <1>1, <2>1, GrowsBy, Added DEF Close, QuietQueues, handler, QueueTypeOK
  <1>3. PlainOK' /\ ConnectedOK'
    BY <1>1 DEF PlainOK, ConnectedOK, TimerOfRegistered, Close, kernel, handler, history
  <1>4. QED
    BY <1>1, <1>2, <1>3, QuietStep DEF Close, kernel, handler, QueueTypeOK, Tls

LEMMA InsertType ==
    ASSUME ClientInv, NEW missed, Insert(missed)
    PROVE  reported' \in [Messages -> {"no", "early", "sent", "failed"}]
  BY DEF ClientInv, SocketKnown, TypeOK, Insert

LEMMA SendInv == ASSUME ClientInv, Send \/ SendTests \/ SendReturns PROVE ClientInv'
  <1>1. PlainOK /\ QueueTypeOK /\ ConnectedOK
    BY ClientParts
  <1>2. /\ UNCHANGED <<transport, kernel, run_pc, batch, in_table, timer, handler>>
        /\ local' = local \/ local' = Append(local, "WRITABLE")
        /\ pipe' = pipe \/ pipe' = Append(pipe, "WRITABLE")
    BY DEF Send, SendTests, SendReturns, SendInserts, SendAsks, loop
  <1>3. QuietQueues
    BY <1>1, <1>2, GrowsBy, Added DEF QuietQueues, handler, QueueTypeOK
  <1>4. ssl_state_' \in {"NONE", "READ", "WRITE"}
    BY <1>1 DEF PlainOK, Send, SendTests, SendReturns, SendInserts, SendAsks, WriteState, ssl
  <1>5. reported' \in [Messages -> {"no", "early", "sent", "failed"}]
    <2>1. reported' = reported \/ \E missed : Insert(missed)
      BY DEF Send, SendTests, SendReturns, SendInserts, SendAsks
    <2>2. QED
      BY <1>1, <2>1, InsertType DEF PlainOK
  <1>6. PlainOK' /\ ConnectedOK'
    BY <1>1, <1>2, <1>4, <1>5 DEF PlainOK, ConnectedOK, TimerOfRegistered, kernel, handler
  <1>7. QED
    BY <1>1, <1>2, <1>3, <1>6, QuietStep DEF kernel, handler, QueueTypeOK

LEMMA PeerInv == ASSUME ClientInv, Peer \/ TimePasses PROVE ClientInv'
  <1>1. PlainOK /\ QueueTypeOK /\ ConnectedOK
    BY ClientParts
  <1>2. UNCHANGED <<transport, run_pc, local, pipe, batch, in_table, handler>>
    BY DEF Peer, Answered, PeerSends, PeerHangsUp, TimePasses, loop
  <1>3. QuietQueues
    BY <1>1, <1>2, GrowsBy DEF QuietQueues, handler, QueueTypeOK
  <1>4. PlainOK'
    <2>1. CASE Answered
      BY <1>1, <2>1 DEF PlainOK, TimerOfRegistered, Answered, loop, handler, ssl, history
    <2>2. CASE PeerSends
      BY <1>1, <2>2 DEF PlainOK, TimerOfRegistered, PeerSends, loop, handler, ssl, history
    <2>3. CASE PeerHangsUp
      BY <1>1, <2>3 DEF PlainOK, TimerOfRegistered, PeerHangsUp, loop, handler, ssl, history
    <2>4. CASE TimePasses
      BY <1>1, <2>4 DEF PlainOK, TimerOfRegistered, TimePasses, kernel, handler, ssl, history
    <2>5. QED
      BY <2>1, <2>2, <2>3, <2>4 DEF Peer
  <1>5. Tls /\ in' => in \/ is_connect_
    BY DEF Peer, Answered, PeerSends, PeerHangsUp, TimePasses, kernel
  <1>6. ConnectedOK'
    BY <1>1, <1>2 DEF ConnectedOK, handler
  <1>7. QED
    BY <1>1, <1>2, <1>3, <1>4, <1>5, <1>6, QuietStep DEF handler, QueueTypeOK

\* The steps of run() and wait().
LEMMA TimeoutInv == ASSUME ClientInv, HandleTimeout PROVE ClientInv'
  <1>1. PlainOK /\ QueueTypeOK /\ ConnectedOK
    BY ClientParts
  <1>2. QuietQueues
    <2>1. pipe' = pipe /\ (local' = local \/ local' = Append(local, "REMOVE"))
      BY DEF HandleTimeout
    <2>2. QED
      BY <1>1, <2>1, GrowsBy, Added DEF HandleTimeout, QuietQueues, QueueTypeOK
  <1>3. PlainOK' /\ ConnectedOK'
    BY <1>1 DEF PlainOK, ConnectedOK, TimerOfRegistered, HandleTimeout, kernel, ssl, history
  <1>4. QED
    BY <1>1, <1>2, <1>3, QuietStep DEF HandleTimeout, kernel, QueueTypeOK, Tls

LEMMA WatchPlain ==
    ASSUME ClientInv, NEW w \in Interests, Watch(w), run_pc' \in {"top", "wait", "dispatch"},
           UNCHANGED <<sock, in, hup, in_table, timer, handler, ssl, history>>
    PROVE  PlainOK'
  <1>1. PlainOK
    BY ClientParts
  <1>2. /\ w.entry \in BOOLEAN /\ w.watched \in BOOLEAN /\ w.bits \subseteq {"IN", "OUT"}
        /\ w.watched => w.entry
    BY DEF Interests
  <1>3. QED
    BY <1>1, <1>2 DEF Watch, PlainOK, TimerOfRegistered, handler, ssl, history

LEMMA ReturnedEvents ==
    ASSUME NEW ev \in Seq(Returned)
    PROVE  ev \in Seq(Events) /\ "READ" \notin Range(ev)
  <1>1. \A i \in DOMAIN ev : ev[i] \in Returned
    OBVIOUS
  <1>2. ev \in Seq(Events)
    BY DEF Returned, Events
  <1>3. QED
    BY <1>1, <1>2 DEF Range, Returned

LEMMA ApplyLocalInv == ASSUME ClientInv, ApplyLocal PROVE ClientInv'
  <1>1. PlainOK /\ OneRegistration /\ QueueTypeOK /\ ConnectedOK /\ ReadOK
    BY ClientParts
  <1> DEFINE w == Apply(local)
  <1>2. w \in Interests /\ RegistersOnce(w.ev) /\ (Registers(w.ev) <=> Registers(local))
    BY <1>1, ApplyIs DEF ClientInv, SocketKnown, QueueTypeOK, OneRegistration
  <1>3. /\ Watch(w) /\ batch' = w.ev /\ run_pc' = IF w.ev = <<>> THEN "wait" ELSE "dispatch"
        /\ local' = <<>>
        /\ UNCHANGED <<transport, sock, in, hup, pipe, in_table, close_called, timer,
                       handler, buffers, ssl, history>>
    BY DEF ApplyLocal
  <1> HIDE DEF w
  <1>4. PlainOK'
    BY <1>2, <1>3, WatchPlain
  <1>5. w.ev \in Seq(Returned)
    BY <1>2 DEF Interests
  <1>6. w.ev \in Seq(Events) /\ "READ" \notin Range(w.ev)
    BY <1>5, ReturnedEvents
  <1>7. ~Registers(<<>>) /\ RegistersOnce(<<>>) /\ <<>> \in Seq(Requests)
    BY DEF Registers, RegistersOnce, Range
  <1>8. QueueTypeOK'
    BY <1>1, <1>3, <1>4, <1>6, <1>7 DEF QueueTypeOK, PlainOK
  <1>9. OneRegistration'
    <2>1. batch = <<>>
      BY <1>1 DEF ApplyLocal, QueueTypeOK
    <2>2. QED
      BY <1>1, <1>2, <1>3, <1>7, <2>1 DEF OneRegistration, handler
  <1>10. ConnectedOK' /\ ReadOK'
    BY <1>1, <1>3, <1>6 DEF ConnectedOK, ReadOK, handler, Tls
  <1>11. QED
    BY <1>4, <1>8, <1>9, <1>10, ClientPartsNext

LEMMA SocketEventsAre ==
    /\ SocketEvents \in Seq(Events) /\ ~Registers(SocketEvents) /\ RegistersOnce(SocketEvents)
    /\ "READ" \in Range(SocketEvents) => in
  <1> DEFINE r == IF "IN" \in bits /\ in THEN <<"READ">> ELSE <<>>
             o == IF "OUT" \in bits /\ sock \in {"open", "unreachable"} THEN <<"WRITE">> ELSE <<>>
             c == IF hup THEN <<"CLOSE">> ELSE <<>>
             Seen == {"READ", "WRITE", "CLOSE"} \ (IF in THEN {} ELSE {"READ"})
  <1>1. r \in Seq(Seen) /\ o \in Seq(Seen) /\ c \in Seq(Seen) /\ <<>> \in Seq(Seen)
    <2>1. "WRITE" \in Seen /\ "CLOSE" \in Seen /\ (in => "READ" \in Seen)
      OBVIOUS
    <2> HIDE DEF Seen
    <2>2. \A e \in Seen : <<e>> \in Seq(Seen)
      OBVIOUS
    <2>3. QED
      BY <2>1, <2>2
  <1>2. SocketEvents = IF ~watched THEN <<>> ELSE r \o o \o c
    BY DEF SocketEvents
  <1>3. Seen \subseteq Events \ {"REGISTER"} /\ ("READ" \in Seen => in)
    BY DEF Events
  <1> HIDE DEF r, o, c, Seen
  <1>4. SocketEvents \in Seq(Seen)
    BY <1>1, <1>2
  <1>5. \A i \in DOMAIN SocketEvents : SocketEvents[i] \in Seen
    BY <1>4
  <1>6. SocketEvents \in Seq(Events)
    BY <1>3, <1>4
  <1>7. QED
    BY <1>3, <1>5, <1>6 DEF Registers, RegistersOnce, Range

LEMMA JoinRange ==
    ASSUME NEW T, NEW s \in Seq(T), NEW t \in Seq(T)
    PROVE  Range(s \o t) \subseteq Range(s) \cup Range(t)
  <1> SUFFICES ASSUME NEW i \in 1 .. Len(s) + Len(t) PROVE (s \o t)[i] \in Range(s) \cup Range(t)
    BY ConcatProperties DEF Range
  <1>1. CASE i <= Len(s)
    <2>1. i \in DOMAIN s /\ (s \o t)[i] = s[i]
      BY <1>1
    <2>2. QED
      BY <2>1 DEF Range
  <1>2. CASE ~(i <= Len(s))
    <2>1. i - Len(s) \in DOMAIN t /\ (s \o t)[i] = t[i - Len(s)]
      BY <1>2
    <2>2. QED
      BY <2>1 DEF Range
  <1>3. QED
    BY <1>1, <1>2

LEMMA PollInv == ASSUME ClientInv, Poll PROVE ClientInv'
  <1>1. PlainOK /\ OneRegistration /\ QueueTypeOK /\ ConnectedOK /\ ReadOK
    BY ClientParts
  <1> DEFINE w == Apply(pipe)
             s == SocketEvents
  <1>2. w \in Interests /\ RegistersOnce(w.ev) /\ (Registers(w.ev) <=> Registers(pipe))
    BY <1>1, ApplyIs DEF ClientInv, SocketKnown, QueueTypeOK, OneRegistration
  <1>3. /\ Watch(w) /\ batch' \in {w.ev \o s, s \o w.ev}
        /\ run_pc' = IF batch' # <<>> THEN "dispatch" ELSE IF timer = "due" THEN "top" ELSE "wait"
        /\ pipe' = <<>> /\ run_pc = "wait" /\ local = <<>>
        /\ UNCHANGED <<transport, sock, in, hup, local, in_table, close_called, timer,
                       handler, buffers, ssl, history>>
    BY DEF Poll
  <1>4. s \in Seq(Events) /\ ~Registers(s) /\ RegistersOnce(s) /\ ("READ" \in Range(s) => in)
    BY SocketEventsAre
  <1> HIDE DEF w, s
  <1>5. PlainOK'
    BY <1>2, <1>3, WatchPlain
  <1>6. w.ev \in Seq(Returned)
    BY <1>2 DEF Interests
  <1>7. w.ev \in Seq(Events) /\ "READ" \notin Range(w.ev)
    BY <1>6, ReturnedEvents
  <1>8. /\ batch' \in Seq(Events) /\ RegistersOnce(batch') /\ (Registers(batch') <=> Registers(pipe))
        /\ Range(batch') \subseteq Range(w.ev) \cup Range(s)
    <2>1. CASE batch' = w.ev \o s
      BY <1>2, <1>4, <1>7, <2>1, JoinRegisters, JoinRange
    <2>2. CASE batch' = s \o w.ev
      BY <1>2, <1>4, <1>7, <2>2, JoinRegisters, JoinRange
    <2>3. QED
      BY <1>3, <2>1, <2>2
  <1>9. ~Registers(<<>>) /\ RegistersOnce(<<>>) /\ <<>> \in Seq(Requests)
    BY DEF Registers, RegistersOnce, Range
  <1>10. QueueTypeOK'
    BY <1>1, <1>3, <1>5, <1>8, <1>9 DEF QueueTypeOK, PlainOK
  <1>11. OneRegistration'
    <2>1. batch = <<>>
      BY <1>1, <1>3 DEF QueueTypeOK
    <2>2. QED
      BY <1>1, <1>3, <1>8, <1>9, <2>1 DEF OneRegistration, handler
  <1>12. ConnectedOK'
    BY <1>1, <1>3 DEF ConnectedOK, handler
  <1>13. ReadOK'
    <2>1. "READ" \in Range(batch') => in
      BY <1>4, <1>7, <1>8
    <2>2. Tls /\ in => is_connect_ /\ in_table /\ ~Registers(pipe)
      BY <1>1 DEF ReadOK, ConnectedOK, OneRegistration
    <2>3. QED
      BY <1>1, <1>3, <1>8, <2>1, <2>2 DEF ReadOK, handler, Tls
  <1>14. QED
    BY <1>5, <1>10, <1>11, <1>12, <1>13, ClientPartsNext

\* The dispatch of one event.
LEMMA DispatchInv ==
    ASSUME ClientInv, DispatchDone \/ DispatchUnknown \/ DispatchTimer PROVE ClientInv'
  <1>1. PlainOK /\ QueueTypeOK /\ ConnectedOK
    BY ClientParts
  <1>2. UNCHANGED <<transport, kernel, pipe, in_table, handler>> /\ run_pc = "dispatch"
    BY DEF DispatchDone, DispatchUnknown, DispatchTimer
  <1>3. QuietQueues
    <2>1. local' = local \/ local' = Append(local, "FORGET")
      BY DEF DispatchDone, DispatchUnknown, DispatchTimer
    <2>2. batch' = batch \/ (batch # <<>> /\ Head(batch) # "REGISTER" /\ batch' = Tail(batch))
      BY DEF DispatchDone, DispatchUnknown, DispatchTimer, NextEvent
    <2>3. QED
      BY <1>1, <1>2, <2>1, <2>2, GrowsBy, Added DEF QuietQueues, QueueTypeOK, handler
  <1>4. PlainOK'
    <2>1. CASE DispatchDone
      BY <1>1, <2>1 DEF PlainOK, TimerOfRegistered, DispatchDone, kernel, handler, ssl, history
    <2>2. CASE DispatchUnknown
      BY <1>1, <2>2 DEF PlainOK, TimerOfRegistered, DispatchUnknown, NextEvent, kernel, handler, ssl, history
    <2>3. CASE DispatchTimer
      BY <1>1, <2>3 DEF PlainOK, TimerOfRegistered, DispatchTimer, NextEvent, kernel, handler, ssl, history
    <2>4. QED
      BY <2>1, <2>2, <2>3
  <1>5. (run_pc' \in {"wait", "top"} => batch' = <<>>) /\ run_pc' # "on_connect"
    BY <1>1 DEF DispatchDone, DispatchUnknown, DispatchTimer, NextEvent
  <1>6. ConnectedOK'
    BY <1>1, <1>2, <1>5 DEF ConnectedOK, handler
  <1>7. QED
    BY <1>2, <1>3, <1>4, <1>5, <1>6, QuietStep DEF handler, kernel

LEMMA RegisteredInv == ASSUME ClientInv, handle_registered PROVE ClientInv'
  <1>1. PlainOK /\ OneRegistration /\ QueueTypeOK /\ ConnectedOK /\ ReadOK
    BY ClientParts
  <1>2. batch # <<>> /\ Head(batch) = "REGISTER" /\ batch' = Tail(batch) /\ run_pc' = "dispatch"
    BY DEF handle_registered, Dispatching, NextEvent
  <1>3. /\ Tail(batch) \in Seq(Events) /\ Range(Tail(batch)) \subseteq Range(batch)
        /\ Registers(batch) /\ ~Registers(Tail(batch)) /\ RegistersOnce(Tail(batch))
    BY <1>1, <1>2, TailRegisters DEF QueueTypeOK, OneRegistration
  <1>4. Grows(local, local')
    <2>1. /\ WhileConnecting \in Seq(Others) /\ <<"WRITABLE">> \in Seq(Others)
      BY Added DEF WhileConnecting
    <2>2. local' = local \o (WhileConnecting \o <<"WRITABLE">>)
      <3>1. local \in Seq(Requests) /\ WhileConnecting \in Seq(Requests) /\ <<"WRITABLE">> \in Seq(Requests)
        BY <1>1, <2>1, OthersAreQuiet DEF QueueTypeOK
      <3>2. local' = (local \o WhileConnecting) \o <<"WRITABLE">>
        BY DEF handle_registered
      <3>3. QED
        BY <3>1, <3>2, ConcatAssociative
    <2>3. WhileConnecting \o <<"WRITABLE">> \in Seq(Others)
      BY <2>1
    <2>4. QED
      BY <1>1, <2>2, <2>3, GrowsBy DEF QueueTypeOK
  <1>5. /\ local' \in Seq(Requests) /\ (Registers(local') <=> Registers(local))
        /\ RegistersOnce(local')
    BY <1>1, <1>4, GrownQueue DEF QueueTypeOK, OneRegistration
  <1>6. OneRegistration'
    BY <1>1, <1>2, <1>3, <1>5 DEF OneRegistration, handle_registered
  <1>7. QueueTypeOK' /\ PlainOK'
    BY <1>1, <1>2, <1>3, <1>5
    DEF QueueTypeOK, PlainOK, TimerOfRegistered, handle_registered, kernel, ssl, history
  <1>8. ConnectedOK' /\ ReadOK'
    BY <1>1, <1>2, <1>3 DEF ConnectedOK, ReadOK, handle_registered, kernel, Tls
  <1>9. QED
    BY <1>6, <1>7, <1>8, ClientPartsNext

LEMMA RemovedInv == ASSUME ClientInv, handle_removed PROVE ClientInv'
  <1>1. PlainOK /\ OneRegistration /\ QueueTypeOK /\ ConnectedOK /\ ReadOK
    BY ClientParts
  <1>2. batch # <<>> /\ batch' = Tail(batch) /\ run_pc' = "dispatch"
    BY DEF handle_removed, Dispatching, NextEvent
  <1>3. ~Registers(batch) /\ ~Registers(local) /\ ~Registers(pipe)
    BY <1>1 DEF OneRegistration, handle_removed
  <1>4. Tail(batch) \in Seq(Events) /\ ~Registers(Tail(batch)) /\ RegistersOnce(Tail(batch))
    BY <1>1, <1>2, <1>3, TailRegisters DEF QueueTypeOK, OneRegistration
  <1>5. OneRegistration'
    BY <1>1, <1>2, <1>3, <1>4 DEF OneRegistration, handle_removed
  <1>6. QueueTypeOK' /\ PlainOK'
    BY <1>1, <1>2, <1>4
    DEF QueueTypeOK, PlainOK, TimerOfRegistered, RemoveTimeout, handle_removed, ssl
  <1>7. ConnectedOK' /\ ReadOK'
    BY <1>2, <1>4 DEF ConnectedOK, ReadOK, handle_removed
  <1>8. QED
    BY <1>5, <1>6, <1>7, ClientPartsNext

LEMMA ConnectedInv == ASSUME ClientInv, HandleOutputConnects PROVE ClientInv'
  <1>1. PlainOK /\ QueueTypeOK /\ ConnectedOK
    BY ClientParts
  <1>2. QuietQueues
    <2>1. Grows(local, local') /\ Grows(pipe, pipe')
      BY <1>1, GrowsBy, Added DEF HandleOutputConnects, QueueTypeOK
    <2>2. QED
      BY <2>1 DEF HandleOutputConnects, Dispatching, QuietQueues
  <1>3. PlainOK' /\ ConnectedOK'
    BY <1>1 DEF PlainOK, ConnectedOK, TimerOfRegistered, HandleOutputConnects, kernel, ssl, history
  <1>4. QED
    BY <1>2, <1>3, QuietStep DEF HandleOutputConnects, kernel, Tls

LEMMA HandleCloseInv == ASSUME ClientInv, handle_close PROVE ClientInv'
  <1>1. PlainOK /\ QueueTypeOK /\ ConnectedOK
    BY ClientParts
  <1>2. QuietQueues
    <2>1. local' = local \/ local' = Append(local, "REMOVE")
      BY DEF handle_close
    <2>2. QED
      BY <1>1, <2>1, GrowsBy, Added
      DEF handle_close, Dispatching, NextEvent, handler, QuietQueues, QueueTypeOK
  <1>3. PlainOK' /\ ConnectedOK'
    BY <1>1 DEF PlainOK, ConnectedOK, TimerOfRegistered, handle_close, Dispatching, NextEvent,
                kernel, handler, ssl, history
  <1>4. QED
    BY <1>2, <1>3, QuietStep DEF handle_close, Dispatching, NextEvent, kernel, handler, Tls

LEMMA OnConnectInv == ASSUME ClientInv, on_connect \/ ssl_on_connect PROVE ClientInv'
  <1>1. PlainOK /\ QueueTypeOK /\ ConnectedOK
    BY ClientParts
  <1>2. /\ UNCHANGED <<transport, kernel, pipe, batch, in_table, timer, handler, ssl_state_, reported>>
        /\ run_pc = "on_connect" /\ run_pc' = "dispatch"
        /\ local' = local \/ local' = Append(local, "REMOVE")
    BY DEF on_connect, ssl_on_connect, ssl
  <1>3. QuietQueues
    BY <1>1, <1>2, GrowsBy, Added DEF handler, QuietQueues, QueueTypeOK
  <1>4. PlainOK' /\ ConnectedOK'
    BY <1>1, <1>2 DEF PlainOK, ConnectedOK, TimerOfRegistered, kernel, handler
  <1>5. QED
    BY <1>2, <1>3, <1>4, QuietStep DEF kernel, handler

LEMMA GrowsTwice ==
    ASSUME NEW queue \in Seq(Requests), NEW a \in Seq(Others), NEW b \in Seq(Others)
    PROVE  Grows(queue, queue \o a) /\ Grows(queue, queue \o a \o b)
  <1>1. a \in Seq(Requests) /\ b \in Seq(Requests)
    BY OthersAreQuiet
  <1>2. queue \o a \o b = queue \o (a \o b) /\ a \o b \in Seq(Others)
    BY <1>1, ConcatAssociative
  <1>3. QED
    BY <1>2, GrowsBy

\* The events of TcpAsyncClient and of TcpAsyncSSLClient once it is registered.
LEMMA EventInv ==
    ASSUME ClientInv, Grows(local, local'),
           run_pc = "dispatch", run_pc' = "dispatch",
           batch # <<>>, Head(batch) # "REGISTER", batch' = Tail(batch),
           in' \in BOOLEAN, Tls /\ in' => in,
           ssl_state_' \in {"NONE", "READ", "WRITE"},
           reported' \in [Messages -> {"no", "early", "sent", "failed"}],
           UNCHANGED <<transport, sock, hup, entry, watched, bits, pipe, in_table, timer, handler>>
    PROVE  ClientInv'
  <1>1. PlainOK /\ QueueTypeOK /\ ConnectedOK
    BY ClientParts
  <1>2. QuietQueues
    BY <1>1, GrowsBy DEF QuietQueues, QueueTypeOK, handler
  <1>3. PlainOK' /\ ConnectedOK'
    BY <1>1 DEF PlainOK, ConnectedOK, TimerOfRegistered, handler
  <1>4. QED
    BY <1>2, <1>3, QuietStep DEF handler

LEMMA ReportType ==
    ASSUME ClientInv, NEW infos, NEW what \in {"sent", "failed"}, Report(infos, what)
    PROVE  reported' \in [Messages -> {"no", "early", "sent", "failed"}]
  BY DEF ClientInv, SocketKnown, TypeOK, Report

LEMMA PlainEventInv ==
    ASSUME ClientInv, on_input \/ on_output \/ on_output_again PROVE ClientInv'
  <1>1. /\ run_pc = "dispatch" /\ run_pc' = "dispatch"
        /\ batch # <<>> /\ Head(batch) # "REGISTER" /\ batch' = Tail(batch)
        /\ ~Tls /\ ssl_state_' = ssl_state_
        /\ UNCHANGED <<transport, sock, hup, entry, watched, bits, pipe, in_table, timer, handler>>
    BY DEF on_input, on_output, on_output_again, WriteEvent, Dispatching, NextEvent, kernel, ssl
  <1>2. local \in Seq(Requests) /\ in \in BOOLEAN /\ ssl_state_ \in {"NONE", "READ", "WRITE"}
    BY DEF ClientInv, SocketKnown, TypeOK, QueueTypeOK
  <1>3. in' \in BOOLEAN
    BY <1>2 DEF on_input, on_output, on_output_again, kernel
  <1>4. Grows(local, local')
    <2>1. local' = local \/ local' = Append(local, "UNWRITABLE")
          \/ local' \in {local \o <<"UNWRITABLE">>, local \o <<"UNWRITABLE", "WRITABLE">>}
      BY DEF on_input, on_output, on_output_again, AskForMore
    <2>2. QED
      BY <1>2, <2>1, GrowsBy, Added
  <1>5. reported' \in [Messages -> {"no", "early", "sent", "failed"}]
    <2>1. \/ reported' = reported
          \/ \E infos : \E what \in {"sent", "failed"} : Report(infos, what)
      BY DEF on_input, on_output, on_output_again, history
    <2>2. QED
      BY <2>1, ReportType DEF ClientInv, SocketKnown, TypeOK
  <1>6. QED
    BY <1>1, <1>2, <1>3, <1>4, <1>5, EventInv

LEMMA SslEventInv == ASSUME ClientInv, ssl_event PROVE ClientInv'
  <1>1. /\ run_pc = "dispatch" /\ run_pc' = "dispatch"
        /\ batch # <<>> /\ Head(batch) # "REGISTER" /\ batch' = Tail(batch)
        /\ UNCHANGED <<transport, sock, hup, entry, watched, bits, pipe, in_table, timer, handler>>
    BY DEF ssl_event, WriteEvent, Dispatching, NextEvent
  <1>2. local \in Seq(Requests) /\ in \in BOOLEAN /\ ssl_state_ \in {"NONE", "READ", "WRITE"}
    BY DEF ClientInv, SocketKnown, TypeOK, QueueTypeOK
  <1>3. PICK state \in {"READ", "WRITE"}, req \in {<<>>, <<"UNWRITABLE">>} : process_ssl(state, req)
    BY DEF ssl_event
  <1>4. req \in Seq(Others)
    BY Added
  <1> DEFINE now == IF ssl_state_ = "NONE" THEN state ELSE ssl_state_
  <1>5. now \in {"READ", "WRITE"}
    BY <1>2
  <1>6. /\ in' \in BOOLEAN /\ (in' => in) /\ Grows(local, local')
        /\ ssl_state_' \in {"NONE", "READ", "WRITE"}
        /\ reported' \in [Messages -> {"no", "early", "sent", "failed"}]
    <2>1. CASE ssl_connect(now, req)
      <3>1. \/ local' = local \o req
            \/ \E wants \in {<<>>, <<"WRITABLE">>, <<"REMOVE">>} : local' = local \o req \o wants
        BY <2>1 DEF ssl_connect
      <3>2. Grows(local, local')
        BY <1>2, <1>4, <3>1, GrowsTwice, Added
      <3>3. in' = FALSE /\ ssl_state_' \in {"NONE", now} /\ reported' = reported
        BY <2>1 DEF ssl_connect
      <3>4. QED
        BY <1>5, <3>2, <3>3 DEF ClientInv, SocketKnown, TypeOK
    <2>2. CASE ssl_read(req)
      <3>1. Grows(local, local')
        BY <1>2, <1>4, <2>2, GrowsTwice, Added DEF ssl_read
      <3>2. QED
        BY <2>2, <3>1 DEF ssl_read, ClientInv, SocketKnown, TypeOK
    <2>3. CASE ssl_write(req)
      <3>1. \/ local' = local \o req
            \/ \E wants \in {<<>>, <<"WRITABLE">>, <<"REMOVE">>} : local' = local \o req \o wants
        BY <2>3 DEF ssl_write
      <3>2. Grows(local, local')
        BY <1>2, <1>4, <3>1, GrowsTwice, Added
      <3>3. /\ in' = in /\ ssl_state_' \in {"NONE", "WRITE"}
            /\ \/ reported' = reported
               \/ \E infos : \E what \in {"sent", "failed"} : Report(infos, what)
        BY <2>3 DEF ssl_write
      <3>4. QED
        BY <1>2, <3>2, <3>3, ReportType DEF ClientInv, SocketKnown, TypeOK
    <2>4. QED
      BY <1>3, <2>1, <2>2, <2>3 DEF process_ssl
  <1>7. QED
    BY <1>1, <1>6, EventInv

LEMMA StepInv == ASSUME ClientInv, [Next]_vars PROVE ClientInv'
  <1>1. CASE Program
    BY <1>1, ConnectInv, DisconnectInv, CloseInv, SendInv DEF Program
  <1>2. CASE Peer \/ TimePasses
    BY <1>2, PeerInv
  <1>3. CASE HandleTimeout \/ ApplyLocal \/ Poll
    BY <1>3, TimeoutInv, ApplyLocalInv, PollInv
  <1>4. CASE DispatchDone \/ DispatchUnknown \/ DispatchTimer
    BY <1>4, DispatchInv
  <1>5. CASE handle_registered \/ handle_removed \/ HandleOutputConnects \/ handle_close
    BY <1>5, RegisteredInv, RemovedInv, ConnectedInv, HandleCloseInv
  <1>6. CASE on_connect \/ ssl_on_connect
    BY <1>6, OnConnectInv
  <1>7. CASE on_input \/ on_output \/ on_output_again
    BY <1>7, PlainEventInv
  <1>8. CASE ssl_event
    BY <1>8, SslEventInv
  <1>9. CASE UNCHANGED vars
    BY <1>9 DEF vars, kernel, loop, handler, buffers, ssl, history, ClientInv, SocketKnown, TypeOK,
                TimerOfRegistered, OneRegistration, QueueTypeOK, ConnectedOK, ReadOK, Tls
  <1>10. QED
    BY <1>1, <1>2, <1>3, <1>4, <1>5, <1>6, <1>7, <1>8, <1>9 DEF Next, ReactorStep

\* However connect(), disconnect() and close() of the program, the events of a batch and
\* the connect timeout follow each other: a client with a socket is in the handler table
\* or has exactly one registration on its way to it, one without is not and has none, and
\* a timer runs only for a handler that is in the table.
THEOREM SocketCorrect == Spec => []SocketKnown
  <1>1. Init => ClientInv
    BY InitInv
  <1>2. ClientInv /\ [Next]_vars => ClientInv'
    BY StepInv
  <1>3. ClientInv => SocketKnown
    BY DEF ClientInv
  <1>4. QED
    BY <1>1, <1>2, <1>3, PTL DEF Spec

-----------------------------------------------------------------------------
\* The callbacks, as ClientSession promises them.

\* Most steps call back nothing and leave the connection as it is.
LEMMA SessionStays ==
    ASSUME UNCHANGED <<transport, io_handle_, is_connect_, ssl_accept_done_, told>>,
           run_pc = "on_connect" <=> run_pc' = "on_connect"
    PROVE  UNCHANGED <<session, told>>
  BY DEF session, Tls

LEMMA QuietSession ==
    ASSUME \/ Disconnect \/ Close \/ Send \/ SendTests \/ SendReturns \/ Peer \/ TimePasses \/ HandleTimeout \/ ApplyLocal \/ Poll
           \/ DispatchDone \/ DispatchUnknown \/ DispatchTimer \/ handle_registered \/ handle_close
           \/ on_input \/ on_output \/ on_output_again
    PROVE  /\ UNCHANGED <<transport, io_handle_, is_connect_, ssl_accept_done_, told>>
           /\ run_pc = "on_connect" <=> run_pc' = "on_connect"
  <1>1. UNCHANGED <<transport, io_handle_, is_connect_, ssl_accept_done_, told>>
    BY DEF Disconnect, Close, Send, SendTests, SendReturns, SendInserts, SendAsks,
           Peer, Answered, PeerSends, PeerHangsUp, TimePasses, HandleTimeout, ApplyLocal,
           Poll, DispatchDone, DispatchUnknown, DispatchTimer, handle_registered,
           handle_close, on_input, on_output, on_output_again, handler, ssl, history
  <1>2. run_pc = "on_connect" <=> run_pc' = "on_connect"
    <2>1. CASE Disconnect \/ Close \/ Send \/ SendTests \/ SendReturns \/ Peer \/ TimePasses
      BY <2>1 DEF Disconnect, Close, Send, SendTests, SendReturns, SendInserts, SendAsks, Peer, Answered, PeerSends, PeerHangsUp, TimePasses, loop
    <2>2. CASE HandleTimeout \/ ApplyLocal \/ Poll \/ DispatchDone
      BY <2>2 DEF HandleTimeout, ApplyLocal, Poll, DispatchDone
    <2>3. CASE DispatchUnknown \/ DispatchTimer \/ handle_registered \/ handle_close
                 \/ on_input \/ on_output \/ on_output_again
      BY <2>3 DEF DispatchUnknown, DispatchTimer, handle_registered, handle_close, on_input,
                  on_output, on_output_again, WriteEvent, Dispatching, NextEvent
    <2>4. QED
      BY <2>1, <2>2, <2>3
  <1>3. QED
    BY <1>1, <1>2

LEMMA Known ==
    ASSUME ClientInv
    PROVE  is_connect_ \in BOOLEAN /\ (is_connect_ => in_table) /\ (in_table => io_handle_)
           /\ (run_pc = "on_connect" => is_connect_)
  BY DEF ClientInv, ConnectedOK, SocketKnown, OneRegistration

LEMMA ConnectAsks == ASSUME ClientInv, Connect PROVE ClientPromise!Connect
  <1>1. session = "idle" /\ told' = <<>>
    BY DEF Connect, session
  <1>2. session' = "connecting"
    BY Known DEF Connect, session
  <1>3. QED
    BY <1>1, <1>2 DEF ClientPromise!Connect

LEMMA OutputStays == ASSUME ClientInv, HandleOutputConnects PROVE UNCHANGED <<session, told>>
  <1>1. session = "connecting" /\ told' = told
    BY Known DEF HandleOutputConnects, session, history
  <1>2. session' = "connecting"
    BY Known DEF HandleOutputConnects, session
  <1>3. QED
    BY <1>1, <1>2

LEMMA OnConnectTells == ASSUME ClientInv, on_connect \/ ssl_on_connect PROVE ClientPromise!Established
  <1>1. session = "connecting" /\ told' = Append(told, "connect")
    BY Known DEF on_connect, ssl_on_connect, session
  <1>2. session' = "connected"
    BY Known DEF on_connect, ssl_on_connect, session, handler, Tls
  <1>3. QED
    BY <1>1, <1>2 DEF ClientPromise!Established, ClientPromise!Tell

LEMMA RemovedTells ==
    ASSUME ClientInv, handle_removed PROVE ClientPromise!Refused \/ ClientPromise!Ended
  <1>1. io_handle_ /\ run_pc = "dispatch" /\ session' = "idle" /\ told' = Append(told, Answer)
    BY Known DEF handle_removed, Dispatching, session
  <1>2. CASE is_connect_
    <2>1. session \in {"connected", "secured"} /\ Answer = "disconnect"
      BY <1>1, <1>2 DEF session, Answer
    <2>2. QED
      BY <1>1, <2>1 DEF ClientPromise!Ended, ClientPromise!Tell
  <1>3. CASE ~is_connect_
    <2>1. session = "connecting" /\ Answer \in {"error", "timeout"}
      BY <1>1, <1>3 DEF session, Answer
    <2>2. QED
      BY <1>1, <2>1 DEF ClientPromise!Refused, ClientPromise!Tell
  <1>4. QED
    BY <1>2, <1>3

\* The handshake of a connection ends once, and only for one that was reported: what is
\* read is of a connection that is established (ReadOK).
LEMMA SslEventTells ==
    ASSUME ClientInv, ssl_event PROVE ClientPromise!Secured \/ UNCHANGED <<session, told>>
  <1>1. /\ run_pc = "dispatch" /\ run_pc' = "dispatch" /\ Tls /\ in_table
        /\ UNCHANGED <<transport, io_handle_, is_connect_>>
    BY DEF ssl_event, WriteEvent, Dispatching, NextEvent, handler
  <1>2. is_connect_
    <2>1. ASSUME Dispatching("READ") PROVE "READ" \in Range(batch)
      BY <2>1, TailRegisters DEF Dispatching, ClientInv, QueueTypeOK
    <2>2. QED
      BY <1>1, <2>1 DEF ssl_event, WriteEvent, ClientInv, ReadOK
  <1>3. PICK state, req : process_ssl(state, req)
    BY DEF ssl_event
  <1>4. \/ UNCHANGED <<ssl_accept_done_, told>>
        \/ ~ssl_accept_done_ /\ ssl_accept_done_' = TRUE /\ told' = Append(told, "accept")
    BY <1>3 DEF process_ssl, ssl_connect, ssl_read, ssl_write
  <1>5. CASE UNCHANGED <<ssl_accept_done_, told>>
    BY <1>1, <1>5, SessionStays
  <1>6. CASE ~ssl_accept_done_ /\ ssl_accept_done_' = TRUE /\ told' = Append(told, "accept")
    <2>1. session = "connected" /\ session' = "secured"
      BY <1>1, <1>2, <1>6, Known DEF session, Tls
    <2>2. QED
      BY <1>6, <2>1 DEF ClientPromise!Secured, ClientPromise!Tell
  <1>7. QED
    BY <1>4, <1>5, <1>6

\* Every connect() has exactly one answer, and handle_accept and handle_disconnect come
\* only for a connection that was reported, each once: a step of the client, the reactor
\* or the peer is one of those of ClientSession or calls back nothing.
THEOREM SessionRefinement == Spec => ImplementsSession
  <1>1. Init => ClientInv /\ ClientPromise!Init
    BY InitInv DEF Init, ClientPromise!Init, session
  <1>2. ClientInv /\ [Next]_vars => ClientInv'
    BY StepInv
  <1>3. ClientInv /\ [Next]_vars => [ClientPromise!Next]_<<session, told>>
    <2> SUFFICES ASSUME ClientInv, [Next]_vars PROVE [ClientPromise!Next]_<<session, told>>
      OBVIOUS
    <2>1. CASE Connect
      BY <2>1, ConnectAsks DEF ClientPromise!Next
    <2>2. CASE on_connect \/ ssl_on_connect
      BY <2>2, OnConnectTells DEF ClientPromise!Next
    <2>3. CASE handle_removed
      BY <2>3, RemovedTells DEF ClientPromise!Next
    <2>4. CASE ssl_event
      BY <2>4, SslEventTells DEF ClientPromise!Next
    <2>5. CASE HandleOutputConnects
      BY <2>5, OutputStays
    <2>6. CASE \/ Disconnect \/ Close \/ Send \/ SendTests \/ SendReturns \/ Peer \/ TimePasses \/ HandleTimeout \/ ApplyLocal
               \/ Poll \/ DispatchDone \/ DispatchUnknown \/ DispatchTimer \/ handle_registered
               \/ handle_close \/ on_input \/ on_output \/ on_output_again
      BY <2>6, QuietSession, SessionStays
    <2>7. CASE UNCHANGED vars
      BY <2>7 DEF vars, loop, handler, ssl, history, session, Tls
    <2>8. QED
      BY <2>1, <2>2, <2>3, <2>4, <2>5, <2>6, <2>7 DEF Next, Program, ReactorStep
  <1>4. QED
    BY <1>1, <1>2, <1>3, PTL DEF Spec, ImplementsSession, ClientPromise!Spec

-----------------------------------------------------------------------------
\* The stream of sends: joined, cut and emptied, the buffers stay in order.

LEMMA JoinedAt ==
    ASSUME NEW s \in Seq(Unit), NEW t \in Seq(Unit), NEW k \in DOMAIN (s \o t)
    PROVE  \/ k \in DOMAIN s /\ (s \o t)[k] = s[k] /\ k <= Len(s)
           \/ k - Len(s) \in DOMAIN t /\ (s \o t)[k] = t[k - Len(s)] /\ ~(k <= Len(s))
  <1>1. k \in 1 .. Len(s) + Len(t) /\ DOMAIN s = 1 .. Len(s) /\ DOMAIN t = 1 .. Len(t)
        /\ Len(s) \in Nat /\ Len(t) \in Nat
    BY ConcatProperties
  <1>2. CASE k <= Len(s)
    BY <1>1, <1>2
  <1>3. CASE ~(k <= Len(s))
    BY <1>1, <1>3
  <1>4. QED
    BY <1>2, <1>3

LEMMA JoinRising ==
    ASSUME NEW s \in Seq(Unit), NEW t \in Seq(Unit), Rising(s), Rising(t), Below(s, t)
    PROVE  Rising(s \o t)
  <1> SUFFICES ASSUME NEW i \in DOMAIN (s \o t), NEW j \in DOMAIN (s \o t), i < j
               PROVE  Less((s \o t)[i], (s \o t)[j])
    BY DEF Rising
  <1>1. Len(s) \in Nat /\ i \in Int /\ j \in Int
    BY ConcatProperties
  <1>2. CASE j <= Len(s)
    <2>1. i <= Len(s)
      BY <1>1, <1>2
    <2>2. QED
      BY <1>2, <2>1, JoinedAt DEF Rising
  <1>3. CASE ~(j <= Len(s)) /\ i <= Len(s)
    BY <1>3, JoinedAt DEF Below
  <1>4. CASE ~(j <= Len(s)) /\ ~(i <= Len(s))
    <2>1. i - Len(s) < j - Len(s)
      BY <1>1
    <2>2. QED
      BY <1>4, <2>1, JoinedAt DEF Rising
  <1>5. QED
    BY <1>2, <1>3, <1>4

LEMMA JoinBelow ==
    ASSUME NEW s \in Seq(Unit), NEW t \in Seq(Unit), NEW u
    PROVE  /\ Below(s, u) /\ Below(t, u) => Below(s \o t, u)
           /\ Below(u, s) /\ Below(u, t) => Below(u, s \o t)
  <1>1. ASSUME Below(s, u), Below(t, u), NEW i \in DOMAIN (s \o t), NEW j \in DOMAIN u
        PROVE  Less((s \o t)[i], u[j])
    BY <1>1, JoinedAt DEF Below
  <1>2. ASSUME Below(u, s), Below(u, t), NEW i \in DOMAIN u, NEW j \in DOMAIN (s \o t)
        PROVE  Less(u[i], (s \o t)[j])
    BY <1>2, JoinedAt DEF Below
  <1>3. QED
    BY <1>1, <1>2 DEF Below

LEMMA JoinWithin ==
    ASSUME NEW s \in Seq(Unit), NEW t \in Seq(Unit), NEW M, Within(s, M), Within(t, M)
    PROVE  Within(s \o t, M)
  <1> SUFFICES ASSUME NEW k \in DOMAIN (s \o t) PROVE (s \o t)[k].of \in M
    BY DEF Within
  <1>1. QED
    BY JoinedAt DEF Within

LEMMA EmptyStream ==
    ASSUME NEW s, NEW M
    PROVE  /\ Rising(<<>>) /\ Below(<<>>, s) /\ Below(s, <<>>) /\ Within(<<>>, M)
           /\ <<>> \in Seq(Unit)
  BY DEF Rising, Below, Within

\* The first k units of a buffer.
LEMMA FrontIs ==
    ASSUME NEW s \in Seq(Unit), NEW k \in 1 .. Len(s), NEW u, NEW M
    PROVE  /\ SubSeq(s, 1, k) \in Seq(Unit)
           /\ Rising(s) => Rising(SubSeq(s, 1, k))
           /\ Below(s, u) => Below(SubSeq(s, 1, k), u)
           /\ Below(u, s) => Below(u, SubSeq(s, 1, k))
           /\ Within(s, M) => Within(SubSeq(s, 1, k), M)
  <1> DEFINE f == SubSeq(s, 1, k)
  <1>1. f \in Seq(Unit) /\ Len(f) = k /\ \A i \in 1 .. k : f[i] = s[i]
    BY SubSeqProperties
  <1>2. DOMAIN f = 1 .. k /\ \A i \in 1 .. k : i \in DOMAIN s
    BY <1>1
  <1> HIDE DEF f
  <1>3. Rising(s) => Rising(f)
    BY <1>1, <1>2 DEF Rising
  <1>4. (Below(s, u) => Below(f, u)) /\ (Below(u, s) => Below(u, f))
    BY <1>1, <1>2 DEF Below
  <1>5. Within(s, M) => Within(f, M)
    BY <1>1, <1>2 DEF Within
  <1>6. QED
    BY <1>1, <1>3, <1>4, <1>5 DEF f

\* The units of the next message come behind those of all the messages before.
LEMMA NextUnits ==
    ASSUME NEW n \in Nat
    PROVE  /\ Units(n + 1) \in Seq(Unit) /\ Rising(Units(n + 1)) /\ Within(Units(n + 1), {n + 1})
           /\ \A s \in Seq(Unit) : Within(s, 1 .. n) => Below(s, Units(n + 1))
  <1> DEFINE a == [of |-> n + 1, part |-> 1]
             b == [of |-> n + 1, part |-> 2]
             u == <<a, b>>
  <1>1. a \in Unit /\ b \in Unit /\ a.of = n + 1 /\ b.of = n + 1 /\ a.part = 1 /\ b.part = 2
    BY DEF Unit
  <1>2. u = Units(n + 1)
    BY DEF Units
  <1> HIDE DEF a, b
  <1>3. u \in Seq(Unit) /\ DOMAIN u = {1, 2} /\ u[1] = a /\ u[2] = b
    BY <1>1
  <1> HIDE DEF u
  <1>4. Rising(u)
    <2> SUFFICES ASSUME NEW i \in {1, 2}, NEW j \in {1, 2}, i < j PROVE Less(u[i], u[j])
      BY <1>3 DEF Rising
    <2>1. i = 1 /\ j = 2
      OBVIOUS
    <2>2. QED
      BY <1>1, <1>3, <2>1 DEF Less
  <1>5. \A j \in DOMAIN u : u[j].of = n + 1
    BY <1>1, <1>3
  <1>6. Within(u, {n + 1})
    BY <1>5 DEF Within
  <1>7. ASSUME NEW s \in Seq(Unit), Within(s, 1 .. n) PROVE Below(s, u)
    <2>1. \A i \in DOMAIN s : s[i].of \in 1 .. n
      BY <1>7 DEF Within
    <2>2. \A i \in DOMAIN s : s[i].of < n + 1
      BY <2>1
    <2>3. QED
      BY <1>5, <2>2 DEF Below, Less
  <1>8. QED
    BY <1>2, <1>3, <1>4, <1>6, <1>7

LEMMA Wider ==
    ASSUME NEW s, NEW M, NEW N, M \subseteq N, Within(s, M)
    PROVE  Within(s, N)
  BY DEF Within

\* The buffers of a connection in use, as TakeOver and Emptied hand them on.
Buffers == [buf : Seq(Unit), infos : {send_buffer_infos_, prepare_info, <<>>},
            prep : Seq(Unit), pinfos : {send_buffer_infos_, prepare_info, <<>>}]
LinedUp(b) == /\ Lined(wire, b.buf, b.prep)
              /\ Within(b.buf, Mine) /\ Within(b.prep, Mine)

LEMMA TakeOverLines ==
    ASSUME StreamInv, InUse PROVE TakeOver \in Buffers /\ LinedUp(TakeOver)
  <1>1. CASE send_buffer_ # <<>> \/ prepare = <<>>
    BY <1>1 DEF StreamInv, TakeOver, Buffers, LinedUp
  <1>2. CASE ~(send_buffer_ # <<>> \/ prepare = <<>>)
    <2>1. /\ TakeOver.buf = prepare /\ TakeOver.prep = <<>> /\ TakeOver \in Buffers
      BY <1>2 DEF StreamInv, TakeOver, Buffers
    <2>2. QED
      BY <2>1, EmptyStream DEF StreamInv, LinedUp, Lined
  <1>3. QED
    BY <1>1, <1>2

\* What is written goes from the front of the buffer to the end of the wire; what is
\* left of the buffer, if anything, is dropped.
LEMMA WriteLines ==
    ASSUME StreamInv, NEW b \in Buffers, LinedUp(b), NEW out \in Seq(Unit), wire' = wire \o out,
           Rising(out), Below(wire, out), Below(out, b.prep), Within(out, Mine)
    PROVE  /\ wire' \in Seq(Unit) /\ Rising(wire') /\ Within(wire', Mine)
           /\ Emptied(b) \in Buffers
           /\ Lined(wire', Emptied(b).buf, Emptied(b).prep)
           /\ Within(Emptied(b).buf, Mine) /\ Within(Emptied(b).prep, Mine)
  <1>1. wire \in Seq(Unit) /\ b.buf \in Seq(Unit) /\ b.prep \in Seq(Unit)
    BY DEF StreamInv, Buffers
  <1>2. wire' \in Seq(Unit) /\ Rising(wire') /\ Within(wire', Mine)
    BY <1>1, JoinRising, JoinWithin DEF StreamInv
  <1>3. Below(wire', b.prep)
    BY <1>1, JoinBelow DEF LinedUp, Lined
  <1>4. /\ Emptied(b) \in Buffers /\ Emptied(b).prep = <<>>
        /\ Emptied(b).buf = b.prep
    <2>1. CASE b.prep = <<>>
      BY <2>1 DEF Emptied, Buffers
    <2>2. CASE b.prep # <<>>
      BY <2>2 DEF Emptied, Buffers
    <2>3. QED
      BY <2>1, <2>2
  <1>5. QED
    BY <1>2, <1>3, <1>4, EmptyStream DEF LinedUp, Lined

LEMMA KeepLines ==
    ASSUME NEW b \in Buffers, Keep(b), wire' \in Seq(Unit), Rising(wire'), Within(wire', Mine),
           Lined(wire', b.buf, b.prep), Within(b.buf, Mine), Within(b.prep, Mine),
           StreamInv, is_connect_, UNCHANGED <<transport, is_connect_, sent, before, spanned>>
    PROVE  StreamInv'
  <1>1. /\ send_buffer_' = b.buf /\ prepare' = b.prep
        /\ b.buf \in Seq(Unit) /\ b.prep \in Seq(Unit)
    BY DEF Keep, Buffers
  <1>2. Mine' = Mine
    BY DEF Mine
  <1>3. QED
    BY <1>1, <1>2 DEF StreamInv

LEMMA InitStream == ASSUME Init PROVE StreamInv
  BY EmptyStream DEF Init, StreamInv, InUse, Lined

LEMMA SameStream ==
    ASSUME StreamInv, UNCHANGED <<transport, is_connect_, sent, before, spanned, buffers>>,
           InUse' => InUse
    PROVE  StreamInv'
  <1>1. Mine' = Mine
    BY DEF Mine
  <1>2. QED
    BY <1>1 DEF StreamInv, buffers, Tls

LEMMA InsertStream ==
    ASSUME ClientInv, StreamInv, NEW missed, Insert(missed), ~is_connect_ => missed,
           UNCHANGED <<transport, is_connect_, run_pc, wire, before, send_buffer_>>
    PROVE  StreamInv'
  <1>1. /\ sent' = sent + 1 /\ prepare' = prepare \o Units(sent + 1)
        /\ spanned' = IF missed THEN spanned \cup {sent + 1} ELSE spanned
    BY DEF Insert
  <1>2. /\ sent \in Nat /\ before \in Nat /\ before <= sent /\ spanned \subseteq 1 .. sent
        /\ wire \in Seq(Unit) /\ send_buffer_ \in Seq(Unit) /\ prepare \in Seq(Unit)
        /\ Within(wire, Mine)
    BY DEF StreamInv
  <1> DEFINE u == Units(sent + 1)
  <1>3. /\ u \in Seq(Unit) /\ Rising(u) /\ Within(u, {sent + 1})
        /\ \A s \in Seq(Unit) : Within(s, 1 .. sent) => Below(s, u)
    BY <1>2, NextUnits
  <1> HIDE DEF u
  <1>4. /\ Mine \subseteq 1 .. sent /\ Mine \subseteq Mine' /\ {sent + 1} \subseteq Mine'
        /\ spanned \subseteq spanned' /\ spanned' \subseteq 1 .. sent'
        /\ sent' \in Nat /\ before <= sent'
    <2>1. sent' \in Nat /\ before <= sent /\ before <= sent' /\ sent + 1 \in 1 .. sent' /\ before < sent + 1
      BY <1>1, <1>2
    <2>2. 1 .. sent \subseteq 1 .. sent'
      BY <1>1, <1>2
    <2>3. spanned \subseteq spanned' /\ spanned' \subseteq 1 .. sent'
      BY <1>1, <1>2, <2>1, <2>2
    <2>4. Mine \subseteq 1 .. sent
      BY <1>2 DEF Mine
    <2>5. before' = before
      OBVIOUS
    <2>6. Mine \subseteq Mine' /\ {sent + 1} \subseteq Mine'
      BY <2>1, <2>2, <2>3, <2>5 DEF Mine
    <2>7. QED
      BY <2>1, <2>3, <2>4, <2>6
  <1>5. prepare' \in Seq(Unit)
    BY <1>1, <1>2, <1>3 DEF u
  <1>6. ASSUME InUse
        PROVE  /\ Lined(wire, send_buffer_, prepare')
               /\ Within(send_buffer_, Mine') /\ Within(prepare', Mine')
    <2>1. /\ Lined(wire, send_buffer_, prepare)
          /\ Within(send_buffer_, Mine) /\ Within(prepare, Mine)
      BY <1>6 DEF StreamInv
    <2>2. Below(wire, u) /\ Below(send_buffer_, u) /\ Below(prepare, u)
      BY <1>2, <1>3, <1>4, <2>1, Wider
    <2>3. Rising(prepare') /\ Below(wire, prepare') /\ Below(send_buffer_, prepare')
      BY <1>1, <1>2, <1>3, <2>1, <2>2, JoinRising, JoinBelow DEF Lined, u
    <2>4. Within(prepare', Mine') /\ Within(send_buffer_, Mine')
      <3>1. Within(prepare, Mine') /\ Within(u, Mine') /\ Within(send_buffer_, Mine')
        BY <1>3, <1>4, <2>1, Wider
      <3>2. QED
        BY <1>1, <1>2, <1>3, <3>1, JoinWithin DEF u
    <2>5. QED
      BY <2>1, <2>3, <2>4 DEF Lined
  <1>7. Rising(wire') /\ Within(wire', Mine')
    BY <1>2, <1>4, Wider DEF StreamInv
  <1>8. ASSUME Tls, ~is_connect_ PROVE send_buffer_ = <<>> /\ Within(prepare', spanned')
    <2>1. send_buffer_ = <<>> /\ Within(prepare, spanned)
      BY <1>8 DEF StreamInv
    <2>2. {sent + 1} \subseteq spanned'
      BY <1>1, <1>8
    <2>3. Within(prepare, spanned') /\ Within(u, spanned')
      BY <1>3, <1>4, <2>1, <2>2, Wider
    <2>4. QED
      BY <1>1, <1>2, <1>3, <2>1, <2>3, JoinWithin DEF u
  <1>9. (InUse' <=> InUse) /\ (Tls' <=> Tls)
    BY DEF InUse, Tls
  <1>10. QED
    BY <1>2, <1>4, <1>5, <1>6, <1>7, <1>8, <1>9 DEF StreamInv

LEMMA SendStream ==
    ASSUME ClientInv, StreamInv, Send \/ SendTests \/ SendReturns PROVE StreamInv'
  <1>1. CASE Send
    <2>1. Insert(FALSE) /\ is_connect_
          /\ UNCHANGED <<transport, is_connect_, run_pc, wire, before, send_buffer_>>
      BY <1>1 DEF Send, handler
    <2>2. QED
      BY <2>1, InsertStream
  <1>2. CASE SendInserts
    <2> DEFINE missed == tested # connects \/ ~is_connect_
    <2>1. Insert(missed) /\ (~is_connect_ => missed)
          /\ UNCHANGED <<transport, is_connect_, run_pc, wire, before, send_buffer_>>
      BY <1>2 DEF SendInserts, handler, loop
    <2> HIDE DEF missed
    <2>2. QED
      BY <2>1, InsertStream
  <1>3. CASE SendTests \/ SendAsks
    <2>1. UNCHANGED <<transport, is_connect_, run_pc, sent, before, spanned, buffers>>
      BY <1>3 DEF SendTests, SendAsks, handler, loop
    <2>2. QED
      BY <2>1, SameStream DEF InUse, Tls
  <1>4. QED
    BY <1>1, <1>2, <1>3 DEF SendReturns

\* At connect() nothing is on the wire, and a TLS client holds what missed its connection.
LEMMA ConnectStream == ASSUME StreamInv, Connect PROVE StreamInv'
  <1>1. /\ ~is_connect_ /\ before' = sent /\ wire' = <<>>
        /\ UNCHANGED <<transport, is_connect_, run_pc, sent, prepare, send_buffer_, spanned>>
    BY DEF Connect, sender
  <1>2. spanned \subseteq Mine'
    BY <1>1 DEF Mine
  <1>3. CASE Tls
    <2>1. send_buffer_ = <<>> /\ Within(prepare, spanned) /\ Rising(prepare)
      BY <1>1, <1>3 DEF StreamInv, InUse, Lined
    <2>2. Within(prepare, Mine')
      BY <1>2, <2>1, Wider
    <2>3. QED
      BY <1>1, <1>3, <2>1, <2>2, EmptyStream DEF StreamInv, Lined, Tls
  <1>4. CASE ~Tls
    BY <1>1, <1>4, EmptyStream DEF StreamInv, InUse, Tls
  <1>5. QED
    BY <1>3, <1>4

LEMMA ConnectedStream ==
    ASSUME StreamInv, HandleOutputConnects \/ on_connect \/ ssl_on_connect PROVE StreamInv'
  <1>1. UNCHANGED <<transport, wire, sent, before, spanned>> /\ Mine' = Mine
    BY DEF HandleOutputConnects, on_connect, ssl_on_connect, buffers, history, sender, Mine
  <1>2. CASE HandleOutputConnects
    <2>1. run_pc' = "on_connect" /\ is_connect_' /\ UNCHANGED buffers
      BY <1>2 DEF HandleOutputConnects
    <2>2. InUse' => InUse
      BY <1>1, <2>1 DEF InUse, Tls
    <2>3. QED
      BY <1>1, <2>1, <2>2 DEF StreamInv, buffers, Tls
  <1>3. CASE on_connect
    <2>1. ~Tls /\ prepare' = <<>> /\ send_buffer_' = <<>>
      BY <1>3 DEF on_connect, init_buffers
    <2>2. QED
      BY <1>1, <2>1, EmptyStream DEF StreamInv, Lined, Tls
  <1>4. CASE ssl_on_connect
    <2>1. Tls /\ UNCHANGED <<is_connect_, buffers>>
      BY <1>4 DEF ssl_on_connect, handler
    <2>2. QED
      BY <1>1, <2>1, SameStream DEF InUse, Tls
  <1>5. QED
    BY <1>2, <1>3, <1>4

LEMMA RemovedStream == ASSUME StreamInv, handle_removed PROVE StreamInv'
  <1>1. /\ ~is_connect_' /\ UNCHANGED <<transport, wire, sent, before, spanned>>
        /\ Mine' = Mine
    BY DEF handle_removed, buffers, sender, Mine
  <1>2. CASE Tls /\ is_connect_
    <2>1. prepare' = <<>> /\ send_buffer_' = <<>>
      BY <1>2 DEF handle_removed
    <2>2. QED
      BY <1>1, <2>1, EmptyStream DEF StreamInv, InUse, Lined
  <1>3. CASE ~(Tls /\ is_connect_)
    <2>1. UNCHANGED <<prepare, send_buffer_>>
      BY <1>3 DEF handle_removed, buffers
    <2>2. (InUse' => InUse) /\ (Tls' <=> Tls)
      BY <1>1 DEF InUse, Tls
    <2>3. QED
      BY <1>1, <1>3, <2>1, <2>2 DEF StreamInv
  <1>4. QED
    BY <1>2, <1>3

LEMMA OutputStream == ASSUME StreamInv, on_output \/ on_output_again PROVE StreamInv'
  <1>1. /\ is_connect_ /\ run_pc = "dispatch" /\ InUse
        /\ UNCHANGED <<transport, is_connect_, sent, before, spanned>>
    BY DEF on_output, on_output_again, WriteEvent, Dispatching, handler, history, sender, InUse
  <1> DEFINE b == TakeOver
  <1>2. b \in Buffers /\ LinedUp(b)
    BY <1>1, TakeOverLines
  <1>3. \/ Keep(b) /\ wire' = wire
        \/ /\ b.buf # <<>> /\ Keep(Emptied(b))
           /\ \E k \in 1 .. Len(b.buf) : wire' = wire \o SubSeq(b.buf, 1, k)
    BY DEF on_output, on_output_again, LostTail
  <1> HIDE DEF b
  <1>4. CASE Keep(b) /\ wire' = wire
    BY <1>1, <1>2, <1>4, KeepLines DEF LinedUp, StreamInv
  <1>5. ASSUME NEW k \in 1 .. Len(b.buf), wire' = wire \o SubSeq(b.buf, 1, k), Keep(Emptied(b))
        PROVE  StreamInv'
    <2> DEFINE out == SubSeq(b.buf, 1, k)
    <2>1. b.buf \in Seq(Unit)
      BY <1>2 DEF Buffers
    <2>2. /\ out \in Seq(Unit) /\ Rising(out) /\ Below(wire, out) /\ Below(out, b.prep)
          /\ Within(out, Mine)
      BY <1>2, <2>1, FrontIs DEF LinedUp, Lined
    <2> HIDE DEF out
    <2>3. /\ wire' \in Seq(Unit) /\ Rising(wire') /\ Within(wire', Mine)
          /\ Emptied(b) \in Buffers
          /\ Lined(wire', Emptied(b).buf, Emptied(b).prep)
          /\ Within(Emptied(b).buf, Mine) /\ Within(Emptied(b).prep, Mine)
      BY <1>2, <1>5, <2>2, WriteLines DEF out
    <2>4. QED
      BY <1>1, <1>5, <2>3, KeepLines
  <1>6. QED
    BY <1>3, <1>4, <1>5

LEMMA SslStream == ASSUME ClientInv, StreamInv, ssl_event PROVE StreamInv'
  <1>1. /\ is_connect_ /\ InUse /\ Tls
        /\ UNCHANGED <<transport, is_connect_, sent, before, spanned>>
    <2>1. ASSUME Dispatching("READ") PROVE "READ" \in Range(batch)
      BY <2>1, TailRegisters DEF Dispatching, ClientInv, QueueTypeOK
    <2>2. QED
      BY <2>1 DEF ssl_event, WriteEvent, ClientInv, ReadOK, handler, sender, InUse
  <1>2. PICK state, req : process_ssl(state, req)
    BY DEF ssl_event
  <1>3. CASE UNCHANGED buffers
    BY <1>1, <1>3, SameStream DEF InUse, Tls
  <1>4. CASE ssl_write(req)
    <2> DEFINE b == TakeOver
    <2>1. b \in Buffers /\ LinedUp(b)
      BY <1>1, TakeOverLines
    <2>2. \/ Keep(b) /\ wire' = wire
          \/ Keep(Emptied(b)) /\ wire' = wire \o b.buf
      BY <1>4 DEF ssl_write
    <2> HIDE DEF b
    <2>3. CASE Keep(b) /\ wire' = wire
      BY <1>1, <2>1, <2>3, KeepLines DEF LinedUp, StreamInv
    <2>4. CASE Keep(Emptied(b)) /\ wire' = wire \o b.buf
      <3>1. /\ b.buf \in Seq(Unit) /\ Rising(b.buf) /\ Below(wire, b.buf) /\ Below(b.buf, b.prep)
            /\ Within(b.buf, Mine)
        BY <2>1 DEF LinedUp, Lined, Buffers
      <3>2. /\ wire' \in Seq(Unit) /\ Rising(wire') /\ Within(wire', Mine)
            /\ Emptied(b) \in Buffers
            /\ Lined(wire', Emptied(b).buf, Emptied(b).prep)
            /\ Within(Emptied(b).buf, Mine) /\ Within(Emptied(b).prep, Mine)
        BY <2>1, <2>4, <3>1, WriteLines
      <3>3. QED
        BY <1>1, <2>4, <3>2, KeepLines
    <2>5. QED
      BY <2>2, <2>3, <2>4
  <1>5. QED
    BY <1>2, <1>3, <1>4 DEF process_ssl, ssl_connect, ssl_read

LEMMA StreamStep == ASSUME ClientInv, StreamInv, [Next]_vars PROVE StreamInv'
  <1>1. CASE Connect \/ Send \/ SendTests \/ SendReturns
    BY <1>1, ConnectStream, SendStream
  <1>2. CASE HandleOutputConnects \/ on_connect \/ ssl_on_connect
    BY <1>2, ConnectedStream
  <1>3. CASE handle_removed
    BY <1>3, RemovedStream
  <1>4. CASE on_output \/ on_output_again
    BY <1>4, OutputStream
  <1>5. CASE ssl_event
    BY <1>5, SslStream
  <1>6. CASE \/ Disconnect \/ Close \/ Peer \/ TimePasses \/ HandleTimeout \/ ApplyLocal
             \/ Poll \/ DispatchDone \/ DispatchUnknown \/ DispatchTimer \/ handle_registered
             \/ handle_close \/ on_input
    <2>1. UNCHANGED <<sent, before, spanned, buffers>>
      BY <1>6 DEF Disconnect, Close, Peer, Answered, PeerSends, PeerHangsUp, TimePasses, HandleTimeout,
                  ApplyLocal, Poll, DispatchDone, DispatchUnknown, DispatchTimer, handle_registered,
                  handle_close, on_input, history, sender
    <2>2. QED
      BY <1>6, <2>1, QuietSession, SameStream DEF InUse, Tls
  <1>7. CASE UNCHANGED vars
    BY <1>7, SameStream DEF vars, loop, handler, history, sender, InUse, Tls
  <1>8. QED
    BY <1>1, <1>2, <1>3, <1>4, <1>5, <1>6, <1>7 DEF Next, Program, ReactorStep

\* Bytes that send() puts into the buffer while the connection it found still stands never
\* go out on another, and all bytes go out in the order in which they were put there,
\* whatever a short write, a failed send, a removal between two sends or a handshake that
\* begins late makes of the two buffers.  A send() whose connection ends between its test
\* and its insert is the exception: what it inserts may go out on the next one.
THEOREM NoCrossTalkHolds == Spec => []NoCrossTalk
  <1>1. Init => ClientInv /\ StreamInv
    BY InitInv, InitStream
  <1>2. ClientInv /\ StreamInv /\ [Next]_vars => ClientInv' /\ StreamInv'
    BY StepInv, StreamStep
  <1>3. StreamInv => NoCrossTalk
    <2> SUFFICES ASSUME StreamInv PROVE NoCrossTalk
      OBVIOUS
    <2>1. \A i \in DOMAIN wire : wire[i] \in Unit
      BY DEF StreamInv
    <2>2. \A i \in DOMAIN wire : wire[i].of \in Nat
      BY <2>1 DEF Unit
    <2>3. QED
      BY <2>2 DEF StreamInv, NoCrossTalk, Rising, Less, Within, Mine
  <1>4. QED
    BY <1>1, <1>2, <1>3, PTL DEF Spec
=============================================================================

----------------------- MODULE TCPEventHandlerProofs -----------------------
(***************************************************************************)
(* Proofs about how a TCP session sends, for data of any size, any number  *)
(* of sends from any threads and any split of the bytes into ::send calls: *)
(* the stream is what was handed to send(), sent_remain is right, and      *)
(* handle_sent is called once for each send(), in order, when it is out.   *)
(***************************************************************************)
EXTENDS TCPEventHandler, MarkedStream, FiniteSetTheorems, SequenceTheorems, TLAPS

-----------------------------------------------------------------------------
\* The stream of the bytes accepted by send().

\* No call, no byte.
LEMMA MarkedEmpty == Marked(<<>>, <<>>)
  BY DEF Marked, EndOf

\* Ends are lengths.
LEMMA EndIsNat ==
    ASSUME NEW marks \in Seq(Nat), NEW i \in 0 .. Len(marks)
    PROVE  EndOf(marks, i) \in Nat
  BY DEF EndOf

\* What a run of equal bytes is.
LEMMA RunIs ==
    ASSUME NEW id \in Nat, NEW size \in Nat
    PROVE  /\ Run(id, size) \in Seq(Nat) /\ Len(Run(id, size)) = size
           /\ \A k \in 1 .. size : Run(id, size)[k] = id
  BY DEF Run

\* Concatenation with the bytes of one call is that.
LEMMA RunJoins ==
    ASSUME NEW bytes \in Seq(Nat), NEW id \in Nat, NEW size \in Nat
    PROVE  JoinedRun(bytes, bytes \o Run(id, size), id, size)
  <1> DEFINE run == Run(id, size)
             L == Len(bytes)
  <1>1. run \in Seq(Nat) /\ Len(run) = size /\ \A k \in 1 .. size : run[k] = id
    BY RunIs
  <1> HIDE DEF run
  <1>2. /\ bytes \o run \in Seq(Nat) /\ Len(bytes \o run) = L + size
        /\ \A i \in 1 .. L + size : (bytes \o run)[i] =
               IF i <= L THEN bytes[i] ELSE run[i - L]
    BY <1>1, ConcatProperties
  <1>3. L \in Nat
    OBVIOUS
  <1>4. \A p \in L + 1 .. L + size : p - L \in 1 .. size /\ ~(p <= L) /\ p \in 1 .. L + size
    BY <1>3
  <1>5. \A p \in 1 .. L : p <= L /\ p \in 1 .. L + size
    BY <1>3
  <1> DEFINE whole == bytes \o run
  <1> HIDE DEF whole, L
  <1>6. JoinedRun(bytes, whole, id, size)
    BY <1>1, <1>2, <1>4, <1>5 DEF JoinedRun, whole, L
  <1>7. QED
    BY <1>6 DEF whole, run

\* One more call appends its bytes and its end, and moves no other end.
LEMMA MarkedGrows ==
    ASSUME NEW bytes, NEW marks, Marked(bytes, marks), NEW size \in Nat,
           NEW id \in Nat,
           NEW bytes2, JoinedRun(bytes, bytes2, id, size),
           NEW marks2, OneMoreEnd(marks, marks2, id, Len(bytes) + size)
    PROVE  /\ Marked(bytes2, marks2)
           /\ EndOf(marks2, id) = Len(bytes) + size
           /\ SameEnds(marks, marks2)
  <1> DEFINE n == Len(marks)
             L == Len(bytes)
  <1>1. bytes \in Seq(Nat) /\ marks \in Seq(Nat) /\ n \in Nat /\ L \in Nat
    BY DEF Marked
  <1>3. /\ bytes2 \in Seq(Nat) /\ Len(bytes2) = L + size
        /\ \A p \in 1 .. L : bytes2[p] = bytes[p]
        /\ \A p \in L + 1 .. L + size : bytes2[p] = n + 1
    BY DEF JoinedRun, OneMoreEnd
  <1>4. /\ marks2 \in Seq(Nat) /\ Len(marks2) = n + 1
        /\ \A i \in 1 .. n : marks2[i] = marks[i]
        /\ marks2[n + 1] = L + size /\ id = n + 1
    BY DEF OneMoreEnd
  <1> HIDE DEF n, L
  <1>5. \A i \in 0 .. n : EndOf(marks2, i) = EndOf(marks, i) /\ EndOf(marks, i) \in Nat
    <2>1. \A i \in 0 .. n : i # 0 => i \in 1 .. n
      BY <1>1
    <2>2. QED
      BY <1>1, <1>4, <2>1 DEF EndOf
  <1>6. EndOf(marks2, n + 1) = L + size
    BY <1>1, <1>4 DEF EndOf
  <1>7. EndOf(marks, n) = L /\ \A i \in 0 .. n : EndOf(marks, i) <= L
    <2>1. n \in 0 .. n /\ \A i \in 0 .. n : i <= n
      BY <1>1
    <2>2. QED
      BY <1>1, <2>1 DEF Marked, n, L
  <1>8. \A i, j \in 0 .. n + 1 : i <= j => EndOf(marks2, i) <= EndOf(marks2, j)
    <2>1. \A i, j \in 0 .. n : i <= j => EndOf(marks, i) <= EndOf(marks, j)
      BY DEF Marked, n
    <2>2. \A i \in 0 .. n + 1 : i \in 0 .. n \/ i = n + 1
      BY <1>1
    <2> SUFFICES ASSUME NEW i \in 0 .. n + 1, NEW j \in 0 .. n + 1, i <= j
                 PROVE  EndOf(marks2, i) <= EndOf(marks2, j)
      OBVIOUS
    <2>3. CASE j \in 0 .. n
      <3>1. i \in 0 .. n
        BY <1>1, <2>3
      <3>2. QED
        BY <1>5, <2>1, <2>3, <3>1
    <2>4. CASE j = n + 1
      <3>1. CASE i \in 0 .. n
        BY <1>1, <1>5, <1>6, <1>7, <2>4, <3>1
      <3>2. CASE i = n + 1
        BY <1>1, <1>6, <2>4, <3>2
      <3>3. QED
        BY <2>2, <3>1, <3>2
    <2>5. QED
      BY <2>2, <2>3, <2>4
  <1>9. ASSUME NEW p \in 1 .. L + size
        PROVE  /\ bytes2[p] \in 1 .. n + 1
               /\ EndOf(marks2, bytes2[p] - 1) < p
               /\ p <= EndOf(marks2, bytes2[p])
    <2>1. CASE p \in 1 .. L
      <3>1. /\ bytes[p] \in 1 .. n /\ EndOf(marks, bytes[p] - 1) < p
            /\ p <= EndOf(marks, bytes[p])
        BY <2>1 DEF Marked, n, L
      <3>2. bytes[p] \in 0 .. n /\ bytes[p] - 1 \in 0 .. n /\ bytes[p] \in 1 .. n + 1
        BY <1>1, <3>1
      <3>3. QED
        BY <1>3, <1>5, <2>1, <3>1, <3>2
    <2>2. CASE p \in L + 1 .. L + size
      <3>0. bytes2[p] = n + 1
        BY <1>3, <2>2
      <3>1. bytes2[p] = n + 1 /\ n + 1 \in 1 .. n + 1 /\ (n + 1) - 1 = n /\ n \in 0 .. n
        BY <1>1, <3>0
      <3>2. EndOf(marks2, n) = L
        BY <1>5, <1>7, <3>1
      <3>3. L < p /\ p <= L + size
        BY <1>1, <2>2
      <3>4. bytes2[p] - 1 = n
        BY <3>1
      <3>5. QED
        BY <1>6, <3>1, <3>2, <3>3, <3>4
    <2>3. p \in 1 .. L \/ p \in L + 1 .. L + size
      BY <1>1
    <2>4. QED
      BY <2>1, <2>2, <2>3
  <1>10. Marked(bytes2, marks2)
    BY <1>3, <1>4, <1>6, <1>8, <1>9 DEF Marked
  <1>11. QED
    BY <1>4, <1>5, <1>6, <1>10 DEF n, L, SameEnds

\* Streams join in any order.
LEMMA JoinAssociative ==
    ASSUME NEW a \in Seq(Nat), NEW b \in Seq(Nat), NEW c \in Seq(Nat)
    PROVE  (a \o b) \o c = a \o (b \o c)
  OBVIOUS

\* The bytes of a call are exactly those between the two ends.
LEMMA MarkedIs ==
    ASSUME NEW bytes, NEW marks, Marked(bytes, marks),
           NEW i \in 1 .. Len(marks), NEW p \in 1 .. Len(bytes)
    PROVE  bytes[p] = i <=> EndOf(marks, i - 1) < p /\ p <= EndOf(marks, i)
  <1> DEFINE j == bytes[p]
  <1>1. j \in 1 .. Len(marks) /\ EndOf(marks, j - 1) < p /\ p <= EndOf(marks, j)
    BY DEF Marked
  <1>2. Len(marks) \in Nat /\ marks \in Seq(Nat)
    BY DEF Marked
  <1>3. \A x \in 1 .. Len(marks) : x \in 0 .. Len(marks) /\ x - 1 \in 0 .. Len(marks)
    BY <1>2
  <1> HIDE DEF j
  <1>4. /\ EndOf(marks, i) \in Nat /\ EndOf(marks, i - 1) \in Nat
        /\ EndOf(marks, j) \in Nat /\ EndOf(marks, j - 1) \in Nat
    BY <1>1, <1>2, <1>3, EndIsNat
  <1>5. j < i => EndOf(marks, j) <= EndOf(marks, i - 1)
    <2>1. j < i => j <= i - 1
      BY <1>1, <1>2
    <2>2. QED
      BY <1>1, <1>3, <2>1 DEF Marked
  <1>6. i < j => EndOf(marks, i) <= EndOf(marks, j - 1)
    <2>1. i < j => i <= j - 1
      BY <1>1, <1>2
    <2>2. QED
      BY <1>1, <1>3, <2>1 DEF Marked
  <1>7. j = i \/ j < i \/ i < j
    BY <1>1, <1>2
  <1>8. QED
    BY <1>1, <1>4, <1>5, <1>6, <1>7 DEF j

\* Moving the front of the second part to the first changes nothing.
LEMMA MoveFront ==
    ASSUME NEW a \in Seq(Nat), NEW b \in Seq(Nat), NEW n \in 0 .. Len(b)
    PROVE  /\ (a \o SubSeq(b, 1, n)) \o SubSeq(b, n + 1, Len(b)) = a \o b
           /\ SubSeq(b, 1, n) \in Seq(Nat) /\ Len(SubSeq(b, 1, n)) = n
           /\ SubSeq(b, n + 1, Len(b)) \in Seq(Nat)
           /\ Len(SubSeq(b, n + 1, Len(b))) = Len(b) - n
  <1>1. Len(b) \in Nat /\ n \in Nat /\ n <= Len(b)
    OBVIOUS
  <1>2. SubSeq(b, 1, n) \in Seq(Nat) /\ Len(SubSeq(b, 1, n)) = n
    <2>1. \A i \in 1 .. n : b[i] \in Nat
      BY <1>1
    <2>2. QED
      BY <1>1, <2>1, SubSeqProperties
  <1>3. SubSeq(b, n + 1, Len(b)) \in Seq(Nat) /\ Len(SubSeq(b, n + 1, Len(b))) = Len(b) - n
    <2>1. \A i \in n + 1 .. Len(b) : b[i] \in Nat
      BY <1>1
    <2>2. QED
      BY <1>1, <2>1, SubSeqProperties
  <1>4. SubSeq(b, 1, n) \o SubSeq(b, n + 1, Len(b)) = b
    <2>1. 1 \in 1 .. Len(b) + 1 /\ n \in 1 - 1 .. Len(b) /\ Len(b) \in n .. Len(b)
      BY <1>1
    <2>2. SubSeq(b, 1, n) \o SubSeq(b, n + 1, Len(b)) = SubSeq(b, 1, Len(b))
      BY <2>1, ConcatAdjacentSubSeq
    <2>3. QED
      BY <2>2, SubSeqFull
  <1> DEFINE front == SubSeq(b, 1, n)
             rest == SubSeq(b, n + 1, Len(b))
  <1>5. (a \o front) \o rest = a \o b
    <2>1. front \in Seq(Nat) /\ rest \in Seq(Nat) /\ front \o rest = b
      BY <1>2, <1>3, <1>4
    <2> HIDE DEF front, rest
    <2>2. (a \o front) \o rest = a \o (front \o rest)
      BY <2>1, JoinAssociative
    <2>3. QED
      BY <2>1, <2>2
  <1> HIDE DEF front, rest
  <1>6. QED
    BY <1>2, <1>3, <1>5 DEF front, rest

\* Where the second of three parts lies in the whole.
LEMMA SecondPart ==
    ASSUME NEW a \in Seq(Nat), NEW b \in Seq(Nat), NEW c \in Seq(Nat)
    PROVE  /\ (a \o b) \o c \in Seq(Nat)
           /\ Len((a \o b) \o c) = Len(a) + Len(b) + Len(c)
           /\ \A p \in 1 .. Len(b) : ((a \o b) \o c)[Len(a) + p] = b[p]
  <1>1. /\ a \o b \in Seq(Nat) /\ Len(a \o b) = Len(a) + Len(b)
        /\ \A i \in 1 .. Len(a) + Len(b) : (a \o b)[i] =
               IF i <= Len(a) THEN a[i] ELSE b[i - Len(a)]
    BY ConcatProperties
  <1> DEFINE ab == a \o b
  <1>2. /\ ab \o c \in Seq(Nat) /\ Len(ab \o c) = Len(ab) + Len(c)
        /\ \A i \in 1 .. Len(ab) + Len(c) : (ab \o c)[i] =
               IF i <= Len(ab) THEN ab[i] ELSE c[i - Len(ab)]
    BY <1>1, ConcatProperties
  <1>3. ASSUME NEW p \in 1 .. Len(b)
        PROVE  (ab \o c)[Len(a) + p] = b[p]
    <2>1. /\ Len(a) + p \in 1 .. Len(a) + Len(b) /\ ~(Len(a) + p <= Len(a))
          /\ (Len(a) + p) - Len(a) = p
      OBVIOUS
    <2>2. Len(a) + p \in 1 .. Len(ab) + Len(c) /\ Len(a) + p <= Len(ab)
      <3>1. Len(c) \in Nat /\ Len(a) \in Nat /\ Len(b) \in Nat
        OBVIOUS
      <3>2. QED
        BY <1>1, <3>1
    <2> HIDE DEF ab
    <2>3. (ab \o c)[Len(a) + p] = ab[Len(a) + p]
      BY <1>2, <2>2
    <2>4. QED
      BY <1>1, <2>1, <2>3 DEF ab
  <1>4. QED
    BY <1>1, <1>2, <1>3

-----------------------------------------------------------------------------
Info == [stream_id : Nat, begin : Nat, length : Nat, sent_remain : Nat]

SendTypeOK ==
    /\ send_buffer_ \in Seq(Nat) /\ send_buffers_prepare_ \in Seq(Nat)
    /\ wire \in Seq(Nat) /\ reported \in Seq(Nat)
    /\ send_buffer_infos_ \in Seq(Info) /\ send_buffers_prepare_info_ \in Seq(Info)
    /\ sent_size \in 0 .. Len(send_buffer_) /\ sent_info_size \in Nat
    /\ pc # "sent" => sent_size = 0 /\ sent_info_size = 0

\* The prepared infos are those of the sends after the first b.
PrepareOK(b) ==
    /\ Len(ends) = b + Len(send_buffers_prepare_info_)
    /\ \A k \in 1 .. Len(send_buffers_prepare_info_) :
         /\ send_buffers_prepare_info_[k].stream_id = b + k
         /\ send_buffers_prepare_info_[k].sent_remain =
              EndOf(ends, b + k) - EndOf(ends, b + k - 1)

Base == Len(reported) + Len(send_buffer_infos_)

\* The infos are those of the sends that follow the reported ones.  What is counted as
\* sent, sent_info_size bytes less than the wire has, lies within the first of them;
\* the buffer ends where the last of them does.
InfosOK ==
    /\ \A i \in 1 .. Len(reported) : reported[i] = i
    /\ \A k \in 1 .. Len(send_buffer_infos_) :
         send_buffer_infos_[k].stream_id = Len(reported) + k
    /\ \A k \in 2 .. Len(send_buffer_infos_) :
         send_buffer_infos_[k].sent_remain =
           EndOf(ends, Len(reported) + k) - EndOf(ends, Len(reported) + k - 1)
    /\ send_buffer_infos_ # <<>> =>
         send_buffer_infos_[1].sent_remain =
           EndOf(ends, Len(reported) + 1) - (Len(wire) - sent_info_size)
    /\ EndOf(ends, Len(reported)) <= Len(wire) - sent_info_size
    /\ Len(wire) + (Len(send_buffer_) - sent_size) = EndOf(ends, Base)

\* No info is left behind by an empty buffer: the next take-over would lose it.
NoneLeft == pc # "sent" /\ send_buffer_ = <<>> => send_buffer_infos_ = <<>>

SendInv ==
    /\ SendTypeOK /\ BytesInOrder /\ Marked(accepted, ends)
    /\ PrepareOK(Base) /\ InfosOK /\ NoneLeft

-----------------------------------------------------------------------------
\* Nothing sent, nothing waiting.
LEMMA SendInitInv == Init => SendInv
  <1> SUFFICES ASSUME Init PROVE SendInv
    OBVIOUS
  <1>1. /\ send_buffer_ = <<>> /\ send_buffers_prepare_ = <<>> /\ wire = <<>>
        /\ reported = <<>> /\ send_buffer_infos_ = <<>> /\ send_buffers_prepare_info_ = <<>>
        /\ accepted = <<>> /\ ends = <<>> /\ sent_size = 0 /\ sent_info_size = 0
    BY DEF Init
  <1>2. SendTypeOK
    BY <1>1 DEF SendTypeOK
  <1>3. BytesInOrder
    BY <1>1 DEF BytesInOrder, Unsent
  <1>4. Marked(accepted, ends)
    BY <1>1, MarkedEmpty
  <1>5. PrepareOK(Base) /\ InfosOK /\ NoneLeft
    BY <1>1 DEF PrepareOK, Base, InfosOK, NoneLeft, EndOf
  <1>6. QED
    BY <1>2, <1>3, <1>4, <1>5 DEF SendInv

\* The bytes of the buffer that the kernel has not taken.
LEMMA UnsentIs ==
    ASSUME SendTypeOK
    PROVE  Unsent \in Seq(Nat) /\ Len(Unsent) = Len(send_buffer_) - sent_size
  BY MoveFront DEF SendTypeOK, Unsent

\* The lengths add up.
LEMMA LengthsAdd ==
    ASSUME SendInv
    PROVE  Len(accepted) =
             Len(wire) + (Len(send_buffer_) - sent_size) + Len(send_buffers_prepare_)
  <1>1. /\ wire \in Seq(Nat) /\ Unsent \in Seq(Nat) /\ send_buffers_prepare_ \in Seq(Nat)
        /\ Len(Unsent) = Len(send_buffer_) - sent_size
    BY UnsentIs DEF SendInv, SendTypeOK
  <1>2. Len((wire \o Unsent) \o send_buffers_prepare_) =
          Len(wire) + Len(Unsent) + Len(send_buffers_prepare_)
    BY <1>1, SecondPart
  <1>3. QED
    BY <1>1, <1>2 DEF SendInv, BytesInOrder

\* send(), on whichever thread, adds to the prepare buffer, to its infos and to the end
\* of the stream, and changes nothing for the sends before it.
LEMMA PrepareKeeps ==
    ASSUME SendInv, Prepare \/ UNCHANGED <<prepared, stream>>,
           UNCHANGED <<send_buffer_, wire, sent_size>>
    PROVE  /\ BytesInOrder' /\ Marked(accepted, ends)'
           /\ send_buffers_prepare_' \in Seq(Nat)
           /\ send_buffers_prepare_info_' \in Seq(Info)
           /\ SameEnds(ends, ends')
           /\ \A b \in Nat : PrepareOK(b) => PrepareOK(b)'
  <1>0. /\ SendTypeOK /\ BytesInOrder /\ Marked(accepted, ends)
        /\ ends \in Seq(Nat) /\ accepted \in Seq(Nat) /\ Len(ends) \in Nat /\ Len(accepted) \in Nat
        /\ send_buffers_prepare_ \in Seq(Nat) /\ send_buffers_prepare_info_ \in Seq(Info)
    BY DEF SendInv, SendTypeOK, Marked
  <1>1. CASE UNCHANGED <<prepared, stream>>
    BY <1>0, <1>1 DEF prepared, stream, BytesInOrder, Unsent, PrepareOK, SameEnds
  <1>2. CASE Prepare
    <2> DEFINE id == Len(ends) + 1
    <2>1. PICK size \in Sizes :
            /\ send_buffers_prepare_' = send_buffers_prepare_ \o Run(id, size)
            /\ send_buffers_prepare_info_' =
                 Append(send_buffers_prepare_info_,
                        [stream_id |-> id, begin |-> Len(send_buffers_prepare_),
                         length |-> size, sent_remain |-> size])
            /\ accepted' = accepted \o Run(id, size)
            /\ ends' = Append(ends, Len(accepted) + size)
      BY <1>2 DEF Prepare, Bytes, Run
    <2>2. size \in Nat
      BY SendConstants
    <2>3. /\ Marked(accepted', ends')
          /\ Len(ends') = Len(ends) + 1
          /\ EndOf(ends', Len(ends) + 1) = Len(accepted) + size
          /\ \A i \in 0 .. Len(ends) : EndOf(ends', i) = EndOf(ends, i)
      <3>1. id \in Nat /\ id = Len(ends) + 1
        BY <1>0
      <3> HIDE DEF id
      <3>2. QED
        <4>1. JoinedRun(accepted, accepted', id, size)
          BY <1>0, <2>1, <2>2, <3>1, RunJoins
        <4>2. /\ ends' \in Seq(Nat) /\ Len(ends') = id /\ ends'[id] = Len(accepted) + size
              /\ \A i \in 1 .. Len(ends) : ends'[i] = ends[i]
          BY <1>0, <2>1, <2>2, <3>1, AppendProperties
        <4>3. /\ Marked(accepted', ends') /\ EndOf(ends', id) = Len(accepted) + size
              /\ SameEnds(ends, ends')
          <5>1. OneMoreEnd(ends, ends', id, Len(accepted) + size)
            BY <3>1, <4>2 DEF OneMoreEnd
          <5>2. Marked(accepted, ends) /\ size \in Nat /\ id \in Nat
            BY <1>0, <2>2, <3>1
          <5>3. QED
            BY <4>1, <5>1, <5>2, MarkedGrows
        <4>4. QED
          BY <3>1, <4>2, <4>3 DEF SameEnds
    <2> DEFINE run == Run(id, size)
    <2>4. run \in Seq(Nat) /\ id \in Nat
      <3>1. id \in Nat
        BY <1>0
      <3> HIDE DEF id
      <3>2. QED
        BY <2>2, <3>1, RunIs
    <2>5. send_buffers_prepare_' = send_buffers_prepare_ \o run /\ accepted' = accepted \o run
      BY <2>1
    <2>6. BytesInOrder'
      <3> HIDE DEF run
      <3>1. Unsent' = Unsent /\ Unsent \in Seq(Nat) /\ wire \in Seq(Nat) /\ wire' = wire
        BY <1>0, UnsentIs DEF Unsent, SendTypeOK
      <3> DEFINE front == wire \o Unsent
      <3>2. front \in Seq(Nat) /\ accepted = front \o send_buffers_prepare_
        BY <1>0, <3>1 DEF BytesInOrder
      <3>3. front' = front
        BY <3>1
      <3> HIDE DEF front
      <3>4. (front \o send_buffers_prepare_) \o run = front \o (send_buffers_prepare_ \o run)
        BY <1>0, <2>4, <3>2, JoinAssociative
      <3>5. front' \o send_buffers_prepare_' = accepted'
        BY <2>5, <3>2, <3>3, <3>4
      <3>6. QED
        BY <3>5 DEF BytesInOrder, front
    <2>7. send_buffers_prepare_' \in Seq(Nat)
      <3> HIDE DEF run
      <3>1. QED
        BY <1>0, <2>4, <2>5
    <2> DEFINE info == [stream_id |-> id, begin |-> Len(send_buffers_prepare_),
                        length |-> size, sent_remain |-> size]
               q == Len(send_buffers_prepare_info_)
    <2>8. info \in Info /\ info.stream_id = id /\ info.sent_remain = size
      BY <1>0, <2>2 DEF Info
    <2>9. /\ send_buffers_prepare_info_' \in Seq(Info) /\ q \in Nat
          /\ Len(send_buffers_prepare_info_') = q + 1
          /\ \A i \in 1 .. q : send_buffers_prepare_info_'[i] = send_buffers_prepare_info_[i]
          /\ send_buffers_prepare_info_'[q + 1] = info
      <3>1. send_buffers_prepare_info_' = Append(send_buffers_prepare_info_, info)
        BY <2>1
      <3> HIDE DEF info
      <3>2. QED
        BY <1>0, <2>8, <3>1, AppendProperties
    <2>10. EndOf(ends, Len(ends)) = Len(accepted)
      BY <1>0 DEF Marked
    <2> HIDE DEF info, q, id
    <2>11. ASSUME NEW b \in Nat, PrepareOK(b)
           PROVE  PrepareOK(b)'
      <3>1. Len(ends') = b + Len(send_buffers_prepare_info_')
        BY <2>3, <2>9, <2>11 DEF PrepareOK, q
      <3>2. Len(ends) = b + q
        BY <2>11 DEF PrepareOK, q
      <3>3. ASSUME NEW k \in 1 .. q + 1
            PROVE  /\ send_buffers_prepare_info_'[k].stream_id = b + k
                   /\ send_buffers_prepare_info_'[k].sent_remain =
                        EndOf(ends', b + k) - EndOf(ends', b + k - 1)
        <4>1. CASE k \in 1 .. q
          <5>1. b + k \in 0 .. Len(ends) /\ b + k - 1 \in 0 .. Len(ends)
            BY <2>9, <3>2, <4>1
          <5>2. QED
            BY <2>3, <2>9, <2>11, <4>1, <5>1 DEF PrepareOK, q
        <4>2. CASE k = q + 1
          <5>1. b + k = Len(ends) + 1 /\ b + k - 1 = Len(ends) /\ Len(ends) \in 0 .. Len(ends)
            BY <1>0, <2>9, <3>2, <4>2
          <5>2. EndOf(ends', b + k) - EndOf(ends', b + k - 1) = (Len(accepted) + size) - Len(accepted)
            BY <2>3, <2>10, <5>1
          <5>3. (Len(accepted) + size) - Len(accepted) = size
            BY <1>0, <2>2
          <5>4. QED
            BY <2>8, <2>9, <4>2, <5>1, <5>2, <5>3 DEF id
        <4>3. QED
          BY <2>9, <4>1, <4>2
      <3>4. QED
        BY <2>9, <3>1, <3>3 DEF PrepareOK
    <2>12. QED
      BY <2>3, <2>6, <2>7, <2>9, <2>11 DEF SameEnds
  <1>3. QED
    BY <1>1, <1>2

\* The ends a proof about the infos speaks of: those of the sends reported or in the
\* buffer.
LEMMA EndsInOrder ==
    ASSUME SendInv
    PROVE  /\ Len(reported) \in Nat /\ Len(send_buffer_infos_) \in Nat /\ Base \in 0 .. Len(ends)
           /\ \A i \in 0 .. Base : EndOf(ends, i) \in Nat
           /\ \A i, j \in 0 .. Base : i <= j => EndOf(ends, i) <= EndOf(ends, j)
           /\ Len(wire) \in Nat /\ Len(send_buffer_) \in Nat
  <1>1. /\ Len(reported) \in Nat /\ Len(send_buffer_infos_) \in Nat
        /\ Len(send_buffers_prepare_info_) \in Nat /\ Len(wire) \in Nat
        /\ Len(send_buffer_) \in Nat
    BY DEF SendInv, SendTypeOK
  <1>2. ends \in Seq(Nat) /\ Len(ends) = Base + Len(send_buffers_prepare_info_)
    BY DEF SendInv, Marked, PrepareOK
  <1>3. Base \in Nat
    BY <1>1 DEF Base
  <1>4. Base \in 0 .. Len(ends) /\ \A i \in 0 .. Base : i \in 0 .. Len(ends)
    BY <1>1, <1>2, <1>3
  <1>5. \A i \in 0 .. Base : EndOf(ends, i) \in Nat
    BY <1>2, <1>4, EndIsNat
  <1>6. \A i, j \in 0 .. Base : i <= j => EndOf(ends, i) <= EndOf(ends, j)
    BY <1>4 DEF SendInv, Marked
  <1>7. QED
    BY <1>1, <1>4, <1>5, <1>6

\* A step that sends nothing and reports nothing, with or without a send() in it.
LEMMA QuietKeeps ==
    ASSUME SendInv, Prepare \/ UNCHANGED <<prepared, stream>>,
           UNCHANGED <<buffers, wire, reported, sent_size, sent_info_size>>,
           pc' = "sent" <=> pc = "sent"
    PROVE  SendInv'
  <1>1. UNCHANGED <<send_buffer_, send_buffer_infos_, wire, reported, sent_size, sent_info_size>>
    BY DEF buffers
  <1>2. /\ BytesInOrder' /\ Marked(accepted, ends)'
        /\ send_buffers_prepare_' \in Seq(Nat) /\ send_buffers_prepare_info_' \in Seq(Info)
        /\ SameEnds(ends, ends') /\ \A b \in Nat : PrepareOK(b) => PrepareOK(b)'
    BY <1>1, PrepareKeeps
  <1>3. SendTypeOK' /\ NoneLeft'
    BY <1>1, <1>2 DEF SendInv, SendTypeOK, NoneLeft
  <1>4. Base' = Base /\ Base \in Nat /\ Base \in 0 .. Len(ends)
    BY <1>1, EndsInOrder DEF Base
  <1>5. PrepareOK(Base)'
    <2> DEFINE b == Base
    <2>1. PrepareOK(b) /\ b \in Nat
      BY <1>4 DEF SendInv
    <2>2. \A c \in Nat : PrepareOK(c) /\ Base' = c => PrepareOK(Base)'
      BY <1>2 DEF PrepareOK
    <2>3. QED
      BY <1>4, <2>1, <2>2
  <1>6. \A i \in 0 .. Base : EndOf(ends', i) = EndOf(ends, i)
    <2>1. \A i \in 0 .. Base : i \in 0 .. Len(ends)
      BY <1>4
    <2>2. QED
      BY <1>2, <2>1 DEF SameEnds
  <1>7. InfosOK'
    <2> DEFINE r == Len(reported)
               m == Len(send_buffer_infos_)
    <2>1. r \in Nat /\ m \in Nat /\ Base = r + m /\ (send_buffer_infos_ # <<>> => m >= 1)
      BY EndsInOrder DEF Base, SendInv, SendTypeOK
    <2>2. /\ r \in 0 .. Base /\ Base \in 0 .. Base
          /\ \A k \in 1 .. m : r + k \in 0 .. Base /\ r + k - 1 \in 0 .. Base
          /\ \A k \in 2 .. m : k \in 1 .. m
          /\ send_buffer_infos_ # <<>> => 1 \in 1 .. m
      BY <2>1
    <2>3. QED
      BY <1>1, <1>4, <1>6, <2>2 DEF SendInv, InfosOK
  <1>8. QED
    BY <1>2, <1>3, <1>5, <1>7 DEF SendInv

\* has_buffer_to_send: the prepared sends become the ones in the buffer.
LEMMA TakeOverKeeps ==
    ASSUME SendInv, has_buffer_to_send
    PROVE  SendInv'
  <1>0. /\ pc = "check" /\ pc' \in {"dispatch", "send"}
        /\ UNCHANGED <<sent_size, sent_info_size, accepted, ends, wire, reported>>
    BY DEF has_buffer_to_send, locals, history, stream
  <1>1. CASE ~TakeOver
    <2>1. UNCHANGED <<buffers, prepared, stream, wire, reported, sent_size, sent_info_size>>
          /\ pc' # "sent" /\ pc # "sent"
      BY <1>0, <1>1 DEF has_buffer_to_send, stream
    <2>2. QED
      BY <2>1, QuietKeeps
  <1>2. CASE TakeOver
    <2>1. /\ send_buffer_ = <<>> /\ send_buffers_prepare_ # <<>>
          /\ send_buffer_' = send_buffers_prepare_ /\ send_buffers_prepare_' = send_buffer_
          /\ send_buffer_infos_' = send_buffers_prepare_info_
          /\ send_buffers_prepare_info_' = send_buffer_infos_
      BY <1>2 DEF has_buffer_to_send, TakeOver
    <2>2. sent_size = 0 /\ sent_info_size = 0 /\ send_buffer_infos_ = <<>>
      BY <1>0, <2>1 DEF SendInv, SendTypeOK, NoneLeft
    <2>3. /\ wire \in Seq(Nat) /\ send_buffers_prepare_ \in Seq(Nat) /\ reported \in Seq(Nat)
          /\ send_buffers_prepare_info_ \in Seq(Info) /\ Len(wire) \in Nat
          /\ Len(send_buffers_prepare_) \in Nat
      BY DEF SendInv, SendTypeOK
    <2>4. SendTypeOK'
      BY <1>0, <2>1, <2>2, <2>3 DEF SendInv, SendTypeOK
    <2>5. wire \o send_buffers_prepare_ = accepted
      <3>1. Unsent = <<>>
        BY <2>1, <2>2 DEF Unsent
      <3>2. (wire \o <<>>) \o send_buffers_prepare_ = accepted
        BY <3>1 DEF SendInv, BytesInOrder
      <3>3. wire \o <<>> = wire
        BY <2>3
      <3>4. QED
        BY <3>2, <3>3
    <2>6. BytesInOrder'
      <3>1. Unsent' = send_buffers_prepare_
        BY <1>0, <2>1, <2>2, <2>3, SubSeqFull DEF Unsent
      <3>2. accepted \in Seq(Nat) /\ accepted \o <<>> = accepted
        BY DEF SendInv, Marked
      <3>3. QED
        BY <1>0, <2>1, <2>5, <3>1, <3>2 DEF BytesInOrder
    <2>7. Marked(accepted, ends)'
      BY <1>0 DEF SendInv
    <2> DEFINE r == Len(reported)
               q == Len(send_buffers_prepare_info_)
    <2>8. r \in Nat /\ q \in Nat /\ Base = r /\ Base' = r + q /\ Len(ends) = r + q
      <3>1. Len(send_buffer_infos_) = 0 /\ r \in Nat /\ q \in Nat
        BY <2>2, <2>3
      <3>2. Base = r /\ Base' = r + q
        BY <1>0, <2>1, <3>1 DEF Base
      <3>3. QED
        BY <3>1, <3>2 DEF SendInv, PrepareOK
    <2>9. /\ \A k \in 1 .. q :
               /\ send_buffers_prepare_info_[k].stream_id = r + k
               /\ send_buffers_prepare_info_[k].sent_remain =
                    EndOf(ends, r + k) - EndOf(ends, r + k - 1)
          /\ \A i \in 1 .. r : reported[i] = i
          /\ EndOf(ends, r) = Len(wire)
          /\ EndOf(ends, Len(ends)) = Len(accepted)
          /\ Len(accepted) = Len(wire) + Len(send_buffers_prepare_)
      <3>1. \A k \in 1 .. q :
               /\ send_buffers_prepare_info_[k].stream_id = r + k
               /\ send_buffers_prepare_info_[k].sent_remain =
                    EndOf(ends, r + k) - EndOf(ends, r + k - 1)
        BY <2>8 DEF SendInv, PrepareOK
      <3>2. \A i \in 1 .. r : reported[i] = i
        BY DEF SendInv, InfosOK
      <3>3. EndOf(ends, r) = Len(wire)
        <4>1. Len(wire) + (Len(send_buffer_) - sent_size) = EndOf(ends, r)
          BY <2>8 DEF SendInv, InfosOK
        <4>2. Len(send_buffer_) - sent_size = 0
          BY <2>1, <2>2
        <4>3. QED
          BY <2>3, <4>1, <4>2
      <3>4. EndOf(ends, Len(ends)) = Len(accepted)
        BY DEF SendInv, Marked
      <3>5. Len(accepted) = Len(wire) + Len(send_buffers_prepare_)
        BY <2>3, <2>5
      <3>6. QED
        BY <3>1, <3>2, <3>3, <3>4, <3>5
    <2>10. PrepareOK(Base)'
      <3>1. Len(send_buffers_prepare_info_') = 0
        BY <2>1, <2>2
      <3>2. Len(ends') = Base' + 0
        BY <1>0, <2>8
      <3>3. QED
        BY <3>1, <3>2 DEF PrepareOK
    <2>11. InfosOK'
      <3>1. /\ reported' = reported /\ ends' = ends /\ wire' = wire
            /\ send_buffer_infos_' = send_buffers_prepare_info_
            /\ sent_size' = 0 /\ sent_info_size' = 0 /\ send_buffer_' = send_buffers_prepare_
        BY <1>0, <2>1, <2>2
      <3>2. \A k \in 2 .. q : k \in 1 .. q
        BY <2>8
      <3>3. send_buffers_prepare_info_ # <<>> => 1 \in 1 .. q /\ r + 1 - 1 = r
        BY <2>3, <2>8
      <3>4. Len(wire) - 0 = Len(wire) /\ Len(send_buffers_prepare_) - 0 = Len(send_buffers_prepare_)
        BY <2>3
      <3> HIDE DEF r, q
      <3>5. send_buffers_prepare_info_ # <<>> =>
              send_buffers_prepare_info_[1].sent_remain = EndOf(ends, r + 1) - (Len(wire) - 0)
        BY <2>9, <3>3, <3>4
      <3>6. Len(wire) + (Len(send_buffers_prepare_) - 0) = EndOf(ends, Base')
        BY <2>8, <2>9, <3>4
      <3>7. EndOf(ends, r) <= Len(wire) - 0
        BY <2>3, <2>9, <3>4
      <3>8. QED
        BY <2>9, <3>1, <3>2, <3>5, <3>6, <3>7 DEF InfosOK, r, q
    <2>12. NoneLeft'
      BY <2>1 DEF NoneLeft
    <2>13. QED
      BY <2>4, <2>6, <2>7, <2>10, <2>11, <2>12 DEF SendInv
  <1>3. QED
    BY <1>1, <1>2

\* ::send moves bytes from the front of the buffer to the wire.
LEMMA SendSomeKeeps ==
    ASSUME SendInv, SendSome
    PROVE  SendInv'
  <1>1. PICK n \in 1 .. Len(send_buffer_) :
          /\ sent_size' = n /\ sent_info_size' = n
          /\ wire' = wire \o SubSeq(send_buffer_, 1, n)
    BY DEF SendSome
  <1>2. /\ pc = "send" /\ pc' = "sent"
        /\ UNCHANGED <<send_buffer_, send_buffer_infos_, send_buffers_prepare_,
                       send_buffers_prepare_info_, accepted, ends, reported>>
    BY DEF SendSome, buffers, prepared, stream
  <1>3. /\ sent_size = 0 /\ sent_info_size = 0 /\ send_buffer_ \in Seq(Nat) /\ wire \in Seq(Nat)
        /\ Len(send_buffer_) \in Nat /\ Len(wire) \in Nat
    BY <1>2 DEF SendInv, SendTypeOK
  <1>4. n \in Nat /\ n \in 0 .. Len(send_buffer_)
    BY <1>3
  <1> DEFINE front == SubSeq(send_buffer_, 1, n)
             rest == SubSeq(send_buffer_, n + 1, Len(send_buffer_))
  <1>5. /\ (wire \o front) \o rest = wire \o send_buffer_
        /\ front \in Seq(Nat) /\ Len(front) = n
    BY <1>3, <1>4, MoveFront
  <1>6. Unsent = send_buffer_ /\ Unsent' = rest /\ wire' = wire \o front
    BY <1>1, <1>2, <1>3, SubSeqFull DEF Unsent
  <1> HIDE DEF front, rest
  <1>7. BytesInOrder'
    BY <1>2, <1>5, <1>6 DEF SendInv, BytesInOrder
  <1>8. wire' \in Seq(Nat) /\ Len(wire') = Len(wire) + n
    <2>1. front \in Seq(Nat) /\ Len(front) = n /\ wire \in Seq(Nat)
      BY <1>3, <1>5
    <2>2. wire \o front \in Seq(Nat) /\ Len(wire \o front) = Len(wire) + Len(front)
      BY <2>1
    <2>3. QED
      BY <1>6, <2>1, <2>2
  <1>9. SendTypeOK'
    BY <1>1, <1>2, <1>4, <1>8 DEF SendInv, SendTypeOK
  <1>10. Base' = Base /\ Marked(accepted, ends)' /\ PrepareOK(Base)' /\ NoneLeft'
    BY <1>2 DEF SendInv, Base, PrepareOK, NoneLeft
  <1>11. /\ Len(wire') - sent_info_size' = Len(wire) - sent_info_size
         /\ Len(wire') + (Len(send_buffer_') - sent_size') =
              Len(wire) + (Len(send_buffer_) - sent_size)
    BY <1>1, <1>2, <1>3, <1>4, <1>8
  <1>12. InfosOK'
    BY <1>2, <1>10, <1>11 DEF SendInv, InfosOK
  <1>13. QED
    BY <1>7, <1>9, <1>10, <1>12 DEF SendInv

\* One turn of the loop that reports: the first info is out, and the next one starts
\* where it ended.  The session may send() from handle_sent.
LEMMA HandleSentKeeps ==
    ASSUME SendInv, HandleSent
    PROVE  SendInv'
  <1> DEFINE r == Len(reported)
             m == Len(send_buffer_infos_)
             info == Head(send_buffer_infos_)
  <1>1. /\ pc = "sent" /\ pc' = "sent" /\ send_buffer_infos_ # <<>>
        /\ sent_info_size - info.sent_remain >= 0
        /\ sent_info_size' = sent_info_size - info.sent_remain
        /\ reported' = Append(reported, info.stream_id)
        /\ send_buffer_infos_' = Tail(send_buffer_infos_)
        /\ UNCHANGED <<send_buffer_, sent_size, wire>>
    BY DEF HandleSent, Remaining
  <1>2. Prepare \/ UNCHANGED <<prepared, stream>>
    BY DEF HandleSent, SessionMaySend
  <1>3. /\ BytesInOrder' /\ Marked(accepted, ends)'
        /\ send_buffers_prepare_' \in Seq(Nat) /\ send_buffers_prepare_info_' \in Seq(Info)
        /\ SameEnds(ends, ends') /\ \A b \in Nat : PrepareOK(b) => PrepareOK(b)'
    BY <1>1, <1>2, PrepareKeeps
  <1>4. /\ r \in Nat /\ m \in Nat /\ m >= 1 /\ Base = r + m /\ Base \in 0 .. Len(ends)
        /\ Len(wire) \in Nat /\ sent_info_size \in Nat
    <2>1. m >= 1
      BY <1>1 DEF SendInv, SendTypeOK
    <2>2. QED
      BY <2>1, EndsInOrder DEF SendInv, SendTypeOK, Base
  <1>5. /\ info = send_buffer_infos_[1] /\ info \in Info
        /\ Tail(send_buffer_infos_) \in Seq(Info) /\ Len(Tail(send_buffer_infos_)) = m - 1
        /\ \A k \in 1 .. m - 1 : Tail(send_buffer_infos_)[k] = send_buffer_infos_[k + 1]
    <2>1. send_buffer_infos_ \in Seq(Info)
      BY DEF SendInv, SendTypeOK
    <2>2. QED
      BY <1>1, <2>1, HeadTailProperties
  <1>6. info.sent_remain \in Nat /\ info.stream_id = r + 1
        /\ info.sent_remain = EndOf(ends, r + 1) - (Len(wire) - sent_info_size)
    <2>1. 1 \in 1 .. m
      BY <1>4
    <2>2. QED
      BY <1>1, <1>5, <2>1 DEF SendInv, InfosOK, Info
  <1> HIDE DEF info
  <1>7. /\ reported' \in Seq(Nat) /\ Len(reported') = r + 1
        /\ \A i \in 1 .. r : reported'[i] = reported[i]
        /\ reported'[r + 1] = r + 1
    <2>1. reported \in Seq(Nat) /\ reported' = Append(reported, r + 1)
      BY <1>1, <1>6 DEF SendInv, SendTypeOK
    <2>2. QED
      BY <1>4, <2>1
  <1>8. SendTypeOK' /\ NoneLeft'
    BY <1>1, <1>3, <1>4, <1>5, <1>6, <1>7 DEF SendInv, SendTypeOK, NoneLeft
  <1>9. Len(send_buffer_infos_') = m - 1 /\ Base' = Base /\ Base \in Nat
    BY <1>1, <1>4, <1>5, <1>7 DEF Base
  <1>10. PrepareOK(Base)'
    <2>1. ASSUME NEW c \in Nat, PrepareOK(c), Base' = c
          PROVE  PrepareOK(Base)'
      <3>1. PrepareOK(c)'
        BY <1>3, <2>1
      <3>2. QED
        BY <2>1, <3>1 DEF PrepareOK
    <2>2. QED
      BY <1>9, <2>1 DEF SendInv
  <1> HIDE DEF r, m
  <1>11. \A i \in 0 .. Base : EndOf(ends', i) = EndOf(ends, i) /\ EndOf(ends, i) \in Nat
    <2>1. \A i \in 0 .. Base : i \in 0 .. Len(ends)
      BY <1>4
    <2>2. QED
      BY <1>3, <2>1, EndsInOrder DEF SameEnds
  <1>12. /\ r + 1 \in 0 .. Base /\ Base \in 0 .. Base
         /\ \A k \in 1 .. m - 1 : /\ k + 1 \in 2 .. m /\ k + 1 \in 1 .. m
                                  /\ (r + 1) + k = r + (k + 1) /\ (r + 1) + k \in 0 .. Base
                                  /\ (r + 1) + k - 1 = r + (k + 1) - 1
                                  /\ (r + 1) + k - 1 \in 0 .. Base
    BY <1>4
  <1>13. Len(wire') - sent_info_size' = EndOf(ends, r + 1)
    BY <1>1, <1>4, <1>6, <1>11, <1>12
  <1>14. \A i \in 1 .. r + 1 : reported'[i] = i
    <2>1. \A i \in 1 .. r : reported[i] = i
      BY DEF SendInv, InfosOK, r
    <2>2. \A i \in 1 .. r + 1 : i \in 1 .. r \/ i = r + 1
      BY <1>4
    <2>3. QED
      BY <1>7, <2>1, <2>2
  <1>15. \A k \in 1 .. m - 1 :
           /\ send_buffer_infos_'[k].stream_id = (r + 1) + k
           /\ send_buffer_infos_'[k].sent_remain =
                EndOf(ends', (r + 1) + k) - EndOf(ends', (r + 1) + k - 1)
    <2> SUFFICES ASSUME NEW k \in 1 .. m - 1
                 PROVE  /\ send_buffer_infos_'[k].stream_id = (r + 1) + k
                        /\ send_buffer_infos_'[k].sent_remain =
                             EndOf(ends', (r + 1) + k) - EndOf(ends', (r + 1) + k - 1)
      OBVIOUS
    <2>1. send_buffer_infos_'[k] = send_buffer_infos_[k + 1]
      BY <1>1, <1>5
    <2>2. /\ send_buffer_infos_[k + 1].stream_id = r + (k + 1)
          /\ send_buffer_infos_[k + 1].sent_remain =
               EndOf(ends, r + (k + 1)) - EndOf(ends, r + (k + 1) - 1)
      BY <1>12 DEF SendInv, InfosOK, r, m
    <2>3. /\ EndOf(ends', (r + 1) + k) = EndOf(ends, r + (k + 1))
          /\ EndOf(ends', (r + 1) + k - 1) = EndOf(ends, r + (k + 1) - 1)
      BY <1>11, <1>12
    <2>4. QED
      BY <1>12, <2>1, <2>2, <2>3
  <1>16. InfosOK'
    <2>1. \A k \in 2 .. m - 1 : k \in 1 .. m - 1
      BY <1>4
    <2>2. send_buffer_infos_' # <<>> => 1 \in 1 .. m - 1 /\ (r + 1) + 1 - 1 = r + 1
      BY <1>1, <1>4, <1>5
    <2>3. send_buffer_infos_' # <<>> =>
            send_buffer_infos_'[1].sent_remain =
              EndOf(ends', (r + 1) + 1) - (Len(wire') - sent_info_size')
      BY <1>11, <1>12, <1>13, <1>15, <2>2
    <2>4. EndOf(ends', r + 1) <= Len(wire') - sent_info_size'
      BY <1>11, <1>12, <1>13
    <2>5. Len(wire') + (Len(send_buffer_') - sent_size') = EndOf(ends', Base')
      BY <1>1, <1>9, <1>11, <1>12 DEF SendInv, InfosOK
    <2>6. QED
      BY <1>7, <1>9, <1>14, <1>15, <2>1, <2>3, <2>4, <2>5 DEF InfosOK
  <1>17. QED
    BY <1>3, <1>8, <1>10, <1>16 DEF SendInv

\* The loop ends, the rest of the first info is noted and the bytes are erased.
LEMMA SentDoneKeeps ==
    ASSUME SendInv, SentDone
    PROVE  SendInv'
  <1> DEFINE r == Len(reported)
             m == Len(send_buffer_infos_)
  <1>1. /\ pc = "sent" /\ pc' = "dispatch"
        /\ send_buffer_' = Unsent /\ sent_size' = 0 /\ sent_info_size' = 0
        /\ UNCHANGED <<send_buffers_prepare_, send_buffers_prepare_info_, accepted, ends, wire,
                       reported>>
    BY DEF SentDone, Unsent, prepared, history, stream
  <1>2. /\ Unsent \in Seq(Nat) /\ Len(Unsent) = Len(send_buffer_) - sent_size
        /\ sent_info_size \in Nat /\ send_buffer_infos_ \in Seq(Info)
        /\ sent_size \in 0 .. Len(send_buffer_)
    BY UnsentIs DEF SendInv, SendTypeOK
  <1>3. /\ r \in Nat /\ m \in Nat /\ Base = r + m /\ Len(wire) \in Nat /\ Len(send_buffer_) \in Nat
        /\ \A i \in 0 .. Base : EndOf(ends, i) \in Nat
        /\ \A i, j \in 0 .. Base : i <= j => EndOf(ends, i) <= EndOf(ends, j)
    BY EndsInOrder DEF Base
  <1>4. /\ EndOf(ends, r) <= Len(wire) - sent_info_size
        /\ Len(wire) + Len(Unsent) = EndOf(ends, Base)
    BY <1>2 DEF SendInv, InfosOK
  <1>5. BytesInOrder'
    <2>1. Unsent' = Unsent
      BY <1>1, <1>2, SubSeqFull DEF Unsent
    <2>2. QED
      BY <1>1, <2>1 DEF SendInv, BytesInOrder
  <1>6. Marked(accepted, ends)'
    BY <1>1 DEF SendInv
  <1>7. ASSUME send_buffer_infos_' \in Seq(Info), Len(send_buffer_infos_') = m
        PROVE  SendTypeOK' /\ Base' = Base /\ PrepareOK(Base)'
    <2>1. Base' = Base
      BY <1>1, <1>7 DEF Base
    <2>2. SendTypeOK'
      BY <1>1, <1>2, <1>7 DEF SendInv, SendTypeOK
    <2>3. QED
      BY <1>1, <2>1, <2>2 DEF SendInv, PrepareOK
  <1>8. EndOf(ends', Len(reported')) <= Len(wire') - sent_info_size'
    <2>1. EndOf(ends, r) \in Nat
      BY <1>3
    <2>2. QED
      BY <1>1, <1>2, <1>3, <1>4, <2>1
  <1>9. Len(wire') + (Len(send_buffer_') - sent_size') = EndOf(ends', Base)
    BY <1>1, <1>2, <1>4
  <1>10. CASE send_buffer_infos_ = <<>>
    <2>1. send_buffer_infos_' = send_buffer_infos_ /\ m = 0
      BY <1>10 DEF SentDone
    <2>2. SendTypeOK' /\ Base' = Base /\ PrepareOK(Base)'
      BY <1>2, <1>7, <2>1
    <2>3. InfosOK'
      BY <1>1, <1>8, <1>9, <1>10, <2>1, <2>2 DEF SendInv, InfosOK
    <2>4. NoneLeft'
      BY <1>10, <2>1 DEF NoneLeft
    <2>5. QED
      BY <1>5, <1>6, <2>2, <2>3, <2>4 DEF SendInv
  <1>11. CASE send_buffer_infos_ # <<>>
    <2> DEFINE info == Head(send_buffer_infos_)
               cut == [info EXCEPT !.sent_remain = info.sent_remain - sent_info_size]
    <2>1. /\ sent_info_size < info.sent_remain
          /\ send_buffer_infos_' = <<cut>> \o Tail(send_buffer_infos_)
      BY <1>11 DEF SentDone, Remaining, Cut
    <2>2. m >= 1 /\ info \in Info /\ info.sent_remain \in Nat /\ info = send_buffer_infos_[1]
      <3>1. info \in Info /\ info = send_buffer_infos_[1]
        BY <1>2, <1>11, HeadTailProperties
      <3>2. m >= 1
        BY <1>2, <1>11
      <3> HIDE DEF info
      <3>3. info.sent_remain \in Nat
        BY <3>1 DEF Info
      <3>4. QED
        BY <3>1, <3>2, <3>3
    <2> HIDE DEF info
    <2>3. /\ cut \in Info /\ cut.stream_id = info.stream_id
          /\ cut.sent_remain = info.sent_remain - sent_info_size
      <3> DEFINE left == info.sent_remain - sent_info_size
      <3>1. left \in Nat
        BY <1>2, <2>1, <2>2
      <3> HIDE DEF left
      <3>2. \A i \in Info : /\ [i EXCEPT !.sent_remain = left] \in Info
                           /\ [i EXCEPT !.sent_remain = left].stream_id = i.stream_id
                           /\ [i EXCEPT !.sent_remain = left].sent_remain = left
        BY <3>1 DEF Info
      <3>3. cut = [info EXCEPT !.sent_remain = left]
        BY DEF left
      <3> HIDE DEF cut
      <3>4. QED
        BY <2>2, <3>2, <3>3 DEF left
    <2>4. /\ send_buffer_infos_' \in Seq(Info) /\ Len(send_buffer_infos_') = m
          /\ send_buffer_infos_'[1] = cut
          /\ \A k \in 2 .. m : send_buffer_infos_'[k] = send_buffer_infos_[k]
      <3> DEFINE tail == Tail(send_buffer_infos_)
      <3>1. /\ tail \in Seq(Info) /\ Len(tail) = m - 1
            /\ \A k \in 1 .. m - 1 : tail[k] = send_buffer_infos_[k + 1]
        BY <1>2, <1>11, HeadTailProperties
      <3> HIDE DEF cut, tail, m
      <3>2. send_buffer_infos_' = <<cut>> \o tail
        BY <2>1 DEF tail
      <3>3. /\ send_buffer_infos_' \in Seq(Info) /\ Len(send_buffer_infos_') = 1 + (m - 1)
            /\ send_buffer_infos_'[1] = cut
            /\ \A k \in 2 .. 1 + (m - 1) : send_buffer_infos_'[k] = tail[k - 1]
        BY <1>3, <2>2, <2>3, <3>1, <3>2
      <3>4. 1 + (m - 1) = m /\ \A k \in 2 .. m : k - 1 \in 1 .. m - 1 /\ (k - 1) + 1 = k
        BY <1>3, <2>2
      <3>5. QED
        BY <3>1, <3>3, <3>4
    <2>5. SendTypeOK' /\ Base' = Base /\ PrepareOK(Base)'
      BY <1>7, <2>4
    <2>6. info.sent_remain = EndOf(ends, r + 1) - (Len(wire) - sent_info_size)
      BY <1>11, <2>2 DEF SendInv, InfosOK
    <2> HIDE DEF cut
    <2>7. r + 1 \in 0 .. Base /\ Base \in 0 .. Base /\ r + 1 <= Base /\ 1 \in 1 .. m
          /\ EndOf(ends, r + 1) \in Nat
      BY <1>3, <2>2
    <2>8. cut.sent_remain = EndOf(ends, r + 1) - Len(wire)
      BY <1>2, <1>3, <2>3, <2>6, <2>7
    <2>9. InfosOK'
      <3>1. \A k \in 1 .. m : send_buffer_infos_'[k].stream_id = r + k
        <4>1. info.stream_id = r + 1
          BY <2>2, <2>7 DEF SendInv, InfosOK
        <4>2. \A k \in 1 .. m : k = 1 \/ k \in 2 .. m
          BY <1>3
        <4>3. QED
          BY <2>3, <2>4, <4>1, <4>2 DEF SendInv, InfosOK
      <3>2. \A k \in 2 .. m : send_buffer_infos_'[k].sent_remain =
                               EndOf(ends, r + k) - EndOf(ends, r + k - 1)
        BY <2>4 DEF SendInv, InfosOK
      <3>3. send_buffer_infos_'[1].sent_remain =
              EndOf(ends', r + 1) - (Len(wire') - sent_info_size')
        BY <1>1, <1>3, <2>4, <2>8
      <3>4. \A i \in 1 .. r : reported[i] = i
        BY DEF SendInv, InfosOK
      <3>5. QED
        BY <1>1, <1>8, <1>9, <2>4, <2>5, <3>1, <3>2, <3>3, <3>4 DEF InfosOK
    <2>10. NoneLeft'
      <3>1. EndOf(ends, r + 1) > Len(wire)
        BY <1>2, <1>3, <2>1, <2>2, <2>3, <2>7, <2>8
      <3>2. EndOf(ends, r + 1) <= EndOf(ends, Base)
        BY <1>3, <2>7
      <3>3. Len(Unsent) > 0
        BY <1>2, <1>3, <1>4, <2>7, <3>1, <3>2
      <3>4. send_buffer_' # <<>>
        BY <1>1, <1>2, <3>3
      <3>5. QED
        BY <3>4 DEF NoneLeft
    <2>11. QED
      BY <1>5, <1>6, <2>5, <2>9, <2>10 DEF SendInv
  <1>12. QED
    BY <1>10, <1>11

\* Every step of both threads and of the peer.
LEMMA SendNextInv == SendInv /\ [Next]_vars => SendInv'
  <1> SUFFICES ASSUME SendInv, [Next]_vars PROVE SendInv'
    OBVIOUS
  <1>1. CASE WorkerSend
    BY <1>1, QuietKeeps DEF WorkerSend, locals
  <1>2. CASE WorkerSetOutput \/ WorkerRegister \/ close \/ PeerHangsUp
    BY <1>2, QuietKeeps
    DEF WorkerSetOutput, WorkerRegister, close, PeerHangsUp, locals, history
  <1>3. CASE ApplyLocal \/ Poll \/ DispatchWrite \/ handle_close \/ DispatchDone
    BY <1>3, QuietKeeps
    DEF ApplyLocal, Poll, DispatchWrite, handle_close, DispatchDone, locals, history
  <1>4. CASE OutputEvent
    BY <1>4, QuietKeeps DEF OutputEvent, SessionMaySend, locals
  <1>5. CASE SendAgain \/ SendError
    BY <1>5, QuietKeeps DEF SendAgain, SendError, locals, history
  <1>6. CASE has_buffer_to_send
    BY <1>6, TakeOverKeeps
  <1>7. CASE SendSome
    BY <1>7, SendSomeKeeps
  <1>8. CASE HandleSent
    BY <1>8, HandleSentKeeps
  <1>9. CASE SentDone
    BY <1>9, SentDoneKeeps
  <1>10. CASE UNCHANGED vars
    BY <1>10, QuietKeeps DEF vars, locals, history
  <1>11. QED
    BY <1>1, <1>2, <1>3, <1>4, <1>5, <1>6, <1>7, <1>8, <1>9, <1>10 DEF Next, ReactorThread

-----------------------------------------------------------------------------
\* Outside of the loop, the byte at p of the buffer is the byte of the stream p after the
\* end of the wire.
LEMMA BufferBytes ==
    ASSUME SendInv, pc # "sent"
    PROVE  /\ sent_size = 0 /\ sent_info_size = 0
           /\ DOMAIN send_buffer_ = 1 .. Len(send_buffer_)
           /\ Len(wire) + Len(send_buffer_) = EndOf(ends, Base)
           /\ \A p \in 1 .. Len(send_buffer_) :
                /\ Len(wire) + p \in 1 .. Len(accepted)
                /\ send_buffer_[p] = accepted[Len(wire) + p]
  <1>1. /\ sent_size = 0 /\ sent_info_size = 0 /\ send_buffer_ \in Seq(Nat) /\ wire \in Seq(Nat)
        /\ send_buffers_prepare_ \in Seq(Nat)
    BY DEF SendInv, SendTypeOK
  <1>2. Unsent = send_buffer_
    BY <1>1, SubSeqFull DEF Unsent
  <1>3. accepted = (wire \o send_buffer_) \o send_buffers_prepare_
    BY <1>2 DEF SendInv, BytesInOrder
  <1>4. \A p \in 1 .. Len(send_buffer_) :
          ((wire \o send_buffer_) \o send_buffers_prepare_)[Len(wire) + p] = send_buffer_[p]
    BY <1>1, SecondPart
  <1>5. /\ Len(accepted) = Len(wire) + (Len(send_buffer_) - sent_size) + Len(send_buffers_prepare_)
        /\ Len(wire) \in Nat /\ Len(send_buffer_) \in Nat /\ Len(send_buffers_prepare_) \in Nat
    BY <1>1, LengthsAdd
  <1>6. Len(wire) + Len(send_buffer_) = EndOf(ends, Base)
    <2>1. Len(wire) + (Len(send_buffer_) - sent_size) = EndOf(ends, Base)
      BY DEF SendInv, InfosOK
    <2>2. QED
      BY <1>1, <1>5, <2>1
  <1>7. \A p \in 1 .. Len(send_buffer_) : Len(wire) + p \in 1 .. Len(accepted)
    BY <1>1, <1>5
  <1>8. QED
    BY <1>1, <1>3, <1>4, <1>6, <1>7

\* What is in the buffer of a send(): the rest of its bytes.
LEMMA RemainIs ==
    ASSUME SendInv, pc # "sent", NEW k \in 1 .. Len(send_buffer_infos_)
    PROVE  send_buffer_infos_[k].sent_remain =
             Cardinality({p \in DOMAIN send_buffer_ :
                            send_buffer_[p] = send_buffer_infos_[k].stream_id})
  <1> DEFINE r == Len(reported)
             m == Len(send_buffer_infos_)
             w == Len(wire)
             B == Len(send_buffer_)
             last == EndOf(ends, r + k)
             before == EndOf(ends, r + k - 1)
             lo == IF k = 1 THEN w ELSE before
  <1>1. /\ r \in Nat /\ m \in Nat /\ Base = r + m /\ w \in Nat /\ B \in Nat /\ Base \in 0 .. Len(ends)
        /\ \A i \in 0 .. Base : EndOf(ends, i) \in Nat
        /\ \A i, j \in 0 .. Base : i <= j => EndOf(ends, i) <= EndOf(ends, j)
    BY EndsInOrder DEF Base
  <1>2. /\ sent_info_size = 0 /\ DOMAIN send_buffer_ = 1 .. B /\ w + B = EndOf(ends, Base)
        /\ \A p \in 1 .. B : w + p \in 1 .. Len(accepted) /\ send_buffer_[p] = accepted[w + p]
    BY BufferBytes
  <1>3. /\ r + k \in 0 .. Base /\ r + k - 1 \in 0 .. Base /\ Base \in 0 .. Base /\ r \in 0 .. Base
        /\ r + 1 \in 0 .. Base /\ r + k \in 1 .. Len(ends) /\ 1 \in 1 .. m
        /\ r + k <= Base /\ (k = 1 => r + k - 1 = r) /\ (k # 1 => r + 1 <= r + k - 1 /\ k \in 2 .. m)
    BY <1>1
  <1>4. last \in Nat /\ before \in Nat /\ last <= w + B /\ before <= last
    <2>1. r + k - 1 <= r + k
      BY <1>1
    <2>2. QED
      BY <1>1, <1>2, <1>3, <2>1
  <1>5. /\ send_buffer_infos_[k].stream_id = r + k
        /\ send_buffer_infos_[k].sent_remain \in Nat
        /\ send_buffer_infos_[k].sent_remain = last - lo
    <2>1. send_buffer_infos_ \in Seq(Info) /\ send_buffer_infos_ # <<>>
      BY DEF SendInv, SendTypeOK
    <2>2. send_buffer_infos_[k].sent_remain \in Nat /\ send_buffer_infos_[k].stream_id = r + k
      <3>1. send_buffer_infos_[k] \in Info
        BY <2>1, ElementOfSeq
      <3>2. send_buffer_infos_[k].sent_remain \in Nat
        BY <3>1 DEF Info
      <3>3. QED
        BY <3>2 DEF SendInv, InfosOK
    <2>3. k = 1 => send_buffer_infos_[k].sent_remain = last - w
      <3>1. send_buffer_infos_[1].sent_remain = EndOf(ends, r + 1) - (w - sent_info_size)
        BY <2>1 DEF SendInv, InfosOK
      <3>2. w - sent_info_size = w
        BY <1>1, <1>2
      <3>3. QED
        BY <3>1, <3>2
    <2>4. k # 1 => send_buffer_infos_[k].sent_remain = last - before
      BY <1>3 DEF SendInv, InfosOK
    <2>5. QED
      BY <2>2, <2>3, <2>4
  <1>6. w <= lo /\ before <= lo /\ lo \in Nat
    <2>1. CASE k = 1
      <3>1. EndOf(ends, r) <= w - sent_info_size
        BY DEF SendInv, InfosOK
      <3>2. EndOf(ends, r) \in Nat
        BY <1>1, <1>3
      <3>3. QED
        BY <1>1, <1>2, <1>3, <2>1, <3>1, <3>2
    <2>2. CASE k # 1
      <3>1. send_buffer_infos_ \in Seq(Info) /\ send_buffer_infos_ # <<>>
        BY DEF SendInv, SendTypeOK
      <3>2. send_buffer_infos_[1].sent_remain \in Nat
        <4>1. send_buffer_infos_[1] \in Info
          BY <1>3, <3>1, ElementOfSeq
        <4>2. QED
          BY <4>1 DEF Info
      <3>3. send_buffer_infos_[1].sent_remain = EndOf(ends, r + 1) - (w - sent_info_size)
        BY <3>1 DEF SendInv, InfosOK
      <3>4. EndOf(ends, r + 1) <= before /\ EndOf(ends, r + 1) \in Nat
        BY <1>1, <1>3, <2>2
      <3>5. w <= EndOf(ends, r + 1)
        BY <1>1, <1>2, <3>2, <3>3, <3>4
      <3>6. QED
        BY <1>1, <1>4, <2>2, <3>4, <3>5
    <2>3. QED
      BY <2>1, <2>2
  <1>7. ASSUME NEW p \in 1 .. B
        PROVE  send_buffer_[p] = r + k <=> before < w + p /\ w + p <= last
    <2> DEFINE i == r + k
               x == w + p
    <2>1. i \in 1 .. Len(ends) /\ x \in 1 .. Len(accepted) /\ Marked(accepted, ends)
      BY <1>2, <1>3 DEF SendInv
    <2> HIDE DEF i, x
    <2>2. accepted[x] = i <=> EndOf(ends, i - 1) < x /\ x <= EndOf(ends, i)
      BY <2>1, MarkedIs
    <2>3. QED
      BY <1>2, <2>2 DEF i, x
  <1> DEFINE here == {p \in DOMAIN send_buffer_ : send_buffer_[p] = r + k}
  <1> HIDE DEF r, m, w, B, last, before, lo
  <1>8. here = lo - w + 1 .. last - w
    <2>1. ASSUME NEW p \in 1 .. B
          PROVE  before < w + p /\ w + p <= last <=> p \in lo - w + 1 .. last - w
      <3>1. CASE lo = before
        BY <1>1, <1>4, <1>6, <3>1
      <3>2. CASE lo = w
        BY <1>1, <1>4, <1>6, <3>2
      <3>3. QED
        BY <3>1, <3>2 DEF lo
    <2>2. \A p \in lo - w + 1 .. last - w : p \in 1 .. B
      BY <1>1, <1>4, <1>6
    <2>3. QED
      BY <1>2, <1>7, <2>1, <2>2
  <1>9. Cardinality(lo - w + 1 .. last - w) = last - lo
    <2> DEFINE a == lo - w + 1
               b == last - w
    <2>1. a \in Int /\ b \in Int /\ (a > b => last - lo = 0) /\ (~(a > b) => b - a + 1 = last - lo)
      BY <1>1, <1>4, <1>5, <1>6
    <2> HIDE DEF a, b
    <2>2. Cardinality(a .. b) = IF a > b THEN 0 ELSE b - a + 1
      BY <2>1, FS_Interval
    <2>3. QED
      BY <2>1, <2>2 DEF a, b
  <1>10. QED
    BY <1>5, <1>8, <1>9

\* Every byte in the buffer is of a send() that has an info.
LEMMA ByteHasInfo ==
    ASSUME SendInv, pc # "sent", NEW p \in DOMAIN send_buffer_
    PROVE  \E k \in DOMAIN send_buffer_infos_ : send_buffer_infos_[k].stream_id = send_buffer_[p]
  <1> DEFINE r == Len(reported)
             m == Len(send_buffer_infos_)
             w == Len(wire)
             j == send_buffer_[p]
  <1>1. /\ r \in Nat /\ m \in Nat /\ Base = r + m /\ w \in Nat /\ Len(send_buffer_) \in Nat
        /\ Base \in 0 .. Len(ends) /\ Len(ends) \in Nat /\ ends \in Seq(Nat)
    BY EndsInOrder DEF Base, SendInv, Marked
  <1>2. /\ sent_info_size = 0 /\ p \in 1 .. Len(send_buffer_)
        /\ w + Len(send_buffer_) = EndOf(ends, Base)
        /\ w + p \in 1 .. Len(accepted) /\ j = accepted[w + p]
    BY BufferBytes
  <1>3. j \in 1 .. Len(ends) /\ EndOf(ends, j - 1) < w + p /\ w + p <= EndOf(ends, j)
    BY <1>2 DEF SendInv, Marked
  <1> HIDE DEF j, r, m, w
  <1>4. /\ j \in 0 .. Len(ends) /\ j - 1 \in 0 .. Len(ends) /\ r \in 0 .. Len(ends)
    BY <1>1, <1>3
  <1>5. /\ EndOf(ends, j) \in Nat /\ EndOf(ends, j - 1) \in Nat
        /\ EndOf(ends, r) \in Nat /\ EndOf(ends, Base) \in Nat
    BY <1>1, <1>4, EndIsNat
  <1>6. EndOf(ends, r) <= w
    <2>1. EndOf(ends, r) <= w - sent_info_size
      BY DEF SendInv, InfosOK, r, w
    <2>2. QED
      BY <1>1, <1>2, <2>1
  <1>7. j > r
    <2>1. j <= r => EndOf(ends, j) <= EndOf(ends, r)
      BY <1>4 DEF SendInv, Marked
    <2>2. QED
      BY <1>1, <1>2, <1>3, <1>5, <1>6, <2>1
  <1>8. j <= Base
    <2>1. Base <= j - 1 => EndOf(ends, Base) <= EndOf(ends, j - 1)
      BY <1>1, <1>4 DEF SendInv, Marked
    <2>2. QED
      BY <1>1, <1>2, <1>3, <1>5, <2>1
  <1>9. j - r \in 1 .. m /\ r + (j - r) = j
    BY <1>1, <1>3, <1>7, <1>8
  <1>10. send_buffer_infos_[j - r].stream_id = j /\ DOMAIN send_buffer_infos_ = 1 .. m
    BY <1>9 DEF SendInv, InfosOK, SendTypeOK, r, m
  <1>11. QED
    BY <1>9, <1>10 DEF j

\* handle_sent is called once for each send(), in order, and only when the kernel has all
\* of its bytes, wherever partial sends cut the stream.
LEMMA ReportsRight == SendInv => SentWhenOut
  <1> SUFFICES ASSUME SendInv, NEW i \in DOMAIN reported
               PROVE  reported[i] = i /\ ends[i] <= Len(wire)
    BY DEF SentWhenOut
  <1>1. i \in 1 .. Len(reported)
    BY DEF SendInv, SendTypeOK
  <1>2. reported[i] = i
    BY <1>1 DEF SendInv, InfosOK
  <1>3. /\ Len(reported) \in Nat /\ Len(send_buffer_infos_) \in Nat /\ Len(wire) \in Nat
        /\ Base = Len(reported) + Len(send_buffer_infos_)
        /\ \A n \in 0 .. Base : EndOf(ends, n) \in Nat
        /\ \A n, j \in 0 .. Base : n <= j => EndOf(ends, n) <= EndOf(ends, j)
    BY EndsInOrder DEF Base
  <1>4. i \in 0 .. Base /\ Len(reported) \in 0 .. Base /\ i <= Len(reported) /\ i # 0
    BY <1>1, <1>3
  <1>5. EndOf(ends, i) <= EndOf(ends, Len(reported))
    BY <1>3, <1>4
  <1>6. EndOf(ends, Len(reported)) <= Len(wire) - sent_info_size /\ sent_info_size \in Nat
    BY DEF SendInv, InfosOK, SendTypeOK
  <1>7. EndOf(ends, i) <= Len(wire)
    BY <1>3, <1>4, <1>5, <1>6
  <1>8. QED
    BY <1>2, <1>4, <1>7 DEF EndOf

\* The bytes on the wire, in the buffer and prepared are those handed to send(), in
\* order, sent_remain is what is left of each, and each is reported once and when it is
\* out, for any sizes and partial sends.
THEOREM StreamCorrect == Spec => []StreamInStep
  <1>1. SendInv => StreamInStep
    <2>0. SendInv => SentWhenOut
      BY ReportsRight
    <2> SUFFICES ASSUME SendInv, pc # "sent"
                 PROVE  /\ \A k \in DOMAIN send_buffer_infos_ :
                             send_buffer_infos_[k].sent_remain =
                               Cardinality({p \in DOMAIN send_buffer_ :
                                              send_buffer_[p] = send_buffer_infos_[k].stream_id})
                        /\ \A p \in DOMAIN send_buffer_ : \E k \in DOMAIN send_buffer_infos_ :
                             send_buffer_infos_[k].stream_id = send_buffer_[p]
      BY <2>0 DEF SendInv, StreamInStep, RemainMatches
    <2>1. DOMAIN send_buffer_infos_ = 1 .. Len(send_buffer_infos_)
      BY DEF SendInv, SendTypeOK
    <2>2. QED
      BY <2>1, RemainIs, ByteHasInfo
  <1>2. QED
    BY <1>1, SendInitInv, SendNextInv, PTL DEF Spec

-----------------------------------------------------------------------------
\* The pipe.

\* What the kernel has taken is the front of what was accepted.
InStream == SendInv => SendPipe!Continues(accepted, wire)
LEMMA WireInStream == InStream
  <1> SUFFICES ASSUME SendInv PROVE SendPipe!Continues(accepted, wire)
    BY DEF InStream
  <1>1. wire \in Seq(Nat) /\ Unsent \in Seq(Nat) /\ send_buffers_prepare_ \in Seq(Nat)
    BY UnsentIs DEF SendInv, SendTypeOK
  <1> DEFINE w == wire
             u == Unsent
             p == send_buffers_prepare_
  <1>2. (w \o u) \o p = accepted
    BY DEF SendInv, BytesInOrder
  <1> HIDE DEF w, u, p
  <1>3. w \in Seq(Nat) /\ u \in Seq(Nat) /\ p \in Seq(Nat)
    BY <1>1 DEF w, u, p
  <1>4. /\ w \o u \in Seq(Nat) /\ Len(w \o u) = Len(w) + Len(u)
        /\ \A i \in 1 .. Len(w) + Len(u) : (w \o u)[i] = IF i <= Len(w) THEN w[i] ELSE u[i - Len(w)]
    BY <1>3, ConcatProperties
  <1> DEFINE wu == w \o u
  <1> HIDE DEF wu
  <1>5. /\ Len(wu \o p) = Len(wu) + Len(p)
        /\ \A i \in 1 .. Len(wu) + Len(p) : (wu \o p)[i] = IF i <= Len(wu) THEN wu[i] ELSE p[i - Len(wu)]
    BY <1>3, <1>4, ConcatProperties DEF wu
  <1>6. Len(w) \in Nat /\ Len(u) \in Nat /\ Len(p) \in Nat /\ Len(wu) = Len(w) + Len(u)
    BY <1>3, <1>4 DEF wu
  <1>7. \A i \in 1 .. Len(w) : /\ i \in 1 .. Len(w) + Len(u) /\ i <= Len(w)
                              /\ i \in 1 .. Len(wu) + Len(p) /\ i <= Len(wu)
    BY <1>6
  <1>8. /\ Len(w) <= Len(wu \o p) /\ \A i \in 1 .. Len(w) : (wu \o p)[i] = w[i]
    BY <1>4, <1>5, <1>6, <1>7 DEF wu
  <1>9. wu \o p = accepted /\ w = wire
    BY <1>2 DEF wu, w
  <1>10. QED
    BY <1>8, <1>9 DEF SendPipe!Continues

LEMMA WireInStreamNext == InStream'
  BY WireInStream, PTL

\* send() appends to the stream, on whichever thread.
LEMMA PrepareSends ==
    ASSUME SendInv, Prepare \/ UNCHANGED stream
    PROVE  SendPipe!Send
  <1>1. CASE UNCHANGED stream
    BY <1>1 DEF stream, SendPipe!Send
  <1>2. CASE Prepare
    <2>1. PICK size \in Sizes : /\ accepted' = accepted \o Bytes(Len(ends) + 1, size)
                                /\ ends' = Append(ends, Len(accepted) + size)
      BY <1>2 DEF Prepare
    <2>2. size \in Nat /\ Len(ends) + 1 \in Nat /\ accepted \in Seq(Nat) /\ Len(accepted) \in Nat
      BY SendConstants DEF SendInv, Marked
    <2>3. JoinedRun(accepted, accepted', Len(ends) + 1, size)
      BY <2>1, <2>2, RunJoins DEF Bytes, Run
    <2>4. /\ Len(accepted') = Len(accepted) + size
          /\ \A p \in 1 .. Len(accepted) : accepted'[p] = accepted[p]
          /\ \A p \in Len(accepted) + 1 .. Len(accepted) + size : accepted'[p] = Len(ends) + 1
      BY <2>3 DEF JoinedRun
    <2>5. QED
      BY <2>1, <2>2, <2>4 DEF SendPipe!Send, SendPipe!Continues
  <1>3. QED
    BY <1>1, <1>2

\* A step that takes no bytes and reports nothing, with or without a send() in it.
LEMMA QuietPipe ==
    ASSUME SendInv, Prepare \/ UNCHANGED stream, UNCHANGED <<wire, reported>>
    PROVE  SendPipe!Next
  <1>1. Len(wire) \in Nat /\ Len(reported) \in Nat
    BY DEF SendInv, SendTypeOK
  <1>2. SendPipe!Transmit
    BY <1>1, WireInStream DEF InStream, SendPipe!Transmit, SendPipe!Continues
  <1>3. SendPipe!Report
    <2>1. \A i \in Len(reported) + 1 .. Len(reported) : FALSE
      BY <1>1
    <2>2. QED
      BY <1>1, <2>1 DEF SendPipe!Report, SendPipe!Continues
  <1>4. QED
    BY <1>2, <1>3, PrepareSends DEF SendPipe!Next

\* ::send takes the next bytes of the stream.
LEMMA SendSomePipe == ASSUME SendInv, SendSome PROVE SendPipe!Next
  <1>1. PICK n \in 1 .. Len(send_buffer_) : wire' = wire \o SubSeq(send_buffer_, 1, n)
    BY DEF SendSome
  <1>2. UNCHANGED <<accepted, ends, reported>>
    BY DEF SendSome, stream
  <1>3. /\ wire \in Seq(Nat) /\ send_buffer_ \in Seq(Nat) /\ Len(wire) \in Nat
        /\ Len(reported) \in Nat /\ n \in 0 .. Len(send_buffer_)
    BY DEF SendInv, SendTypeOK
  <1> DEFINE front == SubSeq(send_buffer_, 1, n)
  <1>4. front \in Seq(Nat) /\ Len(front) \in Nat
    BY <1>3, MoveFront
  <1> HIDE DEF front
  <1>5. /\ Len(wire \o front) = Len(wire) + Len(front)
        /\ \A i \in 1 .. Len(wire) + Len(front) :
             (wire \o front)[i] = IF i <= Len(wire) THEN wire[i] ELSE front[i - Len(wire)]
    BY <1>3, <1>4, ConcatProperties
  <1>6. SendPipe!Continues(wire', wire)
    <2>1. \A i \in 1 .. Len(wire) : i \in 1 .. Len(wire) + Len(front) /\ i <= Len(wire)
      BY <1>3, <1>4
    <2>2. wire' = wire \o front
      BY <1>1 DEF front
    <2>3. QED
      BY <1>3, <1>4, <1>5, <2>1, <2>2 DEF SendPipe!Continues
  <1>7. SendPipe!Continues(accepted, wire')
    BY <1>2, SendSomeKeeps, WireInStreamNext DEF InStream, SendPipe!Continues
  <1>8. SendPipe!Report
    <2>1. \A i \in Len(reported) + 1 .. Len(reported) : FALSE
      BY <1>3
    <2>2. QED
      BY <1>2, <1>3, <2>1 DEF SendPipe!Report, SendPipe!Continues
  <1>9. SendPipe!Send
    BY <1>2 DEF SendPipe!Send
  <1>10. QED
    BY <1>6, <1>7, <1>8, <1>9 DEF SendPipe!Next, SendPipe!Transmit

\* handle_sent reports the next call, whose bytes are out.
LEMMA HandleSentPipe == ASSUME SendInv, HandleSent PROVE SendPipe!Next
  <1> DEFINE r == Len(reported)
             info == Head(send_buffer_infos_)
  <1>1. /\ reported' = Append(reported, info.stream_id) /\ wire' = wire
        /\ send_buffer_infos_ # <<>> /\ sent_info_size - info.sent_remain >= 0
        /\ Prepare \/ UNCHANGED stream
    BY DEF HandleSent, SessionMaySend, Remaining
  <1>2. /\ reported \in Seq(Nat) /\ send_buffer_infos_ \in Seq(Info) /\ Len(wire) \in Nat
        /\ r \in Nat /\ Len(send_buffer_infos_) \in Nat /\ Len(send_buffer_infos_) >= 1
        /\ sent_info_size \in Nat
    BY <1>1 DEF SendInv, SendTypeOK
  <1>3. info = send_buffer_infos_[1] /\ 1 \in 1 .. Len(send_buffer_infos_)
    BY <1>1, <1>2
  <1>4. /\ info.stream_id = r + 1
        /\ info.sent_remain = EndOf(ends, r + 1) - (Len(wire) - sent_info_size)
    BY <1>1, <1>3 DEF SendInv, InfosOK
  <1>5. Base \in 0 .. Len(ends) /\ Base = r + Len(send_buffer_infos_) /\ EndOf(ends, r + 1) \in Nat
    <2>1. Base \in 0 .. Len(ends) /\ Base = r + Len(send_buffer_infos_)
          /\ \A n \in 0 .. Base : EndOf(ends, n) \in Nat
      BY EndsInOrder DEF Base
    <2>2. r + 1 \in 0 .. Base
      BY <1>2, <2>1
    <2>3. QED
      BY <2>1, <2>2
  <1>6. r + 1 <= Len(ends) /\ ends[r + 1] <= Len(wire)
    <2>1. Len(ends) \in Nat
      BY DEF SendInv, Marked
    <2>2. r + 1 <= Len(ends) /\ r + 1 # 0
      BY <1>2, <1>5, <2>1
    <2>3. EndOf(ends, r + 1) <= Len(wire)
      BY <1>1, <1>2, <1>4, <1>5
    <2>4. QED
      BY <2>2, <2>3 DEF EndOf
  <1>7. SendPipe!Report
    <2>1. /\ Len(reported') = r + 1 /\ reported'[r + 1] = r + 1
          /\ \A i \in 1 .. r : reported'[i] = reported[i]
      BY <1>1, <1>2, <1>4
    <2>2. \A i \in r + 1 .. Len(reported') : i = r + 1
      BY <1>2, <2>1
    <2>3. r <= Len(reported')
      BY <1>2, <2>1
    <2>4. QED
      BY <1>1, <1>6, <2>1, <2>2, <2>3 DEF SendPipe!Report, SendPipe!Continues
  <1>8. SendPipe!Transmit
    BY <1>1, <1>2, WireInStream DEF InStream, SendPipe!Transmit, SendPipe!Continues
  <1>9. QED
    BY <1>1, <1>7, <1>8, PrepareSends DEF SendPipe!Next

\* The two buffers with their infos are a pipe: whatever partial sends, take-overs,
\* sends from handle_sent and from other threads, errors and close() do, bytes go out in
\* the order of the send() calls and are not taken back, and handle_sent reports the
\* calls one after the other, each when it is out.
THEOREM PipeRefinement == Spec => ImplementsPipe
  <1>1. Init => SendPipe!Init
    BY DEF Init, SendPipe!Init
  <1>2. SendInv /\ [Next]_vars => [SendPipe!Next]_<<accepted, ends, wire, reported>>
    <2> SUFFICES ASSUME SendInv, [Next]_vars
                 PROVE  SendPipe!Next
      OBVIOUS
    <2>1. CASE WorkerSend \/ WorkerSetOutput \/ WorkerRegister \/ close \/ PeerHangsUp
      BY <2>1, QuietPipe
      DEF WorkerSend, WorkerSetOutput, WorkerRegister, close, PeerHangsUp, history
    <2>2. CASE ApplyLocal \/ Poll \/ DispatchWrite \/ handle_close \/ DispatchDone
      BY <2>2, QuietPipe
      DEF ApplyLocal, Poll, DispatchWrite, handle_close, DispatchDone, history
    <2>3. CASE OutputEvent
      BY <2>3, QuietPipe DEF OutputEvent, SessionMaySend
    <2>4. CASE SendAgain \/ SendError
      BY <2>4, QuietPipe DEF SendAgain, SendError, history
    <2>5. CASE has_buffer_to_send \/ SentDone
      BY <2>5, QuietPipe DEF has_buffer_to_send, SentDone, history
    <2>6. CASE SendSome
      BY <2>6, SendSomePipe
    <2>7. CASE HandleSent
      BY <2>7, HandleSentPipe
    <2>8. CASE UNCHANGED vars
      BY <2>8, QuietPipe DEF vars, history
    <2>9. QED
      BY <2>1, <2>2, <2>3, <2>4, <2>5, <2>6, <2>7, <2>8 DEF Next, ReactorThread
  <1>3. QED
    BY <1>1, <1>2, SendInitInv, SendNextInv, PTL DEF Spec, ImplementsPipe, SendPipe!Spec
=============================================================================

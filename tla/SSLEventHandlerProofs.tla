----------------------- MODULE SSLEventHandlerProofs -----------------------
(***************************************************************************)
(* Proofs about a TLS connection on a reactor, for data and records of any *)
(* size, any size of recv_buffer_ and any wishes of OpenSSL: the stream is *)
(* what was handed to send() and SSL_write is retried with the same bytes, *)
(* handle_sent is called once for each send(), and the reactor never       *)
(* sleeps on bytes inside OpenSSL.                                         *)
(***************************************************************************)
EXTENDS SSLEventHandler, MarkedStream, SequenceTheorems, WellFoundedInduction, TLAPS

-----------------------------------------------------------------------------
\* The stream of the bytes accepted by send().

\* No call, no byte.
LEMMA MarkedEmpty == Marked(<<>>, <<>>)
  BY DEF Marked, EndOf

\* Ends are lengths.
LEMMA EndIsNat ==
    ASSUME NEW marks \in Seq(Nat), NEW i \in 0 .. Len(marks)
    PROVE  EndOf(marks, i) \in Nat
  BY DEF EndOf

\* What a run of equal bytes is.
LEMMA RunIs ==
    ASSUME NEW id \in Nat, NEW size \in Nat
    PROVE  /\ Run(id, size) \in Seq(Nat) /\ Len(Run(id, size)) = size
           /\ \A k \in 1 .. size : Run(id, size)[k] = id
  BY DEF Run

\* Concatenation with the bytes of one call is that.
LEMMA RunJoins ==
    ASSUME NEW bytes \in Seq(Nat), NEW id \in Nat, NEW size \in Nat
    PROVE  JoinedRun(bytes, bytes \o Run(id, size), id, size)
  <1> DEFINE run == Run(id, size)
             L == Len(bytes)
  <1>1. run \in Seq(Nat) /\ Len(run) = size /\ \A k \in 1 .. size : run[k] = id
    BY RunIs
  <1> HIDE DEF run
  <1>2. /\ bytes \o run \in Seq(Nat) /\ Len(bytes \o run) = L + size
        /\ \A i \in 1 .. L + size : (bytes \o run)[i] =
               IF i <= L THEN bytes[i] ELSE run[i - L]
    BY <1>1, ConcatProperties
  <1>3. L \in Nat
    OBVIOUS
  <1>4. \A p \in L + 1 .. L + size : p - L \in 1 .. size /\ ~(p <= L) /\ p \in 1 .. L + size
    BY <1>3
  <1>5. \A p \in 1 .. L : p <= L /\ p \in 1 .. L + size
    BY <1>3
  <1> DEFINE whole == bytes \o run
  <1> HIDE DEF whole, L
  <1>6. JoinedRun(bytes, whole, id, size)
    BY <1>1, <1>2, <1>4, <1>5 DEF JoinedRun, whole, L
  <1>7. QED
    BY <1>6 DEF whole, run

\* One more call appends its bytes and its end, and moves no other end.
LEMMA MarkedGrows ==
    ASSUME NEW bytes, NEW marks, Marked(bytes, marks), NEW size \in Nat,
           NEW id \in Nat,
           NEW bytes2, JoinedRun(bytes, bytes2, id, size),
           NEW marks2, OneMoreEnd(marks, marks2, id, Len(bytes) + size)
    PROVE  /\ Marked(bytes2, marks2)
           /\ EndOf(marks2, id) = Len(bytes) + size
           /\ SameEnds(marks, marks2)
  <1> DEFINE n == Len(marks)
             L == Len(bytes)
  <1>1. bytes \in Seq(Nat) /\ marks \in Seq(Nat) /\ n \in Nat /\ L \in Nat
    BY DEF Marked
  <1>3. /\ bytes2 \in Seq(Nat) /\ Len(bytes2) = L + size
        /\ \A p \in 1 .. L : bytes2[p] = bytes[p]
        /\ \A p \in L + 1 .. L + size : bytes2[p] = n + 1
    BY DEF JoinedRun, OneMoreEnd
  <1>4. /\ marks2 \in Seq(Nat) /\ Len(marks2) = n + 1
        /\ \A i \in 1 .. n : marks2[i] = marks[i]
        /\ marks2[n + 1] = L + size /\ id = n + 1
    BY DEF OneMoreEnd
  <1> HIDE DEF n, L
  <1>5. \A i \in 0 .. n : EndOf(marks2, i) = EndOf(marks, i) /\ EndOf(marks, i) \in Nat
    <2>1. \A i \in 0 .. n : i # 0 => i \in 1 .. n
      BY <1>1
    <2>2. QED
      BY <1>1, <1>4, <2>1 DEF EndOf
  <1>6. EndOf(marks2, n + 1) = L + size
    BY <1>1, <1>4 DEF EndOf
  <1>7. EndOf(marks, n) = L /\ \A i \in 0 .. n : EndOf(marks, i) <= L
    <2>1. n \in 0 .. n /\ \A i \in 0 .. n : i <= n
      BY <1>1
    <2>2. QED
      BY <1>1, <2>1 DEF Marked, n, L
  <1>8. \A i, j \in 0 .. n + 1 : i <= j => EndOf(marks2, i) <= EndOf(marks2, j)
    <2>1. \A i, j \in 0 .. n : i <= j => EndOf(marks, i) <= EndOf(marks, j)
      BY DEF Marked, n
    <2>2. \A i \in 0 .. n + 1 : i \in 0 .. n \/ i = n + 1
      BY <1>1
    <2> SUFFICES ASSUME NEW i \in 0 .. n + 1, NEW j \in 0 .. n + 1, i <= j
                 PROVE  EndOf(marks2, i) <= EndOf(marks2, j)
      OBVIOUS
    <2>3. CASE j \in 0 .. n
      <3>1. i \in 0 .. n
        BY <1>1, <2>3
      <3>2. QED
        BY <1>5, <2>1, <2>3, <3>1
    <2>4. CASE j = n + 1
      <3>1. CASE i \in 0 .. n
        BY <1>1, <1>5, <1>6, <1>7, <2>4, <3>1
      <3>2. CASE i = n + 1
        BY <1>1, <1>6, <2>4, <3>2
      <3>3. QED
        BY <2>2, <3>1, <3>2
    <2>5. QED
      BY <2>2, <2>3, <2>4
  <1>9. ASSUME NEW p \in 1 .. L + size
        PROVE  /\ bytes2[p] \in 1 .. n + 1
               /\ EndOf(marks2, bytes2[p] - 1) < p
               /\ p <= EndOf(marks2, bytes2[p])
    <2>1. CASE p \in 1 .. L
      <3>1. /\ bytes[p] \in 1 .. n /\ EndOf(marks, bytes[p] - 1) < p
            /\ p <= EndOf(marks, bytes[p])
        BY <2>1 DEF Marked, n, L
      <3>2. bytes[p] \in 0 .. n /\ bytes[p] - 1 \in 0 .. n /\ bytes[p] \in 1 .. n + 1
        BY <1>1, <3>1
      <3>3. QED
        BY <1>3, <1>5, <2>1, <3>1, <3>2
    <2>2. CASE p \in L + 1 .. L + size
      <3>0. bytes2[p] = n + 1
        BY <1>3, <2>2
      <3>1. bytes2[p] = n + 1 /\ n + 1 \in 1 .. n + 1 /\ (n + 1) - 1 = n /\ n \in 0 .. n
        BY <1>1, <3>0
      <3>2. EndOf(marks2, n) = L
        BY <1>5, <1>7, <3>1
      <3>3. L < p /\ p <= L + size
        BY <1>1, <2>2
      <3>4. bytes2[p] - 1 = n
        BY <3>1
      <3>5. QED
        BY <1>6, <3>1, <3>2, <3>3, <3>4
    <2>3. p \in 1 .. L \/ p \in L + 1 .. L + size
      BY <1>1
    <2>4. QED
      BY <2>1, <2>2, <2>3
  <1>10. Marked(bytes2, marks2)
    BY <1>3, <1>4, <1>6, <1>8, <1>9 DEF Marked
  <1>11. QED
    BY <1>4, <1>5, <1>6, <1>10 DEF n, L, SameEnds

\* Streams join in any order.
LEMMA JoinAssociative ==
    ASSUME NEW a \in Seq(Nat), NEW b \in Seq(Nat), NEW c \in Seq(Nat)
    PROVE  (a \o b) \o c = a \o (b \o c)
  OBVIOUS

-----------------------------------------------------------------------------
Info == [id : Nat, begin : Nat, length : Nat]

WriteTypeOK ==
    /\ send_buffer_ \in Seq(Nat) /\ send_buffers_prepare_ \in Seq(Nat)
    /\ wire \in Seq(Nat) /\ reported \in Seq(Nat)
    /\ send_buffer_infos_ \in Seq(Info) /\ send_buffers_prepare_info_ \in Seq(Info)

\* The prepared infos are those of the sends after the first b.
PrepareOK(b) ==
    /\ Len(ends) = b + Len(send_buffers_prepare_info_)
    /\ \A k \in 1 .. Len(send_buffers_prepare_info_) : send_buffers_prepare_info_[k].id = b + k

Base == Len(reported) + Len(send_buffer_infos_)

\* The infos are those of the sends that follow the reported ones, and the buffer ends
\* where the last of them does.
InfosOK ==
    /\ \A i \in 1 .. Len(reported) : reported[i] = i
    /\ \A k \in 1 .. Len(send_buffer_infos_) : send_buffer_infos_[k].id = Len(reported) + k
    /\ EndOf(ends, Len(reported)) <= Len(wire)
    /\ Len(wire) + Len(send_buffer_) = EndOf(ends, Base)

\* An empty buffer has no infos, and a retry that is due finds its buffer.
BufferOK ==
    /\ send_buffer_ = <<>> => send_buffer_infos_ = <<>>
    /\ retry # <<>> => send_buffer_ = retry

WriteInv ==
    /\ WriteTypeOK /\ SentInOrder /\ Marked(accepted, ends)
    /\ PrepareOK(Base) /\ InfosOK /\ BufferOK

\* Bytes inside OpenSSL keep the reactor thread in ssl_read.
ReadInv ==
    /\ arrived \in Seq(Nat) /\ decrypted \in Nat
    /\ decrypted > 0 => pc = "read"

-----------------------------------------------------------------------------
\* Nothing sent, nothing waiting, nothing read.
LEMMA SSLInitInv == Init => WriteInv /\ ReadInv
  <1> SUFFICES ASSUME Init PROVE WriteInv /\ ReadInv
    OBVIOUS
  <1>1. /\ send_buffer_ = <<>> /\ send_buffers_prepare_ = <<>> /\ wire = <<>>
        /\ reported = <<>> /\ send_buffer_infos_ = <<>> /\ send_buffers_prepare_info_ = <<>>
        /\ accepted = <<>> /\ ends = <<>> /\ retry = <<>>
    BY DEF Init
  <1>2. WriteTypeOK /\ SentInOrder
    BY <1>1 DEF WriteTypeOK, SentInOrder
  <1>3. Marked(accepted, ends)
    BY <1>1, MarkedEmpty
  <1>4. PrepareOK(Base) /\ InfosOK /\ BufferOK
    BY <1>1 DEF PrepareOK, Base, InfosOK, BufferOK, EndOf
  <1>5. ReadInv
    BY DEF Init, ReadInv
  <1>6. QED
    BY <1>2, <1>3, <1>4, <1>5 DEF WriteInv

\* send(), on whichever thread, adds to the prepare buffer, to its infos and to the end
\* of the stream, and changes nothing for the sends before it.
LEMMA PrepareKeeps ==
    ASSUME WriteInv, Prepare \/ UNCHANGED <<prepared, stream>>
    PROVE  /\ ((wire \o send_buffer_) \o send_buffers_prepare_') = accepted'
           /\ Marked(accepted, ends)'
           /\ send_buffers_prepare_' \in Seq(Nat)
           /\ send_buffers_prepare_info_' \in Seq(Info)
           /\ SameEnds(ends, ends')
           /\ \A b \in Nat : PrepareOK(b) => PrepareOK(b)'
  <1>0. /\ WriteTypeOK /\ SentInOrder /\ Marked(accepted, ends)
        /\ ends \in Seq(Nat) /\ accepted \in Seq(Nat) /\ Len(ends) \in Nat /\ Len(accepted) \in Nat
        /\ send_buffers_prepare_ \in Seq(Nat) /\ send_buffers_prepare_info_ \in Seq(Info)
        /\ wire \in Seq(Nat) /\ send_buffer_ \in Seq(Nat)
    BY DEF WriteInv, WriteTypeOK, Marked
  <1>1. CASE UNCHANGED <<prepared, stream>>
    BY <1>0, <1>1 DEF prepared, stream, SentInOrder, PrepareOK, SameEnds
  <1>2. CASE Prepare
    <2> DEFINE id == Len(ends) + 1
    <2>1. PICK size \in Sizes :
            /\ send_buffers_prepare_' = send_buffers_prepare_ \o Run(id, size)
            /\ send_buffers_prepare_info_' =
                 Append(send_buffers_prepare_info_,
                        [id |-> id, begin |-> Len(send_buffers_prepare_), length |-> size])
            /\ accepted' = accepted \o Run(id, size)
            /\ ends' = Append(ends, Len(accepted) + size)
      BY <1>2 DEF Prepare, Bytes, Run
    <2>2. size \in Nat /\ id \in Nat /\ id = Len(ends) + 1
      BY <1>0, SSLConstants
    <2> HIDE DEF id
    <2>3. /\ Marked(accepted', ends')
          /\ Len(ends') = Len(ends) + 1
          /\ SameEnds(ends, ends')
      <3>1. JoinedRun(accepted, accepted', id, size)
        BY <1>0, <2>1, <2>2, RunJoins
      <3>2. /\ ends' \in Seq(Nat) /\ Len(ends') = id /\ ends'[id] = Len(accepted) + size
            /\ \A i \in 1 .. Len(ends) : ends'[i] = ends[i]
        BY <1>0, <2>1, <2>2, AppendProperties
      <3>3. OneMoreEnd(ends, ends', id, Len(accepted) + size)
        BY <2>2, <3>2 DEF OneMoreEnd
      <3>4. Marked(accepted', ends') /\ SameEnds(ends, ends')
        BY <1>0, <2>2, <3>1, <3>3, MarkedGrows
      <3>5. QED
        BY <2>2, <3>2, <3>4
    <2> DEFINE run == Run(id, size)
    <2>4. run \in Seq(Nat)
      BY <2>2, RunIs
    <2>5. send_buffers_prepare_' = send_buffers_prepare_ \o run /\ accepted' = accepted \o run
      BY <2>1
    <2> HIDE DEF run
    <2>6. (wire \o send_buffer_) \o send_buffers_prepare_' = accepted'
      <3> DEFINE front == wire \o send_buffer_
      <3>1. front \in Seq(Nat) /\ accepted = front \o send_buffers_prepare_
        BY <1>0 DEF SentInOrder
      <3> HIDE DEF front
      <3>2. (front \o send_buffers_prepare_) \o run = front \o (send_buffers_prepare_ \o run)
        BY <1>0, <2>4, <3>1, JoinAssociative
      <3>3. front \o send_buffers_prepare_' = accepted'
        BY <2>5, <3>1, <3>2
      <3>4. QED
        BY <3>3 DEF front
    <2>7. send_buffers_prepare_' \in Seq(Nat)
      BY <1>0, <2>4, <2>5
    <2> DEFINE info == [id |-> id, begin |-> Len(send_buffers_prepare_), length |-> size]
               q == Len(send_buffers_prepare_info_)
    <2>8. info \in Info /\ info.id = id
      BY <1>0, <2>2 DEF Info
    <2>9. /\ send_buffers_prepare_info_' \in Seq(Info) /\ q \in Nat
          /\ Len(send_buffers_prepare_info_') = q + 1
          /\ \A i \in 1 .. q : send_buffers_prepare_info_'[i] = send_buffers_prepare_info_[i]
          /\ send_buffers_prepare_info_'[q + 1] = info
      <3>1. send_buffers_prepare_info_' = Append(send_buffers_prepare_info_, info)
        BY <2>1
      <3> HIDE DEF info
      <3>2. QED
        BY <1>0, <2>8, <3>1, AppendProperties
    <2> HIDE DEF info, q
    <2>10. ASSUME NEW b \in Nat, PrepareOK(b)
           PROVE  PrepareOK(b)'
      <3>1. Len(ends) = b + q /\ Len(ends') = b + Len(send_buffers_prepare_info_')
        BY <2>3, <2>9, <2>10 DEF PrepareOK, q
      <3>2. ASSUME NEW k \in 1 .. q + 1
            PROVE  send_buffers_prepare_info_'[k].id = b + k
        <4>1. CASE k \in 1 .. q
          BY <2>9, <2>10, <4>1 DEF PrepareOK, q
        <4>2. CASE k = q + 1
          <5>1. b + k = id
            BY <2>2, <2>9, <3>1, <4>2
          <5>2. QED
            BY <2>8, <2>9, <4>2, <5>1
        <4>3. QED
          BY <2>9, <4>1, <4>2
      <3>3. QED
        BY <2>9, <3>1, <3>2 DEF PrepareOK
    <2>11. QED
      BY <2>3, <2>6, <2>7, <2>9, <2>10
  <1>3. QED
    BY <1>1, <1>2

\* The ends a proof about the infos speaks of: those of the sends reported or in the
\* buffer.
LEMMA EndsInOrder ==
    ASSUME WriteInv
    PROVE  /\ Len(reported) \in Nat /\ Len(send_buffer_infos_) \in Nat /\ Base \in 0 .. Len(ends)
           /\ \A i \in 0 .. Base : EndOf(ends, i) \in Nat
           /\ \A i, j \in 0 .. Base : i <= j => EndOf(ends, i) <= EndOf(ends, j)
           /\ Len(wire) \in Nat /\ Len(send_buffer_) \in Nat
  <1>1. /\ Len(reported) \in Nat /\ Len(send_buffer_infos_) \in Nat
        /\ Len(send_buffers_prepare_info_) \in Nat /\ Len(wire) \in Nat
        /\ Len(send_buffer_) \in Nat
    BY DEF WriteInv, WriteTypeOK
  <1>2. ends \in Seq(Nat) /\ Len(ends) = Base + Len(send_buffers_prepare_info_)
    BY DEF WriteInv, Marked, PrepareOK
  <1>3. Base \in Nat
    BY <1>1 DEF Base
  <1>4. Base \in 0 .. Len(ends) /\ \A i \in 0 .. Base : i \in 0 .. Len(ends)
    BY <1>1, <1>2, <1>3
  <1>5. \A i \in 0 .. Base : EndOf(ends, i) \in Nat
    BY <1>2, <1>4, EndIsNat
  <1>6. \A i, j \in 0 .. Base : i <= j => EndOf(ends, i) <= EndOf(ends, j)
    BY <1>4 DEF WriteInv, Marked
  <1>7. QED
    BY <1>1, <1>4, <1>5, <1>6

\* A step that gives SSL_write's result to nobody, with or without a send() in it.
LEMMA QuietKeeps ==
    ASSUME WriteInv, Prepare \/ UNCHANGED <<prepared, stream>>,
           UNCHANGED <<buffers, wire, reported>>,
           retry' \in {retry, send_buffer_}
    PROVE  WriteInv'
  <1>1. UNCHANGED <<send_buffer_, send_buffer_infos_, wire, reported>>
    BY DEF buffers
  <1>2. /\ (wire \o send_buffer_) \o send_buffers_prepare_' = accepted'
        /\ Marked(accepted, ends)'
        /\ send_buffers_prepare_' \in Seq(Nat) /\ send_buffers_prepare_info_' \in Seq(Info)
        /\ SameEnds(ends, ends') /\ \A b \in Nat : PrepareOK(b) => PrepareOK(b)'
    BY PrepareKeeps
  <1>3. WriteTypeOK' /\ SentInOrder'
    BY <1>1, <1>2 DEF WriteInv, WriteTypeOK, SentInOrder
  <1>4. BufferOK'
    BY <1>1 DEF WriteInv, BufferOK
  <1>5. Base' = Base /\ Base \in Nat /\ Base \in 0 .. Len(ends)
    BY <1>1, EndsInOrder DEF Base
  <1>6. PrepareOK(Base)'
    <2>1. ASSUME NEW c \in Nat, PrepareOK(c), Base' = c
          PROVE  PrepareOK(Base)'
      <3>1. PrepareOK(c)'
        BY <1>2, <2>1
      <3>2. QED
        BY <2>1, <3>1 DEF PrepareOK
    <2>2. QED
      BY <1>5, <2>1 DEF WriteInv
  <1>7. InfosOK'
    <2>1. Len(reported) \in 0 .. Len(ends)
      BY <1>5, EndsInOrder DEF Base
    <2>2. /\ EndOf(ends', Len(reported)) = EndOf(ends, Len(reported))
          /\ EndOf(ends', Base) = EndOf(ends, Base)
      BY <1>2, <1>5, <2>1 DEF SameEnds
    <2>3. QED
      BY <1>1, <1>5, <2>2 DEF WriteInv, InfosOK
  <1>8. QED
    BY <1>2, <1>3, <1>4, <1>6, <1>7 DEF WriteInv

\* has_buffer_to_send: the prepared sends become the ones in the buffer, never over one
\* that waits for its retry.
LEMMA TakeOverKeeps ==
    ASSUME WriteInv, has_buffer_to_send
    PROVE  WriteInv'
  <1>0. UNCHANGED <<accepted, ends, wire, reported, retry>>
    BY DEF has_buffer_to_send, outhistory, stream
  <1>1. CASE ~TakeOver
    <2>1. UNCHANGED <<buffers, prepared, stream, wire, reported, retry>>
      BY <1>0, <1>1 DEF has_buffer_to_send, stream
    <2>2. QED
      BY <2>1, QuietKeeps
  <1>2. CASE TakeOver
    <2>1. /\ send_buffer_ = <<>> /\ send_buffers_prepare_ # <<>>
          /\ send_buffer_' = send_buffers_prepare_ /\ send_buffers_prepare_' = send_buffer_
          /\ send_buffer_infos_' = send_buffers_prepare_info_
          /\ send_buffers_prepare_info_' = send_buffer_infos_
      BY <1>2 DEF has_buffer_to_send, TakeOver
    <2>2. send_buffer_infos_ = <<>> /\ retry = <<>>
      BY <2>1 DEF WriteInv, BufferOK
    <2>3. /\ wire \in Seq(Nat) /\ send_buffers_prepare_ \in Seq(Nat) /\ reported \in Seq(Nat)
          /\ send_buffers_prepare_info_ \in Seq(Info) /\ Len(wire) \in Nat
          /\ Len(send_buffers_prepare_) \in Nat
      BY DEF WriteInv, WriteTypeOK
    <2>4. WriteTypeOK' /\ BufferOK'
      BY <1>0, <2>1, <2>2, <2>3 DEF WriteInv, WriteTypeOK, BufferOK
    <2>5. wire \o send_buffers_prepare_ = accepted
      <3>1. (wire \o <<>>) \o send_buffers_prepare_ = accepted
        BY <2>1 DEF WriteInv, SentInOrder
      <3>2. wire \o <<>> = wire
        BY <2>3
      <3>3. QED
        BY <3>1, <3>2
    <2>6. SentInOrder'
      <3>1. accepted \in Seq(Nat) /\ accepted \o <<>> = accepted
        BY DEF WriteInv, Marked
      <3>2. QED
        BY <1>0, <2>1, <2>5, <3>1 DEF SentInOrder
    <2>7. Marked(accepted, ends)'
      BY <1>0 DEF WriteInv
    <2> DEFINE r == Len(reported)
               q == Len(send_buffers_prepare_info_)
    <2>8. r \in Nat /\ q \in Nat /\ Base = r /\ Base' = r + q /\ Len(ends) = r + q
      <3>1. Len(send_buffer_infos_) = 0 /\ r \in Nat /\ q \in Nat
        BY <2>2, <2>3
      <3>2. Base = r /\ Base' = r + q
        BY <1>0, <2>1, <3>1 DEF Base
      <3>3. QED
        BY <3>1, <3>2 DEF WriteInv, PrepareOK
    <2>9. PrepareOK(Base)'
      <3>1. Len(send_buffers_prepare_info_') = 0
        BY <2>1, <2>2
      <3>2. Len(ends') = Base' + 0
        BY <1>0, <2>8
      <3>3. QED
        BY <3>1, <3>2 DEF PrepareOK
    <2>10. Len(wire) + Len(send_buffers_prepare_) = EndOf(ends, r + q)
      <3>1. Len(accepted) = Len(wire) + Len(send_buffers_prepare_)
        BY <2>3, <2>5
      <3>2. EndOf(ends, Len(ends)) = Len(accepted)
        BY DEF WriteInv, Marked
      <3>3. QED
        BY <2>8, <3>1, <3>2
    <2>11. /\ \A k \in 1 .. q : send_buffers_prepare_info_[k].id = r + k
           /\ EndOf(ends, r) <= Len(wire)
           /\ \A i \in 1 .. r : reported[i] = i
      BY <2>8 DEF WriteInv, PrepareOK, InfosOK
    <2>12. InfosOK'
      BY <1>0, <2>1, <2>8, <2>10, <2>11 DEF InfosOK
    <2>13. QED
      BY <2>4, <2>6, <2>7, <2>9, <2>12 DEF WriteInv
  <1>3. QED
    BY <1>1, <1>2

\* SSL_write took the whole buffer: all its sends are reported.
LEMMA WriteDoneKeeps ==
    ASSUME WriteInv, WriteDone
    PROVE  WriteInv'
  <1> DEFINE r == Len(reported)
             m == Len(send_buffer_infos_)
             ids == [i \in DOMAIN send_buffer_infos_ |-> send_buffer_infos_[i].id]
  <1>1. /\ wire' = wire \o send_buffer_ /\ reported' = reported \o ids
        /\ send_buffer_' = <<>> /\ send_buffer_infos_' = <<>> /\ retry' = <<>>
    BY DEF WriteDone
  <1>2. Prepare \/ UNCHANGED <<prepared, stream>>
    BY DEF WriteDone, SessionMaySend
  <1>3. /\ (wire \o send_buffer_) \o send_buffers_prepare_' = accepted'
        /\ Marked(accepted, ends)'
        /\ send_buffers_prepare_' \in Seq(Nat) /\ send_buffers_prepare_info_' \in Seq(Info)
        /\ SameEnds(ends, ends') /\ \A b \in Nat : PrepareOK(b) => PrepareOK(b)'
    BY <1>2, PrepareKeeps
  <1>4. /\ wire \in Seq(Nat) /\ send_buffer_ \in Seq(Nat) /\ reported \in Seq(Nat)
        /\ send_buffer_infos_ \in Seq(Info) /\ r \in Nat /\ m \in Nat
    BY DEF WriteInv, WriteTypeOK
  <1>5. ids \in Seq(Nat) /\ Len(ids) = m /\ \A k \in 1 .. m : ids[k] = r + k
    <2>1. DOMAIN send_buffer_infos_ = 1 .. m /\ \A k \in 1 .. m : send_buffer_infos_[k] \in Info
      BY <1>4, ElementOfSeq
    <2>2. \A k \in 1 .. m : send_buffer_infos_[k].id = r + k /\ r + k \in Nat
      BY <1>4 DEF WriteInv, InfosOK
    <2>3. ids = [k \in 1 .. m |-> r + k]
      BY <2>1, <2>2
    <2> HIDE DEF ids, m, r
    <2>4. QED
      BY <1>4, <2>3
  <1> HIDE DEF ids
  <1>6. wire' \in Seq(Nat) /\ Len(wire') = Len(wire) + Len(send_buffer_)
    BY <1>1, <1>4
  <1>7. /\ reported' \in Seq(Nat) /\ Len(reported') = r + m
        /\ \A i \in 1 .. r + m : reported'[i] = i
    <2> HIDE DEF r, m
    <2>1. /\ reported \o ids \in Seq(Nat) /\ Len(reported \o ids) = r + m
          /\ \A i \in 1 .. r + m : (reported \o ids)[i] =
                 IF i <= r THEN reported[i] ELSE ids[i - r]
      <3>1. reported \in Seq(Nat) /\ ids \in Seq(Nat)
        BY <1>4, <1>5
      <3>2. Len(ids) = m /\ r = Len(reported)
        BY <1>5 DEF r
      <3>3. reported \o ids \in Seq(Nat) /\ Len(reported \o ids) = Len(reported) + Len(ids)
        BY <3>1
      <3>4. \A i \in 1 .. Len(reported) + Len(ids) : (reported \o ids)[i] =
                 IF i <= Len(reported) THEN reported[i] ELSE ids[i - Len(reported)]
        BY <3>1
      <3>5. QED
        BY <3>2, <3>3, <3>4
    <2>2. \A i \in 1 .. r : reported[i] = i
      BY DEF WriteInv, InfosOK, r
    <2>3. \A i \in 1 .. r + m : IF i <= r THEN i \in 1 .. r
                                ELSE i - r \in 1 .. m /\ r + (i - r) = i
      BY <1>4
    <2>4. \A i \in 1 .. r + m : (reported \o ids)[i] = i
      BY <1>5, <2>1, <2>2, <2>3
    <2>5. QED
      BY <1>1, <2>1, <2>4
  <1>8. WriteTypeOK' /\ BufferOK'
    BY <1>1, <1>3, <1>6, <1>7 DEF WriteTypeOK, BufferOK
  <1>9. SentInOrder'
    <2>1. wire' \o <<>> = wire'
      BY <1>6
    <2>2. QED
      BY <1>1, <1>3, <2>1 DEF SentInOrder
  <1>10. Base' = Base /\ Base = r + m /\ Base \in Nat /\ Base \in 0 .. Len(ends)
    <2>1. Base \in 0 .. Len(ends)
      BY EndsInOrder
    <2>2. Base' = r + m
      BY <1>1, <1>4, <1>7 DEF Base
    <2>3. QED
      BY <1>4, <2>1, <2>2 DEF Base
  <1>11. PrepareOK(Base)'
    <2>1. ASSUME NEW c \in Nat, PrepareOK(c), Base' = c
          PROVE  PrepareOK(Base)'
      <3>1. PrepareOK(c)'
        BY <1>3, <2>1
      <3>2. QED
        BY <2>1, <3>1 DEF PrepareOK
    <2>2. QED
      BY <1>10, <2>1 DEF WriteInv
  <1>12. InfosOK'
    <2>1. Len(wire') = EndOf(ends, Base)
      BY <1>6 DEF WriteInv, InfosOK
    <2>2. EndOf(ends', Base) = EndOf(ends, Base) /\ EndOf(ends, Base) \in Nat
      BY <1>3, <1>10, EndsInOrder DEF SameEnds
    <2>3. Len(send_buffer_') = 0 /\ Len(send_buffer_infos_') = 0
      BY <1>1
    <2>4. QED
      BY <1>7, <1>10, <2>1, <2>2, <2>3 DEF InfosOK
  <1>13. QED
    BY <1>3, <1>8, <1>9, <1>11, <1>12 DEF WriteInv

\* Every step keeps the stream.
LEMMA WriteNextInv == WriteInv /\ [Next]_vars => WriteInv'
  <1> SUFFICES ASSUME WriteInv, [Next]_vars PROVE WriteInv'
    OBVIOUS
  <1>1. CASE WorkerSend
    BY <1>1, QuietKeeps DEF WorkerSend
  <1>2. CASE WorkerSetOutput \/ WorkerRegister \/ close \/ PeerSends \/ PeerHangsUp
    BY <1>2, QuietKeeps
    DEF WorkerSetOutput, WorkerRegister, close, PeerSends, PeerHangsUp, outhistory
  <1>3. CASE ApplyLocal \/ Poll \/ handle_input \/ handle_output \/ handle_error
    BY <1>3, QuietKeeps
    DEF ApplyLocal, Poll, handle_input, handle_output, handle_error, outhistory
  <1>4. CASE handle_close \/ DispatchDone \/ AcceptWaits \/ ReadWaits
    BY <1>4, QuietKeeps DEF handle_close, DispatchDone, AcceptWaits, ReadWaits, outhistory
  <1>5. CASE OutputEvent \/ AcceptDone \/ ReadSome
    BY <1>5, QuietKeeps DEF OutputEvent, AcceptDone, ReadSome, SessionMaySend
  <1>6. CASE has_buffer_to_send
    BY <1>6, TakeOverKeeps
  <1>7. CASE WriteDone
    BY <1>7, WriteDoneKeeps
  <1>8. CASE WriteWaits
    BY <1>8, QuietKeeps DEF WriteWaits
  <1>9. CASE UNCHANGED vars
    BY <1>9, QuietKeeps DEF vars, outhistory
  <1>10. QED
    BY <1>1, <1>2, <1>3, <1>4, <1>5, <1>6, <1>7, <1>8, <1>9 DEF Next, ReactorThread

\* The bytes SSL_write took, in the buffer and prepared are those handed to send(), each
\* send() is reported once and when it is out, and a retry has the same buffer, for any
\* reads, sends and take-overs in between.
THEOREM StreamCorrect == Spec => []StreamRetried
  <1>1. WriteInv => StreamRetried
    <2> SUFFICES ASSUME WriteInv PROVE StreamRetried
      OBVIOUS
    <2>1. SentInOrder /\ RetrySameBuffer
      BY DEF WriteInv, BufferOK, RetrySameBuffer
    <2>2. ASSUME NEW i \in DOMAIN reported
          PROVE  reported[i] = i /\ ends[i] <= Len(wire)
      <3>1. i \in 1 .. Len(reported)
        BY DEF WriteInv, WriteTypeOK
      <3>2. /\ Len(reported) \in Nat /\ Len(send_buffer_infos_) \in Nat /\ Len(wire) \in Nat
            /\ Base = Len(reported) + Len(send_buffer_infos_)
            /\ \A n \in 0 .. Base : EndOf(ends, n) \in Nat
            /\ \A n, j \in 0 .. Base : n <= j => EndOf(ends, n) <= EndOf(ends, j)
        BY EndsInOrder DEF Base
      <3>3. i \in 0 .. Base /\ Len(reported) \in 0 .. Base /\ i <= Len(reported) /\ i # 0
        BY <3>1, <3>2
      <3>4. EndOf(ends, i) <= EndOf(ends, Len(reported))
        BY <3>2, <3>3
      <3>5. EndOf(ends, Len(reported)) <= Len(wire) /\ reported[i] = i
        BY <3>1 DEF WriteInv, InfosOK
      <3>6. EndOf(ends, i) <= Len(wire)
        BY <3>2, <3>3, <3>4, <3>5
      <3>7. QED
        BY <3>3, <3>5, <3>6 DEF EndOf
    <2>3. QED
      BY <2>1, <2>2 DEF StreamRetried, ReportedWhenOut
  <1>2. QED
    BY <1>1, SSLInitInv, WriteNextInv, PTL DEF Spec

-----------------------------------------------------------------------------
\* The pipe.

\* A stream continues its first part.
LEMMA JoinContinues ==
    ASSUME NEW a \in Seq(Nat), NEW b \in Seq(Nat)
    PROVE  SendPipe!Continues(a \o b, a)
  <1>1. /\ Len(a \o b) = Len(a) + Len(b)
        /\ \A i \in 1 .. Len(a) + Len(b) : (a \o b)[i] = IF i <= Len(a) THEN a[i] ELSE b[i - Len(a)]
    BY ConcatProperties
  <1>2. Len(a) \in Nat /\ Len(b) \in Nat
    OBVIOUS
  <1>3. \A i \in 1 .. Len(a) : i \in 1 .. Len(a) + Len(b) /\ i <= Len(a)
    BY <1>2
  <1>4. QED
    BY <1>1, <1>2, <1>3 DEF SendPipe!Continues

\* SSL_write was given the front of what was accepted, and so was what is in the buffer.
LEMMA WireInStream ==
    ASSUME WriteInv
    PROVE  /\ SendPipe!Continues(accepted, wire \o send_buffer_)
           /\ SendPipe!Continues(wire \o send_buffer_, wire) /\ SendPipe!Continues(accepted, wire)
  <1>1. /\ wire \in Seq(Nat) /\ send_buffer_ \in Seq(Nat) /\ send_buffers_prepare_ \in Seq(Nat)
        /\ (wire \o send_buffer_) \o send_buffers_prepare_ = accepted
    BY DEF WriteInv, WriteTypeOK, SentInOrder
  <1>2. SendPipe!Continues(wire \o send_buffer_, wire)
    BY <1>1, JoinContinues
  <1>3. SendPipe!Continues(accepted, wire \o send_buffer_)
    <2> DEFINE both == wire \o send_buffer_
    <2>1. both \in Seq(Nat) /\ both \o send_buffers_prepare_ = accepted
      BY <1>1
    <2> HIDE DEF both
    <2>2. SendPipe!Continues(both \o send_buffers_prepare_, both)
      BY <1>1, <2>1, JoinContinues
    <2>3. QED
      BY <2>1, <2>2 DEF both
  <1>4. SendPipe!Continues(accepted, wire)
    <2> DEFINE rest == send_buffer_ \o send_buffers_prepare_
    <2>1. rest \in Seq(Nat) /\ wire \o rest = accepted
      <3>1. rest \in Seq(Nat)
        BY <1>1
      <3>2. (wire \o send_buffer_) \o send_buffers_prepare_ = wire \o rest
        BY <1>1, JoinAssociative
      <3>3. QED
        BY <1>1, <3>1, <3>2
    <2> HIDE DEF rest
    <2>2. SendPipe!Continues(wire \o rest, wire)
      BY <1>1, <2>1, JoinContinues
    <2>3. QED
      BY <2>1, <2>2
  <1>5. QED
    BY <1>2, <1>3, <1>4

\* send() appends to the stream, on whichever thread.
LEMMA PrepareSends ==
    ASSUME WriteInv, Prepare \/ UNCHANGED stream
    PROVE  SendPipe!Send
  <1>1. CASE UNCHANGED stream
    BY <1>1 DEF stream, SendPipe!Send
  <1>2. CASE Prepare
    <2>1. PICK size \in Sizes : /\ accepted' = accepted \o Bytes(Len(ends) + 1, size)
                                /\ ends' = Append(ends, Len(accepted) + size)
      BY <1>2 DEF Prepare
    <2>2. size \in Nat /\ Len(ends) + 1 \in Nat /\ accepted \in Seq(Nat) /\ Len(accepted) \in Nat
      BY SSLConstants DEF WriteInv, Marked
    <2>3. JoinedRun(accepted, accepted', Len(ends) + 1, size)
      BY <2>1, <2>2, RunJoins DEF Bytes, Run
    <2>4. /\ Len(accepted') = Len(accepted) + size
          /\ \A p \in 1 .. Len(accepted) : accepted'[p] = accepted[p]
          /\ \A p \in Len(accepted) + 1 .. Len(accepted) + size : accepted'[p] = Len(ends) + 1
      BY <2>3 DEF JoinedRun
    <2>5. QED
      BY <2>1, <2>2, <2>4 DEF SendPipe!Send, SendPipe!Continues
  <1>3. QED
    BY <1>1, <1>2

\* A step that takes no bytes and reports nothing, with or without a send() in it.
LEMMA QuietPipe ==
    ASSUME WriteInv, Prepare \/ UNCHANGED stream, UNCHANGED <<wire, reported>>
    PROVE  SendPipe!Next
  <1>1. Len(wire) \in Nat /\ Len(reported) \in Nat
    BY DEF WriteInv, WriteTypeOK
  <1>2. SendPipe!Transmit
    BY <1>1, WireInStream DEF SendPipe!Transmit, SendPipe!Continues
  <1>3. SendPipe!Report
    <2>1. \A i \in Len(reported) + 1 .. Len(reported) : FALSE
      BY <1>1
    <2>2. QED
      BY <1>1, <2>1 DEF SendPipe!Report, SendPipe!Continues
  <1>4. QED
    BY <1>2, <1>3, PrepareSends DEF SendPipe!Next

\* SSL_write took the whole buffer: its sends are out, and all are reported.
LEMMA WriteDonePipe == ASSUME WriteInv, WriteDone PROVE SendPipe!Next
  <1> DEFINE r == Len(reported)
             ids == [i \in DOMAIN send_buffer_infos_ |-> send_buffer_infos_[i].id]
  <1>1. /\ wire' = wire \o send_buffer_ /\ reported' = reported \o ids
        /\ Prepare \/ UNCHANGED <<prepared, stream>>
    BY DEF WriteDone, SessionMaySend
  <1>2. SendPipe!Send
    BY <1>1, PrepareSends
  <1>3. SendPipe!Transmit
    BY <1>1, WireInStream DEF SendPipe!Transmit
  <1>4. /\ reported \in Seq(Nat) /\ r \in Nat /\ send_buffer_infos_ \in Seq(Info)
        /\ Len(send_buffer_infos_) \in Nat
    BY DEF WriteInv, WriteTypeOK
  <1>5. ids \in Seq(Nat) /\ Len(ids) = Len(send_buffer_infos_)
    <2>1. DOMAIN send_buffer_infos_ = 1 .. Len(send_buffer_infos_)
      BY <1>4
    <2>2. \A k \in 1 .. Len(send_buffer_infos_) : send_buffer_infos_[k] \in Info
      BY <1>4, ElementOfSeq
    <2>3. \A k \in 1 .. Len(send_buffer_infos_) : send_buffer_infos_[k].id \in Nat
      BY <2>2 DEF Info
    <2>4. QED
      BY <1>4, <2>1, <2>3
  <1> HIDE DEF ids
  <1>6. SendPipe!Continues(reported', reported) /\ Len(reported') = Base
    <2>1. Len(reported \o ids) = Len(reported) + Len(ids)
      BY <1>4, <1>5
    <2>2. QED
      BY <1>1, <1>4, <1>5, <2>1, JoinContinues DEF Base
  <1>7. /\ Base \in Nat /\ Base \in 0 .. Len(ends) /\ Len(ends) \in Nat
        /\ \A i \in 0 .. Base : EndOf(ends, i) \in Nat /\ EndOf(ends, i) <= EndOf(ends, Base)
    <2>1. Base \in 0 .. Len(ends) /\ Len(ends) \in Nat
      BY EndsInOrder DEF WriteInv, Marked
    <2>2. Base \in Nat /\ Base \in 0 .. Base /\ \A i \in 0 .. Base : i <= Base
      BY <2>1
    <2>3. QED
      BY <2>1, <2>2, EndsInOrder
  <1>8. Len(wire') = EndOf(ends, Base)
    <2>1. Len(wire \o send_buffer_) = Len(wire) + Len(send_buffer_)
      BY DEF WriteInv, WriteTypeOK
    <2>2. QED
      BY <1>1, <2>1 DEF WriteInv, InfosOK
  <1>9. \A i \in 1 .. Len(reported') : reported'[i] = i
    BY WriteDoneKeeps DEF WriteInv, InfosOK
  <1>10. ASSUME NEW i \in r + 1 .. Len(reported')
         PROVE  reported'[i] = i /\ i <= Len(ends) /\ ends[i] <= Len(wire')
    <2>1. i \in 1 .. Len(reported') /\ i \in 0 .. Base /\ i <= Len(ends) /\ i # 0
      BY <1>4, <1>6, <1>7
    <2>2. EndOf(ends, i) = ends[i]
      BY <2>1 DEF EndOf
    <2>3. QED
      BY <1>7, <1>8, <1>9, <2>1, <2>2
  <1>11. SendPipe!Report
    BY <1>6, <1>10 DEF SendPipe!Report
  <1>12. QED
    BY <1>2, <1>3, <1>11 DEF SendPipe!Next

\* The TLS send path is the pipe that the plain one is: handshakes, reads, retries and
\* shutdowns in between do not change the order of the bytes, take any back or report a
\* send() that is not out.
THEOREM PipeRefinement == Spec => ImplementsPipe
  <1>1. Init => SendPipe!Init
    BY DEF Init, SendPipe!Init
  <1>2. WriteInv /\ [Next]_vars => [SendPipe!Next]_<<accepted, ends, wire, reported>>
    <2> SUFFICES ASSUME WriteInv, [Next]_vars
                 PROVE  SendPipe!Next
      OBVIOUS
    <2>1. CASE WorkerSend \/ WorkerSetOutput \/ WorkerRegister \/ close \/ PeerSends \/ PeerHangsUp
      BY <2>1, QuietPipe
      DEF WorkerSend, WorkerSetOutput, WorkerRegister, close, PeerSends, PeerHangsUp, outhistory
    <2>2. CASE ApplyLocal \/ Poll \/ handle_input \/ handle_output \/ handle_error
      BY <2>2, QuietPipe
      DEF ApplyLocal, Poll, handle_input, handle_output, handle_error, outhistory
    <2>3. CASE handle_close \/ DispatchDone \/ AcceptWaits \/ ReadWaits \/ WriteWaits
      BY <2>3, QuietPipe
      DEF handle_close, DispatchDone, AcceptWaits, ReadWaits, WriteWaits, outhistory
    <2>4. CASE OutputEvent \/ AcceptDone \/ ReadSome
      BY <2>4, QuietPipe DEF OutputEvent, AcceptDone, ReadSome, SessionMaySend
    <2>5. CASE has_buffer_to_send
      BY <2>5, QuietPipe DEF has_buffer_to_send, outhistory
    <2>6. CASE WriteDone
      BY <2>6, WriteDonePipe
    <2>7. CASE UNCHANGED vars
      BY <2>7, QuietPipe DEF vars, outhistory
    <2>8. QED
      BY <2>1, <2>2, <2>3, <2>4, <2>5, <2>6, <2>7 DEF Next, ReactorThread
  <1>3. QED
    BY <1>1, <1>2, SSLInitInv, WriteNextInv, PTL DEF Spec, ImplementsPipe, SendPipe!Spec

-----------------------------------------------------------------------------
\* When a record is complete in the socket, SSL_read finds the first one.
LEMMA NextEndIs ==
    ASSUME arrived \in Seq(Nat), ~NoRecordEnd
    PROVE  NextEnd \in DOMAIN arrived /\ arrived[NextEnd] \in Nat
  <1> DEFINE Less == {p \in Nat \X Nat : p[1] < p[2]}
             S == {i \in DOMAIN arrived : arrived[i] # 0}
  <1>1. IsWellFoundedOn(Less, Nat)
    BY NatLessThanWellFounded DEF OpToRel
  <1>2. S # {} /\ S \subseteq Nat /\ DOMAIN arrived = 1 .. Len(arrived)
    BY DEF NoRecordEnd
  <1>3. PICK i \in S : \A j \in S : ~(<<j, i>> \in Less)
    <2> HIDE DEF Less, S
    <2>1. QED
      BY <1>1, <1>2, WFMin
  <1>4. ASSUME NEW j \in 1 .. i - 1
        PROVE  arrived[j] = 0
    <2>1. i \in Nat /\ j \in Nat /\ j < i /\ j \in DOMAIN arrived
      BY <1>2
    <2>2. j \notin S
      BY <1>3, <2>1
    <2>3. QED
      BY <2>1, <2>2
  <1>5. \E k \in DOMAIN arrived : arrived[k] # 0 /\ \A j \in 1 .. k - 1 : arrived[j] = 0
    BY <1>3, <1>4
  <1>6. NextEnd \in DOMAIN arrived
    BY <1>5 DEF NextEnd
  <1>7. QED
    BY <1>2, <1>6, ElementOfSeq

\* ssl_read leaves bytes inside OpenSSL only when the buffer was full, and then reads on.
LEMMA ReadSomeKeeps ==
    ASSUME ReadInv, ReadSome
    PROVE  ReadInv'
  <1> DEFINE size == SSL_read.size
             n == IF size > RecvBuffer THEN RecvBuffer ELSE size
  <1>1. decrypted > 0 \/ ~NoRecordEnd
    BY DEF ReadSome
  <1>2. size \in Nat /\ SSL_read.left \in Seq(Nat)
    <2>1. CASE decrypted > 0
      BY <2>1 DEF ReadInv, SSL_read
    <2>2. CASE ~(decrypted > 0)
      <3>1. NextEnd \in DOMAIN arrived /\ arrived[NextEnd] \in Nat
        BY <1>1, <2>2, NextEndIs DEF ReadInv
      <3>2. SubSeq(arrived, NextEnd + 1, Len(arrived)) \in Seq(Nat)
        <4>1. NextEnd \in 1 .. Len(arrived) /\ Len(arrived) \in Nat
          BY <3>1 DEF ReadInv
        <4>2. NextEnd + 1 \in Int /\ \A i \in NextEnd + 1 .. Len(arrived) : arrived[i] \in Nat
          BY <4>1 DEF ReadInv
        <4>3. QED
          BY <4>1, <4>2, SubSeqProperties
      <3>3. QED
        BY <2>2, <3>1, <3>2 DEF SSL_read
    <2>3. QED
      BY <2>1, <2>2
  <1>3. decrypted' = size - n /\ arrived' = SSL_read.left /\ (ReadOn(n) => pc' = "read")
    BY DEF ReadSome
  <1>4. RecvBuffer \in Nat
    BY SSLConstants
  <1> HIDE DEF size
  <1>5. size - n \in Nat /\ (size - n > 0 => n >= RecvBuffer)
    BY <1>2, <1>4
  <1>6. QED
    BY <1>2, <1>3, <1>5 DEF ReadInv, ReadOn

\* Every step keeps the reactor thread at the bytes inside OpenSSL.
LEMMA ReadNextInv == ReadInv /\ [Next]_vars => ReadInv'
  <1> SUFFICES ASSUME ReadInv, [Next]_vars PROVE ReadInv'
    OBVIOUS
  <1>0. arrived \in Seq(Nat) /\ decrypted \in Nat /\ (decrypted > 0 => pc = "read")
    BY DEF ReadInv
  <1>1. CASE WorkerSend \/ WorkerSetOutput \/ WorkerRegister \/ close \/ PeerHangsUp
    BY <1>0, <1>1
    DEF WorkerSend, WorkerSetOutput, WorkerRegister, close, PeerHangsUp, input, ReadInv
  <1>2. CASE PeerSends
    <2>1. decrypted' = decrypted /\ pc' = pc
      BY <1>2 DEF PeerSends
    <2>2. \E n \in Nat : arrived' = Append(arrived, n)
      BY <1>2, SSLConstants DEF PeerSends
    <2>3. QED
      BY <1>0, <2>1, <2>2, AppendProperties DEF ReadInv
  <1>3. CASE ApplyLocal \/ Poll \/ handle_input \/ handle_output \/ handle_error
    BY <1>0, <1>3
    DEF ApplyLocal, Poll, handle_input, handle_output, handle_error, input, ReadInv
  <1>4. CASE handle_close \/ DispatchDone \/ OutputEvent
    BY <1>0, <1>4 DEF handle_close, DispatchDone, OutputEvent, input, ReadInv
  <1>5. CASE has_buffer_to_send \/ WriteDone \/ WriteWaits
    BY <1>0, <1>5 DEF has_buffer_to_send, WriteDone, WriteWaits, input, ReadInv
  <1>6. CASE AcceptWaits \/ ReadWaits
    <2>1. decrypted' = decrypted /\ ~(decrypted > 0) /\ arrived' \in {arrived, <<>>}
      BY <1>0, <1>6 DEF AcceptWaits, ReadWaits
    <2>2. QED
      BY <1>0, <2>1, EmptySeq DEF ReadInv
  <1>7. CASE AcceptDone
    <2>1. decrypted' = decrypted /\ ~(decrypted > 0)
      BY <1>0, <1>7 DEF AcceptDone
    <2>2. arrived' \in Seq(Nat)
      <3>1. CASE arrived # <<>> /\ Head(arrived) = 0
        BY <1>0, <1>7, <3>1, HeadTailProperties DEF AcceptDone
      <3>2. CASE ~(arrived # <<>> /\ Head(arrived) = 0)
        BY <1>0, <1>7, <3>2 DEF AcceptDone
      <3>3. QED
        BY <3>1, <3>2
    <2>3. QED
      BY <1>0, <2>1, <2>2 DEF ReadInv
  <1>8. CASE ReadSome
    BY <1>8, ReadSomeKeeps
  <1>9. CASE UNCHANGED vars
    BY <1>0, <1>9 DEF vars, input, ReadInv
  <1>10. QED
    BY <1>1, <1>2, <1>3, <1>4, <1>5, <1>6, <1>7, <1>8, <1>9 DEF Next, ReactorThread

\* The reactor thread never sleeps on bytes that only OpenSSL knows of, whatever the sizes
\* of the records and of recv_buffer_.
THEOREM NeverTrapped == Spec => []NothingTrapped
  <1>1. ReadInv => NothingTrapped
    BY DEF ReadInv, NothingTrapped
  <1>2. QED
    BY <1>1, SSLInitInv, ReadNextInv, PTL DEF Spec
=============================================================================

-------------------------- MODULE SSLEventHandler --------------------------
(***************************************************************************)
(* ssl_reactor/SSLEventHandler over SSLSocket: one TLS connection on a     *)
(* reactor.  OpenSSL may want the socket readable in order to write and    *)
(* writable in order to read, so ssl_state_ remembers which of SSL_read    *)
(* and SSL_write is under way and every socket event continues that one.   *)
(* Buffers, prepare buffer and one-shot writability are those of           *)
(* TCPEventHandler; without SSL_MODE_ENABLE_PARTIAL_WRITE an SSL_write     *)
(* takes all of its buffer or nothing.  A byte is the number of the send() *)
(* it comes from.                                                          *)
(***************************************************************************)
EXTENDS Integers, Sequences

CONSTANTS Sizes,       \* sizes of the data sent
          MaxSends,    \* bound: calls of send()
          RecordSizes, \* sizes of the records the peer sends
          MaxRecords,  \* bound: records of the peer
          RecvBuffer,  \* size of recv_buffer_ (10240 in the code)
          EarlySends   \* the session sends before handle_accept, too

ASSUME SSLConstants ==
    /\ Sizes \subseteq Nat /\ MaxSends \in Nat
    /\ RecordSizes \subseteq Nat \ {0} /\ MaxRecords \in Nat
    /\ RecvBuffer \in Nat \ {0} /\ EarlySends \in BOOLEAN

VARIABLES
    ssl_state_,         \* "NONE", "READ" or "WRITE"
    ssl_accept_done_,
    send_buffer_, send_buffer_infos_,
    send_buffers_prepare_, send_buffers_prepare_info_,
    set_output_event_, close_,
    pc,                 \* where the reactor thread is
    callback,           \* the callback it is in: "input" or "output"
    worker,             \* where the other thread is in send()/set_output_event()
    wait_events_, pipe, \* demuxer requests of the reactor thread, of the other
    out,                \* EPOLLOUT is asked for
    arrived,            \* in the socket: 0 = start of a record, n = its end, n bytes
    decrypted,          \* bytes of a record inside OpenSSL, not yet read
    shut,               \* SHUT_WR was called
    rdhup,              \* the peer's side is gone
    err,                \* a call on the socket failed
    batch, removed,
    accepted,           \* history: bytes of the accepted send() calls, in order
    ends,               \* history: length of that stream after each of them
    wire,               \* history: bytes SSL_write took
    reported,           \* history: handle_sent calls
    retry,              \* history: the buffer an SSL_write has to be retried with
    records,            \* history: record ends the peer sent
    incoming, received  \* history: bytes the peer sent, bytes given to handle_input

ssl == <<ssl_state_, ssl_accept_done_>>
buffers == <<send_buffer_, send_buffer_infos_>>
prepared == <<send_buffers_prepare_, send_buffers_prepare_info_>>
flags == <<set_output_event_, close_>>
queues == <<wait_events_, pipe, out>>
input == <<arrived, decrypted>>
ending == <<shut, rdhup, err>>
stream == <<accepted, ends>>
outhistory == <<stream, wire, reported, retry>>
inhistory == <<records, incoming, received>>
vars == <<ssl, buffers, prepared, flags, pc, callback, worker, queues, input, ending, batch,
          removed, outhistory, inhistory>>

Bytes(id, size) == [i \in 1 .. size |-> id]

Init ==
    /\ ssl_state_ = "NONE" /\ ssl_accept_done_ = FALSE
    /\ send_buffer_ = <<>> /\ send_buffer_infos_ = <<>>
    /\ send_buffers_prepare_ = <<>> /\ send_buffers_prepare_info_ = <<>>
    /\ set_output_event_ = FALSE /\ close_ = FALSE
    /\ pc = "wait" /\ callback = "none" /\ worker = "none"
    /\ wait_events_ = <<>> /\ pipe = 0 /\ out = FALSE
    /\ arrived = <<>> /\ decrypted = 0 /\ shut = FALSE /\ rdhup = FALSE
    /\ err = FALSE
    /\ batch = {} /\ removed = FALSE
    /\ accepted = <<>> /\ ends = <<>> /\ wire = <<>> /\ reported = <<>> /\ retry = <<>>
    /\ records = 0 /\ incoming = 0 /\ received = 0

-----------------------------------------------------------------------------
\* The locked part of send(); it refuses after close().
Prepare ==
    /\ ~close_ /\ Len(ends) < MaxSends
    /\ EarlySends \/ ssl_accept_done_
    /\ \E size \in Sizes :
         LET id == Len(ends) + 1
         IN /\ send_buffers_prepare_' = send_buffers_prepare_ \o Bytes(id, size)
            /\ send_buffers_prepare_info_' =
                 Append(send_buffers_prepare_info_,
                        [id |-> id, begin |-> Len(send_buffers_prepare_), length |-> size])
            /\ accepted' = accepted \o Bytes(id, size)
            /\ ends' = Append(ends, Len(accepted) + size)

\* send() and set_output_event() on another thread.
WorkerSend ==
    /\ worker = "none" /\ ~removed
    /\ Prepare
    /\ worker' = "register"
    /\ UNCHANGED <<ssl, buffers, flags, pc, callback, queues, input, ending, batch, removed,
                   wire, reported, retry, inhistory>>

WorkerSetOutput ==
    /\ worker = "none" /\ ~removed /\ ~close_ /\ ~set_output_event_
    /\ set_output_event_' = TRUE
    /\ worker' = "register"
    /\ UNCHANGED <<ssl, buffers, prepared, close_, pc, callback, queues, input, ending, batch,
                   removed, outhistory, inhistory>>

WorkerRegister ==
    /\ worker = "register"
    /\ worker' = "none"
    /\ pipe' = pipe + 1
    /\ UNCHANGED <<ssl, buffers, prepared, flags, pc, callback, wait_events_, out, input,
                   ending, batch, removed, outhistory, inhistory>>

\* A callback of the session sends, or does not.
SessionMaySend ==
    \/ Prepare /\ wait_events_' = Append(wait_events_, "REGISTER_WRITE")
    \/ UNCHANGED <<prepared, wait_events_, stream>>

\* close(): close_notify is sent and the socket shut down for writing.
close ==
    /\ ~close_ /\ ~removed
    /\ close_' = TRUE
    /\ shut' = TRUE
    /\ UNCHANGED <<ssl, buffers, prepared, set_output_event_, pc, callback, worker, queues,
                   input, rdhup, err, batch, removed, outhistory, inhistory>>

\* The peer sends the start or the end of a record, or goes.
PeerSends ==
    /\ ~rdhup /\ records < MaxRecords
    /\ \/ /\ arrived # <<>> => arrived[Len(arrived)] # 0
          /\ arrived' = Append(arrived, 0)
          /\ UNCHANGED inhistory
       \/ \E n \in RecordSizes :
            /\ arrived' = Append(arrived, n)
            /\ records' = records + 1
            /\ incoming' = incoming + n
            /\ UNCHANGED received
    /\ UNCHANGED <<ssl, buffers, prepared, flags, pc, callback, worker, queues, decrypted,
                   ending, batch, removed, outhistory>>

PeerHangsUp ==
    /\ ~rdhup
    /\ rdhup' = TRUE
    /\ UNCHANGED <<ssl, buffers, prepared, flags, pc, callback, worker, queues, input, shut,
                   err, batch, removed, outhistory, inhistory>>
-----------------------------------------------------------------------------
\* The reactor thread in wait(): its own requests first, REMOVE_WRITE by a flip.
ApplyLocal ==
    /\ pc = "wait" /\ wait_events_ # <<>> /\ ~removed
    /\ out' = CASE Head(wait_events_) = "REGISTER_WRITE" -> TRUE
                [] Head(wait_events_) = "REMOVE_WRITE"   -> ~out
                [] Head(wait_events_) = "REMOVE_ALL"     -> FALSE
    /\ removed' = (Head(wait_events_) = "REMOVE_ALL")
    /\ wait_events_' = Tail(wait_events_)
    /\ UNCHANGED <<ssl, buffers, prepared, flags, pc, callback, worker, pipe, input, ending,
                   batch, outhistory, inhistory>>

\* epoll_wait: what holds of the socket, in the order it will be dispatched.
Ready ==
    {e \in {"READ", "WRITE", "ERROR", "CLOSE"} :
       \/ e = "READ" /\ arrived # <<>>
       \/ e = "WRITE" /\ out /\ ~err
       \/ e = "ERROR" /\ err
       \/ e = "CLOSE" /\ rdhup}

Poll ==
    /\ pc = "wait" /\ wait_events_ = <<>> /\ ~removed
    /\ Ready # {} \/ pipe > 0
    /\ batch' = Ready
    /\ out' = (out \/ pipe > 0)
    /\ pipe' = 0
    /\ pc' = "dispatch"
    /\ UNCHANGED <<ssl, buffers, prepared, flags, callback, worker, wait_events_, input,
                   ending, removed, outhistory, inhistory>>

\* handle_input and handle_output start an operation only when none is under way.
handle_input ==
    /\ pc = "dispatch" /\ "READ" \in batch
    /\ batch' = batch \ {"READ"}
    /\ ssl_state_' = IF ssl_state_ = "NONE" THEN "READ" ELSE ssl_state_
    /\ callback' = "input"
    /\ pc' = "process_ssl"
    /\ UNCHANGED <<ssl_accept_done_, buffers, prepared, flags, worker, queues, input, ending,
                   removed, outhistory, inhistory>>

handle_output ==
    /\ pc = "dispatch" /\ "READ" \notin batch /\ "WRITE" \in batch
    /\ batch' = batch \ {"WRITE"}
    /\ wait_events_' = Append(wait_events_, "REMOVE_WRITE")
    /\ ssl_state_' = IF ssl_state_ = "NONE" THEN "WRITE" ELSE ssl_state_
    /\ callback' = "output"
    /\ pc' = "process_ssl"
    /\ UNCHANGED <<ssl_accept_done_, buffers, prepared, flags, worker, pipe, out, input,
                   ending, removed, outhistory, inhistory>>

handle_error ==
    /\ pc = "dispatch" /\ batch \cap {"READ", "WRITE"} = {} /\ "ERROR" \in batch
    /\ batch' = batch \ {"ERROR"}
    /\ shut' = TRUE
    /\ UNCHANGED <<ssl, buffers, prepared, flags, pc, callback, worker, queues, input, rdhup,
                   err, removed, outhistory, inhistory>>

handle_close ==
    /\ pc = "dispatch" /\ batch = {"CLOSE"}
    /\ batch' = {}
    /\ wait_events_' = Append(wait_events_, "REMOVE_ALL")
    /\ UNCHANGED <<ssl, buffers, prepared, flags, pc, callback, worker, pipe, out, input,
                   ending, removed, outhistory, inhistory>>

DispatchDone ==
    /\ pc = "dispatch" /\ batch = {}
    /\ pc' = "wait"
    /\ UNCHANGED <<ssl, buffers, prepared, flags, callback, worker, queues, input, ending,
                   batch, removed, outhistory, inhistory>>

\* After process_ssl, handle_output gives the session its turn.
Processed == pc' = IF callback = "output" THEN "output_event" ELSE "dispatch"

OutputEvent ==
    /\ pc = "output_event"
    /\ \/ /\ set_output_event_
          /\ set_output_event_' = FALSE
          /\ SessionMaySend
       \/ /\ ~set_output_event_
          /\ UNCHANGED <<prepared, set_output_event_, wait_events_, stream>>
    /\ pc' = "dispatch"
    /\ UNCHANGED <<ssl, buffers, close_, callback, worker, pipe, out, input, ending, batch,
                   removed, wire, reported, retry, inhistory>>

-----------------------------------------------------------------------------
\* What a call into OpenSSL leaves undone: it wants the socket readable (the
\* level-triggered EPOLLIN will do) or writable (which has to be asked for),
\* OpenSSL failed or the peer sent close_notify, or the socket failed.
WantRead == UNCHANGED <<wait_events_, ending>>
WantWrite == wait_events_' = Append(wait_events_, "REGISTER_WRITE") /\ UNCHANGED ending
Failed == shut' = TRUE /\ UNCHANGED <<wait_events_, rdhup, err>>
SyscallFailed ==
    /\ IF shut THEN UNCHANGED <<rdhup, err>> ELSE rdhup' = TRUE /\ err' = TRUE
    /\ UNCHANGED <<wait_events_, shut>>

NoRecordEnd == \A i \in DOMAIN arrived : arrived[i] = 0

\* ssl_accept: every socket event goes on with the handshake until it is done.
\* A close_notify in the handshake counts as done (the default branch).
AcceptWaits ==
    /\ pc = "process_ssl" /\ ~ssl_accept_done_
    /\ \/ NoRecordEnd /\ arrived' = <<>> /\ WantRead
       \/ UNCHANGED arrived /\ (WantWrite \/ Failed \/ SyscallFailed)
    /\ Processed
    /\ UNCHANGED <<ssl, buffers, prepared, flags, callback, worker, pipe, out, decrypted,
                   batch, removed, outhistory, inhistory>>

AcceptDone ==
    /\ pc = "process_ssl" /\ ~ssl_accept_done_
    /\ ssl_state_' = "NONE"
    /\ ssl_accept_done_' = TRUE
    /\ arrived' = IF arrived # <<>> /\ Head(arrived) = 0 THEN Tail(arrived) ELSE arrived
    /\ SessionMaySend   \* in handle_accept
    /\ Processed
    /\ UNCHANGED <<buffers, flags, callback, worker, pipe, out, decrypted, ending, batch,
                   removed, wire, reported, retry, inhistory>>

-----------------------------------------------------------------------------
Reading == pc = "read" \/ (pc = "process_ssl" /\ ssl_accept_done_ /\ ssl_state_ = "READ")

\* SSL_read: the rest of a record, or the next record in the socket.
NextEnd == CHOOSE i \in DOMAIN arrived : arrived[i] # 0 /\ \A j \in 1 .. i - 1 : arrived[j] = 0
SSL_read ==
    IF decrypted > 0 THEN [size |-> decrypted, left |-> arrived]
    ELSE [size |-> arrived[NextEnd], left |-> SubSeq(arrived, NextEnd + 1, Len(arrived))]

MoreThanFull(n) == n > RecvBuffer   \* mutant: a full buffer does not read on
ReadOn(n) == n >= RecvBuffer

\* ssl_read: a full recv_buffer_ may have left bytes inside OpenSSL, where
\* epoll does not see them, so it reads on.
ReadSome ==
    /\ Reading /\ (decrypted > 0 \/ ~NoRecordEnd)
    /\ LET n == IF SSL_read.size > RecvBuffer THEN RecvBuffer ELSE SSL_read.size
       IN /\ received' = received + n
          /\ decrypted' = SSL_read.size - n
          /\ arrived' = SSL_read.left
          /\ IF ReadOn(n) THEN pc' = "read" ELSE Processed
    /\ ssl_state_' = "NONE"
    /\ SessionMaySend   \* in handle_input
    /\ UNCHANGED <<ssl_accept_done_, buffers, flags, callback, worker, pipe, out, ending,
                   batch, removed, wire, reported, retry, records, incoming>>

\* ssl_state_ stays as it is: READ, or NONE when it has read a full buffer.
ReadWaits ==
    /\ Reading /\ decrypted = 0
    /\ \/ NoRecordEnd /\ arrived' = <<>> /\ WantRead
       \/ UNCHANGED arrived /\ (WantWrite \/ Failed \/ SyscallFailed)
    /\ Processed
    /\ UNCHANGED <<ssl, buffers, prepared, flags, callback, worker, pipe, out, decrypted,
                   batch, removed, outhistory, inhistory>>

-----------------------------------------------------------------------------
SwapWanted == send_buffers_prepare_ # <<>>   \* mutant: over unsent bytes too
TakeOver == send_buffer_ = <<>> /\ send_buffers_prepare_ # <<>>

NothingToSendWaits ==   \* mutant: ssl_state_ stays WRITE when there is nothing to send
    /\ pc = "process_ssl" /\ ssl_accept_done_ /\ ssl_state_ = "WRITE"
    /\ IF TakeOver
         THEN /\ send_buffer_' = send_buffers_prepare_
              /\ send_buffers_prepare_' = send_buffer_
              /\ send_buffer_infos_' = send_buffers_prepare_info_
              /\ send_buffers_prepare_info_' = send_buffer_infos_
         ELSE UNCHANGED <<buffers, prepared>>
    /\ IF send_buffer_' = <<>> THEN Processed ELSE pc' = "write"
    /\ UNCHANGED <<ssl, flags, callback, worker, queues, input, ending, batch, removed,
                   outhistory, inhistory>>
has_buffer_to_send ==
    /\ pc = "process_ssl" /\ ssl_accept_done_ /\ ssl_state_ = "WRITE"
    /\ IF TakeOver
         THEN /\ send_buffer_' = send_buffers_prepare_
              /\ send_buffers_prepare_' = send_buffer_
              /\ send_buffer_infos_' = send_buffers_prepare_info_
              /\ send_buffers_prepare_info_' = send_buffer_infos_
         ELSE UNCHANGED <<buffers, prepared>>
    /\ \/ send_buffer_' = <<>> /\ ssl_state_' = "NONE" /\ Processed
       \/ send_buffer_' # <<>> /\ pc' = "write" /\ UNCHANGED ssl_state_
    /\ UNCHANGED <<ssl_accept_done_, flags, callback, worker, queues, input, ending, batch,
                   removed, outhistory, inhistory>>

WriteDoneKeepsBuffer ==   \* mutant: send_buffer_.clear() is missing
    /\ pc = "write" /\ ~shut
    /\ wire' = wire \o send_buffer_
    /\ reported' = reported \o [i \in DOMAIN send_buffer_infos_ |-> send_buffer_infos_[i].id]
    /\ UNCHANGED send_buffer_ /\ send_buffer_infos_' = <<>>
    /\ ssl_state_' = "NONE"
    /\ retry' = <<>>
    /\ SessionMaySend
    /\ Processed
    /\ UNCHANGED <<ssl_accept_done_, flags, callback, worker, pipe, out, input, ending, batch,
                   removed, inhistory>>
\* ssl_write: SSL_write took the buffer; handle_sent is called for every send()
\* in it.  Writability is not asked for again.
WriteDone ==
    /\ pc = "write" /\ ~shut
    /\ wire' = wire \o send_buffer_
    /\ reported' = reported \o [i \in DOMAIN send_buffer_infos_ |-> send_buffer_infos_[i].id]
    /\ send_buffer_' = <<>> /\ send_buffer_infos_' = <<>>
    /\ ssl_state_' = "NONE"
    /\ retry' = <<>>
    /\ SessionMaySend   \* in handle_sent
    /\ Processed
    /\ UNCHANGED <<ssl_accept_done_, flags, callback, worker, pipe, out, input, ending, batch,
                   removed, inhistory>>

\* ssl_state_ stays WRITE, so that the next event of the socket retries.
WriteWaits ==
    /\ pc = "write"
    /\ \/ ~shut /\ (WantRead \/ WantWrite) /\ retry' = send_buffer_
       \/ (Failed \/ SyscallFailed) /\ UNCHANGED retry
    /\ Processed
    /\ UNCHANGED <<ssl, buffers, prepared, flags, callback, worker, pipe, out, input, batch,
                   removed, stream, wire, reported, inhistory>>

-----------------------------------------------------------------------------
ReactorThread ==
    \/ ApplyLocal \/ Poll \/ handle_input \/ handle_output \/ handle_error \/ handle_close
    \/ DispatchDone \/ OutputEvent \/ AcceptWaits \/ AcceptDone \/ ReadSome \/ ReadWaits
    \/ has_buffer_to_send \/ WriteDone \/ WriteWaits

Next ==
    \/ ReactorThread
    \/ WorkerSend \/ WorkerSetOutput \/ WorkerRegister
    \/ close \/ PeerSends \/ PeerHangsUp

\* Both threads go on, and OpenSSL gets somewhere when it is called again and
\* again: the handshake ends, a record that is there is read.  A peer that does not
\* read may keep SSL_write waiting for ever.
Spec ==
    /\ Init /\ [][Next]_vars
    /\ WF_vars(ReactorThread) /\ WF_vars(WorkerRegister)
    /\ SF_vars(AcceptDone) /\ SF_vars(ReadSome)

-----------------------------------------------------------------------------
\* The bytes SSL_write took, those in send_buffer_ and those prepared are the
\* bytes handed to send(), in order, whatever reads, retries and take-overs
\* come between.
SentInOrder == (wire \o send_buffer_) \o send_buffers_prepare_ = accepted

\* handle_sent is called once per send(), in order, and only for what SSL_write took.
ReportedWhenOut == \A i \in DOMAIN reported : reported[i] = i /\ ends[i] <= Len(wire)

\* OpenSSL demands that an SSL_write that wanted the socket is retried with the
\* same buffer ("bad write retry" otherwise): no send() and no SSL_read between
\* the two changes it.
RetrySameBuffer == pc = "write" /\ retry # <<>> => send_buffer_ = retry

\* The stream and the calls of handle_sent survive the retries of SSL_write that reads
\* and sends come between.
StreamRetried == SentInOrder /\ ReportedWhenOut /\ RetrySameBuffer

SendPipe == INSTANCE BytePipe

\* The TLS send path is the same pipe as the plain one (TCPEventHandler): SSL_write takes
\* the bytes in the order of the send() calls, nothing is taken back, and handle_sent is
\* called for each call when it is out.
ImplementsPipe == SendPipe!Spec

\* The reactor thread never sleeps on bytes that only OpenSSL knows of: epoll
\* would not wake it for them.
NothingTrapped == pc = "wait" => decrypted = 0

\* An SSL_write under way that has not taken its buffer.
Writing == ssl_state_ = "WRITE" /\ send_buffer_ # <<>>

\* The session catches up with what the peer sent in complete records, unless the
\* connection is shut down or ends, or a write never gets on: while ssl_state_ is WRITE
\* every event of the socket, the readable ones too, goes to ssl_write and nothing is
\* read.
RecordsDelivered ==
    received < incoming ~> received = incoming \/ removed \/ shut \/ []Writing

\* "Called after the data was sent", with the id of its send(): a handler whose
\* reactor thread sleeps, with no call into OpenSSL and no request under way
\* that could go on with it, has no accepted bytes left to send.  The code does not
\* satisfy it: a writable event that goes on with a pending SSL_read is used up (the
\* README's Disagreements).
NoSendForgotten ==
    /\ pc = "wait" /\ wait_events_ = <<>> /\ pipe = 0 /\ worker = "none"
    /\ ssl_accept_done_ /\ ssl_state_ = "NONE" /\ ~out
    /\ ~shut /\ ~rdhup /\ ~removed
    => send_buffer_ = <<>> /\ send_buffers_prepare_ = <<>>
=============================================================================

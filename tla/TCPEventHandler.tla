-------------------------- MODULE TCPEventHandler --------------------------
(***************************************************************************)
(* tcp_reactor/TCPEventHandler: how a TCP session sends.  send() on any    *)
(* thread appends to a prepare buffer under a lock and asks the reactor    *)
(* for writability; handle_output on the reactor thread takes the prepare  *)
(* buffer over when its own is empty, gives the kernel what it accepts and *)
(* calls handle_sent for every send() that is out completely.  Of the      *)
(* reactor, the order in which it applies interest in EPOLLOUT is kept.    *)
(* A byte is the number of the send() it comes from.                       *)
(***************************************************************************)
EXTENDS Integers, Sequences, FiniteSets

CONSTANTS Sizes,     \* sizes of the data sent
          MaxSends   \* bound: calls of send()

ASSUME SendConstants == Sizes \subseteq Nat /\ MaxSends \in Nat

VARIABLES
    send_buffer_, send_buffer_infos_,
    send_buffers_prepare_, send_buffers_prepare_info_,
    set_output_event_,  \* set_output_event() asked for handle_output
    close_,
    pc,                 \* where the reactor thread is
    sent_size,          \* result of ::send
    sent_info_size,     \* how much of it is not yet attributed to a send()
    worker,             \* where the other thread is in send()/set_output_event()
    wait_events_, pipe, \* demuxer requests of the reactor thread, of the other
    out,                \* EPOLLOUT is asked for
    rdhup,              \* the socket is shut down, by either side
    batch,              \* events of this turn not yet dispatched
    removed,            \* the handler is no longer registered
    accepted,           \* history: bytes of the accepted send() calls, in order
    ends,               \* history: length of that stream after each of them
    wire,               \* history: bytes the kernel took
    reported,           \* history: handle_sent calls
    failed,             \* history: handle_sent_error calls
    asked               \* history: set_output_event() calls not yet answered

buffers == <<send_buffer_, send_buffer_infos_>>
prepared == <<send_buffers_prepare_, send_buffers_prepare_info_>>
demuxer == <<wait_events_, pipe, out>>
locals == <<sent_size, sent_info_size>>
stream == <<accepted, ends>>
history == <<stream, wire, reported, failed, asked>>
vars == <<buffers, prepared, set_output_event_, close_, pc, locals, worker, demuxer,
          rdhup, batch, removed, history>>

Bytes(id, size) == [i \in 1 .. size |-> id]

Init ==
    /\ send_buffer_ = <<>> /\ send_buffer_infos_ = <<>>
    /\ send_buffers_prepare_ = <<>> /\ send_buffers_prepare_info_ = <<>>
    /\ set_output_event_ = FALSE /\ close_ = FALSE
    /\ pc = "wait" /\ sent_size = 0 /\ sent_info_size = 0 /\ worker = "none"
    /\ wait_events_ = <<>> /\ pipe = 0 /\ out = FALSE
    /\ rdhup = FALSE /\ batch = {} /\ removed = FALSE
    /\ accepted = <<>> /\ ends = <<>> /\ wire = <<>> /\ reported = <<>> /\ failed = <<>>
    /\ asked = FALSE

-----------------------------------------------------------------------------
\* The locked part of send(); it refuses after close().
Prepare ==
    /\ ~close_ /\ Len(ends) < MaxSends
    /\ \E size \in Sizes :
         LET id == Len(ends) + 1
         IN /\ send_buffers_prepare_' = send_buffers_prepare_ \o Bytes(id, size)
            /\ send_buffers_prepare_info_' =
                 Append(send_buffers_prepare_info_,
                        [stream_id |-> id, begin |-> Len(send_buffers_prepare_),
                         length |-> size, sent_remain |-> size])
            /\ accepted' = accepted \o Bytes(id, size)
            /\ ends' = Append(ends, Len(accepted) + size)

\* send() and set_output_event() on another thread: the flag or the buffer
\* first, register_writable after it.
WorkerSend ==
    /\ worker = "none" /\ ~removed
    /\ Prepare
    /\ worker' = "register"
    /\ UNCHANGED <<buffers, set_output_event_, close_, pc, locals, demuxer, rdhup, batch,
                   removed, wire, reported, failed, asked>>

WorkerSetOutput ==
    /\ worker = "none" /\ ~removed /\ ~close_
    /\ ~set_output_event_
    /\ set_output_event_' = TRUE
    /\ asked' = TRUE
    /\ worker' = "register"
    /\ UNCHANGED <<buffers, prepared, close_, pc, locals, demuxer, rdhup, batch, removed,
                   stream, wire, reported, failed>>

WorkerRegister ==
    /\ worker = "register"
    /\ pipe' = pipe + 1
    /\ worker' = "none"
    /\ UNCHANGED <<buffers, prepared, set_output_event_, close_, pc, locals, wait_events_, out,
                   rdhup, batch, removed, history>>

\* A callback of the session sends, or does not.
SessionMaySend ==
    \/ Prepare /\ wait_events_' = Append(wait_events_, "REGISTER_WRITE")
    \/ UNCHANGED <<prepared, wait_events_, stream>>

close ==
    /\ ~close_ /\ ~removed
    /\ close_' = TRUE
    /\ rdhup' = TRUE
    /\ UNCHANGED <<buffers, prepared, set_output_event_, pc, locals, worker, demuxer, batch,
                   removed, history>>

PeerHangsUp ==
    /\ ~rdhup
    /\ rdhup' = TRUE
    /\ UNCHANGED <<buffers, prepared, set_output_event_, close_, pc, locals, worker, demuxer,
                   batch, removed, history>>

-----------------------------------------------------------------------------
\* The reactor thread in wait(): its own requests first, REMOVE_WRITE by a flip.
ApplyLocal ==
    /\ pc = "wait" /\ wait_events_ # <<>> /\ ~removed
    /\ out' = CASE Head(wait_events_) = "REGISTER_WRITE" -> TRUE
                [] Head(wait_events_) = "REMOVE_WRITE"   -> ~out
                [] Head(wait_events_) = "REMOVE_ALL"     -> FALSE
    /\ removed' = (Head(wait_events_) = "REMOVE_ALL")
    /\ wait_events_' = Tail(wait_events_)
    /\ UNCHANGED <<buffers, prepared, set_output_event_, close_, pc, locals, worker, pipe,
                   rdhup, batch, history>>

PipeIgnored == out   \* mutant: what other threads ask for is dropped
OutAfterPipe == out \/ pipe > 0

\* epoll_wait, and the requests in the pipe: they count from the next turn on.
Poll ==
    /\ pc = "wait" /\ wait_events_ = <<>> /\ ~removed
    /\ out \/ rdhup \/ pipe > 0
    /\ batch' = (IF out THEN {"WRITE"} ELSE {}) \cup (IF rdhup THEN {"CLOSE"} ELSE {})
    /\ out' = OutAfterPipe
    /\ pipe' = 0
    /\ pc' = "dispatch"
    /\ UNCHANGED <<buffers, prepared, set_output_event_, close_, locals, worker, wait_events_,
                   rdhup, removed, history>>

\* WRITE comes before CLOSE; the interest is dropped before handle_output.
DispatchWrite ==
    /\ pc = "dispatch" /\ "WRITE" \in batch
    /\ batch' = batch \ {"WRITE"}
    /\ wait_events_' = Append(wait_events_, "REMOVE_WRITE")
    /\ pc' = "output"
    /\ UNCHANGED <<buffers, prepared, set_output_event_, close_, locals, worker, pipe, out,
                   rdhup, removed, history>>

\* handle_close tells the session and removes the handler.
handle_close ==
    /\ pc = "dispatch" /\ batch = {"CLOSE"}
    /\ batch' = {}
    /\ wait_events_' = Append(wait_events_, "REMOVE_ALL")
    /\ UNCHANGED <<buffers, prepared, set_output_event_, close_, pc, locals, worker, pipe,
                   out, rdhup, removed, history>>

DispatchDone ==
    /\ pc = "dispatch" /\ batch = {}
    /\ pc' = "wait"
    /\ UNCHANGED <<buffers, prepared, set_output_event_, close_, locals, worker, demuxer,
                   rdhup, batch, removed, history>>

-----------------------------------------------------------------------------
\* handle_output: first the session's handle_output, when it was asked for.
OutputEvent ==
    /\ pc = "output"
    /\ \/ /\ set_output_event_
          /\ set_output_event_' = FALSE
          /\ asked' = FALSE
          /\ SessionMaySend
       \/ /\ ~set_output_event_
          /\ UNCHANGED <<prepared, set_output_event_, asked, wait_events_, stream>>
    /\ pc' = "check"
    /\ UNCHANGED <<buffers, close_, locals, worker, pipe, out, rdhup, batch, removed, wire,
                   reported, failed>>

\* has_buffer_to_send: the two buffers are swapped when the first is empty.
SwapWanted == send_buffers_prepare_ # <<>>   \* mutant: over unsent bytes too
TakeOver == send_buffer_ = <<>> /\ send_buffers_prepare_ # <<>>

has_buffer_to_send ==
    /\ pc = "check"
    /\ IF TakeOver
         THEN /\ send_buffer_' = send_buffers_prepare_
              /\ send_buffers_prepare_' = send_buffer_
              /\ send_buffer_infos_' = send_buffers_prepare_info_
              /\ send_buffers_prepare_info_' = send_buffer_infos_
         ELSE UNCHANGED <<buffers, prepared>>
    /\ pc' = IF send_buffer_' = <<>> THEN "dispatch" ELSE "send"
    /\ UNCHANGED <<set_output_event_, close_, locals, worker, demuxer, rdhup, batch, removed,
                   history>>

\* ::send takes some bytes,
SendSome ==
    /\ pc = "send"
    /\ \E n \in 1 .. Len(send_buffer_) :
         /\ sent_size' = n /\ sent_info_size' = n
         /\ wire' = wire \o SubSeq(send_buffer_, 1, n)
    /\ pc' = "sent"
    /\ UNCHANGED <<buffers, prepared, set_output_event_, close_, worker, demuxer, rdhup,
                   batch, removed, stream, reported, failed, asked>>

\* or none now (EAGAIN),
SendAgain ==
    /\ pc = "send"
    /\ wait_events_' = Append(wait_events_, "REGISTER_WRITE")
    /\ pc' = "dispatch"
    /\ UNCHANGED <<buffers, prepared, set_output_event_, close_, locals, worker, pipe, out,
                   rdhup, batch, removed, history>>

\* or fails: every send() taken over is reported as failed, nothing is cleared.
SendError ==
    /\ pc = "send"
    /\ failed' = failed \o [i \in 1 .. Len(send_buffer_infos_) |->
                              send_buffer_infos_[i].stream_id]
    /\ rdhup' = TRUE
    /\ pc' = "dispatch"
    /\ UNCHANGED <<buffers, prepared, set_output_event_, close_, locals, worker, demuxer,
                   batch, removed, stream, wire, reported, asked>>

\* The loop over send_buffer_infos_.
OneLess(info) == info.sent_remain - 1   \* mutant: off by one
Remaining(info) == info.sent_remain

HandleSent ==
    /\ pc = "sent" /\ send_buffer_infos_ # <<>>
    /\ LET info == Head(send_buffer_infos_)
           rest == sent_info_size - Remaining(info)
       IN /\ rest >= 0
          /\ sent_info_size' = rest
          /\ reported' = Append(reported, info.stream_id)
    /\ send_buffer_infos_' = Tail(send_buffer_infos_)
    /\ SessionMaySend
    /\ UNCHANGED <<send_buffer_, set_output_event_, close_, pc, sent_size, worker, pipe, out,
                   rdhup, batch, removed, wire, failed, asked>>

\* The rest of the first info still to be sent, when the loop breaks off.
Cut(info) == [info EXCEPT !.sent_remain = Remaining(info) - sent_info_size]

\* has_buffer_to_send runs before the bytes are erased (at scope exit), so it
\* is always true and writability is asked for once more than needed.
NotAgain == <<>>   \* mutant: no register_writable for the rest
RegisterAgain == <<"REGISTER_WRITE">>

SentDone ==
    /\ pc = "sent"
    /\ \/ send_buffer_infos_ = <<>> /\ UNCHANGED send_buffer_infos_
       \/ /\ send_buffer_infos_ # <<>>
          /\ sent_info_size < Remaining(Head(send_buffer_infos_))
          /\ send_buffer_infos_' = <<Cut(Head(send_buffer_infos_))>> \o Tail(send_buffer_infos_)
    /\ wait_events_' = wait_events_ \o RegisterAgain
    /\ send_buffer_' = SubSeq(send_buffer_, sent_size + 1, Len(send_buffer_))
    /\ sent_size' = 0 /\ sent_info_size' = 0
    /\ pc' = "dispatch"
    /\ UNCHANGED <<prepared, set_output_event_, close_, worker, pipe, out, rdhup, batch,
                   removed, history>>

-----------------------------------------------------------------------------
ReactorThread ==
    \/ ApplyLocal \/ Poll \/ DispatchWrite \/ handle_close \/ DispatchDone
    \/ OutputEvent \/ has_buffer_to_send
    \/ SendSome \/ SendAgain \/ SendError \/ HandleSent \/ SentDone

Next ==
    \/ ReactorThread
    \/ WorkerSend \/ WorkerSetOutput \/ WorkerRegister
    \/ close \/ PeerHangsUp

\* Both threads go on; the kernel takes bytes of a writable socket now and then.
Spec ==
    /\ Init /\ [][Next]_vars
    /\ WF_vars(ReactorThread) /\ WF_vars(WorkerRegister)
    /\ SF_vars(SendSome)

-----------------------------------------------------------------------------
\* What the kernel took, what waits in send_buffer_ and what waits in the
\* prepare buffer are together exactly the bytes handed to send(), in order:
\* none lost, repeated or overtaken, through partial sends and take-overs.
Unsent == SubSeq(send_buffer_, sent_size + 1, Len(send_buffer_))

BytesInOrder == (wire \o Unsent) \o send_buffers_prepare_ = accepted

\* handle_sent is called once per send(), in the order of the calls and leaving none
\* out, and only when the kernel has taken the stream up to the end of its bytes.
SentWhenOut == \A i \in DOMAIN reported : reported[i] = i /\ ends[i] <= Len(wire)

\* Outside of the loop over the infos, sent_remain is the number of bytes of its send()
\* that are still in send_buffer_, and every byte there belongs to an info.
RemainMatches ==
    pc # "sent" =>
      /\ \A k \in DOMAIN send_buffer_infos_ :
           send_buffer_infos_[k].sent_remain =
             Cardinality({p \in DOMAIN send_buffer_ :
                            send_buffer_[p] = send_buffer_infos_[k].stream_id})
      /\ \A p \in DOMAIN send_buffer_ : \E k \in DOMAIN send_buffer_infos_ :
           send_buffer_infos_[k].stream_id = send_buffer_[p]

\* The stream, the bookkeeping of the messages in it and the reports stay in step.
StreamInStep == BytesInOrder /\ RemainMatches /\ SentWhenOut

SendPipe == INSTANCE BytePipe

\* The two buffers with their infos are a pipe: a step never takes back or changes what
\* was accepted, is on the wire or was reported, bytes go out in the order of the send()
\* calls, and handle_sent is the report of the next call that is out.
ImplementsPipe == SendPipe!Spec

\* Every send() with bytes is reported or the connection ends: no interleaving
\* of send(), take-over and the one-shot EPOLLOUT loses the wake-up.
EverySendReported ==
    \A id \in 1 .. MaxSends :
      (\E p \in DOMAIN accepted : accepted[p] = id)
        ~> removed \/ \E i \in DOMAIN reported : reported[i] = id

\* set_output_event() is answered by handle_output, or the connection ends.
OutputEventAnswered == asked ~> ~asked \/ removed

\* "Called ... with the data sent": handle_sent gets the bytes of its send().  The code
\* does not satisfy it: after a partial send info.begin is not moved (the README's
\* Disagreements).
SentDataIsSent ==
    [][HandleSent =>
         LET info == Head(send_buffer_infos_)
         IN \A i \in 1 .. info.length :
              /\ info.begin + i \in DOMAIN send_buffer_
              /\ send_buffer_[info.begin + i] = info.stream_id]_vars
=============================================================================

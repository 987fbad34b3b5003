------------------------------ MODULE BytePipe ------------------------------
(***************************************************************************)
(* What the send path of a session promises, whatever carries the bytes:   *)
(* those of the send() calls go out in the order of the calls, none twice  *)
(* and none taken back, and handle_sent is called once for each call, in   *)
(* order, when all of its bytes are out.                                   *)
(***************************************************************************)
EXTENDS Integers, Sequences

VARIABLES accepted,   \* bytes handed to send(); a byte is the number of its call
          ends,       \* length of that stream after each call
          wire,       \* bytes that are out
          reported    \* handle_sent calls

Init == accepted = <<>> /\ ends = <<>> /\ wire = <<>> /\ reported = <<>>

\* t is s, or goes on after it.
Continues(t, s) == Len(s) <= Len(t) /\ \A i \in 1 .. Len(s) : t[i] = s[i]

\* One more send(), of any size, or none.
Send ==
    \/ UNCHANGED <<accepted, ends>>
    \/ /\ Continues(accepted', accepted) /\ ends' = Append(ends, Len(accepted'))
       /\ \A p \in Len(accepted) + 1 .. Len(accepted') : accepted'[p] = Len(ends) + 1

\* Bytes go out, in the order in which they were accepted.
Transmit == Continues(wire', wire) /\ Continues(accepted, wire')

\* Sends are reported that are out by then.
Report ==
    /\ Continues(reported', reported)
    /\ \A i \in Len(reported) + 1 .. Len(reported') :
         reported'[i] = i /\ i <= Len(ends) /\ ends[i] <= Len(wire')

\* A carrier that takes a whole buffer at once transmits, reports and lets handle_sent
\* send again in one step.
Next == Send /\ Transmit /\ Report

Spec == Init /\ [][Next]_<<accepted, ends, wire, reported>>
=============================================================================

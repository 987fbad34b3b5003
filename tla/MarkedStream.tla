---------------------------- MODULE MarkedStream ----------------------------
(***************************************************************************)
(* A stream made of the bytes of numbered send() calls, for the proofs     *)
(* about TCPEventHandler and SSLEventHandler.  A byte is the number of its *)
(* send(); ends[i] is the length of the stream after the i-th one.         *)
(***************************************************************************)
EXTENDS Integers, Sequences

\* Where the bytes of the first i calls end.
EndOf(ends, i) == IF i = 0 THEN 0 ELSE ends[i]

\* The bytes of one call.
Run(id, size) == [k \in 1 .. size |-> id]

\* The bytes lie in the stream in the order of the calls, each call's between the
\* ends of the one before and of itself.
Marked(stream, ends) ==
    /\ stream \in Seq(Nat) /\ ends \in Seq(Nat)
    /\ EndOf(ends, Len(ends)) = Len(stream)
    /\ \A i, j \in 0 .. Len(ends) : i <= j => EndOf(ends, i) <= EndOf(ends, j)
    /\ \A p \in 1 .. Len(stream) :
         /\ stream[p] \in 1 .. Len(ends)
         /\ EndOf(ends, stream[p] - 1) < p
         /\ p <= EndOf(ends, stream[p])

\* A stream with a run of one byte joined to it.
JoinedRun(stream, stream2, id, size) ==
    /\ stream2 \in Seq(Nat) /\ Len(stream2) = Len(stream) + size
    /\ \A p \in 1 .. Len(stream) : stream2[p] = stream[p]
    /\ \A p \in Len(stream) + 1 .. Len(stream) + size : stream2[p] = id

\* The ends with one more.
OneMoreEnd(ends, ends2, id, total) ==
    /\ id = Len(ends) + 1
    /\ ends2 \in Seq(Nat) /\ Len(ends2) = id /\ ends2[id] = total
    /\ \A i \in 1 .. Len(ends) : ends2[i] = ends[i]

\* No end is moved.
SameEnds(ends, ends2) == \A i \in 0 .. Len(ends) : EndOf(ends2, i) = EndOf(ends, i)
=============================================================================

------------------------------ MODULE MCReactor ------------------------------
(* Two connections over one handle, so that its number is reused, and over   *)
(* two handles, so that a batch mixes connections.                           *)
EXTENDS Reactor, TLC

\* Handles and connections are interchangeable; no liveness is checked with it.
Symmetric == Permutations(Handles) \cup Permutations(Conns)
=============================================================================

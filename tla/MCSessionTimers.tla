-------------------------- MODULE MCSessionTimers --------------------------
(* Two keys of one session: set, moved, unset, from callbacks of the socket  *)
(* and from handle_timeout(key).                                             *)
EXTENDS SessionTimers
=============================================================================

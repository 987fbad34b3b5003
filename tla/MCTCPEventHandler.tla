------------------------- MODULE MCTCPEventHandler -------------------------
(* Sends of up to two bytes from the reactor thread and one other thread:    *)
(* partial sends, take-overs between two sends, empty sends.                 *)
EXTENDS TCPEventHandler
=============================================================================

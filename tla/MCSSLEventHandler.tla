------------------------- MODULE MCSSLEventHandler -------------------------
(* A receive buffer of two bytes and records around its size; sends from the *)
(* reactor thread and one other thread.                                      *)
EXTENDS SSLEventHandler
=============================================================================

-------------------------- MODULE MCDemuxerThreads --------------------------
(* A raising thread next to the wait thread, which raises too, over one      *)
(* handle; a read() of the pipe takes one event, so that a burst needs       *)
(* several rounds.                                                           *)
EXTENDS DemuxerThreads
=============================================================================

---------------------------- MODULE ClientSession ----------------------------
(***************************************************************************)
(* What TcpAsyncClient and TcpAsyncSSLClient promise the program: every    *)
(* connect() is answered by exactly one of handle_connect,                 *)
(* handle_connect_error and handle_connect_timeout; handle_accept and      *)
(* handle_disconnect come only for a connection that was reported, and     *)
(* once.  told lists these callbacks since the last connect().             *)
(***************************************************************************)
EXTENDS Sequences

VARIABLES session, told

Tell(s, callback) == session' = s /\ told' = Append(told, callback)

Init == session = "idle" /\ told = <<>>

Connect == session = "idle" /\ session' = "connecting" /\ told' = <<>>
Established == session = "connecting" /\ Tell("connected", "connect")
Secured == session = "connected" /\ Tell("secured", "accept")
Refused == session = "connecting" /\ \E why \in {"error", "timeout"} : Tell("idle", why)
Ended == session \in {"connected", "secured"} /\ Tell("idle", "disconnect")

Next == Connect \/ Established \/ Secured \/ Refused \/ Ended

Spec == Init /\ [][Next]_<<session, told>>
=============================================================================

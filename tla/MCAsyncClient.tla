--------------------------- MODULE MCAsyncClient ---------------------------
\* Two messages over TCP, so that one is prepared while another is being sent; one over
\* TLS, before or after a reconnect.  disconnect() is called over TCP, close() over TLS.
EXTENDS AsyncClient

MCSends == [tcp |-> 2, tls |-> 1]
MCMaxQueue == [tcp |-> 1, tls |-> 0]
=============================================================================

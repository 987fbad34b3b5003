-------------------------- MODULE MCHttpConnection --------------------------
\* HttpConnection for TLC: the header is changed before requests to one of the handlers.
EXTENDS HttpConnection

MCMaxEdits == [k \in Kinds |-> IF k = "https" THEN 1 ELSE 0]
=============================================================================

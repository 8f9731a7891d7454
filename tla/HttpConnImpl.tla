---------------------------- MODULE HttpConnImpl ----------------------------
(* HttpConn implements HttpService, if nothing fails and no file changes:  *)
(* buffers, events and the request machine are the means, one whole answer *)
(* after another is the end.                                               *)
EXTENDS HttpConn, FiniteSets

Keeps    == [i \in DOMAIN script |-> script[i].keep]
Received == taken \div HdrLen
Replied  == Cardinality({i \in DOMAIN script : Complete(i)})

Service == INSTANCE HttpService WITH
  keeps    <- Keeps,
  received <- Received,
  answered <- Replied,
  waits    <- ~pipelined,
  open     <- ~Gone

\* Every step of the connection is a step of the service or invisible to the
\* peer: it is never closed before the last answer is sent, and answers nothing
\* behind it.
ServesSafely == Service!SSafe

\* ... and what was received is answered, and what is over is closed.
ImplementsService == Service!SSpec
=============================================================================

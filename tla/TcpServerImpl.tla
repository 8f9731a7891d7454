--------------------------- MODULE TcpServerImpl ---------------------------
(* TcpServer implements ConnSet: the array of clients with its swaps,      *)
(* growth and shrinking is a set, and epoll's batches serve every member.  *)
EXTENDS TcpServer

Conns == INSTANCE ConnSet WITH
  Conns <- Clis, Limit <- MaxClients,
  conns <- {clients[i] : i \in 0 .. nclients - 1},
  left  <- gone,
  up    <- Running

\* Every step of the loop admits one connection, removes the one whose event
\* it handles, or leaves the set alone.
ImplementsConnSet == Conns!CSafe

\* ... and a connection whose peer has left is removed while the loop runs.
ImplementsConnSetLive == Conns!CSpec
=============================================================================

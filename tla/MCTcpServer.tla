---------------------------- MODULE MCTcpServer ----------------------------
(* Symmetry for the runs of TcpServer that check no liveness.              *)
EXTENDS TcpServer, TLC

Symmetry == Permutations(Clis)
=============================================================================

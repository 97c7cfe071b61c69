---------------------------- MODULE MCTcpService ----------------------------
(* TcpService on small sets of threads, servers and links.                 *)
EXTENDS TcpService, TLC

\* The workers are interchangeable (safety runs only).
WorkerSymmetry == Permutations(Workers)
=============================================================================

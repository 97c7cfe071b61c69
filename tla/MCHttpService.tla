--------------------------- MODULE MCHttpService ---------------------------
(* HttpService on small sets of threads, servers and links.                *)
EXTENDS HttpService, TLC

\* The workers are interchangeable.
WorkerSymmetry == Permutations(Workers)
=============================================================================

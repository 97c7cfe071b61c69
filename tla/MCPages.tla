------------------------------ MODULE MCPages ------------------------------
(* Pages with one user at a page and another one elsewhere.                *)
EXTENDS Pages, TLC

\* The workers are interchangeable, and so are the connections.
PageSymmetry == Permutations(Workers) \cup Permutations(Connections)
=============================================================================

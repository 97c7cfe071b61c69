------------------------------- MODULE MCNews -------------------------------
(* News on small sets of workers, users and entries.                       *)
EXTENDS News, TLC

\* The workers are interchangeable, and so are the users.
NewsSymmetry == Permutations(Workers) \cup Permutations(Users)
=============================================================================

----------------------------- MODULE MCAccounts -----------------------------
(* Accounts on small sets of workers, names and sessions.                  *)
EXTENDS Accounts, TLC

\* The workers are interchangeable.
WorkerSymmetry == Permutations(Workers)
=============================================================================

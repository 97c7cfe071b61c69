----------------------------- MODULE ByteStream -----------------------------
(***************************************************************************)
(* What a client may see of one response: the bytes of a message of total  *)
(* bytes, named by their positions, in order and each once, in pieces of   *)
(* any size.  The response is finished only when all of them are there.    *)
(***************************************************************************)
EXTENDS Naturals, Sequences

VARIABLES wire, total, state

svars == <<wire, total, state>>

Init ==
  /\ wire = <<>>
  /\ total \in Nat
  /\ state \in {"open", "aborted"}

Deliver ==
  /\ state = "open"
  /\ \E n \in (Len(wire) + 1)..total : wire' = [i \in 1..n |-> i]
  /\ UNCHANGED <<total, state>>

Finish ==
  /\ state = "open" /\ Len(wire) = total
  /\ state' = "finished"
  /\ UNCHANGED <<wire, total>>

Abort ==
  /\ state = "open"
  /\ state' = "aborted"
  /\ UNCHANGED <<wire, total>>

Stray ==
  /\ state = "aborted"
  /\ Len(wire') >= Len(wire) /\ wire' = [i \in 1..Len(wire') |-> i]
  /\ UNCHANGED <<total, state>>

Next == Stray \/ Deliver \/ Finish \/ Abort

Spec == Init /\ [][Next]_svars
=============================================================================

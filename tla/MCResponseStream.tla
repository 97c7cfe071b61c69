-------------------------- MODULE MCResponseStream --------------------------
(* ResponseStream on short messages.                                       *)
EXTENDS ResponseStream

AnyEnd == {-1, 0, 2, 4}
=============================================================================

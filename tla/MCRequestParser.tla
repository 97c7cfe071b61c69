-------------------------- MODULE MCRequestParser --------------------------
(* RequestParser on short requests.                                        *)
EXTENDS RequestParser

SomeLength == {1, 4}
AnyLength == {-1, 0, 1, 2, 4}
=============================================================================

-------------------------- MODULE MCModelExecutor --------------------------
(* An instance of ModelExecutor for TLC. *)
EXTENDS ModelExecutor

CONSTANTS c1, c2

TwoCalls == {c1, c2}
=============================================================================

---------------------------- MODULE MCRunIntent ----------------------------
(***************************************************************************)
(* An instance of RunIntent for TLC.  Requests, keys and the data values   *)
(* are model values.                                                       *)
(***************************************************************************)
EXTENDS RunIntent

CONSTANTS q1, q2, q3, k1, b1, b2, f1, r1

ThreeRequests == {q1, q2, q3}
OneKey == {k1}
TwoBindings == {b1, b2}
OneFingerprint == {f1}
OneResult == {r1}
=============================================================================

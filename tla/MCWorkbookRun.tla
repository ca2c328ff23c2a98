--------------------------- MODULE MCWorkbookRun ---------------------------
(***************************************************************************)
(* Instances of WorkbookRun for TLC: one or two scenarios, two values of   *)
(* whatever is edited.                                                     *)
(***************************************************************************)
EXTENDS WorkbookRun, TLC

CONSTANTS q1, q2, i1, w1, s1, s2, none

OneRequest == {q1}
TwoRequests == {q1, q2}
NoIntents == {}
OneIntent == {i1}
NoWriters == {}
OneWriter == {w1}
OneScenario == {s1}
TwoScenarios == {s1, s2}
OneValue == {0}
TwoValues == {0, 1}

Interchangeable == Permutations(Requests) \cup Permutations(Writers)
=============================================================================

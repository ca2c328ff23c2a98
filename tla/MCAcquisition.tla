--------------------------- MODULE MCAcquisition ---------------------------
(* Two callers of one request with two providers.                          *)
EXTENDS Acquisition

CONSTANTS c1, c2, r1

TwoCallers == {c1, c2}
OneRequest == {r1}
=============================================================================

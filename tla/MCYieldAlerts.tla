--------------------------- MODULE MCYieldAlerts ---------------------------
(* The batch runner beside a Refresh, with two values of what is tracked. *)
EXTENDS YieldAlerts

CONSTANTS batch, refresh, apy1, apy2

BatchAndRefresh == {batch, refresh}
TwoValues == {apy1, apy2}
TwoSupports == {"NATIVE", "DISCOVERY"}
Timed == {"timed"}
=============================================================================

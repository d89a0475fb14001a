------------------------ MODULE MCPredictionCredits ------------------------
(* Model checking of PredictionCredits: three sessions at a time, two        *)
(* rewarded events.                                                          *)
EXTENDS PredictionCredits
=============================================================================

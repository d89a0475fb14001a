------------------------- MODULE MCProviderGateway -------------------------
(* Model checking of ProviderGateway: two requests, for one resource or for  *)
(* two, of which one is a fixture of another provider. The callers are alike *)
(* but for what they ask for: one of them is taken to ask for no foreign     *)
(* fixture, since nothing happens when neither can be served.                *)
EXTENDS ProviderGateway

MCInit == Init /\ asks[CHOOSE r \in Request : TRUE] \notin Foreign
MCSpec == MCInit /\ [][Next]_vars /\ Fairness
=============================================================================

--------------------------- MODULE MCThreadAgent ---------------------------
(* Small instances of ThreadAgent for TLC. *)
EXTENDS ThreadAgent, TLC

CONSTANTS w1, w2, i1, i2

OneWorker == {w1}
TwoWorkers == {w1, w2}
OneIncident == {i1}
TwoIncidents == {i1, i2}
=============================================================================

--------------------------- MODULE MCTelemetryGate ---------------------------
(* A small instance of TelemetryGate: an overlay, a sparse log and a debug *)
(* log, so that the interest widens from nothing to the sparse log and to  *)
(* everything, and narrows again.                                          *)
EXTENDS TelemetryGate

CONSTANTS hocket, trace, midi

MCOverlays == {hocket}
MCRecorded == {trace}
MCDebugLogs == {midi}
MCCap == [l \in {hocket, trace, midi} |-> 1]
MCMaxArrived == [l \in {hocket, trace, midi} |-> IF l = hocket THEN 2 ELSE 1]
MCBatches == {0, 1}
=============================================================================

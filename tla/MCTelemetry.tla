----------------------------- MODULE MCTelemetry -----------------------------
(* A small instance of Telemetry: one overlay layer, a few epochs, so that *)
(* late answers, missed events and the watchdog all happen.                *)
EXTENDS Telemetry

CONSTANTS hocket, reset

MCOverlays == {hocket}
MCCap == [l \in {hocket} |-> 1]
MCMaxArrived == [l \in {hocket} |-> 1]
MCResets == {reset}
MCBatches == {1}
=============================================================================

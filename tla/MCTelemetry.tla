---------------------------- MODULE MCTelemetry ----------------------------
EXTENDS Telemetry

CONSTANTS original, replay

MCSourceOf == (replay :> original)
=============================================================================

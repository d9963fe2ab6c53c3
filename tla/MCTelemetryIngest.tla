-------------------------- MODULE MCTelemetryIngest --------------------------
(* Model checking of TelemetryIngest.  The devices are interchangeable.      *)
EXTENDS TelemetryIngest, TLC

DeviceSymmetry == Permutations(Devices)
=============================================================================

-------------------------- MODULE MCDeviceRegistry ---------------------------
(* Model checking of DeviceRegistry.  The devices are interchangeable.       *)
EXTENDS DeviceRegistry, TLC

DeviceSymmetry == Permutations(Devices)
=============================================================================

------------------------- MODULE MCDeviceAllocator -------------------------
(* Instances of DeviceAllocator for TLC. *)
EXTENDS DeviceAllocator, TLC

\* Threads and streams are interchangeable in the runs without liveness.
Symmetry == Permutations(Threads) \cup Permutations(Streams)
=============================================================================

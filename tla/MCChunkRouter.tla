---------------------------- MODULE MCChunkRouter ----------------------------
(* Small instances of ChunkRouter for TLC. *)
EXTENDS ChunkRouter

CONSTANTS b1, b2

TwoBodies == {b1, b2}
AllFaults == FaultKinds
=============================================================================

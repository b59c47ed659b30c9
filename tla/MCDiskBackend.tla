---------------------------- MODULE MCDiskBackend ----------------------------
(* Instances of DiskBackend for TLC. *)
EXTENDS DiskBackend

\* One tensor of a chunk and a half, one smaller than a chunk.
CONSTANTS big, small
MCSizeOf  == [s \in Slots |-> IF s = big THEN 3 ELSE 1]
==============================================================================

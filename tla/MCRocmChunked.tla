---------------------------- MODULE MCRocmChunked ----------------------------
(* Instances of RocmChunked for TLC. *)
EXTENDS RocmChunkedInv, TLC

\* Ranges, units and buffers are compared for equality only.
MCSymmetry == Permutations(Ptrs) \cup Permutations(Handles) \cup Permutations(Bufs)
              \cup Permutations(Threads)
==============================================================================

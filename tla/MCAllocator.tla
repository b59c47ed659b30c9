----------------------------- MODULE MCAllocator -----------------------------
(* Instances of Allocator for TLC. *)
EXTENDS AllocatorRefinement, TLC

\* Addresses, units, buffers and files are never compared but for equality.
MCSymmetry == Permutations(Ptrs) \cup Permutations(Handles) \cup Permutations(Bufs)
              \cup Permutations(Files) \cup Permutations(Threads)
==============================================================================

---------------------------- MODULE MCPairedClient ----------------------------
(* Instances of PairedClient for TLC. *)
EXTENDS PairedClient, TLC

\* Only their identity matters.
MCSymmetry == Permutations(Ptrs) \cup Permutations(Handles) \cup Permutations(Bufs)
              \cup Permutations(Files) \cup Permutations(Threads) \cup Permutations(Tags)
==============================================================================

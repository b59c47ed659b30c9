---------------------------- MODULE MCExpandable ----------------------------
(***************************************************************************)
(* Small instances of Expandable.  Threads, handles, units and buffers are *)
(* only compared with each other, so that they may be exchanged; pages are *)
(* numbers in order, and tags, values and devices are told apart.          *)
(***************************************************************************)
EXTENDS ExpandableInv, TLC

Symmetric ==
    Permutations(Threads) \cup Permutations(Logical) \cup Permutations(Units)
        \cup Permutations(Bufs) \cup Permutations(Files) \cup Permutations(Values)
==============================================================================

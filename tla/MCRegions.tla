------------------------------ MODULE MCRegions ------------------------------
(* Instances of Regions for TLC. *)
EXTENDS RegionsInv, TLC

\* Threads are compared for equality only.
MCSymmetry == Permutations(Threads)

\* Pools with and without a first region, expandable segments, the torch mode, and
\* clients that nest or share as they like.
Env(hook, enable, backup, expandable, nest, share) ==
    [hook |-> hook, enable |-> enable, backup |-> backup, expandable |-> expandable,
     nest |-> nest, share |-> share]
MCEnvironments == {Env("preload", TRUE, "cpu", FALSE, FALSE, FALSE),
                   Env("preload", FALSE, "none", FALSE, TRUE, TRUE),
                   Env("preload", TRUE, "none", TRUE, FALSE, FALSE),
                   Env("torch", FALSE, "none", FALSE, FALSE, FALSE),
                   Env("torch", TRUE, "none", FALSE, FALSE, FALSE)}
==============================================================================

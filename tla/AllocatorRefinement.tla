-------------------------- MODULE AllocatorRefinement --------------------------
(***************************************************************************)
(* Allocator implements PauseableMemory.  A pause or a resume takes effect *)
(* when its loop ends: until then a tensor the loop has visited counts as  *)
(* still being in the state the loop found it in.                          *)
(***************************************************************************)
EXTENDS AllocatorInv

\* The pause and resume calls in progress.
InPause(t)  == pc[t] \in {"p_lock", "p_loop"}
InResume(t) == pc[t] \in {"r_lock", "r_loop"}

Visited(label, p) ==
    \E t \in Threads : pc[t] = label /\ p \notin todo /\ Matches(meta[p], filter[t])

IsActive(p) ==
    \/ Visited("p_loop", p)
    \/ meta[p].state = "ACTIVE" /\ ~Visited("r_loop", p)

StateOf(p) == IF IsActive(p) THEN "ACTIVE" ELSE "PAUSED"

GivenUp(p) == meta[p].backup = "none" /\ \E t \in Threads : InPause(t) /\ Matches(meta[p], filter[t])

\* Where the bytes of the tensor at p are.
Bytes(p) ==
    IF GivenUp(p) THEN Junk
    ELSE IF mapping[p] # Null THEN content[mapping[p]]
    ELSE IF meta[p].cpu_backup # Null THEN hostData[meta[p].cpu_backup]
    ELSE IF meta[p].disk # Null THEN fileData[meta[p].disk]
    ELSE Junk

TensorAt(p) ==
    IF meta[p] = Null THEN Null
    ELSE [tag |-> meta[p].tag, backup |-> meta[p].backup,
          state |-> StateOf(p), content |-> Bytes(p)]

RequestOf(t) ==
    IF InPause(t) THEN [op |-> "pause", filter |-> filter[t]]
    ELSE IF InResume(t) THEN [op |-> "resume", filter |-> filter[t]]
    ELSE Null

\* Only a refused operation of the driver has no counterpart.
Reason == IF exited \in {"no", "not_active", "not_paused", "driver_error"} THEN exited ELSE "failure"

Tensors  == [p \in Ptrs |-> TensorAt(p)]
Requests == [t \in Threads |-> RequestOf(t)]

Memory == INSTANCE PauseableMemory WITH
    Addresses <- Ptrs, Contents <- Data, Unknown <- Junk, Backups <- BackupModes,
    tensors <- Tensors, requests <- Requests, ended <- Reason

ASSUME RefinementAssumption == Null \notin Memory!Tensor \cup Memory!Request

\* The allocator does what PauseableMemory promises: to its clients a pause or
\* a resume is a single step, whatever other threads do while its loop runs
\* (core.cpp:392-647), and it ends the process for misuse only if there is one.
ImplementsMemory == Memory!Spec
==============================================================================

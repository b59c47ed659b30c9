------------------------------ MODULE PairedClient ------------------------------
(***************************************************************************)
(* Allocator under the clients it is made for: every pause of a tag is     *)
(* followed by a resume of it, and nobody allocates under a tag while it   *)
(* is paused (test/examples/rl_example.py).  pause and resume end the      *)
(* process when they meet an allocation in the wrong state; here it is     *)
(* shown which discipline is enough to never see that, with threads that   *)
(* pause different tags, free and query at any time.                       *)
(***************************************************************************)
EXTENDS Allocator

VARIABLE phase      \* where the clients are in the cycle of a tag

pairedVars == <<vars, phase>>

PairedInit == Init /\ phase = [tag \in Tags |-> "up"]

\* The tags a call is about, the empty filter being all of them.
TagsOf(tagFilter) == IF tagFilter = Null THEN Tags ELSE {tagFilter}

Shift(tagFilter, from, to) ==
    /\ \A tag \in TagsOf(tagFilter) : phase[tag] = from
    /\ phase' = [tag \in Tags |-> IF tag \in TagsOf(tagFilter) THEN to ELSE phase[tag]]

\* A malloc that has not returned yet would be registered later.
NoMallocRegistering(tagFilter) ==
    \A u \in Threads : pc[u] = "m_register" => md[u].tag \notin TagsOf(tagFilter)

NoMallocUnder(tagFilter) ==
    \A u \in Threads : pc[u] \in {"m_create", "m_register"} => md[u].tag \notin TagsOf(tagFilter)

PairedMalloc(t, tag, backup) ==
    phase[tag] = "up" /\ MallocCall(t, tag, backup) /\ UNCHANGED phase

PairedPause(t, tagFilter) ==
    /\ NoMallocUnder(tagFilter)
    /\ PauseCall(t, tagFilter)
    /\ Shift(tagFilter, "up", "pausing")

PairedResume(t, tagFilter) == ResumeCall(t, tagFilter) /\ Shift(tagFilter, "down", "resuming")

PauseEnds(t)  == PauseReturn(t) /\ Shift(filter[t], "pausing", "down")
ResumeEnds(t) == ResumeReturn(t) /\ Shift(filter[t], "resuming", "up")

\* What does not concern the phases.
Unpaired(t) ==
    /\ \/ MallocOutOfMemory(t) \/ MallocCreate(t) \/ MallocRegister(t)
       \/ FreeUntracked(t) \/ FreeLookup(t) \/ FreeDevice(t) \/ FreeBackup(t)
       \/ PauseLock(t) \/ PauseNotActive(t)
       \/ ResumeLock(t) \/ ResumeNotPaused(t)
       \/ \E p \in todo : \/ PauseNoBackup(t, p) \/ PauseToHost(t, p) \/ PauseToDisk(t, p)
                          \/ ResumeNoBackup(t, p) \/ ResumeFromHost(t, p) \/ ResumeFromDisk(t, p)
       \/ QueryNotFound(t) \/ QueryNoCopy(t) \/ QueryLostContent(t) \/ QueryFound(t) \/ QueryDone(t)
       \/ OutOfResources(t) \/ CudaFails(t)
       \/ UntrackedMalloc(t)
       \/ \E p \in Ptrs : FreeCall(t, p) \/ QueryCall(t, p)
    /\ UNCHANGED phase

PairedNext ==
    \/ exited = "no" /\ \E t \in Threads :
          \/ Unpaired(t) \/ PauseEnds(t) \/ ResumeEnds(t)
          \/ \E tag \in Tags, backup \in BackupModes : PairedMalloc(t, tag, backup)
          \/ \E tagFilter \in Tags \cup {Null} : PairedPause(t, tagFilter) \/ PairedResume(t, tagFilter)
    \/ exited = "no" /\ UNCHANGED phase /\ \E p \in Ptrs, v \in Values : Write(p, v)
    \/ Terminated /\ UNCHANGED phase

PairedSpec == PairedInit /\ [][PairedNext]_pairedVars

------------------------------------------------------------------------------
(* Properties *)

\* Neither pause nor resume ever ends the process of such a client
\* (core.cpp:407-413, 550-556): not even an unfiltered pause between filtered
\* ones, or a free that runs into the loop.
NeverMisused == exited \notin {"not_active", "not_paused"}

\* Between the calls the allocations of a tag are all in the state the client
\* has put the tag in: none is left over, none is forgotten.
PhaseTold ==
    \A p \in Tracked : /\ phase[meta[p].tag] = "up"   => meta[p].state = "ACTIVE"
                       /\ phase[meta[p].tag] = "down" => meta[p].state = "PAUSED"
------------------------------------------------------------------------------
(* Why they hold: an inductive invariant, next to IInv of AllocatorInv *)

InCall == {t \in Threads : pc[t] \in {"p_lock", "p_loop", "r_lock", "r_loop"}}

\* The phases of the calls in progress, no two of which are about the same tag.
CallsInv ==
    /\ \A t \in Threads, tag \in Tags : tag \in TagsOf(filter[t]) =>
          /\ pc[t] \in {"p_lock", "p_loop"} => phase[tag] = "pausing"
          /\ pc[t] \in {"r_lock", "r_loop"} => phase[tag] = "resuming"
    /\ \A t, u \in InCall, tag \in Tags :
          tag \in TagsOf(filter[t]) /\ tag \in TagsOf(filter[u]) => t = u
    /\ \A t \in Threads : pc[t] \in {"m_create", "m_register"} => phase[md[t].tag] = "up"

\* What a call will meet in its loop, before it has the lock and while it has.
AheadInv ==
    \A t \in Threads, p \in Tracked : Matches(meta[p], filter[t]) =>
        /\ pc[t] = "p_lock" => meta[p].state = "ACTIVE"
        /\ pc[t] = "r_lock" => meta[p].state = "PAUSED"
        /\ p \in todo => /\ pc[t] = "p_loop" => meta[p].state = "ACTIVE"
                         /\ pc[t] = "r_loop" => meta[p].state = "PAUSED"

PairedInv ==
    /\ phase \in [Tags -> {"up", "pausing", "down", "resuming"}]
    /\ CallsInv /\ AheadInv /\ PhaseTold /\ NeverMisused
==============================================================================

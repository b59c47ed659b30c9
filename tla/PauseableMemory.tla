---------------------------- MODULE PauseableMemory ----------------------------
(***************************************************************************)
(* What torch_memory_saver promises the client of its regions: a tensor    *)
(* keeps its address and its tag, pause takes the memory of every tensor   *)
(* of a tag away at once and resume brings it back at once, with the       *)
(* content if the tensor has a backup.  There is nothing here of handles,  *)
(* buffers, files or locks: the two allocators (csrc/core.cpp and          *)
(* csrc/hardware_amd_support.cpp) are shown to implement it.               *)
(***************************************************************************)
CONSTANTS Threads, Addresses, Tags,
          Contents,   \* what a tensor may hold
          Unknown,    \* what memory holds that nobody wrote
          Backups,    \* the kinds of backup
          Null

VARIABLES
    tensors,    \* the tensor at an address, or Null
    requests,   \* the pause or resume a thread has called, or Null
    ended       \* why the process ended, "no" while it runs

vars == <<tensors, requests, ended>>

Tensor  == [tag : Tags, backup : Backups, state : {"ACTIVE", "PAUSED"}, content : Contents]
Request == [op : {"pause", "resume"}, filter : Tags \cup {Null}]
Reasons == {"no", "failure", "not_active", "not_paused"}

TypeOK ==
    /\ tensors \in [Addresses -> Tensor \cup {Null}]
    /\ requests \in [Threads -> Request \cup {Null}]
    /\ ended \in Reasons

Init ==
    /\ tensors = [a \in Addresses |-> Null]
    /\ requests = [t \in Threads |-> Null]
    /\ ended = "no"

Live == {a \in Addresses : tensors[a] # Null}

\* The tensors a request is about, and those some request is about.
Covers(r, a)   == r.filter = Null \/ tensors[a].tag = r.filter
Covered(r)     == {a \in Live : Covers(r, a)}
Requested(op)  == {t \in Threads : requests[t] # Null /\ requests[t].op = op}
Unsettled      == UNION {Covered(requests[t]) : t \in Requested("pause") \cup Requested("resume")}

Allocate(a, tag, backup, content) ==
    /\ tensors[a] = Null
    /\ tensors' = [tensors EXCEPT ![a] =
                      [tag |-> tag, backup |-> backup, state |-> "ACTIVE", content |-> content]]
    /\ UNCHANGED <<requests, ended>>

Free(a) ==
    /\ tensors[a] # Null
    /\ tensors' = [tensors EXCEPT ![a] = Null]
    /\ UNCHANGED <<requests, ended>>

Write(a, content) ==
    /\ tensors[a] # Null /\ tensors[a].state = "ACTIVE" /\ a \notin Unsettled
    /\ tensors' = [tensors EXCEPT ![a].content = content]
    /\ UNCHANGED <<requests, ended>>

\* Whoever calls pause gives up what the tensors without a backup hold.
CallPause(t, r) ==
    /\ requests[t] = Null /\ r.op = "pause"
    /\ requests' = [requests EXCEPT ![t] = r]
    /\ tensors' = [a \in Addresses |->
                      IF a \in Covered(r) /\ tensors[a].backup = "none"
                      THEN [tensors[a] EXCEPT !.content = Unknown] ELSE tensors[a]]
    /\ UNCHANGED ended

CallResume(t, r) ==
    /\ requests[t] = Null /\ r.op = "resume"
    /\ requests' = [requests EXCEPT ![t] = r]
    /\ UNCHANGED <<tensors, ended>>

\* All of the tensors change their state in the step in which the call returns.
Perform(t, op, state) ==
    /\ t \in Requested(op)
    /\ \A a \in Covered(requests[t]) : tensors[a].state # state
    /\ tensors' = [a \in Addresses |->
                      IF a \in Covered(requests[t])
                      THEN [tensors[a] EXCEPT !.state = state] ELSE tensors[a]]
    /\ requests' = [requests EXCEPT ![t] = Null]
    /\ UNCHANGED ended

\* The process ends because of the client only if the client is at fault: a
\* tensor it pauses is paused already, or one it resumes is active.
Misuse(t, op, state, reason) ==
    /\ t \in Requested(op)
    /\ \E a \in Covered(requests[t]) : tensors[a].state = state
    /\ ended' = reason
    /\ UNCHANGED <<tensors, requests>>

\* A resource that is exhausted or a call of the system that fails.
Failure == ended' = "failure" /\ UNCHANGED <<tensors, requests>>

Next ==
    /\ ended = "no"
    /\ \/ \E a \in Addresses, tag \in Tags, backup \in Backups, content \in Contents :
             Allocate(a, tag, backup, content)
       \/ \E a \in Addresses : Free(a)
       \/ \E a \in Addresses, content \in Contents : Write(a, content)
       \/ \E t \in Threads, r \in Request : CallPause(t, r) \/ CallResume(t, r)
       \/ \E t \in Threads : Perform(t, "pause", "PAUSED") \/ Perform(t, "resume", "ACTIVE")
       \/ \E t \in Threads : \/ Misuse(t, "pause", "PAUSED", "not_active")
                             \/ Misuse(t, "resume", "ACTIVE", "not_paused")
       \/ Failure

Spec == Init /\ [][Next]_vars
==============================================================================

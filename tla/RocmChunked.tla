------------------------------ MODULE RocmChunked ------------------------------
(***************************************************************************)
(* The allocator on ROCm 6.x (csrc/hardware_amd_support.cpp), which core.  *)
(* cpp calls instead of its own malloc, free, pause and resume: an         *)
(* allocation is made of chunks, each with a unit of memory of its own.    *)
(* Unlike the other allocator it keeps the host buffer of a backup when it *)
(* resumes, it ends the process when there is no memory for a malloc, and  *)
(* free neither looks at the state of the allocation nor passes on what is *)
(* not in the map: ClientMay says whether the clients do such things.      *)
(*                                                                         *)
(* Nobody can observe a call between two of its chunks: the address is not *)
(* known to others yet, or no longer, or the lock is held.                 *)
(***************************************************************************)
EXTENDS Sizes, Sequences, FiniteSets

CONSTANTS Threads, Ptrs, Handles, Bufs, Tags,
          Requests,   \* the sizes clients ask for
          Values, Junk, Null,
          ClientMay   \* free "paused" allocations, or "untracked" ones

\* A request of no bytes fails where its address is reserved; what does not fit
\* the width after rounding, no device can hold (see Sizes).
ASSUME RequestsAssumption ==
    \A raw \in Requests : raw \in Nat \ {0} /\ \A g \in Granularities : raw + g + Chunk < Limit

\* As many chunks as the arithmetic of Sizes gives.
AlignedSizes == {AlignedSize(raw, g) : raw \in Requests, g \in Granularities}
ChunkCounts  == {NumChunks(n) : n \in AlignedSizes}

Data     == Values \cup {Junk}
Contents == UNION {[1 .. n -> Data] : n \in ChunkCounts}
Units    == UNION {[1 .. n -> Handles] : n \in ChunkCounts \cup {1}}   \* untracked ranges have one
Backups  == {"none", "cpu"}
Metadata == [tag : Tags, state : {"ACTIVE", "PAUSED"}, backup : Backups,
             raw_size : Requests, aligned_size : AlignedSizes,
             cpu_backup : Bufs \cup {Null}, allocHandles : Units]

ASSUME NullAssumption ==
    Null \notin Threads \cup Ptrs \cup Bufs \cup Tags \cup Contents \cup Metadata

VARIABLES
    phys,       \* units created and not released
    content,    \* what a unit holds
    reserved,   \* reserved address ranges
    mapping,    \* the units mapped in a range, <<>> when there are none
    hostData,   \* what a host buffer holds, Null when it is not in use
    meta, mutex, todo, exited,
    pc, filter, ptr, md, view,
    owned       \* addresses handed to a client and not freed

device == <<phys, content, reserved, mapping>>
lock   == <<mutex, todo>>
local  == <<filter, ptr, md, view>>
vars   == <<device, hostData, meta, lock, exited, pc, local, owned>>

TypeOK ==
    /\ phys \subseteq Handles /\ content \in [Handles -> Data] /\ reserved \subseteq Ptrs
    /\ mapping \in [Ptrs -> Units \cup {<<>>}]
    /\ hostData \in [Bufs -> Contents \cup {Null}]
    /\ meta \in [Ptrs -> Metadata \cup {Null}]
    /\ mutex \in Threads \cup {Null} /\ todo \subseteq Ptrs
    /\ exited \in {"no", "check", "failed", "not_active", "not_paused", "not_allocated", "driver_error"}
    /\ pc \in [Threads -> {"idle", "m_register", "f_lookup", "f_device", "f_backup",
                           "p_lock", "p_loop", "r_lock", "r_loop", "q_read"}]
    /\ filter \in [Threads -> Tags \cup {Null}] /\ ptr \in [Threads -> Ptrs \cup {Null}]
    /\ md \in [Threads -> Metadata \cup {Null}] /\ view \in [Threads -> Bufs \cup {Null}]
    /\ owned \subseteq Ptrs

Init ==
    /\ phys = {} /\ content = [h \in Handles |-> Junk] /\ reserved = {}
    /\ mapping = [p \in Ptrs |-> <<>>] /\ hostData = [b \in Bufs |-> Null]
    /\ meta = [p \in Ptrs |-> Null] /\ mutex = Null /\ todo = {} /\ exited = "no"
    /\ pc = [t \in Threads |-> "idle"]
    /\ filter = [t \in Threads |-> Null] /\ ptr = [t \in Threads |-> Null]
    /\ md = [t \in Threads |-> Null] /\ view = [t \in Threads |-> Null]
    /\ owned = {}

Tracked    == {p \in Ptrs : meta[p] # Null}
Unused     == Handles \ phys
RangeOf(s) == {s[i] : i \in DOMAIN s}

Goto(t, label) == pc' = [pc EXCEPT ![t] = label]
Return(t) ==
    /\ Goto(t, "idle")
    /\ filter' = [filter EXCEPT ![t] = Null] /\ ptr' = [ptr EXCEPT ![t] = Null]
    /\ md' = [md EXCEPT ![t] = Null] /\ view' = [view EXCEPT ![t] = Null]
Exit(reason) == exited' = reason /\ UNCHANGED <<device, hostData, meta, lock, pc, local, owned>>

Matches(m, tagFilter) == tagFilter = Null \/ m.tag = tagFilter

\* The calls of pause, or of resume, that are about the entry m.
InCall(u, first, second, m) == pc[u] \in {first, second} /\ Matches(m, filter[u])
Pausing(m)  == {u \in Threads : InCall(u, "p_lock", "p_loop", m)}
Resuming(m) == {u \in Threads : InCall(u, "r_lock", "r_loop", m)}

------------------------------------------------------------------------------
(* Chunks *)

\* cu_mem_create_and_map(): a unit for every chunk, mapped one after the other.
NewUnits(n) == {s \in [1 .. n -> Unused] : Cardinality(RangeOf(s)) = n}

MapChunks(p, handles) ==
    /\ phys' = phys \cup RangeOf(handles)
    /\ mapping' = [mapping EXCEPT ![p] = handles]

\* cu_mem_unmap_and_release(): the driver rejects what is not mapped, and the
\* process ends before anything is released.
Unmap(p, handles, released) ==
    IF mapping[p] = handles
    THEN /\ phys' = phys \ released
         /\ content' = [h \in Handles |-> IF h \in released THEN Junk ELSE content[h]]
         /\ mapping' = [mapping EXCEPT ![p] = <<>>]
         /\ UNCHANGED exited
    ELSE exited' = "driver_error" /\ UNCHANGED <<phys, content, mapping>>

UnmapFirstChunk(p, handles) == Unmap(p, handles, {handles[1]})
UnmapChunks(p, handles)     == Unmap(p, handles, RangeOf(handles))

ContainedButLast(handles) == [i \in 1 .. Len(handles) - 1 |-> content[handles[i]]]
Contained(handles) == [i \in DOMAIN handles |-> content[handles[i]]]

------------------------------------------------------------------------------
(* malloc and free *)

\* Both kinds of backup at once, or a backup on disk.
MallocRefused(t) == pc[t] = "idle" /\ Exit("check")

\* The checks of malloc and the chunks of the allocation.
MallocCreate(t, tag, backup, raw, n) ==
    /\ pc[t] = "idle"
    /\ \E p \in Ptrs \ reserved, handles \in NewUnits(NumChunks(n)) :
          /\ MapChunks(p, handles)
          /\ reserved' = reserved \cup {p}
          /\ md' = [md EXCEPT ![t] = [tag |-> tag, state |-> "ACTIVE", backup |-> backup,
                                      raw_size |-> raw, aligned_size |-> n,
                                      cpu_backup |-> Null, allocHandles |-> handles]]
          /\ ptr' = [ptr EXCEPT ![t] = p]
    /\ Goto(t, "m_register")
    /\ UNCHANGED <<content, hostData, meta, lock, exited, filter, view, owned>>

MallocRegisterUnlocked(t) ==
    /\ pc[t] = "m_register"
    /\ meta' = [meta EXCEPT ![ptr[t]] = md[t]]
    /\ owned' = owned \cup {ptr[t]}
    /\ Return(t)
    /\ UNCHANGED <<device, hostData, lock, exited>>

MallocRegister(t) ==
    /\ pc[t] = "m_register" /\ mutex = Null
    /\ meta' = [meta EXCEPT ![ptr[t]] = md[t]]
    /\ owned' = owned \cup {ptr[t]}
    /\ Return(t)
    /\ UNCHANGED <<device, hostData, lock, exited>>

\* The real hipMalloc, outside an interesting region.
UntrackedMalloc(t) ==
    /\ pc[t] = "idle" /\ "untracked" \in ClientMay
    /\ \E p \in Ptrs \ reserved, handles \in NewUnits(1) :
          /\ MapChunks(p, handles)
          /\ reserved' = reserved \cup {p} /\ owned' = owned \cup {p}
    /\ UNCHANGED <<content, hostData, meta, lock, exited, pc, local>>

\* A client that may not free paused allocations does not free what a pause may
\* get hold of first.
Freeable(p) ==
    /\ \A u \in Threads : pc[u] = "q_read" => ptr[u] # p
    /\ meta[p] # Null /\ "paused" \notin ClientMay => meta[p].state = "ACTIVE" /\ Pausing(meta[p]) = {}

FreeCall(t, p) ==
    /\ pc[t] = "idle" /\ p \in owned /\ Freeable(p)
    /\ owned' = owned \ {p}
    /\ ptr' = [ptr EXCEPT ![t] = p]
    /\ Goto(t, "f_lookup")
    /\ UNCHANGED <<device, hostData, meta, lock, exited, filter, md, view>>

FreeUnknown(t) == pc[t] = "f_lookup" /\ mutex = Null /\ meta[ptr[t]] = Null /\ Exit("not_allocated")

FreeLookup(t) ==
    /\ pc[t] = "f_lookup" /\ mutex = Null /\ meta[ptr[t]] # Null
    /\ md' = [md EXCEPT ![t] = meta[ptr[t]]]
    /\ meta' = [meta EXCEPT ![ptr[t]] = Null]
    /\ Goto(t, "f_device")
    /\ UNCHANGED <<device, hostData, lock, exited, filter, ptr, view, owned>>

FreeDevice(t) ==
    /\ pc[t] = "f_device"
    /\ UnmapChunks(ptr[t], md[t].allocHandles)
    /\ reserved' = reserved \ {ptr[t]}
    /\ Goto(t, "f_backup")
    /\ UNCHANGED <<hostData, meta, lock, local, owned>>

FreeBackupLeaks(t) ==
    /\ pc[t] = "f_backup"
    /\ Return(t)
    /\ UNCHANGED <<device, hostData, meta, lock, exited, owned>>

FreeBackup(t) ==
    /\ pc[t] = "f_backup"
    /\ hostData' = [b \in Bufs |-> IF b = md[t].cpu_backup THEN Null ELSE hostData[b]]
    /\ Return(t)
    /\ UNCHANGED <<device, meta, lock, exited, owned>>

------------------------------------------------------------------------------
(* pause and resume *)

PauseCall(t, tagFilter) ==
    /\ pc[t] = "idle"
    /\ "paused" \in ClientMay \/ \A u \in Threads, p \in Tracked :
          pc[u] = "f_lookup" /\ ptr[u] = p => ~Matches(meta[p], tagFilter)
    /\ filter' = [filter EXCEPT ![t] = tagFilter]
    /\ Goto(t, "p_lock")
    /\ UNCHANGED <<device, hostData, meta, lock, exited, ptr, md, view, owned>>

ResumeCall(t, tagFilter) ==
    /\ pc[t] = "idle"
    /\ filter' = [filter EXCEPT ![t] = tagFilter]
    /\ Goto(t, "r_lock")
    /\ UNCHANGED <<device, hostData, meta, lock, exited, ptr, md, view, owned>>

EnterLoop(t, from, to) ==
    /\ pc[t] = from /\ mutex = Null
    /\ mutex' = t
    /\ todo' = {p \in Tracked : Matches(meta[p], filter[t])}
    /\ Goto(t, to)
    /\ UNCHANGED <<device, hostData, meta, exited, local, owned>>

LeaveLoop(t, from) ==
    /\ pc[t] = from /\ todo = {}
    /\ mutex' = Null
    /\ Return(t)
    /\ UNCHANGED <<device, hostData, meta, todo, exited, owned>>

NotInState(t, label, state, reason) ==
    /\ pc[t] = label /\ \E p \in todo : meta[p].state # state
    /\ Exit(reason)

\* The buffer of the first pause, which resume leaves alone, or a new one.
BufferFor(m) == IF m.cpu_backup # Null THEN {m.cpu_backup} ELSE {b \in Bufs : hostData[b] = Null}

PauseEntry(t, p) ==
    /\ pc[t] = "p_loop" /\ meta[p].state = "ACTIVE"
    /\ IF meta[p].backup = "cpu"
       THEN \E b \in BufferFor(meta[p]) :
               /\ hostData' = [hostData EXCEPT ![b] = Contained(mapping[p])]
               /\ meta' = [meta EXCEPT ![p].cpu_backup = b, ![p].state = "PAUSED"]
       ELSE meta' = [meta EXCEPT ![p].state = "PAUSED"] /\ UNCHANGED hostData
    /\ UnmapChunks(p, meta[p].allocHandles)
    /\ todo' = todo \ {p}
    /\ UNCHANGED <<reserved, mutex, pc, local, owned>>

\* The vectors of the entry are the new chunks' from here on.
Resumed(m, handles) == [m EXCEPT !.state = "ACTIVE", !.allocHandles = handles]

ResumeEntry(t, p) ==
    /\ pc[t] = "r_loop" /\ meta[p].state = "PAUSED"
    /\ \E handles \in NewUnits(NumChunks(meta[p].aligned_size)) :
          /\ MapChunks(p, handles)
          /\ content' = IF meta[p].backup = "cpu"
                        THEN [h \in Handles |->
                                IF \E i \in DOMAIN handles : handles[i] = h
                                THEN hostData[meta[p].cpu_backup][CHOOSE i \in DOMAIN handles : handles[i] = h]
                                ELSE content[h]]
                        ELSE content
          /\ meta' = [meta EXCEPT ![p] = Resumed(meta[p], handles)]
    /\ todo' = todo \ {p}
    /\ UNCHANGED <<reserved, hostData, mutex, exited, pc, local, owned>>

------------------------------------------------------------------------------
(* The rest of the program *)

\* get_cpu_backup_pointer and the client that reads what it points to.
QueryFound(t, p) ==
    /\ pc[t] = "idle" /\ mutex = Null /\ p \in owned /\ meta[p] # Null
    /\ meta[p].state = "PAUSED" /\ meta[p].cpu_backup # Null
    /\ view' = [view EXCEPT ![t] = meta[p].cpu_backup] /\ ptr' = [ptr EXCEPT ![t] = p]
    /\ Goto(t, "q_read")
    /\ UNCHANGED <<device, hostData, meta, lock, exited, filter, md, owned>>

QueryDone(t) ==
    /\ pc[t] = "q_read"
    /\ Return(t)
    /\ UNCHANGED <<device, hostData, meta, lock, exited, owned>>

QueryLostContent(t, p) ==
    /\ pc[t] = "idle" /\ mutex = Null /\ p \in owned /\ meta[p] # Null
    /\ meta[p].state = "PAUSED" /\ meta[p].cpu_backup = Null
    /\ Exit("check")

Write(p, i, v) ==
    /\ p \in owned /\ i \in DOMAIN mapping[p]
    /\ meta[p] # Null => Pausing(meta[p]) \cup Resuming(meta[p]) = {}
    /\ content' = [content EXCEPT ![mapping[p][i]] = v]
    /\ UNCHANGED <<phys, reserved, mapping, hostData, meta, lock, exited, pc, local, owned>>

\* Every failure of a call of HIP ends the process, also of one malloc makes.
CallFails(t) ==
    /\ pc[t] \in {"idle", "f_device", "f_backup"} \/ (pc[t] \in {"p_loop", "r_loop"} /\ todo # {})
    /\ Exit("failed")

Step(t) ==
    \/ MallocRegister(t)
    \/ FreeUnknown(t) \/ FreeLookup(t) \/ FreeDevice(t) \/ FreeBackup(t)
    \/ EnterLoop(t, "p_lock", "p_loop") \/ EnterLoop(t, "r_lock", "r_loop")
    \/ LeaveLoop(t, "p_loop") \/ LeaveLoop(t, "r_loop")
    \/ NotInState(t, "p_loop", "ACTIVE", "not_active")
    \/ NotInState(t, "r_loop", "PAUSED", "not_paused")
    \/ \E p \in todo : PauseEntry(t, p) \/ ResumeEntry(t, p)
    \/ QueryDone(t)

Call(t) ==
    \/ MallocRefused(t) \/ UntrackedMalloc(t)
    \/ \E tag \in Tags, backup \in Backups, raw \in Requests, g \in Granularities :
          MallocCreate(t, tag, backup, raw, AlignedSize(raw, g))
    \/ \E p \in Ptrs : FreeCall(t, p) \/ QueryFound(t, p) \/ QueryLostContent(t, p)
    \/ \E tagFilter \in Tags \cup {Null} : PauseCall(t, tagFilter) \/ ResumeCall(t, tagFilter)

Terminated == exited # "no" /\ UNCHANGED vars

Next ==
    \/ exited = "no" /\ \E t \in Threads : Step(t) \/ Call(t) \/ CallFails(t)
    \/ exited = "no" /\ \E p \in Ptrs, v \in Values : \E i \in DOMAIN mapping[p] : Write(p, i, v)
    \/ Terminated

Spec == Init /\ [][Next]_vars

------------------------------------------------------------------------------
(* Properties *)

Freeing == {t \in Threads : pc[t] \in {"f_device", "f_backup"}}

\* Every unit of device memory is a chunk of one range, and an entry knows its
\* chunks, which are enough for the request: none is lost when a resume replaces
\* them all or a pause gives them all back (hardware_amd_support.cpp:49-126,
\* 149-150).
ChunksAccounted ==
    /\ phys = UNION {RangeOf(mapping[p]) : p \in Ptrs}
    /\ \A p, q \in Ptrs : p # q => RangeOf(mapping[p]) \cap RangeOf(mapping[q]) = {}
    /\ \A p \in Tracked : /\ mapping[p] = IF meta[p].state = "ACTIVE" THEN meta[p].allocHandles ELSE <<>>
                          /\ meta[p].raw_size <= Len(meta[p].allocHandles) * Chunk

\* A host buffer in use is the backup of one entry, or of a free that took one
\* over, from its first pause until it is freed, resumed or not
\* (hardware_amd_support.cpp:236-239, 276-282).
BuffersAccounted ==
    LET Holders == {meta[p] : p \in Tracked} \cup {md[t] : t \in Freeing} IN
    /\ {b \in Bufs : hostData[b] # Null} = {m.cpu_backup : m \in Holders} \ {Null}
    /\ \A p, q \in Tracked : p # q /\ meta[p].cpu_backup # Null => meta[p].cpu_backup # meta[q].cpu_backup
    /\ \A t \in Threads : pc[t] = "q_read" => hostData[view[t]] # Null

\* The driver rejects nothing the allocator asks of it.
NoDriverError == exited # "driver_error"

------------------------------------------------------------------------------
(* The refinement of PauseableMemory: see AllocatorRefinement *)

Visited(label, p) == \E t \in Threads : pc[t] = label /\ p \notin todo /\ Matches(meta[p], filter[t])
IsActive(p) == Visited("p_loop", p) \/ (meta[p].state = "ACTIVE" /\ ~Visited("r_loop", p))

\* Contents nobody wrote are all the same to the client.
Known(bytes) == IF \A i \in DOMAIN bytes : bytes[i] = Junk THEN Junk ELSE bytes

GivenUp(p) == meta[p].backup = "none" /\ Pausing(meta[p]) # {}

Bytes(p) ==
    IF GivenUp(p) THEN Junk
    ELSE IF mapping[p] # <<>> THEN Known(Contained(mapping[p]))
    ELSE IF meta[p].cpu_backup # Null THEN Known(hostData[meta[p].cpu_backup])
    ELSE Junk

TensorAt(p) ==
    IF meta[p] = Null THEN Null
    ELSE [tag |-> meta[p].tag, backup |-> meta[p].backup,
          state |-> IF IsActive(p) THEN "ACTIVE" ELSE "PAUSED", content |-> Bytes(p)]

RequestOf(t) ==
    IF pc[t] \in {"p_lock", "p_loop"} THEN [op |-> "pause", filter |-> filter[t]]
    ELSE IF pc[t] \in {"r_lock", "r_loop"} THEN [op |-> "resume", filter |-> filter[t]]
    ELSE Null

Reason == IF exited \in {"no", "not_active", "not_paused", "driver_error"} THEN exited ELSE "failure"

Tensors == [p \in Ptrs |-> TensorAt(p)]
Calls   == [t \in Threads |-> RequestOf(t)]

Memory == INSTANCE PauseableMemory WITH
    Addresses <- Ptrs, Contents <- Contents \cup {Junk}, Unknown <- Junk,
    tensors <- Tensors, requests <- Calls, ended <- Reason

ASSUME RefinementAssumption == Null \notin Memory!Tensor \cup Memory!Request

\* As long as clients free only active tensors, the chunked allocator keeps the
\* promises of PauseableMemory: contents come back whole after every pause, in
\* whatever order other calls run.
ImplementsMemory == Memory!Spec
==============================================================================

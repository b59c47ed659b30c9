------------------------------- MODULE Allocator -------------------------------
(***************************************************************************)
(* The allocator of torch_memory_saver on its cudaMalloc/cudaFree path     *)
(* (csrc/core.cpp, CUDA and ROCm >= 7): malloc, free, pause, resume and    *)
(* get_cpu_backup_pointer, called by several threads at once.              *)
(*                                                                         *)
(* Every allocation has the size of one unit of device memory.  Handles    *)
(* are the units the device has, Ptrs the virtual addresses cuMem-         *)
(* AddressReserve may return, Bufs the host buffers that can exist at the  *)
(* same time and Files the backup files the disk has room for.             *)
(*                                                                         *)
(* A call is cut where other threads can observe it: at the lock, where a  *)
(* unit or an address is taken or given back outside the lock, and between *)
(* two entries of the loops of pause and resume.  What the holder of the   *)
(* lock does to one entry touches only that entry, its backup and one unit *)
(* of memory, and is one step.                                             *)
(***************************************************************************)
EXTENDS Naturals, FiniteSets

CONSTANTS Threads, Ptrs, Handles, Bufs, Files, Tags,
          HostKinds,    \* how this host and this build can obtain a buffer
          Values,       \* what a client may write into a tensor
          Junk,         \* memory nobody wrote: anything may be read
          Margins,      \* arguments of set_memory_margin_bytes, in units
          BackupModes,  \* the (cpu, disk) switches the clients use
          Null          \* nullptr, an empty path, an empty tag, no thread

Data     == Values \cup {Junk}
CPUBackupKind == {"CUDA_PINNED", "REGISTERED", "PAGEABLE"}
State    == {"ACTIVE", "PAUSED"}
Metadata == [tag : Tags, state : State, backup : BackupModes,
             cpu_backup : Bufs \cup {Null}, cpu_backup_kind : CPUBackupKind,
             disk : Files \cup {Null}, allocHandle : Handles \cup {Null}]

ASSUME AllocatorAssumption ==
    /\ IsFiniteSet(Handles)
    /\ Margins \subseteq Nat
    /\ HostKinds \subseteq CPUBackupKind
    /\ BackupModes \subseteq {"none", "cpu", "disk", "both"}
    /\ Junk \notin Values
    /\ Null \notin Threads \cup Ptrs \cup Handles \cup Bufs \cup Files \cup Tags
    /\ Null \notin Data \cup Metadata

VARIABLES
    phys,       \* physical units created and not released
    content,    \* what a unit holds
    reserved,   \* reserved virtual addresses
    mapping,    \* the unit mapped at an address
    hostKind,   \* how a host buffer was obtained, "free" when it is not in use
    hostData,
    fileData,   \* the content of a backup file, Null when it does not exist
    meta,       \* allocation_metadata_, Null where the map has no entry
    mutex,      \* holder of allocator_metadata_mutex_
    todo,       \* entries the loop of the lock holder has not visited
    margin,     \* memory_margin_bytes_
    exited,     \* why the process left, "no" while it runs
    pc,
    filter,     \* tag argument of pause and resume, Null for every tag
    ptr,        \* the address a malloc, a free or a query works on
    md,         \* the metadata a malloc builds and a free copied
    view,       \* the pointer get_cpu_backup_pointer returned
    owned,      \* addresses handed to a client and not freed
    expected    \* the bytes the client may rely on at an address

device  == <<phys, content, reserved, mapping>>
backups == <<hostKind, hostData, fileData>>
lock    == <<mutex, todo>>
local   == <<filter, ptr, md, view>>
client  == <<owned, expected>>
vars    == <<device, backups, meta, lock, margin, exited, pc, local, client>>

Labels == {"idle", "m_create", "m_register", "f_lookup", "f_device", "f_backup",
           "p_lock", "p_loop", "r_lock", "r_loop", "q_lock", "q_read"}
Exits  == {"no", "check", "exhausted", "cuda_error", "not_active", "not_paused",
           "not_found", "driver_error"}

TypeOK ==
    /\ phys \subseteq Handles
    /\ content \in [Handles -> Data]
    /\ reserved \subseteq Ptrs
    /\ mapping \in [Ptrs -> Handles \cup {Null}]
    /\ hostKind \in [Bufs -> CPUBackupKind \cup {"free"}]
    /\ hostData \in [Bufs -> Data]
    /\ fileData \in [Files -> Data \cup {Null}]
    /\ meta \in [Ptrs -> Metadata \cup {Null}]
    /\ mutex \in Threads \cup {Null}
    /\ todo \subseteq Ptrs
    /\ margin \in Nat
    /\ exited \in Exits
    /\ pc \in [Threads -> Labels]
    /\ filter \in [Threads -> Tags \cup {Null}]
    /\ ptr \in [Threads -> Ptrs \cup {Null}]
    /\ md \in [Threads -> Metadata \cup {Null}]
    /\ view \in [Threads -> Bufs \cup {Null}]
    /\ owned \subseteq Ptrs
    /\ expected \in [Ptrs -> Data]

Init ==
    /\ phys = {} /\ content = [h \in Handles |-> Junk]
    /\ reserved = {} /\ mapping = [p \in Ptrs |-> Null]
    /\ hostKind = [b \in Bufs |-> "free"] /\ hostData = [b \in Bufs |-> Junk]
    /\ fileData = [f \in Files |-> Null]
    /\ meta = [p \in Ptrs |-> Null]
    /\ mutex = Null /\ todo = {} /\ margin = 0 /\ exited = "no"
    /\ pc = [t \in Threads |-> "idle"]
    /\ filter = [t \in Threads |-> Null] /\ ptr = [t \in Threads |-> Null]
    /\ md = [t \in Threads |-> Null] /\ view = [t \in Threads |-> Null]
    /\ owned = {} /\ expected = [p \in Ptrs |-> Junk]

Tracked == {p \in Ptrs : meta[p] # Null}
Unused  == Handles \ phys

Goto(t, label) == pc' = [pc EXCEPT ![t] = label]

\* The end of a call: its local variables are gone.
Return(t) ==
    /\ Goto(t, "idle")
    /\ filter' = [filter EXCEPT ![t] = Null] /\ ptr' = [ptr EXCEPT ![t] = Null]
    /\ md' = [md EXCEPT ![t] = Null] /\ view' = [view EXCEPT ![t] = Null]

\* exit(): nothing but the reason matters any more.
Exit(reason) ==
    exited' = reason /\ UNCHANGED <<device, backups, meta, lock, margin, pc, local, client>>

\* The driver and the host allocator reject a call whose precondition does not
\* hold; every such call is checked by a macro that ends the process.
Accepted(ok) == exited' = IF ok THEN exited ELSE "driver_error"

\* The tag test of the loops of pause and resume.
Matches(m, tagFilter) == tagFilter = Null \/ m.tag = tagFilter

------------------------------------------------------------------------------
(* malloc *)

NewMetadata(tag, backup) ==
    [tag |-> tag, state |-> "ACTIVE", backup |-> backup, cpu_backup |-> Null,
     cpu_backup_kind |-> "CUDA_PINNED", disk |-> Null, allocHandle |-> Null]

MallocBothBackups(t) ==
    /\ pc[t] = "idle" /\ "both" \in BackupModes
    /\ Exit("check")

\* cudaMemGetInfo against memory_margin_bytes + allocation_size.
BelowMarginWithoutSize == margin > 0 /\ margin > Cardinality(Unused)

BelowMargin == margin > 0 /\ margin + 1 > Cardinality(Unused)

\* A malloc that would eat into the margin returns an error at once.
MallocCall(t, tag, backup) ==
    /\ pc[t] = "idle" /\ backup # "both" /\ ~BelowMargin
    /\ md' = [md EXCEPT ![t] = NewMetadata(tag, backup)]
    /\ Goto(t, "m_create")
    /\ UNCHANGED <<device, backups, meta, lock, margin, exited, filter, ptr, view, client>>

\* Out of memory is reported to the caller, which may try again later.
MallocOutOfMemory(t) ==
    /\ pc[t] = "m_create" /\ Unused = {}
    /\ Return(t)
    /\ UNCHANGED <<device, backups, meta, lock, margin, exited, client>>

\* With no address left cuMemAddressReserve fails: see OutOfResources.
MallocCreate(t) ==
    /\ pc[t] = "m_create"
    /\ \E h \in Unused, p \in Ptrs \ reserved :
          /\ phys' = phys \cup {h}
          /\ reserved' = reserved \cup {p}
          /\ mapping' = [mapping EXCEPT ![p] = h]
          /\ md' = [md EXCEPT ![t].allocHandle = h]
          /\ ptr' = [ptr EXCEPT ![t] = p]
    /\ Goto(t, "m_register")
    /\ UNCHANGED <<content, backups, meta, lock, margin, exited, filter, view, client>>

\* emplace() leaves an entry that is already there alone.
Emplace(p, m) == IF meta[p] = Null THEN [meta EXCEPT ![p] = m] ELSE meta

MallocRegisterUnlocked(t) ==
    /\ pc[t] = "m_register"
    /\ meta' = Emplace(ptr[t], md[t])
    /\ owned' = owned \cup {ptr[t]}
    /\ Return(t)
    /\ UNCHANGED <<device, backups, lock, margin, exited, expected>>

MallocRegister(t) ==
    /\ pc[t] = "m_register" /\ mutex = Null
    /\ meta' = Emplace(ptr[t], md[t])
    /\ owned' = owned \cup {ptr[t]}
    /\ Return(t)
    /\ UNCHANGED <<device, backups, lock, margin, exited, expected>>

\* Outside an interesting region the hook calls the real cudaMalloc.
UntrackedMalloc(t) ==
    /\ pc[t] = "idle"
    /\ \E p \in Ptrs \ reserved, h \in Unused :
          /\ phys' = phys \cup {h}
          /\ reserved' = reserved \cup {p}
          /\ mapping' = [mapping EXCEPT ![p] = h]
          /\ owned' = owned \cup {p}
    /\ UNCHANGED <<content, backups, meta, lock, margin, exited, pc, local, expected>>

------------------------------------------------------------------------------
(* free *)

\* cuMemUnmap and cuMemRelease of the unit h, mapped at p.
UnmapWithoutRelease(p, h) ==
    mapping' = [mapping EXCEPT ![p] = Null] /\ UNCHANGED <<phys, content>>

Unmap(p, h) ==
    /\ mapping' = [mapping EXCEPT ![p] = Null]
    /\ phys' = phys \ {h}
    /\ content' = [content EXCEPT ![h] = Junk]

CanUnmap(p, h) == mapping[p] # Null /\ h \in phys

\* The client frees what it owns, and not while it reads its backup.
FreeCall(t, p) ==
    /\ pc[t] = "idle" /\ p \in owned
    /\ \A u \in Threads : pc[u] \in {"q_lock", "q_read"} => ptr[u] # p
    /\ owned' = owned \ {p}
    /\ expected' = [expected EXCEPT ![p] = Junk]
    /\ ptr' = [ptr EXCEPT ![t] = p]
    /\ Goto(t, "f_lookup")
    /\ UNCHANGED <<device, backups, meta, lock, margin, exited, filter, md, view>>

\* No entry: the real cudaFree, called with the lock held.
FreeUntracked(t) ==
    /\ pc[t] = "f_lookup" /\ mutex = Null /\ meta[ptr[t]] = Null
    /\ Accepted(CanUnmap(ptr[t], mapping[ptr[t]]))
    /\ Unmap(ptr[t], mapping[ptr[t]])
    /\ reserved' = reserved \ {ptr[t]}
    /\ Return(t)
    /\ UNCHANGED <<backups, meta, lock, margin, client>>

FreeLookup(t) ==
    /\ pc[t] = "f_lookup" /\ mutex = Null /\ meta[ptr[t]] # Null
    /\ md' = [md EXCEPT ![t] = meta[ptr[t]]]
    /\ meta' = [meta EXCEPT ![ptr[t]] = Null]
    /\ Goto(t, "f_device")
    /\ UNCHANGED <<device, backups, lock, margin, exited, filter, ptr, view, client>>

\* A paused allocation has nothing mapped and its unit is already released.
HoldsDeviceMemoryAlways(m) == TRUE

HoldsDeviceMemory(m) == m.state = "ACTIVE"

FreeDevice(t) ==
    /\ pc[t] = "f_device"
    /\ IF HoldsDeviceMemory(md[t])
       THEN /\ Accepted(CanUnmap(ptr[t], md[t].allocHandle))
            /\ Unmap(ptr[t], md[t].allocHandle)
       ELSE /\ Accepted(mapping[ptr[t]] = Null)
            /\ UNCHANGED <<mapping, phys, content>>
    /\ reserved' = reserved \ {ptr[t]}
    /\ Goto(t, "f_backup")
    /\ UNCHANGED <<backups, meta, lock, margin, local, client>>

\* free_cpu_backup() picks the deallocator from the recorded kind.
FreeHost(b, kind) ==
    /\ Accepted(hostKind[b] = kind)
    /\ hostKind' = [hostKind EXCEPT ![b] = "free"]
    /\ hostData' = [hostData EXCEPT ![b] = Junk]

FreeBackup(t) ==
    /\ pc[t] = "f_backup"
    /\ IF md[t].cpu_backup # Null
       THEN FreeHost(md[t].cpu_backup, md[t].cpu_backup_kind)
       ELSE UNCHANGED <<exited, hostKind, hostData>>
    /\ fileData' = [f \in Files |-> IF f = md[t].disk THEN Null ELSE fileData[f]]
    /\ Return(t)
    /\ UNCHANGED <<device, meta, lock, margin, client>>

------------------------------------------------------------------------------
(* pause and resume *)

PauseCall(t, tagFilter) ==
    /\ pc[t] = "idle"
    /\ filter' = [filter EXCEPT ![t] = tagFilter]
    /\ Goto(t, "p_lock")
    /\ UNCHANGED <<device, backups, meta, lock, margin, exited, ptr, md, view, client>>

\* Nobody may still be reading a backup that this call frees.
ResumeCall(t, tagFilter) ==
    /\ pc[t] = "idle"
    /\ \A u \in Threads : pc[u] \in {"q_lock", "q_read"} /\ meta[ptr[u]] # Null
                             => ~Matches(meta[ptr[u]], tagFilter)
    /\ filter' = [filter EXCEPT ![t] = tagFilter]
    /\ Goto(t, "r_lock")
    /\ UNCHANGED <<device, backups, meta, lock, margin, exited, ptr, md, view, client>>

\* The lock is held until the loop is over, so the set of entries is fixed.
EnterLoopUnlocked(t, from, to) ==
    /\ pc[t] = from
    /\ mutex' = t
    /\ todo' = {p \in Tracked : Matches(meta[p], filter[t])}
    /\ Goto(t, to)
    /\ UNCHANGED <<device, backups, meta, margin, exited, local, client>>

EnterLoop(t, from, to) ==
    /\ pc[t] = from /\ mutex = Null
    /\ mutex' = t
    /\ todo' = {p \in Tracked : Matches(meta[p], filter[t])}
    /\ Goto(t, to)
    /\ UNCHANGED <<device, backups, meta, margin, exited, local, client>>

LeaveLoopLocked(t, from) ==
    /\ pc[t] = from /\ todo = {}
    /\ Return(t)
    /\ UNCHANGED <<device, backups, meta, lock, margin, exited, client>>

LeaveLoop(t, from) ==
    /\ pc[t] = from /\ todo = {}
    /\ mutex' = Null
    /\ Return(t)
    /\ UNCHANGED <<device, backups, meta, todo, margin, exited, client>>

PauseLock(t)    == EnterLoop(t, "p_lock", "p_loop")
PauseReturn(t)  == LeaveLoop(t, "p_loop")
ResumeLock(t)   == EnterLoop(t, "r_lock", "r_loop")
ResumeReturn(t) == LeaveLoop(t, "r_loop")

PauseNotActive(t) ==
    /\ pc[t] = "p_loop" /\ \E p \in todo : meta[p].state # "ACTIVE"
    /\ Exit("not_active")

ResumeNotPaused(t) ==
    /\ pc[t] = "r_loop" /\ \E p \in todo : meta[p].state # "PAUSED"
    /\ Exit("not_paused")

\* The loop of pause gives the unit of p back; m is the entry with its backup.
PauseEntry(t, p, m) ==
    /\ pc[t] = "p_loop" /\ meta[p].state = "ACTIVE"
    /\ Accepted(CanUnmap(p, m.allocHandle))
    /\ Unmap(p, m.allocHandle)
    /\ meta' = [meta EXCEPT ![p] = [m EXCEPT !.state = "PAUSED"]]
    /\ todo' = todo \ {p}
    /\ UNCHANGED <<reserved, mutex, margin, pc, local, owned>>

\* What a copy made before the unmap reads, and one made after it.
CopiedAfterUnmap(p) == Junk
Copied(p) == content[mapping[p]]

\* Without a backup the content is gone, and the client knows it.
PauseNoBackup(t, p) ==
    /\ meta[p].backup = "none"
    /\ PauseEntry(t, p, meta[p])
    /\ expected' = [expected EXCEPT ![p] = Junk]
    /\ UNCHANGED backups

\* allocate_cpu_backup() sets the kind to what it obtained, on every call.
RecordedKindStale(old, obtained) == old

RecordedKind(old, obtained) == obtained

\* The buffer the entry has, or a new one.
HostBuffersShared(m) ==
    {<<b, kind, RecordedKind(m.cpu_backup_kind, kind)>> : b \in Bufs, kind \in HostKinds}

HostBuffers(m) ==
    IF m.cpu_backup # Null
    THEN {<<m.cpu_backup, hostKind[m.cpu_backup], m.cpu_backup_kind>>}
    ELSE {<<b, kind, RecordedKind(m.cpu_backup_kind, kind)>> :
             b \in {c \in Bufs : hostKind[c] = "free"}, kind \in HostKinds}

PauseToHost(t, p) ==
    /\ meta[p].backup = "cpu"
    /\ \E buf \in HostBuffers(meta[p]) :
          /\ PauseEntry(t, p, [meta[p] EXCEPT !.cpu_backup = buf[1], !.cpu_backup_kind = buf[3]])
          /\ hostKind' = [hostKind EXCEPT ![buf[1]] = buf[2]]
          /\ hostData' = [hostData EXCEPT ![buf[1]] = Copied(p)]
    /\ UNCHANGED <<fileData, expected>>

\* offload(): a slot without a path gets a new file, another one is reused.
SlotFilesFresh(m) == {f \in Files : fileData[f] = Null}

SlotFiles(m) == IF m.disk = Null THEN {f \in Files : fileData[f] = Null} ELSE {m.disk}

PauseToDisk(t, p) ==
    /\ meta[p].backup = "disk"
    /\ \E f \in SlotFiles(meta[p]) :
          /\ PauseEntry(t, p, [meta[p] EXCEPT !.disk = f])
          /\ fileData' = [fileData EXCEPT ![f] = Copied(p)]
    /\ UNCHANGED <<hostKind, hostData, expected>>

ResumedKeepsHandle(m, h) == [m EXCEPT !.state = "ACTIVE"]
Resumed(m, h) == [m EXCEPT !.state = "ACTIVE", !.allocHandle = h]

\* The loop of resume maps a new unit at p and fills it with data.  With no
\* unit left cu_mem_create fails and the process exits: see OutOfResources.
ResumeEntry(t, p, m, data) ==
    /\ pc[t] = "r_loop" /\ meta[p].state = "PAUSED"
    /\ \E h \in Unused :
          /\ phys' = phys \cup {h}
          /\ mapping' = [mapping EXCEPT ![p] = h]
          /\ content' = [content EXCEPT ![h] = data]
          /\ meta' = [meta EXCEPT ![p] = Resumed(m, h)]
    /\ todo' = todo \ {p}
    /\ UNCHANGED <<reserved, mutex, margin, pc, local, client>>

CanMap(p) == p \in reserved /\ mapping[p] = Null

ResumeNoBackup(t, p) ==
    /\ meta[p].backup = "none"
    /\ ResumeEntry(t, p, meta[p], Junk)
    /\ Accepted(CanMap(p))
    /\ UNCHANGED backups

ResumeFromHost(t, p) ==
    LET b == meta[p].cpu_backup IN
    /\ meta[p].backup = "cpu" /\ b # Null
    /\ ResumeEntry(t, p, [meta[p] EXCEPT !.cpu_backup = Null], hostData[b])
    /\ Accepted(CanMap(p) /\ hostKind[b] = meta[p].cpu_backup_kind)
    /\ hostKind' = [hostKind EXCEPT ![b] = "free"]
    /\ hostData' = [hostData EXCEPT ![b] = Junk]
    /\ UNCHANGED fileData

\* onload() leaves the file in place for the next pause.
ResumeFromDisk(t, p) ==
    LET f == meta[p].disk IN
    /\ meta[p].backup = "disk" /\ f # Null
    /\ ResumeEntry(t, p, meta[p], fileData[f])
    /\ Accepted(CanMap(p) /\ fileData[f] # Null)
    /\ UNCHANGED backups

------------------------------------------------------------------------------
(* get_cpu_backup_pointer and the caller that reads through the pointer *)

\* A query of a tensor whose resume is under way would read a freed buffer.
QueryCall(t, p) ==
    /\ pc[t] = "idle" /\ p \in owned
    /\ \A u \in Threads : pc[u] \in {"r_lock", "r_loop"} /\ meta[p] # Null
                             => ~Matches(meta[p], filter[u])
    /\ ptr' = [ptr EXCEPT ![t] = p]
    /\ Goto(t, "q_lock")
    /\ UNCHANGED <<device, backups, meta, lock, margin, exited, filter, md, view, client>>

QueryNotFound(t) ==
    /\ pc[t] = "q_lock" /\ mutex = Null /\ meta[ptr[t]] = Null
    /\ Exit("not_found")

\* Active and disk-backed tensors have no copy in host memory: nullptr.
HasCopy(m) == m.backup # "disk" /\ m.state = "PAUSED"

QueryNoCopy(t) ==
    /\ pc[t] = "q_lock" /\ mutex = Null /\ meta[ptr[t]] # Null /\ ~HasCopy(meta[ptr[t]])
    /\ Return(t)
    /\ UNCHANGED <<device, backups, meta, lock, margin, exited, client>>

\* A paused tensor without a backup ends the process.
QueryLostContent(t) ==
    /\ pc[t] = "q_lock" /\ mutex = Null /\ meta[ptr[t]] # Null
    /\ HasCopy(meta[ptr[t]]) /\ meta[ptr[t]].cpu_backup = Null
    /\ Exit("check")

QueryFound(t) ==
    /\ pc[t] = "q_lock" /\ mutex = Null /\ meta[ptr[t]] # Null
    /\ HasCopy(meta[ptr[t]]) /\ meta[ptr[t]].cpu_backup # Null
    /\ view' = [view EXCEPT ![t] = meta[ptr[t]].cpu_backup]
    /\ Goto(t, "q_read")
    /\ UNCHANGED <<device, backups, meta, lock, margin, exited, filter, ptr, md, client>>

\* The clone, or the end of the use of a zero-copy view.
QueryDone(t) ==
    /\ pc[t] = "q_read"
    /\ Return(t)
    /\ UNCHANGED <<device, backups, meta, lock, margin, exited, client>>

------------------------------------------------------------------------------
(* The rest of the program *)

SetMargin(t, value) ==
    /\ pc[t] = "idle"
    /\ margin' = value
    /\ UNCHANGED <<device, backups, meta, lock, exited, pc, local, client>>

\* pause does not synchronise the device: a client does not touch memory that a
\* pause or a resume in progress covers.
Settled(p) ==
    \A u \in Threads : pc[u] \in {"p_lock", "p_loop", "r_lock", "r_loop"} /\ meta[p] # Null
                          => ~Matches(meta[p], filter[u])

Write(p, v) ==
    /\ p \in owned /\ mapping[p] # Null /\ Settled(p)
    /\ content' = [content EXCEPT ![mapping[p]] = v]
    /\ expected' = [expected EXCEPT ![p] = v]
    /\ UNCHANGED <<phys, reserved, mapping, backups, meta, lock, margin, exited, pc, local, owned>>

\* No address, no host buffer, no room on the disk, no unit to resume into:
\* only malloc reports a lack of memory, every other call ends the process.
OutOfResources(t) ==
    /\ \/ pc[t] = "m_create" /\ Unused # {} /\ reserved = Ptrs
       \/ /\ pc[t] = "p_loop"
          /\ \E p \in todo : /\ meta[p].state = "ACTIVE"
                             /\ \/ meta[p].backup = "cpu" /\ HostBuffers(meta[p]) = {}
                                \/ meta[p].backup = "disk" /\ SlotFiles(meta[p]) = {}
       \/ /\ pc[t] = "r_loop" /\ Unused = {}
          /\ \E p \in todo : meta[p].state = "PAUSED"
    /\ Exit("exhausted")

\* CUDA_ERROR_CHECK, CURESULT_CHECK and SIMPLE_CHECK end the process when a call
\* fails for any other reason.
CudaFails(t) ==
    /\ \/ pc[t] \in {"m_create", "f_device", "f_backup"}
       \/ pc[t] \in {"p_loop", "r_loop"} /\ todo # {}
    /\ Exit("cuda_error")

Step(t) ==
    \/ MallocOutOfMemory(t) \/ MallocCreate(t) \/ MallocRegister(t)
    \/ FreeUntracked(t) \/ FreeLookup(t) \/ FreeDevice(t) \/ FreeBackup(t)
    \/ PauseLock(t) \/ PauseNotActive(t) \/ PauseReturn(t)
    \/ ResumeLock(t) \/ ResumeNotPaused(t) \/ ResumeReturn(t)
    \/ \E p \in todo : \/ PauseNoBackup(t, p) \/ PauseToHost(t, p) \/ PauseToDisk(t, p)
                       \/ ResumeNoBackup(t, p) \/ ResumeFromHost(t, p) \/ ResumeFromDisk(t, p)
    \/ QueryNotFound(t) \/ QueryNoCopy(t) \/ QueryLostContent(t) \/ QueryFound(t) \/ QueryDone(t)
    \/ OutOfResources(t)

Call(t) ==
    \/ MallocBothBackups(t) \/ UntrackedMalloc(t)
    \/ \E tag \in Tags, backup \in BackupModes : MallocCall(t, tag, backup)
    \/ \E p \in Ptrs : FreeCall(t, p) \/ QueryCall(t, p)
    \/ \E tagFilter \in Tags \cup {Null} : PauseCall(t, tagFilter) \/ ResumeCall(t, tagFilter)
    \/ \E value \in Margins : SetMargin(t, value)

Terminated == exited # "no" /\ UNCHANGED vars

Next ==
    \/ exited = "no" /\ \E t \in Threads : Step(t) \/ Call(t) \/ CudaFails(t)
    \/ exited = "no" /\ \E p \in Ptrs, v \in Values : Write(p, v)
    \/ Terminated

\* The scheduler runs every thread that can run; clients may stop calling.
Spec     == Init /\ [][Next]_vars
FairSpec == Spec /\ \A t \in Threads : WF_vars(exited = "no" /\ Step(t))

------------------------------------------------------------------------------
(* Properties *)

\* The entry of an allocation tells the truth about the device: an active one
\* has its own live unit mapped at its address, a paused one nothing but the
\* address, whatever other threads are in the middle of (core.cpp:79-193).
StateMatchesDevice ==
    \A p \in Tracked :
        /\ p \in reserved
        /\ meta[p].state = "ACTIVE" => /\ mapping[p] = meta[p].allocHandle
                                       /\ mapping[p] \in phys
        /\ meta[p].state = "PAUSED" => mapping[p] = Null

Mapped       == {p \in Ptrs : mapping[p] # Null}
Unregistered == {t \in Threads : pc[t] \in {"f_device", "f_backup"}}
HoldsAddress == {t \in Threads : pc[t] \in {"m_register", "f_lookup", "f_device"}}

\* No device memory leaks and none is used twice: a live unit is mapped at
\* exactly one address, and an address stays reserved from malloc to the end of
\* free, paused or not (README.md:27, the virtual address is preserved).
DeviceAccounted ==
    /\ phys = {mapping[p] : p \in Mapped}
    /\ \A p, q \in Mapped : p # q => mapping[p] # mapping[q]
    /\ reserved = owned \cup {ptr[t] : t \in HoldsAddress}

\* The host buffers in use are the backups of the entries and of the calls to
\* free that took one over, one each, and each is recorded with the kind it was
\* obtained as, so that free_cpu_backup picks the right deallocator
\* (core.cpp:9-68) in every cycle of pause and resume.
HostAccounted ==
    LET Backups == {meta[p] : p \in Tracked} \cup {md[t] : t \in Unregistered}
        Held    == {m \in Backups : m.cpu_backup # Null} IN
    /\ {b \in Bufs : hostKind[b] # "free"} = {m.cpu_backup : m \in Held}
    /\ \A m \in Held : hostKind[m.cpu_backup] = m.cpu_backup_kind
    /\ \A p, q \in Tracked : p # q /\ meta[p].cpu_backup # Null
                             => meta[p].cpu_backup # meta[q].cpu_backup
    /\ \A p \in Tracked, t \in Unregistered :
          meta[p].cpu_backup # Null => meta[p].cpu_backup # md[t].cpu_backup

\* The files under TMS_DISK_BACKUP_DIR are those of the slots of the entries
\* and of the frees in progress, one each: none is left behind by a free, none
\* is shared (disk_backend.cpp:107-161).
FilesAccounted ==
    /\ {f \in Files : fileData[f] # Null}
          = ({meta[p].disk : p \in Tracked} \cup {md[t].disk : t \in Unregistered}) \ {Null}
    /\ \A p, q \in Tracked : p # q /\ meta[p].disk # Null => meta[p].disk # meta[q].disk

\* The bytes of a tensor are on the device or, while it is paused, in a backup.
HoldsContent(p, v) ==
    \/ mapping[p] # Null /\ content[mapping[p]] = v
    \/ /\ mapping[p] = Null /\ meta[p] # Null
       /\ \/ meta[p].cpu_backup # Null /\ hostData[meta[p].cpu_backup] = v
          \/ meta[p].disk # Null /\ fileData[meta[p].disk] = v

\* What a client wrote is what it reads back after any number of pauses and
\* resumes with a backup, and the copy is complete while the memory is gone
\* (README.md:77, "content is kept unchanged").
ContentKept == \A p \in owned : expected[p] # Junk => HoldsContent(p, expected[p])

\* No interleaving of calls makes the driver or the host allocator refuse an
\* operation: no double unmap or release, no mapping of an occupied address, no
\* address freed while mapped, no deallocator of the wrong kind.
NoDriverError == exited # "driver_error"

\* The pointer get_cpu_backup_pointer returned stays a live, complete copy of
\* the tensor until its reader is done, although the lock was given up
\* (core.cpp:649-674, entrypoint.py:258-282).
BackupViewFaithful ==
    \A t \in Threads : pc[t] = "q_read" =>
        /\ hostKind[view[t]] # "free"
        /\ expected[ptr[t]] # Junk => hostData[view[t]] = expected[ptr[t]]

\* When pause returns, no allocation the filter matches holds device memory:
\* none escaped it by being registered while the loop ran (core.cpp:392-440).
PauseReleases ==
    [][\A t \in Threads : pc[t] = "p_loop" /\ pc'[t] = "idle" =>
          \A p \in Tracked' : Matches(meta'[p], filter[t])
              => meta'[p].state = "PAUSED" /\ mapping'[p] = Null]_vars

\* When resume returns, every allocation the filter matches is accessible at
\* the address it had (core.cpp:535-593).
ResumeRestores ==
    [][\A t \in Threads : pc[t] = "r_loop" /\ pc'[t] = "idle" =>
          \A p \in Tracked' : Matches(meta'[p], filter[t])
              => meta'[p].state = "ACTIVE" /\ mapping'[p] # Null]_vars

\* With one client at a time, a malloc never leaves less free memory than the
\* margin (core.cpp:103-115).  Two mallocs may both pass the test before either
\* creates memory, so this is claimed of a single thread only.
MarginKept ==
    [][\A t \in Threads : pc[t] = "m_register" /\ pc'[t] = "idle" =>
          Cardinality(Unused) >= margin]_vars

\* The lock is always given back: no path out of the loops of pause and resume
\* keeps it, except the end of the process.
LockReleased == mutex # Null ~> (mutex = Null \/ exited # "no")

\* Once the clients stop calling, every call in progress returns or the process
\* exits: no wait for the lock lasts for ever.
QuietWhenCallsStop ==
    <>[][\A t \in Threads : pc[t] = "idle" => pc'[t] = "idle"]_vars
        => []<>(exited # "no" \/ \A t \in Threads : pc[t] = "idle")
==============================================================================

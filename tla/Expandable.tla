------------------------------ MODULE Expandable ------------------------------
(***************************************************************************)
(* The path of torch_memory_saver for PyTorch's expandable segments        *)
(* (csrc/core.cpp, the vmm_ functions and the second halves of pause,      *)
(* resume and get_cpu_backup_pointer).  PyTorch creates, maps, unmaps and  *)
(* releases handles through hooks that give it logical handles; pause and  *)
(* resume replace the physical ones behind them.                           *)
(*                                                                         *)
(* Every handle has the size of one page, and Pages are the addresses of   *)
(* one segment in order, so that p and p + 1 are adjacent.  Units are the  *)
(* pages of physical memory the device has.                                *)
(*                                                                         *)
(* A call that holds the lock from its first access to its last is one     *)
(* step: no other call sees its middle.  vmm_create takes the lock late,   *)
(* and the loops of pause and resume are cut between two entries.          *)
(***************************************************************************)
EXTENDS Naturals, FiniteSets

CONSTANTS Threads, NumPages, Logical, Units, Bufs, Files, Tags, Values,
          Devices,      \* the device and its peers
          Own,          \* prop.location: the device the memory is on
          Junk,         \* memory nobody wrote: anything may be read
          BackupModes,  \* the (cpu, disk) switches the clients use
          Null

Pages == 0 .. NumPages - 1
Data  == Values \cup {Junk}
State == {"ACTIVE", "PAUSED"}

VMMAllocationMetadata ==
    [tag : Tags, state : State, backup : BackupModes, physical_handle : Units \cup {Null},
     ptr : Pages \cup {Null}, access_descs : SUBSET Devices,
     cpu_backup : Bufs \cup {Null}, cpu_backup_offset : Pages, disk : Files \cup {Null}]

View == [page : Pages, size : Nat, buf : Bufs, offset : Pages]

ASSUME ExpandableAssumption ==
    /\ NumPages \in Nat \ {0}
    /\ IsFiniteSet(Logical) /\ IsFiniteSet(Threads)
    /\ Own \in Devices
    /\ Junk \notin Values
    /\ BackupModes \subseteq {"none", "cpu", "disk", "both"}
    /\ Null \notin Threads \cup Logical \cup Units \cup Bufs \cup Files \cup Tags \cup Pages
    /\ Null \notin Data \cup VMMAllocationMetadata \cup View

VARIABLES
    phys,       \* physical handles created and not released
    content,    \* what a unit holds
    mapping,    \* the unit mapped at a page
    access,     \* who may access a page
    hostData,   \* host buffers, page by page
    fileData,   \* backup files, Null when they do not exist
    meta,       \* vmm_allocation_metadata_, Null where the map has no entry
    index,      \* vmm_mapping_index_
    mutex,      \* holder of allocator_metadata_mutex_
    toBackUp,   \* pages the first loop of pause has not visited
    todo,       \* entries the loop of the lock holder has not visited
    exited,     \* why the process left, "no" while it runs
    pc,
    filter,     \* tag argument of pause and resume, Null for every tag
    made,       \* the entry a vmm_create is about to register
    view,       \* the tensor and the pointer a reader got for it
    granted,    \* who PyTorch was told may access a page
    expected    \* the bytes the client may rely on at a page

device  == <<phys, content, mapping, access>>
backups == <<hostData, fileData>>
maps    == <<meta, index>>
lock    == <<mutex, toBackUp, todo>>
local   == <<pc, filter, made, view>>
client  == <<granted, expected>>
vars    == <<device, backups, maps, lock, exited, local, client>>

Tracked == {l \in Logical : meta[l] # Null}
Unused  == Units \ phys
Blank   == [i \in Pages |-> Junk]

TypeOK ==
    /\ phys \subseteq Units
    /\ content \in [Units -> Data]
    /\ mapping \in [Pages -> Units \cup {Null}]
    /\ access \in [Pages -> SUBSET Devices]
    /\ hostData \in [Bufs -> [Pages -> Data]]
    /\ fileData \in [Files -> Data \cup {Null}]
    /\ meta \in [Logical -> VMMAllocationMetadata \cup {Null}]
    /\ index \in [Pages -> Logical \cup {Null}]
    /\ mutex \in Threads \cup {Null}
    /\ toBackUp \subseteq Pages
    /\ todo \subseteq Logical
    /\ exited \in {"no", "check", "not_found", "error", "driver_error"}
    /\ pc \in [Threads -> {"idle", "c_register", "p_backup", "p_release", "r_loop", "q_read"}]
    /\ filter \in [Threads -> Tags \cup {Null}]
    /\ made \in [Threads -> VMMAllocationMetadata \cup {Null}]
    /\ view \in [Threads -> View \cup {Null}]
    /\ granted \in [Pages -> SUBSET Devices]
    /\ expected \in [Pages -> Data]

Init ==
    /\ phys = {} /\ content = [h \in Units |-> Junk]
    /\ mapping = [p \in Pages |-> Null] /\ access = [p \in Pages |-> {}]
    /\ hostData = [b \in Bufs |-> Blank] /\ fileData = [f \in Files |-> Null]
    /\ meta = [l \in Logical |-> Null] /\ index = [p \in Pages |-> Null]
    /\ mutex = Null /\ toBackUp = {} /\ todo = {} /\ exited = "no"
    /\ pc = [t \in Threads |-> "idle"] /\ filter = [t \in Threads |-> Null]
    /\ made = [t \in Threads |-> Null] /\ view = [t \in Threads |-> Null]
    /\ granted = [p \in Pages |-> {}] /\ expected = [p \in Pages |-> Junk]

\* exit(): nothing but the reason matters any more.
Exit(reason) ==
    exited' = reason /\ UNCHANGED <<device, backups, maps, lock, local, client>>

\* The driver rejects a call whose precondition does not hold.
Accepted(ok) == exited' = IF ok THEN exited ELSE "driver_error"

Matches(m, tagFilter) == tagFilter = Null \/ m.tag = tagFilter

\* A host buffer is a shared_ptr of entries: the last one to drop it frees it.
InUseByFirst(b) == \E l \in Tracked : meta[l].cpu_backup = b /\ meta[l].cpu_backup_offset = 0
InUse(b) == \E l \in Tracked : meta[l].cpu_backup = b

KeepShared(data) == hostData' = [b \in Bufs |-> IF InUse(b)' THEN data[b] ELSE Blank]

\* A reader of a view, or of a clone not finished, still uses the pages.
Readers(p) == {t \in Threads : pc[t] = "q_read" /\ p \in view[t].page .. view[t].page + view[t].size - 1}

------------------------------------------------------------------------------
(* vmm_create, vmm_map, vmm_set_access, vmm_unmap, vmm_release *)

NewEntry(tag, backup, h) ==
    [tag |-> tag, state |-> "ACTIVE", backup |-> backup, physical_handle |-> h, ptr |-> Null,
     access_descs |-> {}, cpu_backup |-> Null, cpu_backup_offset |-> 0, disk |-> Null]

VmmCreateBothBackups(t) ==
    /\ pc[t] = "idle" /\ "both" \in BackupModes
    /\ Exit("check")

\* The size of Logical bounds the entries there may be at once.  A vmm_create
\* that fails, for want of memory or because of the margin, changes nothing.
VmmCreate(t, tag, backup) ==
    /\ pc[t] = "idle" /\ backup # "both"
    /\ Cardinality(Tracked) + Cardinality({u \in Threads : pc[u] = "c_register"})
          < Cardinality(Logical)
    /\ \E h \in Unused :
          /\ phys' = phys \cup {h}
          /\ made' = [made EXCEPT ![t] = NewEntry(tag, backup, h)]
    /\ pc' = [pc EXCEPT ![t] = "c_register"]
    /\ UNCHANGED <<content, mapping, access, backups, maps, lock, exited, filter, view, client>>

VmmRegisterUnlocked(t) ==
    /\ pc[t] = "c_register"
    /\ \E l \in Logical \ Tracked : meta' = [meta EXCEPT ![l] = made[t]]
    /\ made' = [made EXCEPT ![t] = Null]
    /\ pc' = [pc EXCEPT ![t] = "idle"]
    /\ UNCHANGED <<device, backups, index, lock, exited, filter, view, client>>

\* The counter next_vmm_logical_handle_ is skipped to a handle not in use.
VmmRegister(t) ==
    /\ pc[t] = "c_register" /\ mutex = Null
    /\ \E l \in Logical \ Tracked : meta' = [meta EXCEPT ![l] = made[t]]
    /\ made' = [made EXCEPT ![t] = Null]
    /\ pc' = [pc EXCEPT ![t] = "idle"]
    /\ UNCHANGED <<device, backups, index, lock, exited, filter, view, client>>

VmmMap(l, p) ==
    /\ mutex = Null /\ l \in Tracked /\ meta[l].state = "ACTIVE" /\ meta[l].ptr = Null
    /\ index[p] = Null /\ mapping[p] = Null
    /\ mapping' = [mapping EXCEPT ![p] = meta[l].physical_handle]
    /\ meta' = [meta EXCEPT ![l].ptr = p]
    /\ index' = [index EXCEPT ![p] = l]
    /\ UNCHANGED <<phys, content, access, backups, lock, exited, local, client>>

\* A handle that was unmapped while it was paused cannot be mapped again, nor a
\* paused one exported.
VmmUsePaused(l) ==
    /\ mutex = Null /\ l \in Tracked /\ meta[l].state = "PAUSED"
    /\ Exit("check")

\* PyTorch asks for the rights to pages it has mapped, the device's own first.
\* The entries record them before the driver is asked, which refuses as long as
\* one of the pages is paused; PyTorch is told so.
VmmSetAccess(first, last, dev) ==
    /\ mutex = Null
    /\ \A p \in first .. last : /\ index[p] # Null \/ mapping[p] # Null
                                /\ dev # Own => Own \in granted[p]
    /\ meta' = [l \in Logical |->
                  IF l \in Tracked /\ meta[l].ptr \in first .. last
                  THEN [meta[l] EXCEPT !.access_descs = @ \cup {dev}] ELSE meta[l]]
    /\ IF \A p \in first .. last : mapping[p] # Null
       THEN /\ access' = [p \in Pages |-> IF p \in first .. last THEN access[p] \cup {dev} ELSE access[p]]
            /\ granted' = [p \in Pages |-> IF p \in first .. last THEN granted[p] \cup {dev} ELSE granted[p]]
       ELSE UNCHANGED <<access, granted>>
    /\ UNCHANGED <<phys, content, mapping, backups, index, lock, exited, local, expected>>

\* The driver knows nothing of a paused handle.
KnownToDriver(m) == m.state = "ACTIVE"

UnmappedEntryKept(p) == index

UnmappedEntry(p) == [index EXCEPT ![p] = Null]

\* A page is not given back while its backup is being read.
VmmUnmap(p) ==
    /\ mutex = Null /\ index[p] # Null /\ Readers(p) = {}
    /\ IF KnownToDriver(meta[index[p]])
       THEN /\ Accepted(mapping[p] # Null)
            /\ mapping' = [mapping EXCEPT ![p] = Null]
            /\ access' = [access EXCEPT ![p] = {}]
       ELSE UNCHANGED <<exited, mapping, access>>
    /\ index' = UnmappedEntry(p)
    /\ meta' = [meta EXCEPT ![index[p]].ptr = Null, ![index[p]].access_descs = {}]
    /\ granted' = [granted EXCEPT ![p] = {}]
    /\ expected' = [expected EXCEPT ![p] = Junk]
    /\ UNCHANGED <<phys, content, backups, lock, local>>

\* cuMemRelease of a unit that is not mapped any more.
ReleaseUnit(h) == phys' = phys \ {h} /\ content' = [content EXCEPT ![h] = Junk]

\* The release of a backup slot deletes its file.
FilesKept(m) == fileData
FilesAfterRelease(m) == [f \in Files |-> IF f = m.disk THEN Null ELSE fileData[f]]

\* PyTorch unmaps a handle before it releases it.
VmmRelease(l) ==
    /\ mutex = Null /\ l \in Tracked /\ meta[l].ptr = Null
    /\ IF KnownToDriver(meta[l])
       THEN Accepted(meta[l].physical_handle \in phys) /\ ReleaseUnit(meta[l].physical_handle)
       ELSE UNCHANGED <<exited, phys, content>>
    /\ meta' = [meta EXCEPT ![l] = Null]
    /\ KeepShared(hostData)
    /\ fileData' = FilesAfterRelease(meta[l])
    /\ UNCHANGED <<mapping, access, index, lock, local, client>>

\* Outside an interesting region PyTorch gets the handle of the driver, and no
\* entry is made for it.
UntrackedMap(p) ==
    /\ mutex = Null /\ index[p] = Null /\ mapping[p] = Null
    /\ \E h \in Unused :
          /\ phys' = phys \cup {h}
          /\ mapping' = [mapping EXCEPT ![p] = h]
    /\ access' = [access EXCEPT ![p] = {Own}]
    /\ granted' = [granted EXCEPT ![p] = {Own}]
    /\ UNCHANGED <<content, backups, maps, lock, exited, local, expected>>

UntrackedUnmap(p) ==
    /\ mutex = Null /\ index[p] = Null /\ mapping[p] # Null
    /\ mapping' = [mapping EXCEPT ![p] = Null]
    /\ ReleaseUnit(mapping[p])
    /\ access' = [access EXCEPT ![p] = {}]
    /\ granted' = [granted EXCEPT ![p] = {}]
    /\ UNCHANGED <<backups, maps, lock, exited, local, expected>>

------------------------------------------------------------------------------
(* pause *)

Pause(t, tagFilter) ==
    /\ pc[t] = "idle" /\ mutex = Null
    /\ mutex' = t
    /\ filter' = [filter EXCEPT ![t] = tagFilter]
    /\ toBackUp' = {p \in Pages : /\ index[p] # Null
                                  /\ Matches(meta[index[p]], tagFilter)
                                  /\ meta[index[p]].backup = "cpu"}
    /\ pc' = [pc EXCEPT ![t] = "p_backup"]
    /\ UNCHANGED <<device, backups, maps, todo, exited, made, view, client>>

\* Pages from first on that are adjacent and backed up together.
RunAcrossTags(first) ==
    {last \in first .. NumPages - 1 :
        \A p \in first + 1 .. last : /\ index[p] # Null
                                     /\ meta[index[p]].state = "ACTIVE"
                                     /\ meta[index[p]].backup = "cpu"}

RunOfTwo(first) ==
    {last \in first .. NumPages - 1 :
        \A p \in first + 1 .. last : /\ p <= first + 1
                                     /\ index[p] # Null
                                     /\ meta[index[p]].state = "ACTIVE"
                                     /\ meta[index[p]].backup = "cpu"
                                     /\ meta[index[p]].tag = meta[index[first]].tag}

Run(first) ==
    {last \in first .. NumPages - 1 :
        \A p \in first + 1 .. last : /\ index[p] # Null
                                     /\ meta[index[p]].state = "ACTIVE"
                                     /\ meta[index[p]].backup = "cpu"
                                     /\ meta[index[p]].tag = meta[index[first]].tag}

\* Where the backup of a page is in the buffer of its run.
BackupOffset(first, p) == p - first

\* One buffer for a run of adjacent pages, first to last.  The copy fails, as
\* does that to a file below, for a page whose rights are not set yet.
BackUpRun(t) ==
    /\ pc[t] = "p_backup"
    /\ \E first \in toBackUp, b \in {c \in Bufs : ~InUse(c)} :
          /\ \A p \in toBackUp : first <= p
          /\ meta[index[first]].state = "ACTIVE"
          /\ \A p \in Run(first) : Own \in access[p]
          /\ meta' = [l \in Logical |->
                        IF l \in Tracked /\ meta[l].ptr \in Run(first)
                        THEN [meta[l] EXCEPT !.cpu_backup = b,
                                             !.cpu_backup_offset = BackupOffset(first, meta[l].ptr)]
                        ELSE meta[l]]
          /\ LET copy == [i \in Pages |-> IF first + i \in Run(first)
                                          THEN content[mapping[first + i]] ELSE Junk] IN
             KeepShared([hostData EXCEPT ![b] = copy])
          /\ toBackUp' = toBackUp \ Run(first)
    /\ UNCHANGED <<device, fileData, index, mutex, todo, exited, local, client>>

BackUpDone(t) ==
    /\ pc[t] = "p_backup" /\ toBackUp = {}
    /\ todo' = {l \in Tracked : Matches(meta[l], filter[t])}
    /\ pc' = [pc EXCEPT ![t] = "p_release"]
    /\ UNCHANGED <<device, backups, maps, mutex, toBackUp, exited, filter, made, view, client>>

\* The file of the slot, a new one on the first offload, Null for no file.
SlotFiles(m) ==
    IF m.backup # "disk" THEN {m.disk}
    ELSE IF m.disk # Null THEN {m.disk} ELSE {f \in Files : fileData[f] = Null}

PauseReleaseKeepsUnit(h) == UNCHANGED <<phys, content>>

PauseRelease(h) == ReleaseUnit(h)

\* The second loop unmaps and releases what the first has backed up.
PauseEntry(t, l) ==
    LET m == meta[l] IN
    /\ pc[t] = "p_release"
    /\ m.state = "ACTIVE" /\ m.ptr # Null
    /\ m.backup = "cpu" => m.cpu_backup # Null
    /\ m.backup = "disk" => Own \in access[m.ptr]
    /\ Accepted(mapping[m.ptr] # Null /\ m.physical_handle \in phys)
    /\ mapping' = [mapping EXCEPT ![m.ptr] = Null]
    /\ access' = [access EXCEPT ![m.ptr] = {}]
    /\ PauseRelease(m.physical_handle)
    /\ \E f \in SlotFiles(m) :
          /\ fileData' = [g \in Files |-> IF m.backup = "disk" /\ g = f
                                          THEN content[mapping[m.ptr]] ELSE fileData[g]]
          /\ meta' = [meta EXCEPT ![l] = [m EXCEPT !.state = "PAUSED", !.physical_handle = Null,
                                                   !.disk = f]]
    /\ todo' = todo \ {l}
    /\ expected' = IF m.backup = "none" THEN [expected EXCEPT ![m.ptr] = Junk] ELSE expected
    /\ UNCHANGED <<hostData, index, mutex, toBackUp, local, granted>>

\* The checks of pause end the process: an entry already paused, or one that is
\* between vmm_create and vmm_map, or between vmm_unmap and vmm_release.
PauseCheck(t) ==
    /\ \/ /\ pc[t] = "p_backup"
          /\ \E p \in toBackUp : /\ \A q \in toBackUp : p <= q
                                 /\ meta[index[p]].state # "ACTIVE"
       \/ /\ pc[t] = "p_release"
          /\ \E l \in todo : \/ meta[l].state # "ACTIVE" \/ meta[l].ptr = Null
                             \/ meta[l].backup = "cpu" /\ meta[l].cpu_backup = Null
    /\ Exit("check")

\* The loops of pause and resume return and give the lock back.
LoopReturn(t) ==
    /\ pc[t] \in {"p_release", "r_loop"} /\ todo = {}
    /\ mutex' = Null
    /\ filter' = [filter EXCEPT ![t] = Null]
    /\ pc' = [pc EXCEPT ![t] = "idle"]
    /\ UNCHANGED <<device, backups, maps, toBackUp, todo, exited, made, view, client>>

------------------------------------------------------------------------------
(* resume *)

ResumeBackedUpOnly(t, tagFilter) ==
    /\ pc[t] = "idle" /\ mutex = Null
    /\ \A p \in Pages : Readers(p) # {} => ~Matches(meta[index[p]], tagFilter)
    /\ mutex' = t
    /\ filter' = [filter EXCEPT ![t] = tagFilter]
    /\ todo' = {l \in Tracked : Matches(meta[l], tagFilter) /\ meta[l].cpu_backup # Null}
    /\ pc' = [pc EXCEPT ![t] = "r_loop"]
    /\ UNCHANGED <<device, backups, maps, toBackUp, exited, made, view, client>>

\* Nobody may still be reading a backup that this call frees.
Resume(t, tagFilter) ==
    /\ pc[t] = "idle" /\ mutex = Null
    /\ \A p \in Pages : Readers(p) # {} => ~Matches(meta[index[p]], tagFilter)
    /\ mutex' = t
    /\ filter' = [filter EXCEPT ![t] = tagFilter]
    /\ todo' = {l \in Tracked : Matches(meta[l], tagFilter)}
    /\ pc' = [pc EXCEPT ![t] = "r_loop"]
    /\ UNCHANGED <<device, backups, maps, toBackUp, exited, made, view, client>>

ResumedKeepsBackup(m, h) == [m EXCEPT !.state = "ACTIVE", !.physical_handle = h]
ResumedKeepsHandle(m, h) == [m EXCEPT !.state = "ACTIVE", !.cpu_backup = Null, !.cpu_backup_offset = 0]

Resumed(m, h) ==
    [m EXCEPT !.state = "ACTIVE", !.physical_handle = h, !.cpu_backup = Null, !.cpu_backup_offset = 0]

\* The recorded rights are replayed, the device's own when there are none.
ResumedAccessOwn(m) == {Own}
ResumedAccess(m) == IF m.access_descs = {} THEN {Own} ELSE m.access_descs

BackedUpWithoutOffset(m) ==
    IF m.cpu_backup # Null THEN hostData[m.cpu_backup][0]
    ELSE IF m.disk # Null THEN fileData[m.disk] ELSE Junk

BackedUpInHostOnly(m) == IF m.cpu_backup # Null THEN hostData[m.cpu_backup][m.cpu_backup_offset] ELSE Junk

BackedUp(m) ==
    IF m.cpu_backup # Null THEN hostData[m.cpu_backup][m.cpu_backup_offset]
    ELSE IF m.disk # Null THEN fileData[m.disk] ELSE Junk

ResumeEntry(t, l) ==
    LET m == meta[l] IN
    /\ pc[t] = "r_loop"
    /\ m.state = "PAUSED" /\ m.ptr # Null
    /\ m.backup = "cpu" => m.cpu_backup # Null
    /\ m.backup = "disk" => m.disk # Null
    /\ \E h \in Unused :
          /\ phys' = phys \cup {h}
          /\ mapping' = [mapping EXCEPT ![m.ptr] = h]
          /\ content' = [content EXCEPT ![h] = BackedUp(m)]
          /\ meta' = [meta EXCEPT ![l] = Resumed(m, h)]
    /\ access' = [access EXCEPT ![m.ptr] = ResumedAccess(m)]
    /\ Accepted(mapping[m.ptr] = Null)
    /\ KeepShared(hostData)
    /\ todo' = todo \ {l}
    /\ UNCHANGED <<fileData, index, mutex, toBackUp, local, client>>

ResumeCheck(t) ==
    /\ pc[t] = "r_loop"
    /\ \E l \in todo : \/ meta[l].state # "PAUSED" \/ meta[l].ptr = Null
                       \/ meta[l].backup = "cpu" /\ meta[l].cpu_backup = Null
                       \/ meta[l].backup = "disk" /\ meta[l].disk = Null
    /\ Exit("check")

------------------------------------------------------------------------------
(* get_cpu_backup_pointer *)

\* A client asks for a tensor: adjacent pages of one region, paused or active
\* as a whole.
Tensor(first, size) ==
    /\ first + size <= NumPages
    /\ \A p \in first .. first + size - 1 :
          /\ index[p] # Null
          /\ LET m == meta[index[p]]  n == meta[index[first]] IN
             m.tag = n.tag /\ m.backup = n.backup /\ m.state = n.state

\* The backups of the pages follow each other in one buffer.
OneBuffer(first, size) ==
    \A p \in first + 1 .. first + size - 1 :
        LET m == meta[index[p]]  n == meta[index[first]] IN
        m.cpu_backup = n.cpu_backup /\ m.cpu_backup_offset = n.cpu_backup_offset + (p - first)

HasCopy(m) == m.backup # "disk" /\ m.state = "PAUSED"

\* Otherwise a query of one page returns nullptr, which changes nothing.
QueryFound(t, first, size) ==
    LET m == meta[index[first]] IN
    /\ pc[t] = "idle" /\ mutex = Null /\ Tensor(first, size)
    /\ HasCopy(m) /\ m.cpu_backup # Null
    /\ size > 1 => OneBuffer(first, size)
    /\ view' = [view EXCEPT ![t] = [page |-> first, size |-> size, buf |-> m.cpu_backup,
                                    offset |-> m.cpu_backup_offset]]
    /\ pc' = [pc EXCEPT ![t] = "q_read"]
    /\ UNCHANGED <<device, backups, maps, lock, exited, filter, made, client>>

QueryLostContent(t, first, size) ==
    /\ pc[t] = "idle" /\ mutex = Null /\ Tensor(first, size)
    /\ HasCopy(meta[index[first]]) /\ meta[index[first]].cpu_backup = Null
    /\ size = 1 \/ meta[index[first]].backup = "cpu"
    /\ Exit("check")

\* A query over several handles goes on past the first only when that one is
\* paused and backed up in host memory.
QueryNotFound(t, first, size) ==
    LET m == meta[index[first]] IN
    /\ pc[t] = "idle" /\ mutex = Null /\ Tensor(first, size)
    /\ size > 1
    /\ \/ m.state # "PAUSED" \/ m.backup # "cpu"
       \/ m.cpu_backup # Null /\ ~OneBuffer(first, size)
    /\ Exit("not_found")

QueryDone(t) ==
    /\ pc[t] = "q_read"
    /\ view' = [view EXCEPT ![t] = Null]
    /\ pc' = [pc EXCEPT ![t] = "idle"]
    /\ UNCHANGED <<device, backups, maps, lock, exited, filter, made, client>>

------------------------------------------------------------------------------
(* The rest of the program *)

\* A client writes memory it was given access to, and not while a pause or a
\* resume covers it.
Write(p, v) ==
    /\ index[p] # Null /\ mapping[p] # Null /\ Own \in granted[p]
    /\ \A t \in Threads : pc[t] \in {"p_backup", "p_release", "r_loop"}
                             => ~Matches(meta[index[p]], filter[t])
    /\ content' = [content EXCEPT ![mapping[p]] = v]
    /\ expected' = [expected EXCEPT ![p] = v]
    /\ Accepted(Own \in access[p])
    /\ UNCHANGED <<phys, mapping, access, backups, maps, lock, local, granted>>

\* CUDA_ERROR_CHECK and CURESULT_CHECK end the process when a call fails, for
\* want of memory or for any other reason.
Fails(t) ==
    /\ \/ pc[t] = "p_backup" /\ toBackUp # {}
       \/ pc[t] \in {"p_release", "r_loop"} /\ todo # {}
    /\ Exit("error")

Step(t) ==
    \/ VmmRegister(t) \/ BackUpRun(t) \/ BackUpDone(t) \/ PauseCheck(t) \/ LoopReturn(t)
    \/ \E l \in todo : PauseEntry(t, l) \/ ResumeEntry(t, l)
    \/ ResumeCheck(t) \/ QueryDone(t)

Call(t) ==
    \/ VmmCreateBothBackups(t)
    \/ \E tag \in Tags, backup \in BackupModes : VmmCreate(t, tag, backup)
    \/ \E tagFilter \in Tags \cup {Null} : Pause(t, tagFilter) \/ Resume(t, tagFilter)
    \/ \E first \in Pages, size \in 1 .. NumPages :
          \/ QueryFound(t, first, size) \/ QueryLostContent(t, first, size)
          \/ QueryNotFound(t, first, size)

LockedCall ==
    \/ \E l \in Logical : VmmRelease(l) \/ VmmUsePaused(l) \/ \E p \in Pages : VmmMap(l, p)
    \/ \E p \in Pages : VmmUnmap(p) \/ UntrackedMap(p) \/ UntrackedUnmap(p)
    \/ \E first, last \in Pages, dev \in Devices : first <= last /\ VmmSetAccess(first, last, dev)
    \/ \E p \in Pages, v \in Values : Write(p, v)

Terminated == exited # "no" /\ UNCHANGED vars

Next ==
    \/ exited = "no" /\ \E t \in Threads : Step(t) \/ Call(t) \/ Fails(t)
    \/ exited = "no" /\ LockedCall
    \/ Terminated

Spec == Init /\ [][Next]_vars

------------------------------------------------------------------------------
(* Properties *)

\* A page is in vmm_mapping_index_ exactly when the entry of its handle says it
\* is mapped there (core.cpp:273-283, 339-343, 360-362): every lookup of one map
\* through the other finds the entry it means.
MapsAgree ==
    /\ \A p \in Pages : index[p] # Null => index[p] \in Tracked /\ meta[index[p]].ptr = p
    /\ \A l \in Tracked : meta[l].ptr # Null => index[meta[l].ptr] = l

\* What an entry says of the device: an active handle has a unit, which is the
\* one mapped at its page; a paused one has none, and its page is unmapped.
MatchesDevice(m) ==
    /\ m.state = "ACTIVE" => /\ m.physical_handle \in phys
                             /\ m.ptr # Null => mapping[m.ptr] = m.physical_handle
    /\ m.state = "PAUSED" => /\ m.physical_handle = Null
                             /\ m.ptr # Null => mapping[m.ptr] = Null

\* What the entries say of the device is so (core.cpp:525-528, 606-641), whatever
\* was mapped, unmapped, paused and resumed.
HandlesMatchDevice == \A l \in Tracked : MatchesDevice(meta[l])

\* Who will release a unit: the entry of an active handle, a vmm_create that is
\* about to make one, or PyTorch for a page it mapped outside a region.
Owners(h) ==
    {<<"entry", l>> : l \in {k \in Tracked : meta[k].physical_handle = h}}
    \cup {<<"call", t>> : t \in {u \in Threads : made[u] # Null /\ made[u].physical_handle = h}}
    \cup {<<"page", p>> : p \in {q \in Pages : index[q] = Null /\ mapping[q] = h}}

\* No device memory is lost or released twice over any sequence of calls
\* (core.cpp:363-365, 526): a unit has one owner, and only one.
UnitsAccounted == \A h \in phys : \E o \in Owners(h) : Owners(h) = {o}

\* Host memory is held for as long as it is needed (core.cpp:472-482, 633): when
\* no pause or resume runs, a handle holds a buffer exactly when it is paused
\* with a host backup, and a buffer nobody holds is freed.
HostMemoryAccounted ==
    /\ mutex = Null => \A l \in Tracked : meta[l].cpu_backup # Null
                                          <=> meta[l].state = "PAUSED" /\ meta[l].backup = "cpu"
    /\ \A b \in Bufs : hostData[b] # Blank => InUse(b)

\* A backup file exists as long as its handle and no longer (core.cpp:367-369):
\* every file is in the slot of one entry.
BackupFilesAccounted ==
    \A f \in Files : fileData[f] # Null <=> \E l \in Tracked : meta[l].disk = f

\* What a page holds, wherever its bytes are.
HoldsContent(p, v) ==
    LET m == meta[index[p]] IN
    IF m.state = "ACTIVE" THEN content[m.physical_handle] = v
    ELSE IF m.backup = "cpu" THEN hostData[m.cpu_backup][m.cpu_backup_offset] = v
    ELSE m.backup = "disk" /\ fileData[m.disk] = v

\* The bytes of a page with a backup survive every pause and resume, and those
\* of any page the calls that do not concern it (core.cpp:449-528, 625-637).
ContentKept ==
    \A p \in Pages : expected[p] # Junk => index[p] # Null /\ HoldsContent(p, expected[p])

\* Who was told that he may access a page can access it whenever it is mapped:
\* resume replays what cuMemSetAccess was asked for (core.cpp:296-318, 608-623).
AccessRestored ==
    \A p \in Pages : index[p] # Null /\ mapping[p] # Null => granted[p] \subseteq access[p]

\* "A single PyTorch tensor may span several expandable-segment handles, and
\* get_cpu_backup_pointer() must still be able to return one zero-copy CPU view"
\* (core.cpp:444-447): when no call runs, the backups of adjacent pages of a
\* paused region follow each other in one buffer.
TensorInOneBuffer ==
    mutex = Null =>
        \A first \in Pages, size \in 2 .. NumPages :
            Tensor(first, size) /\ meta[index[first]].backup = "cpu"
                /\ meta[index[first]].state = "PAUSED" => OneBuffer(first, size)

\* The view get_cpu_backup_pointer returned shows the tensor as long as the
\* client may read it, whatever other handles are unmapped and released
\* meanwhile (core.cpp:499, 692-722).
ViewFaithful ==
    \A t \in Threads : pc[t] = "q_read" =>
        \A i \in 0 .. view[t].size - 1 :
            expected[view[t].page + i] # Junk =>
                /\ view[t].offset + i \in Pages
                /\ hostData[view[t].buf][view[t].offset + i] = expected[view[t].page + i]

\* The driver never rejects a call: no unit is unmapped, released or mapped that
\* is not what the entry says (core.cpp:336, 357, 525-526, 609-616).
NoDriverError == exited # "driver_error"

\* When pause returns, every handle of its tag is paused, and when resume
\* returns, active (core.cpp:510-530, 595-644); a handle vmm_create makes
\* meanwhile is not among them, because it waits for the lock.
PauseReleases ==
    [][\A t \in Threads :
           pc[t] = "p_release" /\ pc'[t] = "idle"
               => \A l \in Tracked' : Matches(meta'[l], filter[t]) => meta'[l].state = "PAUSED"]_vars

ResumeRestores ==
    [][\A t \in Threads :
           pc[t] = "r_loop" /\ pc'[t] = "idle"
               => \A l \in Tracked' : Matches(meta'[l], filter[t]) => meta'[l].state = "ACTIVE"]_vars

\* A pause or resume of one tag leaves the handles of the others as they are
\* (core.cpp:458, 490, 511, 596), adjacent pages included.
OtherTagsUntouched ==
    [][\A t \in Threads :
           mutex = t /\ filter[t] # Null
               => \A l \in Tracked : meta[l].tag # filter[t] => meta'[l] = meta[l]]_vars

\* Every question about a tensor of the memory saver is answered, by a view or by
\* nullptr ("callers must use the resumed GPU tensor", core.cpp:664), the way
\* the branch for one handle does it (core.cpp:689-690).
QueryAnswered == exited # "not_found"
==============================================================================

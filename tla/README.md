# TLA+ specification and proofs of torch_memory_saver

torch_memory_saver lets a training process give the GPU memory of chosen
tensors back (`pause`) and take it again (`resume`) without moving them: it
intercepts the allocation calls of PyTorch, allocates through CUDA's virtual
memory management, and on a pause releases the physical memory while the
virtual address stays reserved. This directory specifies the program in TLA+,
checks the specification with TLC on small instances, and proves the main
safety properties with TLAPS for every size of the instance. Source references
below are relative to the repository (`core.cpp` is `src/csrc/core.cpp`,
`entrypoint.py` is `src/torch_memory_saver/entrypoint.py`).

## Inventory

| Part | State | Operations | Correct when |
|---|---|---|---|
| Allocator core, cudaMalloc path (`core.cpp`, `core.h`) | `allocation_metadata_` (address -> entry), `allocator_metadata_mutex_`, `memory_margin_bytes_`, driver state | `malloc`, `free`, `pause`, `resume`, `get_cpu_backup_pointer`, `set_memory_margin_bytes` | entries tell the truth about the device; nothing leaks; contents survive; a view of a backup stays valid; pause and resume do all they promise |
| Host backups (`core.cpp:9-68`) | one buffer per paused entry and how it was obtained | `allocate_cpu_backup`, `free_cpu_backup` | the deallocator fits the buffer in every cycle |
| Disk backend (`disk_backend.cpp`) | one file per slot, a staging buffer shared by all, the directory | `offload`, `onload`, `release`, `set_dir` | one file per allocation, reused by every pause, gone after the free; the file holds the whole tensor and no other's data |
| Expandable segments, VMM path (`core.cpp:195-389, 443-531, 595-645, 678-722`) | `vmm_allocation_metadata_` (logical handle -> entry), `vmm_mapping_index_` (address -> logical handle) | `vmm_create/map/set_access/unmap/release/export`, VMM halves of pause, resume and query | logical handles stay valid over pause and resume; both maps agree; one view over several handles |
| ROCm 6.x allocator (`hardware_amd_support.cpp`) | entries with a list of chunks | `rocm_malloc/free/pause/resume` | as the core, and no chunk is lost |
| Thread-local configuration, C API (`entrypoint.cpp`) | per thread: tag, interesting region, the two backup switches, each initialised from the environment on first use | hooks `cudaMalloc`, `cudaFree`, `tms_torch_malloc/free`; `tms_*` setters | an allocation is tracked, tagged and backed up as the region it was made in asks |
| Python interface (`entrypoint.py`, `binary_wrapper.py`) | the memory pools, the saved configuration of nested regions, PyTorch's `expandable_segments` setting | `region`, `cuda_graph`, `disable`, `pause`, `resume`, `get_cpu_backup`, `configure_subprocess` | the configuration is restored on every way out; an allocation that is served from the cache gets memory of its own tag and switch |
| Caching allocator of PyTorch | blocks by pool and stream | reached through the hooks and the pools | external, as its use in `src/` shows |
| Wrappers (`utils.h`, `macro.h`, `api_forwarder.cpp`) | none but cached function pointers | driver calls; rounding of sizes; macros that end the process | every failed call ends the process; rounding covers the request |
| Build, packaging, tests, `utils.py`, `hooks/` | none | | not modelled |

**Interaction.** Python sets the thread-local configuration through the C API.
PyTorch calls the hooked `cudaMalloc`/`cudaFree` (or the hooked VMM functions
when expandable segments are on), which read that configuration and call the
one `TorchMemorySaver` of the process. `pause`, `resume` and queries come from
any thread and go through the same mutex. The disk backend and the host buffers
are reached only from the allocator.

**What is hard.** The mutex guards the two maps, not the driver: `malloc` does
its driver calls before it takes the lock, `free` after it gave it up
(`core.cpp:117-136`, `155-181`), so the maps and the device disagree while a
call is under way, and the question is who can see it. A query returns a raw
pointer that is used after the lock is gone. The loops of `pause` and `resume`
leave the process on any unexpected state, with the earlier entries already
changed. Backup buffers are obtained in one call and freed in a later one by a
recorded kind. A tensor on its way to the disk passes in parts through a buffer
that every other tensor uses too. An allocation is rarely served by the hooks:
mostly the caching allocator reuses a block that was made in some earlier
context. The full list, with lines and the property that covers each, is
`hazards` in `PROJECT.json`.

## Modules

| Module | Contents | Checked by | Proofs |
|---|---|---|---|
| `PauseableMemory` | what a client is promised: tensors, pause and resume as single steps; no handles, buffers, files or locks | (abstract) | |
| `Allocator` | the cudaMalloc path: all operations, the device, host buffers and files, the clients | `Allocator*.cfg` | `AllocatorProofs` |
| `AllocatorInv` | `IInv`, the inductive invariant of `Allocator` | `AllocatorDisk` | |
| `AllocatorRefinement` | the mapping under which `Allocator` implements `PauseableMemory` | `AllocatorDisk` | `AllocatorRefinementProofs` |
| `PairedClient` | `Allocator` composed with clients that resume what they pause; `PairedInv` | `PairedClient` | `PairedClientProofs` |
| `Expandable` | the VMM path: all operations, both maps, the driver, shared host buffers, files, access rights, the clients | `Expandable*.cfg` | `ExpandableProofs`, `ExpandableBackupProofs` |
| `ExpandableInv` | `IInv`, the inductive invariant: `CoreInv` of its maps, units, files and rights, `BackupInv` of the bytes of backups | `ExpandableCpu` | |
| `DiskBackend` | offload, onload, release and set_dir system call by system call, with the pauses, resumes and frees around them; `IInv` | `DiskStream` | `DiskBackendProofs` |
| `RocmChunked` | the ROCm 6.x allocator, chunk by chunk, and its mapping to `PauseableMemory` | `RocmChunks`, `RocmFreePaused` | `RocmChunkedProofs` |
| `RocmChunkedInv` | `IInv`, the inductive invariant of `RocmChunked` | `RocmChunks` | |
| `Sizes` | the arithmetic of size_t: rounding, margin, chunks | with `RocmChunked` | `RocmChunkedProofs` |
| `Regions` | contexts, thread-local configuration, hooks and PyTorch's cached blocks | `Regions` | `RegionsProofs` |
| `RegionsInv` | `IInv`, the inductive invariant of `Regions` | `Regions` | |
| `MC*` | symmetry and definitions for the `.cfg` files | | |

The cudaMalloc and the VMM path share the mutex and the calls `pause`, `resume`
and `get_cpu_backup_pointer`, which treat `allocation_metadata_` first and the VMM
maps after it. `Allocator` and `Expandable` each have their own half of these calls.
Without expandable segments PyTorch never calls the VMM hooks, and with them it calls
`cudaMalloc` in a region only while another thread is within `disable()`, since the
setting is the process's: then both maps have entries (`Regions` has these blocks).
Treating the halves apart loses nothing even so: they share no entry and no handle,
and the loops of both run under one lock. On ROCm 6.x
`core.cpp` hands the calls to `RocmChunked`'s functions altogether.

How the modules fit together: `Regions` says with which tag and switch the hooks
call `malloc`; `Allocator` and `RocmChunked` take any of them and do what
`PauseableMemory` says; `PairedClient` says which clients never meet the exits of
`PauseableMemory!Misuse`; `DiskBackend` opens up what `PauseToDisk`,
`ResumeFromDisk` and `FreeBackup` of `Allocator` do in one step, and its
`ContentKept` and `FilesAccounted` are what those steps rely on.

### Allocator

*State.* `meta` is `allocation_metadata_`, a function from addresses with `Null`
where the map has no entry; an entry keeps `tag`, `state`, the backup switch
(`enable_cpu_backup` and `enable_disk_backup` as one of `"none"`, `"cpu"`,
`"disk"`), `cpu_backup`, `cpu_backup_kind`, the disk slot and `allocHandle`.
`mutex` and `todo` are the lock and the entries the loop of its holder has not
visited: the order of an `unordered_map` is arbitrary, so any of them may be
next. `phys`, `content`, `reserved` and `mapping` are the device; `hostKind` and
`hostData` the host allocator, with the kind a buffer was *really* obtained as
kept apart from the kind its entry records; `fileData` the disk. `pc`, `filter`,
`ptr`, `md` and `view` are the locals of the calls in progress. `owned` and
`expected` are what the clients know: which addresses they have been given, and
the bytes they may rely on.

*Grain.* A call is a sequence of actions, cut where other threads can tell:

| Code | Actions |
|---|---|
| `malloc` | `MallocCall` (margin) - `MallocCreate` (create, reserve, map, unlocked) or `MallocOutOfMemory` - `MallocRegister` (locked) |
| `cudaMalloc` outside a region | `UntrackedMalloc` |
| `free` | `FreeCall` - `FreeUntracked` or `FreeLookup` (locked) - `FreeDevice` (unlocked) - `FreeBackup` (unlocked) |
| `pause` | `PauseCall` - `PauseLock` - one of `PauseNoBackup`, `PauseToHost`, `PauseToDisk` per entry - `PauseReturn`; `PauseNotActive` |
| `resume` | `ResumeCall` - `ResumeLock` - one of `ResumeNoBackup`, `ResumeFromHost`, `ResumeFromDisk` per entry - `ResumeReturn`; `ResumeNotPaused` |
| `get_cpu_backup_pointer` and its caller | `QueryCall` - `QueryFound` - `QueryDone`, or `QueryNoCopy`, `QueryLostContent`, `QueryNotFound` |
| failing checks | `exited` says why the process left; `OutOfResources` and `CudaFails` are the ways out that need no bug |

What the lock holder does to one entry is one step: its driver calls concern the
entry's own address, unit and backup, and every other call that reads them needs
the lock. A driver or host-allocator call whose precondition does not hold sets
`exited` to `"driver_error"`, which `NoDriverError` says never happens.

*Abstraction.* All allocations have the same size, one unit; a query names a
whole allocation; memory nobody wrote holds `Junk`.

*Contracts of the clients*, stated as guards of their calls and nowhere else.
A client frees what it owns once, and not while it queries it (`FreeCall`). It
does not write memory that a pause or a resume in progress covers (`Settled`):
`pause` does not synchronise the device, unlike `free` (`core.cpp:166`). It does
not resume what is being queried, nor query what is being resumed (`ResumeCall`,
`QueryCall`): `get_cpu_backup` clones through a pointer that `resume` frees.
Nothing restrains when clients pause, malloc, or resume otherwise, so the exits
for "not active" and "not paused" are reachable in the model as they are in the
program.

### PauseableMemory and AllocatorRefinement

To a client a pause takes the memory of all tensors of a tag away in one step and
a resume brings all of it back in one step, with the content if there is a backup.
The code does it entry by entry, with host buffers and files in between, while
other threads are inside the unlocked halves of `malloc` and `free`.
`AllocatorRefinement` maps the state: a tensor exists when its entry does (it
appears with `MallocRegister`, disappears with `FreeLookup`); while a loop runs, an
entry it has visited still counts as being in the state it was found in, so that
the change happens for all at `PauseReturn` or `ResumeReturn`; the content is
wherever the bytes are (device, buffer or file). `Misuse` of the abstract module
has a guard: the process may end with "not active" only if a tensor the call
covers *is* paused. An exit for a driver error has no counterpart at all.

### PairedClient

The exits of pause and resume for entries in the wrong state raise the question
which clients are safe from them. `PairedClient` conjoins each action of
`Allocator` with a variable `phase`, the place of each tag in the cycle up -
pausing - down - resuming, as `test/examples/rl_example.py` goes through it. Two
rules turn out to be enough: a call moves all the tags it is about from the same
phase, and no thread is inside a `malloc` of a tag when a pause of it is called
(`NoMallocUnder`; the mutant that only looks at mallocs about to be registered
fails). Frees, queries, unfiltered pauses and work on other tags may happen at any
time.

### Expandable

*State.* `meta` is `vmm_allocation_metadata_` by logical handle, `index` is
`vmm_mapping_index_` by page, `Null` where they have no entry; `phys`, `mapping`,
`access` and `content` are the device. A page is what one handle backs, and the
pages of the segment are numbers, so that `p` and `p + 1` are adjacent as
`range_end->first == backup_begin + backup_size` means it. A host buffer belongs
to every entry whose `cpu_backup` is that buffer (a `shared_ptr`) and is blank
when the last one lets go (`KeepShared`). `toBackUp` is what is left of the first
loop of `pause` (an ordered walk of the index), `todo` of the second and of
`resume` (an `unordered_map`, any order). `granted` is what PyTorch was told about
access, `expected` the bytes a page must have.

*Grain.* `vmm_map`, `vmm_set_access`, `vmm_unmap`, `vmm_release`, the export and
the query hold the lock from their first access to their last: one action each.

| Code | Actions |
|---|---|
| `vmm_create` | `VmmCreate` (before the lock) - `VmmRegister`; `VmmCreateBothBackups` |
| `vmm_map` / `vmm_set_access` / `vmm_unmap` / `vmm_release` | `VmmMap` / `VmmSetAccess` / `VmmUnmap` / `VmmRelease` |
| `vmm_map` or export of a paused handle | `VmmUsePaused` |
| the hooks outside a region, and calls with a handle that has no entry | `UntrackedMap`, `UntrackedUnmap` |
| `pause` | `Pause` - `BackUpRun` per run of adjacent pages - `BackUpDone` - `PauseEntry` per entry - `LoopReturn`; `PauseCheck` |
| `resume` | `Resume` - `ResumeEntry` per entry - `LoopReturn`; `ResumeCheck` |
| `get_cpu_backup_pointer` and its caller | `QueryFound` - `QueryDone`; `QueryLostContent`, `QueryNotFound` |
| a driver or file error | `Fails` |

A query that returns `nullptr` and an export of an active handle change nothing
and are no actions.

*Contracts of the clients.* PyTorch unmaps a handle before it releases it, sets
the rights only of pages it has mapped and its own device's first. A reader of a
view does not unmap the tensor or resume its region (as in `Allocator`), but other
handles of the same buffer may be unmapped and released under it. A tensor lies in
pages of one tag, one backup mode and one state: a tensor half of which was mapped
after the pause would be one that was allocated in a paused region.

### DiskBackend

*State.* A tensor is `SizeOf[s]` units, a chunk `ChunkSize` of them. `gpu`,
`files` and `staging` hold bytes per unit; a file also has `stored`, what would be
left of it if the page cache were dropped, and `linked`, whether its name is still
there while it is open. `call`, `step`, `slot`, `offset` and `done` are where the
holder of the lock is.

| Code | Actions |
|---|---|
| `offload`, `onload` (`disk_backend.cpp:123-209`) | `Begin` (the staging buffer) - `CreateSlotFile`, `OpenSlotFile` or `OpenFails` |
| one chunk of `stream_chunked` | `CopyOut` - `WriteSome` until it is complete; `ReadSome` until it is complete - `CopyIn` |
| the end, and what pause and resume do next | `EndOffload`, `EndOnload` (`fsync`, `posix_fadvise`, state of the entry) |
| `free` and `release` | `Free` (locked) - `Release` (unlocked) |
| `set_dir` | `SetDir` |
| `EINTR`; a failing call; somebody who removes files | `Interrupted`; `CallFails`; `FileLost` |

Each unit a client writes is marked with its position, so that data of another
place or tensor shows. The entries of one pause are calls of their own here, with
others allowed in between, which is more behaviour than the loops have. A call
writes only to its own slot's file because that file is open; a name that is
unlinked meanwhile is gone when it is closed.

### RocmChunked and Sizes

The same clients and phases of calls as in `Allocator`, with what is different in
`hardware_amd_support.cpp`: an allocation is a sequence of chunks, each with a unit
of its own; the host buffer of the first pause is kept over the resume and used
again; there is no margin, no disk and no out-of-memory result; `rocm_free` neither
looks at the state nor passes on an address it does not know. `ClientMay` says
whether clients do the latter two things. `Sizes` is the arithmetic under it with
wrap-around at `Limit`: `NumChunks(AlignedSize(raw, g))` is how many chunks a
request gets, for a granularity of the driver that divides the chunk.

### Regions

*State.* `config` is `thread_local_config` of each thread, `frames` its stack of
contexts (`region`, `cuda_graph`, `disable` and the client's plain `torch.cuda.graph`),
each with the configuration it saved and the one it asked for, and the pool and the
stream it put allocations in; `purpose` is how the first graph in a pool was to be
tracked; `setting` is PyTorch's `expandable_segments`; `blocks` are the blocks of the
caching allocator, each with the pool and the stream it was made for, how
`TorchMemorySaver` tracks it, and who uses it. `environment` is what the process was
started with (the hook mode, `TMS_INIT_ENABLE*`, expandable segments) and what its
clients do: use regions or graphs within `disable()`, share a graph's pool at will.

`EnterRegion`, `EnterGraph`, `ExitRegion`, `EnterDisable` and `ExitDisable` are the
halves of the context managers; an exception in the block leaves through the same half.
`EnterGraph` takes any of the client's `GraphPools` and any stream, as `cuda_graph` hands
`pool=` and `stream=` of its caller to `torch.cuda.graph` (`entrypoint.py:44-57, 177-182`);
a graph without them has a pool nobody else uses. `EnterPlainGraph` and `ExitPlainGraph`
are graphs that PyTorch captures in such a pool without `cuda_graph`; `DropPool` is the
end of the last graph of a pool. `Fits` is the rule `TrackedAsAsked` needs of clients: a
graph goes into a new pool, or into one whose first graph was tracked as this one will
be. With `SharePools` clients do not keep it. `NewBlock` is a call of the hook, `Reuse` an allocation that is served from the
cache without one, `Cache` the end of a tensor, `GiveBack` an `empty_cache`.
`TorchMallocRefused` is the check of `tms_torch_malloc`. The innermost pool and the
innermost stream count, which is an assumption about PyTorch on which the code
relies.

## Runs

| Run | Instance | States | Shows |
|---|---|---|---|
| `AllocatorCpu` | 2 threads, 2 addresses, 2 units, 2 buffers, 2 kinds, 2 tags, backup none or cpu | 1.92 M | entries, device, host buffers, contents and views agree in every interleaving |
| `AllocatorDisk` | the same threads and addresses, all three backups, 1 buffer, 2 files | 371 k | `IInv` of the proofs; files are accounted for; `Allocator` implements `PauseableMemory`; the ways out for want of resources |
| `AllocatorMargin` | 1 thread, 3 addresses, margins 0 to 2 | 42 k | a malloc that succeeds leaves the margin; the check against two backups at once |
| `AllocatorLive` | 2 threads, `FairSpec` | 32 k | the lock is given back; calls end |
| `PairedClient` | 3 threads, 2 addresses, 2 tags | 290 k | clients that pair their calls never end in a misuse exit; `PairedInv` of the proofs |
| `ExpandableCpu` | 2 threads, 2 pages, handles, units and buffers, 2 tags, 2 devices, 2 values, backup none or cpu | 1.27 M | maps, device, host memory, contents, access and what pause and resume promise; `IInv` of the proofs |
| `ExpandableDisk` | 1 thread, 3 pages and handles, one tag, backup cpu, disk or both, 1 file | 2.44 M | a tensor over three handles has one view, which stays true; files and contents |
| `ExpandableQuery` | violation | | a query of a disk-backed tensor over two handles exits |
| `DiskStream` | a tensor of a chunk and a half and one smaller than a chunk, 2 files, 2 directories, 2 values, short transfers, lost files | 383 k | contents and files, at every point of a transfer; calls end |
| `RocmChunks` | 2 threads, 2 ranges, 2 units, allocations of one and two chunks, granularities 1 and 2 | 256 k | no chunk and no buffer is lost; it implements `PauseableMemory`; `IInv` of the proofs |
| `RocmFreePaused` | violation | | freeing a paused allocation ends the process |
| `Regions` | 2 threads, 1 block, 1 graph pool, contexts two deep, five environments | 664 k | configuration, tracking and setting follow the contexts; `IInv` of the proofs |

*Bounds.* Every interaction in the allocators is between one entry and another, or
an entry and one call in progress: two threads and two addresses make each pair.
Two units and two buffers are as many as two entries hold, so that a shared or
leaked one is noticed and running out happens too. Two tags separate what a
filter matches from what it does not. One written value besides `Junk` is enough
to tell kept content from lost content, and which buffer holds it is told by the
buffers being distinct; in `Expandable`, where pages share a buffer, there are two
values. Two pages are enough for a run, a gap and a boundary between two tags;
three show that a run is not merely a pair. Two devices tell the recorded rights
from the default ones. `PairedClient` has a third thread, for a pause, a resume and
a malloc at once, and its own properties do not depend on the backups. A tensor of
three units in chunks of two has a full and a partial chunk, and a transfer of one
unit is short in the first; the other tensor makes the staging buffer shared. In
`Regions` every property is about one block at a time, and blocks do not affect each
other: one block is made in one context and reused in another, of the same thread or
the other one; two contexts per thread are one nested in another, or one after it; one
graph pool goes from one graph to the next, or to two graphs at once.
The counterexamples of the mutants in `PROJECT.json` show that each property can
fail in these bounds. Symmetry is used in the safety runs only, the refinements
among them. Deadlock is checked: `Terminated` is the only way to stop for ever,
after an exit.

*Fairness.* `FairSpec` of `Allocator` has weak fairness of each thread's own steps,
which is what a fair scheduler gives; it does not promise that a thread waiting for
the mutex gets it while others keep taking it, so `QuietWhenCallsStop` is claimed
for clients that stop calling. `FairSpec` of `DiskBackend` has weak fairness of the
steps of the holder of the lock other than `Interrupted`: `EINTR` does not repeat for
ever. No fairness is assumed of clients.

## Findings

`ExpandableQuery`: "Disk-backed allocations have no CPU-resident copy; callers
must use the resumed GPU tensor" (`core.cpp:664`), and a query of one returns
`nullptr`. But for a tensor over several VMM handles only the case of a paused
handle with a host backup is handled (`core.cpp:697-698`); a disk-backed or active
tensor of more than one handle ends the process (`core.cpp:725-728`), and whether a
tensor has more than one handle is not up to the client.

`RocmFreePaused`: `rocm_free` unmaps and releases every chunk whatever the state of
the allocation (`hardware_amd_support.cpp:230-231`), where `free` of the other path
checks it (`core.cpp:168`). A pause has done both already, the driver refuses, and
the process ends. `test/examples/training_engine.py:74-76` counts on paused segments
being freed by `disable()`.

### What the passing runs exclude, and why

These are behaviours the model has, or would have, in which a property fails; the
run leaves them out by a constant, or the property is claimed of the rest.

- The result of `fsync` is not looked at (`disk_backend.cpp:67`). With `"writeback"` in
  `Faults`, pages that were never written are dropped after a successful offload, and
  a resume restores something else without an error: `ContentKept` of `DiskBackend`
  fails. The run and the theorems are about a disk that stores what it is given.
- `free` calls `disk_backend_.release` without the lock (`core.cpp:179-181`), although by
  the comment at `core.h:140` the lock guards the backend. It is harmless, as
  `DiskBackend` (where `Release` runs at any time) and its proof show: release works on
  the slot that `free` has copied.
- Files of paused tensors stay in the directory when the process is killed: only
  `release` unlinks (`core.h:127` keeps the slots in memory). The model ends with the
  process.
- `rocm_free` of an address that is not in the map ends the process
  (`hardware_amd_support.cpp:225`), where `free` passes it to the real `cudaFree`. It is
  modelled (`FreeUnknown`) and reachable.
- With expandable segments there are no pools (`entrypoint.py:160`), so a free block of
  one tag may serve a region of another tag: `TrackedAsAsked` is claimed of the other
  environments only.
- `cuda_graph` promises "ensures memory in it to be pauseable" (`entrypoint.py:50`) and
  takes any pool from its caller (`entrypoint.py:44-57, 177-182`). When graphs of different
  tags or backups share a pool, or a plain `torch.cuda.graph` shares one with a
  `cuda_graph`, the later graph may get a free block that was made for the earlier one and
  is paused under its tag, with its backup, or not at all. Nothing in the code or its docs
  asks clients not to do this. It is modelled (`SharePools`); `TrackedAsAsked` is claimed of
  clients that use a pool for graphs of one tag and backup, as `Fits` says.
- A `region` or a graph within `disable()` (`entrypoint.py:236`) makes tracked blocks on the
  untracked stream, which later allocations within `disable()` get: `DisabledUntracked` and
  `TrackedAsAsked` are claimed of clients that do not nest this way.
- The untracked stream belongs to `_TorchMemorySaverImpl` (`entrypoint.py:136`): clients are
  assumed not to look it up and capture a graph on it, so `GraphStreams` is without it.
- Two overlapping `disable()` of different threads (`entrypoint.py:246`): the first to leave
  turns `expandable_segments` on for the other, which is still inside. The setting is
  right once both have left, which is what `SettingRestored` says. Of the sentence in
  the repository's `README.md:107-108` it checks "restored afterwards" only; that the disabled window creates
  ordinary segments does not hold of overlapping ones.
- `malloc` tests the margin without the lock (`core.cpp:107`), so of two at once both may
  pass: `MarginKept` is claimed of one thread, and no property covers two.
- `TMS_DISK_BACKUP_CHUNK_MB` is not checked (`disk_backend.cpp:82`): a value that wraps to a
  chunk of 0 bytes makes `stream_chunked` loop for ever. `DiskAssumption` requires a
  positive chunk.
- The margin and the size are added in 64 bits (`core.cpp:107`): `MarginIsLeft` is about sums
  that fit.

## Proofs

`AllocatorProofs` proves, with only the assumptions of `AllocatorAssumption`
(`Null` and `Junk` are not values of the other kinds, `Handles` is finite, kinds
and switches are known ones), that every reachable state satisfies `IInv`, and
from it the safety properties of `Allocator`: `StateMatchesDevice`,
`DeviceAccounted`, `HostAccounted`, `FilesAccounted`, `ContentKept`,
`BackupViewFaithful`, `NoDriverError`, and the action properties that a pause
releases and a resume restores all it is about.

The properties are not inductive by themselves: they say nothing of the calls in
progress, whose next step can break them. `IInv` adds, besides types and the
locals at each label (`LocalInv`):
- `AddressInv`: the address a malloc or a free works on belongs to no entry and
  no other call. This is why the unlocked halves of `malloc` and `free` are safe,
  and why `emplace` never meets an old entry.
- `MappingInv`: units and mapped addresses are one to one, and the record a free
  copied, or a malloc is about to register, agrees with the device like an entry.
- `BackupInv`, `LeakInv`: entries and frees in progress own their buffers and
  files, one each, of the recorded kind, and nothing else is in use.
- `LoopInv`: what a loop has left to do, and the state of what it has done; with
  nothing left it gives the action properties of pause and resume.
- `ViewInv`: what is queried is neither freed nor resumed.
- `ContentKept` and `NoDriverError` themselves.

There is one lemma per part (`TypeStep`, `AddressStep`, ...), with one step per
action. The steps of the loops go through lemmas about entries, which
replace nested record updates by facts about fields. `Inductive` puts the parts
together, `Invariance` adds the temporal step.

`AllocatorRefinementProofs` proves `Spec => ImplementsMemory`, with
`RefinementAssumption` (`Null` is not a tensor or a request) besides. Every step of
`Allocator` either leaves the mapped state alone (`QuietStepStutters`,
`PauseEntryStutters`, `ResumeEntryStutters`, ...: the bytes move, but stay the bytes
of the same tensor) or is one step of `PauseableMemory` (`MallocRegisters`,
`FreeLooksUp`, `PauseIsCalled`, `PauseIsPerformed`, `MisuseEnds`, ...). `IInv` of the
state before gives that buffers and files are not shared, that only one loop runs,
and that an exit for misuse has a witness.

`PairedClientProofs` first shows that a paired client is a client of `Allocator`, so
that `IInv` holds of it, and then that `PairedInv` is inductive next to it.
`CallsInv` says that no two calls in progress are about the same tag and that mallocs
are of tags that are up; `AheadInv` says what the entries ahead of a call are like
before it has the lock, which is where a late `MallocRegister` would break it.

`ExpandableProofs` treats the VMM path, from `ExpandableAssumption` (in particular
there are no bounds on threads, pages, handles and units). The core of `CoreInv` is
`UnitsInv`: the unit of a handle passes from a `vmm_create` that waits for the lock to
the entry, from the entry to nobody on a pause and back on a resume, while other units
belong to pages PyTorch mapped itself, and at no point do two of these hold the same
unit. `UnitsInv` says it as one condition on three functions (`EntryUnit`, `CallUnit`,
`PageUnit`), for which `EntryGains`, `PageGains` and `CallHandsOver` are proved once.
The other parts:
- `LocalInv`: the lock is held by the call in a loop; the entry a `vmm_create` is
  about to register is as it was initialised.
- `MapsAgree`, `HandlesMatchDevice`: needed by nearly every step, since the code
  goes from a page to its entry and from an entry to its page and unit.
- `LoopInv`: as in `Allocator`; gives `PauseReleases` and `ResumeRestores`.
- `FilesInv`: adds that no two slots have one file, without which a release
  would delete the file of another handle.
- `AccessInv`: adds that the entry records every right PyTorch was told of, which
  is what `resume` replays.
- `NoDriverError`, from all of these.

`DiskBackendProofs` proves `IInv` of `DiskBackend` inductive for any sizes, and from it
`ContentKept` and `FilesAccounted`, from `DiskAssumption` and `"writeback" \notin Faults`
(short transfers and lost files are allowed). `StreamInv` is what makes it go: up to
where the call is (`FileSeen`, `offset`, `done`) the file, the staging buffer or the
device has the tensor, so that after the last chunk the copy is complete. `LinkedInv`
gives that a missing file was removed by others, `BlankInv` that a new tensor starts
from known contents. There is one lemma per action.

`ExpandableBackupProofs` adds the bytes. Which handles share a buffer is decided by the
first loop of `pause` (`core.cpp:443-490`) and never recorded as such: an entry has a
buffer and an offset, and the query joins neighbours again when they follow each other
in one buffer. `BackupInv` says why that finds the whole tensor:
- `BufferInv`, `SlotInv`: who has a buffer or a file, in which state of entry and loop;
  an active handle has a buffer only between the two loops of a pause.
- `FirstLoopInv`: what the first loop has passed is backed up to the end of a run, so
  it never stops inside one.
- `RunsInv`: backed up neighbours of one tag, from one pause, follow each other in one
  buffer. It holds for every pair of first and last page, because an unmap takes a page
  out of the middle of a run and leaves two runs, which a statement about adjacent
  pages alone would not survive.
- `CopyInv`, `ContentKept`: the bytes are in the buffer or the file before a unit is
  released, and back before the buffer goes.
- `ViewInv`: nobody resumes, unmaps or replaces the pages of a view.

From them follow `HostMemoryAccounted`, `ContentKept`, `TensorInOneBuffer`,
`ViewFaithful`, and the action property `OtherTagsUntouched`.

`RocmChunkedProofs` begins with the arithmetic of `Sizes`, for all sizes: a request that
is not refused gets the smallest multiple of the granularity that holds it, the margin
is left, chunks tile the allocation. On it rests that an entry's chunks hold its
request, for requests that fit the width after rounding (`RequestsAssumption`: a
larger one wraps in `rocm_malloc`, and no device has the memory). `CoreInv` of
`RocmChunked` has these parts:
- `LockInv`, `RangesInv`: as in `Allocator`; an address in the hands of a malloc or a
  free is nobody else's, and its mapping is what the call's record says.
- `UnitsInv`: a unit is one chunk of one range, as one condition on ranges and
  positions; a malloc or a resume takes several units at once, which have to differ
  from each other as well as from all others (`NewUnitsDiffer`, `UnitsMapped`).
- `BuffersInv`: the buffer of the first pause stays with the entry over resumes
  and passes to a free; it has the length of the entry's chunks, also when these are
  replaced.
- `ClientInv`: with clients that do not free paused allocations, a free under way is of
  an active one, and the driver refuses nothing.

`TensorsInv` has what only the refinement needs: unused units hold nothing known, an
entry without a backup has no buffer, and the entries a loop has visited are in the
state it leaves them in. `ChunkedImplementsMemory` then goes as for `Allocator`, with
`RefinementAssumption` and clients that do not free paused allocations: the others
reach an end, `driver_error`, that `PauseableMemory` does not have, which is the
finding `RocmFreePaused`.

`RegionsProofs` proves `IInv` of `Regions` for any environment and any depth of nesting.
A context saves the configuration of the thread and restores it on its way out;
`ConfigFollowsFrames` is inductive once `FramesInv` says what each context asked for.
An allocation may get any free block of its pool and stream, so `PoolInv` says that the
pool and the stream determine how a block is tracked (`TrackingIn`). For a region's pool
that is because what the pools of `entrypoint.py:167-172` are keyed by is exactly what the
hooks read; for a graph's pool the code does nothing, and it is what the pool was first
used for (`purpose`), by the clients' rule (`Fits`). `PlacesInv` says the same of the pool
and the stream of each context; `DropPool` can forget a purpose because no context and no
block has the pool any more. `PoolInv` and `TrackedAsAsked` are under the conditions on the
environment (no expandable segments, no regions or graphs within `disable()`, no sharing at
will); `ConfigFollowsFrames` and `SettingRestored` are claimed of all clients. `StreamInv` gives `DisabledUntracked`, with expandable segments too, where there are no
pools.

`MarginIsKept` proves `MarginKept` of `Allocator` for any number of units and any margin,
for one thread. This is not a weakness of the proof: the margin is tested before the
memory is created, without the lock (`core.cpp:103-119`), and two mallocs at once may
both pass.

*Only model-checked*: the liveness properties (`LockReleased`, `QuietWhenCallsStop`,
`CallEnds`), which are out of the prover's reach. Every other property of the passing
runs is a theorem.

## Not modelled

- The interception of `cudaGetDriverEntryPoint` (`entrypoint.cpp:125-191`), which gives the
  VMM hooks to PyTorch alone by the name of the caller's library: a decision without
  state; that other libraries do not get logical handles is assumed.
- `api_forwarder.cpp`, `hooks/`, `binary_wrapper.py`: symbols are looked up and cached.
- The mapping of `HIP_VISIBLE_DEVICES` to NUMA nodes, and NUMA binding: no effect on the
  state.
- The warning about tmpfs (`disk_backend.cpp:108`), logging, and the parsing of
  `PYTORCH_CUDA_ALLOC_CONF`.
- More than one device. An entry keeps its device, and nothing relates two devices but
  the key of the pools.
- The lazy creation of `_TorchMemorySaverImpl` (`entrypoint.py:107-112`) and its argument
  checks: the first call is assumed to be over before threads make others.
- `tms_torch_free` of a block by a thread outside a region (`entrypoint.cpp:217`): the
  pools live until the process ends, so PyTorch has no reason to give their blocks back;
  if it does, which thread runs is up to PyTorch. On HIP an atexit handler clears the
  pools (`entrypoint.py:126-131`), which is the end of the process in `Regions`.
- Plain `torch.cuda.graph` in torch mode: the hooks are reached only through the pools of
  `region`, so they do not see its memory.
- Kernels in flight while a pause unmaps their memory: the clients' contract excludes
  it, and what would happen is undefined.
- PyTorch's caching allocator, the driver and the file system are external: they are
  modelled as their use in `src/` shows, and this file names what is assumed of them.
- Build and packaging.

## Plan

Done: all modules above, and a theorem for every safety, action and refinement
property that a run checks. Left, in the order of their worth:

1. An abstract memory for the VMM path, with units per page and one view over several
   handles, which `Expandable` implements.
2. `DiskBackend` related to the steps `PauseToDisk`, `ResumeFromDisk` and `FreeBackup` of
   `Allocator`, which so far rely on it by argument only (see Modules).
3. A paired client for `RocmChunked`, as `PairedClient` is for `Allocator`.

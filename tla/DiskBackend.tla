------------------------------ MODULE DiskBackend ------------------------------
(***************************************************************************)
(* DiskBackend (csrc/disk_backend.cpp) and what pause, resume and free of  *)
(* csrc/core.cpp do with it.  Allocator takes offload and onload for one   *)
(* step; here a tensor is copied as the code copies it: in chunks, through *)
(* one staging buffer that all slots share, with system calls that may     *)
(* transfer less than they were asked to, while other threads free tensors *)
(* and clients write those that are active.                                *)
(*                                                                         *)
(* offload, onload and set_dir run under allocator_metadata_mutex_, so the *)
(* call in progress is one variable; release does not.  Every entry of the *)
(* loops of pause and resume is a call of its own here, between which      *)
(* others may take the lock, which is more than the loops allow.           *)
(***************************************************************************)
EXTENDS Integers

CONSTANTS Slots,      \* the allocations with a disk backup
          SizeOf,     \* their sizes, in units
          ChunkSize,  \* chunk_bytes_, in units
          Files,      \* the names mkostemp may choose
          Dirs,       \* arguments of set_disk_backup_dir
          Values,     \* what a client may write
          Junk, Null,
          Faults      \* "short": transfers may be partial; "lost": others may
                      \* remove files; "writeback": fsync may fail

Data == (Values \X Nat) \cup {Junk}

Units(s) == 0 .. SizeOf[s] - 1
Chunk    == 0 .. ChunkSize - 1

\* bytes is what a reader sees, stored what the disk has of it; a name that was
\* unlinked while the file is open is gone.
FileOf(s) == [dir : Dirs, linked : BOOLEAN, bytes : [Units(s) -> Data], stored : [Units(s) -> Data]]

ASSUME DiskAssumption ==
    /\ SizeOf \in [Slots -> Nat \ {0}] /\ ChunkSize \in Nat \ {0}
    /\ Junk \notin Values \X Nat
    /\ Null \notin Slots \cup Files \cup Dirs \cup [Chunk -> Data]
    /\ \A s \in Slots : Null \notin FileOf(s)

VARIABLES
    state,      \* of a tensor: "ABSENT", "ACTIVE", "PAUSED" or, in free, "FREED"
    gpu,        \* what is in the device memory of a tensor
    expected,   \* what its client wrote last
    path,       \* slot.path, Null when it is empty
    files,      \* the file of a name, Null when there is none
    dir,        \* dir_
    staging,    \* staging_buf_
    call,       \* what the holder of the lock does: "none", "offload", "onload"
    step,       \* where it is: "open", "device" (a chunk), "file" (a part of it)
    slot,       \* the slot it works on
    offset,     \* of the chunk in the tensor
    done,       \* what of the chunk the file has seen
    exited

tensors == <<state, gpu, expected>>
stream  == <<call, step, slot, offset, done>>
vars    == <<tensors, path, files, dir, staging, stream, exited>>

Blank(s) == [i \in Units(s) |-> Junk]

TypeOK ==
    /\ state \in [Slots -> {"ABSENT", "ACTIVE", "PAUSED", "FREED"}]
    /\ gpu = [s \in Slots |-> gpu[s]] /\ expected = [s \in Slots |-> expected[s]]
    /\ \A s \in Slots : gpu[s] \in [Units(s) -> Data] /\ expected[s] \in [Units(s) -> Data]
    /\ path \in [Slots -> Files \cup {Null}]
    /\ files = [f \in Files |-> files[f]]
    /\ \A f \in Files : files[f] = Null \/ \E s \in Slots : files[f] \in FileOf(s)
    /\ dir \in Dirs
    /\ staging = Null \/ staging \in [Chunk -> Data]
    /\ call \in {"none", "offload", "onload"} /\ step \in {"open", "device", "file"}
    /\ slot \in Slots \cup {Null}
    /\ offset \in Nat /\ done \in Nat
    /\ exited \in {"no", "failed", "missing"}

Init ==
    /\ state = [s \in Slots |-> "ABSENT"]
    /\ gpu = [s \in Slots |-> Blank(s)] /\ expected = [s \in Slots |-> Blank(s)]
    /\ path = [s \in Slots |-> Null] /\ files = [f \in Files |-> Null]
    /\ dir \in Dirs
    /\ staging = Null
    /\ call = "none" /\ step = "open" /\ slot = Null /\ offset = 0 /\ done = 0
    /\ exited = "no"

Exit(reason) == exited' = reason /\ UNCHANGED <<tensors, path, files, dir, staging, stream>>

\* The slot the call in progress works on.
Busy(s) == call # "none" /\ slot = s

------------------------------------------------------------------------------
(* The clients *)

Malloc(s) ==
    /\ call = "none" /\ state[s] = "ABSENT"
    /\ state' = [state EXCEPT ![s] = "ACTIVE"]
    /\ UNCHANGED <<gpu, expected, path, files, dir, staging, stream, exited>>

\* Every unit gets contents of its own, so that data that ends up elsewhere shows.
Write(s, v) ==
    /\ state[s] = "ACTIVE" /\ ~Busy(s)
    /\ gpu' = [gpu EXCEPT ![s] = [i \in Units(s) |-> <<v, i>>]]
    /\ expected' = [expected EXCEPT ![s] = gpu'[s]]
    /\ UNCHANGED <<state, path, files, dir, staging, stream, exited>>

SetDir(d) ==
    /\ call = "none"
    /\ dir' = d
    /\ UNCHANGED <<tensors, path, files, staging, stream, exited>>

\* free takes the entry out under the lock and removes the file without it.
Free(s) ==
    /\ call = "none" /\ state[s] \in {"ACTIVE", "PAUSED"}
    /\ state' = [state EXCEPT ![s] = "FREED"]
    /\ UNCHANGED <<gpu, expected, path, files, dir, staging, stream, exited>>

Emptied(s) ==
    /\ state' = [state EXCEPT ![s] = "ABSENT"]
    /\ gpu' = [gpu EXCEPT ![s] = Blank(s)] /\ expected' = [expected EXCEPT ![s] = Blank(s)]

ReleaseKeepsFile(s) ==
    /\ state[s] = "FREED"
    /\ Emptied(s)
    /\ path' = [path EXCEPT ![s] = Null]
    /\ UNCHANGED <<files, dir, staging, stream, exited>>

Release(s) ==
    /\ state[s] = "FREED"
    /\ Emptied(s)
    /\ files' = [f \in Files |-> IF f = path[s] THEN Null ELSE files[f]]
    /\ path' = [path EXCEPT ![s] = Null]
    /\ UNCHANGED <<dir, staging, stream, exited>>

------------------------------------------------------------------------------
(* offload and onload *)

Begin(s, kind, from) ==
    /\ call = "none" /\ state[s] = from
    /\ call' = kind /\ step' = "open" /\ slot' = s /\ offset' = 0 /\ done' = 0
    /\ staging' = IF staging = Null THEN [j \in Chunk |-> Junk] ELSE staging
    /\ UNCHANGED <<tensors, path, files, dir, exited>>

\* mkostemp, and posix_fallocate or ftruncate: a new file of the tensor's size.
\* A name that was lost is not chosen again.
CreateSlotFile ==
    /\ call = "offload" /\ step = "open" /\ path[slot] = Null
    /\ \E f \in Files \ {path[s] : s \in Slots} :
          /\ files[f] = Null
          /\ path' = [path EXCEPT ![slot] = f]
          /\ files' = [files EXCEPT ![f] = [dir |-> dir, linked |-> TRUE,
                                            bytes |-> Blank(slot), stored |-> Blank(slot)]]
    /\ step' = "device"
    /\ UNCHANGED <<tensors, dir, staging, call, slot, offset, done, exited>>

HasFile(s) == path[s] # Null /\ files[path[s]] # Null /\ files[path[s]].linked

OpenSlotFile ==
    /\ call # "none" /\ step = "open" /\ HasFile(slot)
    /\ step' = IF call = "offload" THEN "device" ELSE "file"
    /\ UNCHANGED <<tensors, path, files, dir, staging, call, slot, offset, done, exited>>

\* "disk backup missing on resume", or the file cannot be reopened.
OpenFails ==
    /\ call # "none" /\ step = "open" /\ ~HasFile(slot)
    /\ call = "offload" => path[slot] # Null
    /\ Exit("missing")

\* min(chunk, size - offset)
ChunkLength ==
    IF ChunkSize <= SizeOf[slot] - offset THEN ChunkSize ELSE SizeOf[slot] - offset

InChunk == offset < SizeOf[slot]

\* One cudaMemcpy of a chunk between the device and the staging buffer.
CopyOut ==
    /\ call = "offload" /\ step = "device" /\ InChunk
    /\ staging' = [j \in Chunk |-> IF j < ChunkLength THEN gpu[slot][offset + j] ELSE staging[j]]
    /\ step' = "file" /\ done' = 0
    /\ UNCHANGED <<tensors, path, files, dir, call, slot, offset, exited>>

CopyIn ==
    /\ call = "onload" /\ step = "device"
    /\ gpu' = [gpu EXCEPT ![slot] =
                  [i \in Units(slot) |-> IF i \in offset .. offset + ChunkLength - 1
                                         THEN staging[i - offset] ELSE gpu[slot][i]]]
    /\ offset' = offset + ChunkLength
    /\ step' = "file" /\ done' = 0
    /\ UNCHANGED <<state, expected, path, files, dir, staging, call, slot, exited>>

\* What a pwrite or a pread may transfer of the n units that are left.
Transferred(n) == IF "short" \in Faults THEN 1 .. n ELSE {n}

\* The loop of pwrite_all and of pread_all goes on until the chunk is complete.
AdvanceOnce(k) == ChunkLength
AdvanceNot(k) == done
Advance(k) == done + k

WriteSome ==
    /\ call = "offload" /\ step = "file"
    /\ \E k \in Transferred(ChunkLength - done) :
          /\ files' = [files EXCEPT ![path[slot]].bytes =
                [i \in Units(slot) |-> IF i \in offset + done .. offset + done + k - 1
                                       THEN staging[i - offset] ELSE files[path[slot]].bytes[i]]]
          /\ IF Advance(k) = ChunkLength
             THEN done' = 0 /\ offset' = offset + ChunkLength /\ step' = "device"
             ELSE done' = Advance(k) /\ UNCHANGED <<offset, step>>
    /\ UNCHANGED <<tensors, path, dir, staging, call, slot, exited>>

ReadSome ==
    /\ call = "onload" /\ step = "file" /\ InChunk
    /\ \E k \in Transferred(ChunkLength - done) :
          /\ staging' = [j \in Chunk |-> IF j \in done .. done + k - 1
                                         THEN files[path[slot]].bytes[offset + j] ELSE staging[j]]
          /\ done' = Advance(k)
          /\ step' = IF Advance(k) = ChunkLength THEN "device" ELSE "file"
    /\ UNCHANGED <<tensors, path, files, dir, call, slot, offset, exited>>

\* EINTR, the only error that is not the end of the process.
Interrupted == call # "none" /\ step = "file" /\ "short" \in Faults /\ UNCHANGED vars

\* fsync and posix_fadvise: the page cache gives way to what the disk has.  The
\* result of fsync is not looked at, so pages that were not written are lost.
LostPages == IF "writeback" \in Faults THEN SUBSET Units(slot) ELSE {{}}

DropPageCache(file, lost) ==
    LET bytes == [i \in Units(slot) |-> IF i \in lost THEN file.stored[i] ELSE file.bytes[i]]
    IN  IF file.linked THEN [file EXCEPT !.bytes = bytes, !.stored = bytes] ELSE Null

\* The end of offload; pause then unmaps the memory and marks the entry.
EndOffload ==
    /\ call = "offload" /\ step = "device" /\ ~InChunk
    /\ \E lost \in LostPages :
          files' = [files EXCEPT ![path[slot]] = DropPageCache(files[path[slot]], lost)]
    /\ gpu' = [gpu EXCEPT ![slot] = Blank(slot)]
    /\ state' = [state EXCEPT ![slot] = "PAUSED"]
    /\ call' = "none" /\ slot' = Null
    /\ UNCHANGED <<expected, path, dir, staging, step, offset, done, exited>>

\* The end of onload: nothing of the file is dirty, and it stays for the next pause.
EndOnload ==
    /\ call = "onload" /\ step = "file" /\ ~InChunk
    /\ files' = [files EXCEPT ![path[slot]] = DropPageCache(files[path[slot]], {})]
    /\ state' = [state EXCEPT ![slot] = "ACTIVE"]
    /\ call' = "none" /\ slot' = Null
    /\ UNCHANGED <<gpu, expected, path, dir, staging, step, offset, done, exited>>

\* SIMPLE_CHECK and CUDA_ERROR_CHECK end the process.
CallFails == call # "none" /\ Exit("failed")

\* Somebody else removes a backup file: an open one keeps its contents.
FileLost(f) ==
    /\ "lost" \in Faults /\ files[f] # Null
    /\ files' = [files EXCEPT ![f] = IF call # "none" /\ step # "open" /\ path[slot] = f
                                     THEN [files[f] EXCEPT !.linked = FALSE] ELSE Null]
    /\ UNCHANGED <<tensors, path, dir, staging, stream, exited>>

Transfer ==
    \/ CreateSlotFile \/ OpenSlotFile \/ OpenFails
    \/ CopyOut \/ CopyIn \/ WriteSome \/ ReadSome
    \/ EndOffload \/ EndOnload

Client ==
    \E s \in Slots : \/ Malloc(s) \/ Free(s) \/ Release(s)
                     \/ Begin(s, "offload", "ACTIVE") \/ Begin(s, "onload", "PAUSED")
                     \/ \E v \in Values : Write(s, v)

Terminated == exited # "no" /\ UNCHANGED vars

Next ==
    \/ exited = "no" /\ (Transfer \/ Client \/ Interrupted \/ CallFails)
    \/ exited = "no" /\ \E d \in Dirs : SetDir(d)
    \/ exited = "no" /\ \E f \in Files : FileLost(f)
    \/ Terminated

Spec == Init /\ [][Next]_vars

\* The holder of the lock runs, and a system call is not interrupted for ever.
FairSpec == Spec /\ WF_vars(exited = "no" /\ Transfer)

------------------------------------------------------------------------------
(* Properties *)

\* What is known of the file and of the staging buffer while a tensor streams:
\* the file, or the device, has the tensor up to where the call is, and the
\* buffer has what was read of the chunk (disk_backend.cpp:24-63).
FileSeen == IF step = "file" THEN offset + done ELSE offset

StreamInv == call # "none" =>
    /\ slot \in Slots /\ staging # Null
    /\ call = "offload" => state[slot] = "ACTIVE"
    /\ call = "onload" => state[slot] = "PAUSED"
    /\ step # "open" => path[slot] # Null /\ files[path[slot]] # Null
    /\ step = "open" => offset = 0 /\ done = 0
    /\ offset <= SizeOf[slot] /\ (step = "file" /\ InChunk => done < ChunkLength)
    /\ call = "offload" /\ step # "open" =>
          /\ \A i \in Units(slot) : i < FileSeen => files[path[slot]].bytes[i] = gpu[slot][i]
          /\ step = "file" => /\ InChunk
                              /\ \A j \in Chunk : j < ChunkLength => staging[j] = gpu[slot][offset + j]
    /\ call = "onload" =>
          /\ \A i \in Units(slot) : i < offset => gpu[slot][i] = expected[slot][i]
          /\ step = "device" => InChunk
          /\ \A j \in Chunk : InChunk /\ step # "open"
                              /\ (IF step = "file" THEN j < done ELSE j < ChunkLength)
                              => staging[j] = expected[slot][offset + j]

\* Only the file of the call in progress can be open without a name.
LinkedInv ==
    \A f \in Files : files[f] # Null /\ ~files[f].linked =>
        call # "none" /\ step # "open" /\ path[slot] = f

\* A slot without a tensor has the contents the next one begins with.
BlankInv == \A s \in Slots : state[s] = "ABSENT" => gpu[s] = expected[s]

\* A tensor that was paused and resumed is restored bit by bit, or the process
\* ends: the copy in its file is complete whenever its memory is gone, whatever
\* the chunk size, and no other slot's data passes through the staging buffer
\* into it (test/examples/disk_backup.py).
ContentKept ==
    \A s \in Slots :
        /\ state[s] = "ACTIVE" => gpu[s] = expected[s]
        /\ state[s] = "PAUSED" => path[s] # Null
        /\ state[s] = "PAUSED" /\ files[path[s]] # Null => files[path[s]].bytes = expected[s]

\* Every file belongs to one slot, keeps the size of its tensor over any number
\* of cycles and is removed with the tensor, whatever set_disk_backup_dir does
\* meanwhile (disk_backup.py: "disk usage grew across cycles").  A resume or a
\* pause that misses its file does so because somebody else has removed it.
FilesAccounted ==
    /\ \A s, u \in Slots : s # u /\ path[s] # Null => path[s] # path[u]
    /\ \A f \in Files : files[f] # Null => \E s \in Slots : path[s] = f /\ files[f] \in FileOf(s)
    /\ exited = "missing" => path[slot] # Null /\ files[path[slot]] = Null

\* offload and onload end, and give the lock back.
CallEnds == call # "none" ~> (call = "none" \/ exited # "no")

\* The conjunction is preserved by every step, unless fsync may fail.
IInv == TypeOK /\ StreamInv /\ LinkedInv /\ BlankInv /\ ContentKept /\ FilesAccounted
==============================================================================

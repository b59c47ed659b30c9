--------------------------- MODULE DiskBackendProofs ---------------------------
(***************************************************************************)
(* Proofs about DiskBackend: unless fsync may fail, IInv is inductive,     *)
(* for any sizes of the tensors and of the staging buffer, any number of   *)
(* files and directories, short transfers, and files removed by others.    *)
(*                                                                         *)
(* There is one lemma per action, and in it one step per part of IInv that *)
(* the action can disturb.                                                 *)
(***************************************************************************)
EXTENDS DiskBackend, TLAPS

Stable == IInv /\ exited = "no"

------------------------------------------------------------------------------
(* What the parts of IInv say of the slot of the call in progress. *)

\* The chunk of the call lies in the tensor and in the staging buffer.
LEMMA ChunkInTensor ==
  ASSUME Stable, call # "none", InChunk
  PROVE  /\ slot \in Slots /\ SizeOf[slot] \in Nat /\ offset \in Nat /\ done \in Nat
         /\ ChunkLength \in 1 .. ChunkSize
         /\ offset + ChunkLength <= SizeOf[slot]
<1>1. slot \in Slots /\ offset \in Nat /\ done \in Nat
  BY DEF Stable, IInv, TypeOK, StreamInv
<1>2. SizeOf[slot] \in Nat \ {0} /\ ChunkSize \in Nat \ {0}
  BY <1>1, DiskAssumption
<1>3. QED
  BY <1>1, <1>2 DEF InChunk, ChunkLength

\* The file of the call has the size of its tensor.
LEMMA FileOfCall ==
  ASSUME Stable, call # "none", step # "open"
  PROVE  /\ slot \in Slots /\ path[slot] \in Files
         /\ files[path[slot]] \in FileOf(slot)
         /\ files[path[slot]] # Null
<1>1. slot \in Slots /\ path[slot] # Null /\ files[path[slot]] # Null
  BY DEF Stable, IInv, StreamInv
<1>2. path[slot] \in Files
  BY <1>1 DEF Stable, IInv, TypeOK
<1>3. PICK u \in Slots : path[u] = path[slot] /\ files[path[slot]] \in FileOf(u)
  BY <1>1, <1>2 DEF Stable, IInv, FilesAccounted
<1>4. u = slot
  BY <1>1, <1>3 DEF Stable, IInv, FilesAccounted
<1>5. QED
  BY <1>1, <1>2, <1>3, <1>4

\* A new value of a file: what is left to show of FilesAccounted and of the
\* type of files.
LEMMA FileChanges ==
  ASSUME Stable, NEW f \in Files, NEW s \in Slots, path[s] = f,
         NEW file, file = Null \/ file \in FileOf(s),
         files' = [files EXCEPT ![f] = file], path' = path, exited' = exited
  PROVE  /\ files' = [g \in Files |-> files'[g]]
         /\ \A g \in Files : files'[g] = Null \/ \E u \in Slots : files'[g] \in FileOf(u)
         /\ FilesAccounted'
<1>1. files = [g \in Files |-> files[g]]
  BY DEF Stable, IInv, TypeOK
<1>2. \A g \in Files : files'[g] = IF g = f THEN file ELSE files[g]
  BY <1>1
<1>3. files' = [g \in Files |-> files'[g]]
  BY <1>1
<1>4. \A g \in Files : files'[g] = Null \/ \E u \in Slots : files'[g] \in FileOf(u)
  BY <1>2 DEF Stable, IInv, TypeOK
<1>5. \A u, w \in Slots : u # w /\ path'[u] # Null => path'[u] # path'[w]
  BY DEF Stable, IInv, FilesAccounted
<1>6. \A g \in Files : files'[g] # Null =>
          \E u \in Slots : path'[u] = g /\ files'[g] \in FileOf(u)
  BY <1>2 DEF Stable, IInv, FilesAccounted
<1>7. exited' # "missing"
  BY DEF Stable
<1>8. QED
  BY <1>3, <1>4, <1>5, <1>6, <1>7 DEF FilesAccounted

------------------------------------------------------------------------------
(* The clients *)

\* Malloc, Write, Free and Begin change no file.
LEMMA FilesKept ==
  ASSUME Stable, UNCHANGED <<files, path, exited>>
  PROVE  /\ FilesAccounted'
         /\ path' \in [Slots -> Files \cup {Null}]
         /\ files' = [f \in Files |-> files'[f]]
         /\ \A f \in Files : files'[f] = Null \/ \E s \in Slots : files'[f] \in FileOf(s)
         /\ exited' \in {"no", "failed", "missing"}
BY DEF Stable, IInv, TypeOK, FilesAccounted

\* A new tensor begins with the contents BlankInv tells of.
LEMMA MallocStep ==
  ASSUME Stable, NEW s \in Slots, Malloc(s)
  PROVE  IInv'
<1> USE DEF Stable, IInv, Malloc, stream
<1>1. TypeOK'
  BY FilesKept DEF TypeOK
<1>2. StreamInv'
  BY DEF StreamInv
<1>3. LinkedInv' /\ BlankInv'
  BY DEF LinkedInv, BlankInv
<1>4. ContentKept'
  BY DEF ContentKept, BlankInv, TypeOK
<1>5. QED
  BY <1>1, <1>2, <1>3, <1>4, FilesKept

\* A client writes a tensor that is not being copied.
LEMMA WriteStep ==
  ASSUME Stable, NEW s \in Slots, NEW v \in Values, Write(s, v)
  PROVE  IInv'
<1>1. PICK d \in [Units(s) -> Data] : /\ gpu' = [gpu EXCEPT ![s] = d]
                                      /\ expected' = [expected EXCEPT ![s] = d]
  <2>1. [i \in Units(s) |-> <<v, i>>] \in [Units(s) -> Data]
    <3>1. \A i \in Units(s) : i \in Nat
      BY DiskAssumption DEF Units
    <3>2. QED
      BY <3>1 DEF Data
  <2>2. gpu'[s] = [i \in Units(s) |-> <<v, i>>]
    BY DEF Write, Stable, IInv, TypeOK
  <2>3. QED
    BY <2>1, <2>2 DEF Write
<1>2. /\ gpu = [u \in Slots |-> gpu[u]] /\ expected = [u \in Slots |-> expected[u]]
      /\ \A u \in Slots : gpu[u] \in [Units(u) -> Data] /\ expected[u] \in [Units(u) -> Data]
  BY DEF Stable, IInv, TypeOK
<1>3. \A u \in Slots : /\ gpu'[u] = IF u = s THEN d ELSE gpu[u]
                       /\ expected'[u] = IF u = s THEN d ELSE expected[u]
  BY <1>1, <1>2
<1>4. /\ UNCHANGED <<files, path, exited, state, dir, staging, stream>>
      /\ state[s] = "ACTIVE" /\ ~Busy(s)
  BY DEF Write
<1>5. TypeOK'
  <2>1. gpu' = [u \in Slots |-> gpu'[u]] /\ expected' = [u \in Slots |-> expected'[u]]
    BY <1>1, <1>2
  <2>2. \A u \in Slots : gpu'[u] \in [Units(u) -> Data] /\ expected'[u] \in [Units(u) -> Data]
    BY <1>2, <1>3
  <2>3. QED
    BY <1>4, <2>1, <2>2, FilesKept DEF Stable, IInv, TypeOK, stream
<1>6. StreamInv'
  <2>1. CASE call = "none"
    BY <2>1, <1>4 DEF StreamInv, stream
  <2>2. CASE call # "none"
    <3>1. gpu'[slot] = gpu[slot] /\ expected'[slot] = expected[slot] /\ slot \in Slots
      BY <2>2, <1>3, <1>4 DEF Stable, IInv, StreamInv, Busy
    <3>2. QED
      BY <2>2, <3>1, <1>4 DEF Stable, IInv, StreamInv, stream, InChunk, ChunkLength, FileSeen
  <2>3. QED
    BY <2>1, <2>2
<1>7. LinkedInv' /\ BlankInv'
  BY <1>3, <1>4 DEF Stable, IInv, LinkedInv, BlankInv, stream
<1>8. ContentKept'
  BY <1>3, <1>4 DEF Stable, IInv, ContentKept
<1>9. QED
  BY <1>4, <1>5, <1>6, <1>7, <1>8, FilesKept DEF IInv
\* free only takes the entry out.
LEMMA FreeStep ==
  ASSUME Stable, NEW s \in Slots, Free(s)
  PROVE  IInv'
<1> USE DEF Stable, IInv, Free, stream
<1>1. TypeOK'
  BY FilesKept DEF TypeOK
<1>2. StreamInv'
  BY DEF StreamInv
<1>3. LinkedInv' /\ BlankInv'
  BY DEF LinkedInv, BlankInv
<1>4. ContentKept'
  BY DEF ContentKept, BlankInv, TypeOK
<1>5. QED
  BY <1>1, <1>2, <1>3, <1>4, FilesKept

\* release runs without the lock, but on a slot that no entry has any more: it
\* is not the slot of the call in progress, and its file is no other slot's.
LEMMA ReleaseStep ==
  ASSUME Stable, NEW s \in Slots, Release(s)
  PROVE  IInv'
<1>1. /\ state[s] = "FREED" /\ path \in [Slots -> Files \cup {Null}]
      /\ Null \notin Files /\ Null \notin Slots
      /\ UNCHANGED <<dir, staging, stream, exited>>
  BY DiskAssumption DEF Release, Stable, IInv, TypeOK
<1>2. call # "none" => slot # s /\ slot \in Slots
  BY <1>1 DEF Stable, IInv, StreamInv, TypeOK
<1>3. /\ gpu = [u \in Slots |-> gpu[u]] /\ expected = [u \in Slots |-> expected[u]]
      /\ \A u \in Slots : gpu[u] \in [Units(u) -> Data] /\ expected[u] \in [Units(u) -> Data]
  BY DEF Stable, IInv, TypeOK
<1>4. \A u \in Slots : /\ gpu'[u] = IF u = s THEN Blank(s) ELSE gpu[u]
                       /\ expected'[u] = IF u = s THEN Blank(s) ELSE expected[u]
                       /\ state'[u] = IF u = s THEN "ABSENT" ELSE state[u]
                       /\ path'[u] = IF u = s THEN Null ELSE path[u]
  BY <1>1, <1>3 DEF Release, Emptied, Stable, IInv, TypeOK
<1>5. \A f \in Files : files'[f] = IF f = path[s] THEN Null ELSE files[f]
  BY DEF Release
<1>6. \A u \in Slots : u # s /\ path[u] # Null => path[u] # path[s] /\ path[u] \in Files
  BY <1>1 DEF Stable, IInv, FilesAccounted
<1>7. TypeOK'
  <2>1. gpu' = [u \in Slots |-> gpu'[u]] /\ expected' = [u \in Slots |-> expected'[u]]
    BY <1>3 DEF Release, Emptied
  <2>2. Blank(s) \in [Units(s) -> Data]
    BY DEF Blank, Data
  <2>3. \A u \in Slots : gpu'[u] \in [Units(u) -> Data] /\ expected'[u] \in [Units(u) -> Data]
    BY <1>3, <1>4, <2>2
  <2>4. files' = [f \in Files |-> files'[f]]
    BY DEF Release
  <2>5. \A f \in Files : files'[f] = Null \/ \E u \in Slots : files'[f] \in FileOf(u)
    BY <1>5 DEF Stable, IInv, TypeOK
  <2>6. /\ state' \in [Slots -> {"ABSENT", "ACTIVE", "PAUSED", "FREED"}]
        /\ path' \in [Slots -> Files \cup {Null}]
    BY DEF Release, Emptied, Stable, IInv, TypeOK
  <2>7. QED
    BY <1>1, <2>1, <2>3, <2>4, <2>5, <2>6 DEF Stable, IInv, TypeOK, stream
<1>8. StreamInv'
  <2>1. CASE call = "none"
    BY <2>1, <1>1 DEF StreamInv, stream
  <2>2. CASE call # "none"
    <3>1. /\ gpu'[slot] = gpu[slot] /\ expected'[slot] = expected[slot]
          /\ state'[slot] = state[slot] /\ path'[slot] = path[slot]
      BY <2>2, <1>2, <1>4
    <3>2. step # "open" => files'[path[slot]] = files[path[slot]]
      BY <2>2, <1>1, <1>2, <1>5, <1>6, FileOfCall
    <3>3. QED
      BY <2>2, <3>1, <3>2, <1>1, <1>2 DEF Stable, IInv, StreamInv, stream, InChunk, ChunkLength, FileSeen
  <2>3. QED
    BY <2>1, <2>2
<1>9. LinkedInv' /\ BlankInv'
  BY <1>1, <1>2, <1>4, <1>5 DEF Stable, IInv, LinkedInv, BlankInv, stream
<1>10. ContentKept'
  BY <1>4, <1>5, <1>6 DEF Stable, IInv, ContentKept
<1>11. FilesAccounted'
  <2>1. \A u, w \in Slots : u # w /\ path'[u] # Null => path'[u] # path'[w]
    BY <1>4 DEF Stable, IInv, FilesAccounted
  <2>2. \A f \in Files : files'[f] # Null => \E u \in Slots : path'[u] = f /\ files'[f] \in FileOf(u)
    <3>1. SUFFICES ASSUME NEW f \in Files, files'[f] # Null
                   PROVE  \E u \in Slots : path'[u] = f /\ files'[f] \in FileOf(u)
      OBVIOUS
    <3>2. f # path[s] /\ files'[f] = files[f]
      BY <3>1, <1>5
    <3>3. PICK u \in Slots : path[u] = f /\ files[f] \in FileOf(u)
      BY <3>1, <3>2 DEF Stable, IInv, FilesAccounted
    <3>4. QED
      BY <3>2, <3>3, <1>4
  <2>3. QED
    BY <2>1, <2>2, <1>1 DEF FilesAccounted, Stable
<1>12. QED
  BY <1>7, <1>8, <1>9, <1>10, <1>11 DEF IInv

\* The directory counts for files that are created later.
LEMMA SetDirStep ==
  ASSUME Stable, NEW d \in Dirs, SetDir(d)
  PROVE  IInv'
<1> USE DEF Stable, IInv, SetDir, stream, tensors
<1>1. TypeOK'
  BY FilesKept DEF TypeOK
<1>2. StreamInv' /\ LinkedInv' /\ BlankInv'
  BY DEF StreamInv, LinkedInv, BlankInv
<1>3. ContentKept'
  BY DEF ContentKept
<1>4. QED
  BY <1>1, <1>2, <1>3, FilesKept

------------------------------------------------------------------------------
(* offload and onload *)

\* offload and onload begin with the first chunk.
LEMMA BeginStep ==
  ASSUME Stable, NEW s \in Slots,
         Begin(s, "offload", "ACTIVE") \/ Begin(s, "onload", "PAUSED")
  PROVE  IInv'
<1>1. /\ UNCHANGED <<tensors, path, files, dir, exited>>
      /\ \/ call' = "offload" /\ state[s] = "ACTIVE"
         \/ call' = "onload" /\ state[s] = "PAUSED"
      /\ call = "none" /\ step' = "open" /\ slot' = s /\ offset' = 0 /\ done' = 0
      /\ staging' = IF staging = Null THEN [j \in Chunk |-> Junk] ELSE staging
  BY DEF Begin
<1>2. staging' \in [Chunk -> Data] /\ staging' # Null
  <2>1. [j \in Chunk |-> Junk] \in [Chunk -> Data]
    BY DEF Data
  <2>2. Null \notin [Chunk -> Data]
    BY DiskAssumption
  <2>3. QED
    BY <1>1, <2>1, <2>2 DEF Stable, IInv, TypeOK
<1>3. TypeOK'
  BY <1>1, <1>2, FilesKept DEF Stable, IInv, TypeOK, tensors
<1>4. StreamInv'
  <2>1. SizeOf[s] \in Nat \ {0} /\ \A i \in Units(s) : ~(i < 0)
    BY DiskAssumption DEF Units
  <2>2. QED
    BY <1>1, <1>2, <2>1 DEF StreamInv, tensors, InChunk
<1>5. LinkedInv' /\ BlankInv'
  BY <1>1 DEF Stable, IInv, LinkedInv, BlankInv, tensors
<1>6. ContentKept'
  BY <1>1 DEF Stable, IInv, ContentKept, tensors
<1>7. QED
  BY <1>1, <1>3, <1>4, <1>5, <1>6, FilesKept DEF IInv

\* A new file belongs to no other slot.
LEMMA CreateSlotFileStep ==
  ASSUME Stable, CreateSlotFile
  PROVE  IInv'
<1>1. PICK f \in Files \ {path[s] : s \in Slots} :
          /\ files[f] = Null
          /\ path' = [path EXCEPT ![slot] = f]
          /\ files' = [files EXCEPT ![f] = [dir |-> dir, linked |-> TRUE,
                                            bytes |-> Blank(slot), stored |-> Blank(slot)]]
  BY DEF CreateSlotFile
<1>2. /\ call = "offload" /\ step = "open" /\ path[slot] = Null /\ step' = "device"
      /\ UNCHANGED <<tensors, dir, staging, call, slot, offset, done, exited>>
      /\ slot \in Slots /\ state[slot] = "ACTIVE" /\ offset = 0
  BY DEF CreateSlotFile, Stable, IInv, StreamInv
<1> DEFINE new == [dir |-> dir, linked |-> TRUE, bytes |-> Blank(slot), stored |-> Blank(slot)]
<1>3. new \in FileOf(slot) /\ new # Null /\ f # Null
  <2>1. Blank(slot) \in [Units(slot) -> Data]
    BY DEF Blank, Data
  <2>2. new \in FileOf(slot)
    BY <2>1 DEF FileOf, Stable, IInv, TypeOK
  <2>3. QED
    BY <2>2, <1>2, DiskAssumption
<1>4. \A g \in Files : files'[g] = IF g = f THEN new ELSE files[g]
  BY <1>1 DEF Stable, IInv, TypeOK
<1>5. \A s \in Slots : path'[s] = IF s = slot THEN f ELSE path[s]
  BY <1>1 DEF Stable, IInv, TypeOK
<1> HIDE DEF new
<1>6. TypeOK'
  <2>1. files' = [g \in Files |-> files'[g]]
    BY <1>1 DEF Stable, IInv, TypeOK
  <2>2. \A g \in Files : files'[g] = Null \/ \E s \in Slots : files'[g] \in FileOf(s)
    BY <1>2, <1>3, <1>4 DEF Stable, IInv, TypeOK
  <2>3. path' \in [Slots -> Files \cup {Null}]
    BY <1>1 DEF Stable, IInv, TypeOK
  <2>4. QED
    BY <1>2, <2>1, <2>2, <2>3 DEF Stable, IInv, TypeOK, tensors
<1>7. StreamInv'
  <2>1. SizeOf[slot] \in Nat \ {0} /\ \A i \in Units(slot) : ~(i < 0)
    BY <1>2, DiskAssumption DEF Units
  <2>2. path'[slot] = f /\ files'[f] = new
    BY <1>1, <1>2, <1>4, <1>5
  <2>3. QED
    BY <1>2, <1>3, <2>1, <2>2 DEF Stable, IInv, StreamInv, tensors, FileSeen, InChunk
<1>8. LinkedInv' /\ BlankInv'
  <2>1. new.linked
    BY DEF new
  <2>2. QED
    BY <2>1, <1>2, <1>4 DEF Stable, IInv, LinkedInv, BlankInv, tensors
<1>9. ContentKept'
  BY <1>1, <1>2, <1>4, <1>5 DEF Stable, IInv, ContentKept, tensors
<1>10. FilesAccounted'
  <2>1. \A u, w \in Slots : u # w /\ path'[u] # Null => path'[u] # path'[w]
    BY <1>1, <1>5 DEF Stable, IInv, FilesAccounted
  <2>2. \A g \in Files : files'[g] # Null => \E u \in Slots : path'[u] = g /\ files'[g] \in FileOf(u)
    <3>1. SUFFICES ASSUME NEW g \in Files, files'[g] # Null
                   PROVE  \E u \in Slots : path'[u] = g /\ files'[g] \in FileOf(u)
      OBVIOUS
    <3>2. CASE g = f
      BY <3>2, <1>2, <1>3, <1>4, <1>5
    <3>3. CASE g # f
      <4>1. PICK u \in Slots : path[u] = g /\ files[g] \in FileOf(u)
        BY <3>1, <3>3, <1>4 DEF Stable, IInv, FilesAccounted
      <4>2. g # Null
        BY DiskAssumption
      <4>3. QED
        BY <3>3, <4>1, <4>2, <1>2, <1>4, <1>5
    <3>4. QED
      BY <3>2, <3>3
  <2>3. QED
    BY <2>1, <2>2, <1>2 DEF FilesAccounted, Stable
<1>11. QED
  BY <1>6, <1>7, <1>8, <1>9, <1>10 DEF IInv

\* The file of the slot is there.
LEMMA OpenSlotFileStep ==
  ASSUME Stable, OpenSlotFile
  PROVE  IInv'
<1>1. /\ UNCHANGED <<state, gpu, expected, path, files, dir, staging, call, slot, offset, done, exited>>
      /\ call # "none" /\ step = "open"
      /\ path[slot] # Null /\ files[path[slot]] # Null
      /\ step' = IF call = "offload" THEN "device" ELSE "file"
  BY DEF OpenSlotFile, HasFile, tensors
<1>2. slot \in Slots /\ offset = 0 /\ call \in {"offload", "onload"}
  BY <1>1 DEF Stable, IInv, StreamInv, TypeOK
<1>3. TypeOK'
  BY <1>1, FilesKept DEF Stable, IInv, TypeOK
<1>4. StreamInv'
  <2>1. /\ SizeOf[slot] \in Nat \ {0} /\ ChunkSize \in Nat \ {0}
        /\ \A i \in Units(slot) : ~(i < 0)
    BY <1>2, DiskAssumption DEF Units
  <2>2. 0 <= SizeOf[slot]
    BY <2>1
  <2>3. done = 0 /\ \A j \in Chunk : ~(j < 0)
    BY <1>1, <2>1 DEF Stable, IInv, StreamInv, Chunk
  <2>4. InChunk' => 0 < ChunkLength'
    BY <1>1, <1>2, <2>1 DEF InChunk, ChunkLength
  <2>5. /\ staging # Null
        /\ call = "offload" => state[slot] = "ACTIVE"
        /\ call = "onload" => state[slot] = "PAUSED"
    BY <1>1 DEF Stable, IInv, StreamInv
  <2>6. CASE call = "offload"
    BY <2>6, <1>1, <1>2, <2>1, <2>2, <2>3, <2>4, <2>5 DEF StreamInv, FileSeen
  <2>7. CASE call = "onload"
    BY <2>7, <1>1, <1>2, <2>1, <2>2, <2>3, <2>4, <2>5 DEF StreamInv
  <2>8. QED
    BY <2>6, <2>7, <1>2
<1>5. LinkedInv' /\ BlankInv' /\ ContentKept'
  BY <1>1 DEF Stable, IInv, LinkedInv, BlankInv, ContentKept
<1>6. QED
  BY <1>1, <1>3, <1>4, <1>5, FilesKept DEF IInv

\* The file is missing because somebody else removed it: the paths of the slots
\* were all given by a pause.
LEMMA OpenFailsStep ==
  ASSUME Stable, OpenFails
  PROVE  IInv'
<1>1. /\ UNCHANGED <<state, gpu, expected, path, files, dir, staging, call, step, slot, offset, done>>
      /\ call # "none" /\ step = "open" /\ exited' = "missing"
      /\ path[slot] = Null \/ files[path[slot]] = Null \/ ~files[path[slot]].linked
      /\ call = "offload" => path[slot] # Null
  BY DEF OpenFails, HasFile, Exit, tensors, stream
<1>2. slot \in Slots /\ path[slot] # Null
  BY <1>1 DEF Stable, IInv, StreamInv, TypeOK, ContentKept
<1>3. files[path[slot]] = Null
  BY <1>1, <1>2 DEF Stable, IInv, LinkedInv, TypeOK
<1>4. FilesAccounted'
  BY <1>1, <1>2, <1>3 DEF Stable, IInv, FilesAccounted
<1>5. TypeOK' /\ StreamInv'
  BY <1>1 DEF Stable, IInv, TypeOK, StreamInv, InChunk, ChunkLength, FileSeen
<1>6. LinkedInv' /\ BlankInv' /\ ContentKept'
  BY <1>1 DEF Stable, IInv, LinkedInv, BlankInv, ContentKept
<1>7. QED
  BY <1>4, <1>5, <1>6 DEF IInv

\* A chunk goes from the device to the staging buffer.
LEMMA CopyOutStep ==
  ASSUME Stable, CopyOut
  PROVE  IInv'
<1>1. /\ UNCHANGED <<state, gpu, expected, path, files, dir, call, slot, offset, exited>>
      /\ call = "offload" /\ step = "device" /\ InChunk /\ step' = "file" /\ done' = 0
      /\ staging' = [j \in Chunk |-> IF j < ChunkLength THEN gpu[slot][offset + j] ELSE staging[j]]
  BY DEF CopyOut, tensors
<1>2. /\ slot \in Slots /\ SizeOf[slot] \in Nat /\ offset \in Nat
      /\ ChunkLength \in 1 .. ChunkSize /\ offset + ChunkLength <= SizeOf[slot]
      /\ ChunkSize \in Nat
  BY <1>1, ChunkInTensor, DiskAssumption
<1>3. staging' \in [Chunk -> Data] /\ staging' # Null
  <2>1. staging \in [Chunk -> Data] /\ gpu[slot] \in [Units(slot) -> Data]
    BY <1>1, <1>2 DEF Stable, IInv, TypeOK, StreamInv
  <2>2. \A j \in Chunk : j < ChunkLength => offset + j \in Units(slot)
    BY <1>2 DEF Chunk, Units
  <2>3. staging' \in [Chunk -> Data]
    BY <1>1, <2>1, <2>2
  <2>4. Null \notin [Chunk -> Data]
    BY DiskAssumption
  <2>5. QED
    BY <2>3, <2>4
<1>4. TypeOK'
  BY <1>1, <1>3, FilesKept DEF Stable, IInv, TypeOK
<1>5. StreamInv'
  <2>1. path[slot] # Null /\ files[path[slot]] # Null /\ state[slot] = "ACTIVE"
    BY <1>1 DEF Stable, IInv, StreamInv
  <2>2. InChunk' /\ ChunkLength' = ChunkLength /\ FileSeen' = offset /\ FileSeen = offset
    BY <1>1, <1>2 DEF InChunk, ChunkLength, FileSeen
  <2>3. \A i \in Units(slot) : i < offset => files[path[slot]].bytes[i] = gpu[slot][i]
    BY <1>1, <2>2 DEF Stable, IInv, StreamInv
  <2>4. \A j \in Chunk : j < ChunkLength => staging'[j] = gpu[slot][offset + j]
    BY <1>1
  <2>5. offset <= SizeOf[slot] /\ 0 < ChunkLength
    BY <1>2
  <2>6. QED
    BY <1>1, <1>2, <1>3, <2>1, <2>2, <2>3, <2>4, <2>5 DEF StreamInv
<1>6. LinkedInv' /\ BlankInv' /\ ContentKept'
  BY <1>1 DEF Stable, IInv, LinkedInv, BlankInv, ContentKept
<1>7. QED
  BY <1>1, <1>4, <1>5, <1>6, FilesKept DEF IInv

\* A chunk goes from the staging buffer to the device.
LEMMA CopyInStep ==
  ASSUME Stable, CopyIn
  PROVE  IInv'
<1>1. /\ UNCHANGED <<state, expected, path, files, dir, staging, call, slot, exited>>
      /\ call = "onload" /\ step = "device" /\ step' = "file" /\ done' = 0
      /\ offset' = offset + ChunkLength
      /\ gpu' = [gpu EXCEPT ![slot] =
                  [i \in Units(slot) |-> IF i \in offset .. offset + ChunkLength - 1
                                         THEN staging[i - offset] ELSE gpu[slot][i]]]
  BY DEF CopyIn, tensors
<1>2. InChunk /\ state[slot] = "PAUSED" /\ path[slot] # Null /\ files[path[slot]] # Null
  BY <1>1 DEF Stable, IInv, StreamInv
<1>3. /\ slot \in Slots /\ SizeOf[slot] \in Nat /\ offset \in Nat
      /\ ChunkLength \in 1 .. ChunkSize /\ offset + ChunkLength <= SizeOf[slot]
      /\ ChunkSize \in Nat
  BY <1>1, <1>2, ChunkInTensor, DiskAssumption
<1>4. /\ staging \in [Chunk -> Data]
      /\ gpu = [s \in Slots |-> gpu[s]] /\ gpu[slot] \in [Units(slot) -> Data]
  BY <1>1, <1>3 DEF Stable, IInv, TypeOK, StreamInv
<1>5. \A i \in Units(slot) :
         gpu'[slot][i] = IF i \in offset .. offset + ChunkLength - 1
                         THEN staging[i - offset] ELSE gpu[slot][i]
  BY <1>1, <1>3, <1>4
<1>6. \A s \in Slots : s # slot => gpu'[s] = gpu[s]
  BY <1>1, <1>4
<1>7. \A i \in Units(slot) : i \in offset .. offset + ChunkLength - 1 =>
         i - offset \in Chunk /\ i - offset < ChunkLength /\ offset + (i - offset) = i
  BY <1>3 DEF Units, Chunk
<1>8. TypeOK'
  <2>1. gpu'[slot] \in [Units(slot) -> Data]
    BY <1>1, <1>3, <1>4, <1>7
  <2>2. gpu' = [s \in Slots |-> gpu'[s]]
    BY <1>1, <1>4
  <2>3. offset' \in Nat
    BY <1>1, <1>3
  <2>4. QED
    BY <1>1, <1>6, <2>1, <2>2, <2>3, FilesKept DEF Stable, IInv, TypeOK
<1>9. StreamInv'
  <2>1. \A i \in Units(slot) : i < offset' => gpu'[slot][i] = expected[slot][i]
    <3>1. SUFFICES ASSUME NEW i \in Units(slot), i < offset'
                   PROVE  gpu'[slot][i] = expected[slot][i]
      OBVIOUS
    <3>2. CASE i < offset
      <4>1. i \notin offset .. offset + ChunkLength - 1
        BY <3>2, <1>3 DEF Units
      <4>2. gpu[slot][i] = expected[slot][i]
        BY <3>2, <1>1 DEF Stable, IInv, StreamInv
      <4>3. QED
        BY <4>1, <4>2, <1>5
    <3>3. CASE ~(i < offset)
      <4>1. i \in offset .. offset + ChunkLength - 1
        BY <3>1, <3>3, <1>1, <1>3 DEF Units
      <4>2. staging[i - offset] = expected[slot][offset + (i - offset)]
        BY <4>1, <1>1, <1>2, <1>7 DEF Stable, IInv, StreamInv
      <4>3. QED
        BY <4>1, <4>2, <1>5, <1>7
    <3>4. QED
      BY <3>2, <3>3
  <2>2. InChunk' => 0 < ChunkLength'
    BY <1>1, <1>3 DEF InChunk, ChunkLength
  <2>3. \A j \in Chunk : ~(j < 0)
    BY <1>3 DEF Chunk
  <2>4. offset' <= SizeOf[slot]
    BY <1>1, <1>3
  <2>5. staging # Null
    BY <1>1 DEF Stable, IInv, StreamInv
  <2>6. QED
    BY <1>1, <1>2, <1>3, <2>1, <2>2, <2>3, <2>4, <2>5 DEF StreamInv
<1>10. LinkedInv' /\ BlankInv' /\ ContentKept'
  BY <1>1, <1>2, <1>6 DEF Stable, IInv, LinkedInv, BlankInv, ContentKept
<1>11. QED
  BY <1>1, <1>8, <1>9, <1>10, FilesKept DEF IInv

\* The part of the chunk that a system call transfers ends in the chunk.
LEMMA PartInChunk ==
  ASSUME Stable, call # "none", step = "file", InChunk,
         NEW k \in Transferred(ChunkLength - done)
  PROVE  k \in 1 .. ChunkLength - done /\ done < ChunkLength
<1>1. done < ChunkLength /\ done \in Nat /\ ChunkLength \in Nat
  BY ChunkInTensor DEF Stable, IInv, StreamInv
<1>2. QED
  BY <1>1 DEF Transferred

\* The file has the tensor up to the part that pwrite has transferred.
LEMMA WriteSomeStep ==
  ASSUME Stable, WriteSome
  PROVE  IInv'
<1>1. /\ call = "offload" /\ step = "file"
      /\ UNCHANGED <<state, gpu, expected, path, dir, staging, call, slot, exited>>
  BY DEF WriteSome, tensors
<1>2. InChunk /\ state[slot] = "ACTIVE" /\ staging # Null
  BY <1>1 DEF Stable, IInv, StreamInv
<1>3. /\ slot \in Slots /\ SizeOf[slot] \in Nat /\ offset \in Nat /\ done \in Nat
      /\ ChunkLength \in 1 .. ChunkSize /\ offset + ChunkLength <= SizeOf[slot]
      /\ ChunkSize \in Nat
  BY <1>1, <1>2, ChunkInTensor, DiskAssumption
<1> DEFINE f == path[slot]
           file == files[f]
<1>4. f \in Files /\ file \in FileOf(slot) /\ f # Null
  BY <1>1, FileOfCall, DiskAssumption
<1>5. PICK k \in Transferred(ChunkLength - done) :
          /\ files' = [files EXCEPT ![f].bytes =
                [i \in Units(slot) |-> IF i \in offset + done .. offset + done + k - 1
                                       THEN staging[i - offset] ELSE file.bytes[i]]]
          /\ IF done + k = ChunkLength
             THEN done' = 0 /\ offset' = offset + ChunkLength /\ step' = "device"
             ELSE done' = done + k /\ UNCHANGED <<offset, step>>
  BY DEF WriteSome, Advance
<1>6. k \in 1 .. ChunkLength - done /\ done < ChunkLength
  BY <1>1, <1>2, PartInChunk
<1> DEFINE bytes == [i \in Units(slot) |-> IF i \in offset + done .. offset + done + k - 1
                                          THEN staging[i - offset] ELSE file.bytes[i]]
           new == [file EXCEPT !.bytes = bytes]
<1>7. \A i \in Units(slot) : i \in offset + done .. offset + done + k - 1 =>
         i - offset \in Chunk /\ i - offset < ChunkLength /\ offset + (i - offset) = i
  BY <1>3, <1>6 DEF Units, Chunk
<1>8. new \in FileOf(slot) /\ new # Null /\ new.bytes = bytes /\ new.linked = file.linked
  <2>1. staging \in [Chunk -> Data]
    BY <1>2 DEF Stable, IInv, TypeOK
  <2>2. bytes \in [Units(slot) -> Data]
    BY <1>4, <1>7, <2>1 DEF FileOf
  <2>3. new \in FileOf(slot) /\ new.bytes = bytes /\ new.linked = file.linked
    BY <1>4, <2>2 DEF FileOf
  <2>4. QED
    BY <1>3, <2>3, DiskAssumption
<1>9. files' = [files EXCEPT ![f] = new]
  BY <1>5
<1>10. \A g \in Files : files'[g] = IF g = f THEN new ELSE files[g]
  BY <1>9 DEF Stable, IInv, TypeOK
<1>11. \A i \in Units(slot) :
          bytes[i] = IF i \in offset + done .. offset + done + k - 1
                     THEN staging[i - offset] ELSE file.bytes[i]
  OBVIOUS
<1>12. offset' \in Nat /\ done' \in Nat /\ step' \in {"device", "file"} /\ offset' <= SizeOf[slot]
  BY <1>1, <1>3, <1>5, <1>6
<1>13. FileSeen' = offset + done + k
  BY <1>1, <1>3, <1>5, <1>6 DEF FileSeen
<1> HIDE DEF f, file, bytes, new
<1>14. /\ files' = [g \in Files |-> files'[g]]
       /\ \A g \in Files : files'[g] = Null \/ \E u \in Slots : files'[g] \in FileOf(u)
       /\ FilesAccounted'
  <2>1. path[slot] = f
    BY DEF f
  <2>2. QED
    BY <1>1, <1>3, <1>4, <1>8, <1>9, <2>1, FileChanges
<1>15. TypeOK'
  BY <1>1, <1>12, <1>14 DEF Stable, IInv, TypeOK
<1>16. StreamInv'
  <2>1. \A i \in Units(slot) : i < offset + done + k => bytes[i] = gpu[slot][i]
    <3>1. SUFFICES ASSUME NEW i \in Units(slot), i < offset + done + k
                   PROVE  bytes[i] = gpu[slot][i]
      OBVIOUS
    <3>2. CASE i < offset + done
      <4>1. i \notin offset + done .. offset + done + k - 1
        BY <3>2, <1>3 DEF Units
      <4>2. file.bytes[i] = gpu[slot][i]
        BY <3>2, <1>1 DEF Stable, IInv, StreamInv, FileSeen, f, file
      <4>3. QED
        BY <4>1, <4>2, <1>11
    <3>3. CASE ~(i < offset + done)
      <4>1. i \in offset + done .. offset + done + k - 1
        BY <3>1, <3>3, <1>3, <1>6 DEF Units
      <4>2. staging[i - offset] = gpu[slot][offset + (i - offset)]
        BY <4>1, <1>1, <1>7 DEF Stable, IInv, StreamInv
      <4>3. QED
        BY <4>1, <4>2, <1>7, <1>11
    <3>4. QED
      BY <3>2, <3>3
  <2>2. path'[slot] = f /\ files'[f] = new /\ new.bytes = bytes
    BY <1>1, <1>4, <1>8, <1>10 DEF f
  <2>3. step' = "file" => /\ InChunk' /\ ChunkLength' = ChunkLength /\ done' < ChunkLength
                          /\ \A j \in Chunk : j < ChunkLength => staging[j] = gpu[slot][offset + j]
                          /\ offset' = offset
    <3>1. HAVE step' = "file"
    <3>2. offset' = offset /\ done' = done + k /\ done + k # ChunkLength
      BY <3>1, <1>5
    <3>3. InChunk' /\ ChunkLength' = ChunkLength
      BY <3>2, <1>1, <1>2 DEF InChunk, ChunkLength
    <3>4. done' < ChunkLength
      BY <3>2, <1>3, <1>6
    <3>5. QED
      BY <3>2, <3>3, <3>4, <1>1 DEF Stable, IInv, StreamInv
  <2>4. QED
    BY <1>1, <1>2, <1>3, <1>4, <1>8, <1>12, <1>13, <2>1, <2>2, <2>3 DEF StreamInv
<1>17. LinkedInv' /\ BlankInv'
  BY <1>1, <1>8, <1>10, <1>12 DEF Stable, IInv, LinkedInv, BlankInv, f, file
<1>18. ContentKept'
  <2>1. \A s \in Slots : state[s] = "PAUSED" =>
            path[s] # Null /\ path[s] # f /\ path[s] \in Files
    BY <1>2, <1>3 DEF Stable, IInv, TypeOK, ContentKept, FilesAccounted, f
  <2>2. \A s \in Slots : state[s] = "PAUSED" => files'[path[s]] = files[path[s]]
    BY <2>1, <1>10
  <2>3. QED
    BY <1>1, <2>1, <2>2 DEF Stable, IInv, ContentKept
<1>19. QED
  BY <1>14, <1>15, <1>16, <1>17, <1>18 DEF IInv

\* The staging buffer has the chunk up to the part that pread has transferred.
LEMMA ReadSomeStep ==
  ASSUME Stable, ReadSome
  PROVE  IInv'
<1>1. /\ call = "onload" /\ step = "file" /\ InChunk
      /\ UNCHANGED <<state, gpu, expected, path, files, dir, call, slot, offset, exited>>
  BY DEF ReadSome, tensors
<1>2. /\ state[slot] = "PAUSED" /\ path[slot] # Null /\ files[path[slot]] # Null
      /\ staging # Null
  BY <1>1 DEF Stable, IInv, StreamInv
<1>3. /\ slot \in Slots /\ SizeOf[slot] \in Nat /\ offset \in Nat /\ done \in Nat
      /\ ChunkLength \in 1 .. ChunkSize /\ offset + ChunkLength <= SizeOf[slot]
      /\ ChunkSize \in Nat
  BY <1>1, ChunkInTensor, DiskAssumption
<1>4. files[path[slot]].bytes = expected[slot]
  BY <1>2, <1>3 DEF Stable, IInv, ContentKept
<1>5. PICK k \in Transferred(ChunkLength - done) :
          /\ staging' = [j \in Chunk |-> IF j \in done .. done + k - 1
                                         THEN files[path[slot]].bytes[offset + j] ELSE staging[j]]
          /\ done' = done + k
          /\ step' = IF done + k = ChunkLength THEN "device" ELSE "file"
  BY DEF ReadSome, Advance
<1>6. k \in 1 .. ChunkLength - done /\ done < ChunkLength
  BY <1>1, PartInChunk
<1>7. staging' \in [Chunk -> Data] /\ staging' # Null
  <2>1. staging \in [Chunk -> Data] /\ expected[slot] \in [Units(slot) -> Data]
    BY <1>2, <1>3 DEF Stable, IInv, TypeOK
  <2>2. \A j \in Chunk : j \in done .. done + k - 1 => offset + j \in Units(slot)
    BY <1>3, <1>6 DEF Chunk, Units
  <2>3. staging' \in [Chunk -> Data]
    BY <1>4, <1>5, <2>1, <2>2
  <2>4. Null \notin [Chunk -> Data]
    BY DiskAssumption
  <2>5. QED
    BY <2>3, <2>4
<1>8. TypeOK'
  <2>1. done' \in Nat /\ step' \in {"device", "file"}
    BY <1>3, <1>5, <1>6
  <2>2. QED
    BY <1>1, <1>7, <2>1, FilesKept DEF Stable, IInv, TypeOK
<1>9. StreamInv'
  <2>1. \A j \in Chunk : j < done + k => staging'[j] = expected[slot][offset + j]
    <3>1. SUFFICES ASSUME NEW j \in Chunk, j < done + k
                   PROVE  staging'[j] = expected[slot][offset + j]
      OBVIOUS
    <3>2. CASE j < done
      <4>1. j \notin done .. done + k - 1
        BY <3>2, <1>3 DEF Chunk
      <4>2. staging[j] = expected[slot][offset + j]
        BY <3>2, <1>1 DEF Stable, IInv, StreamInv
      <4>3. QED
        BY <4>1, <4>2, <1>5
    <3>3. CASE ~(j < done)
      <4>1. j \in done .. done + k - 1
        BY <3>1, <3>3, <1>3, <1>6 DEF Chunk
      <4>2. QED
        BY <4>1, <1>4, <1>5
    <3>4. QED
      BY <3>2, <3>3
  <2>2. InChunk' /\ ChunkLength' = ChunkLength
    BY <1>1 DEF InChunk, ChunkLength
  <2>3. step' = "file" => done' < ChunkLength /\ done' = done + k
    BY <1>3, <1>5, <1>6
  <2>4. step' = "device" => ChunkLength = done + k
    BY <1>5
  <2>5. step' \in {"device", "file"} /\ offset <= SizeOf[slot]
    BY <1>3, <1>5
  <2>6. \A i \in Units(slot) : i < offset => gpu[slot][i] = expected[slot][i]
    BY <1>1 DEF Stable, IInv, StreamInv
  <2>7. QED
    BY <1>1, <1>2, <1>3, <1>7, <2>1, <2>2, <2>3, <2>4, <2>5, <2>6 DEF StreamInv
<1>10. LinkedInv' /\ BlankInv' /\ ContentKept'
  <2>1. step' # "open"
    BY <1>5
  <2>2. QED
    BY <1>1, <2>1 DEF Stable, IInv, LinkedInv, BlankInv, ContentKept
<1>11. QED
  BY <1>1, <1>8, <1>9, <1>10, FilesKept DEF IInv

\* What DropPageCache leaves when no page is lost.
LEMMA NothingLost ==
  ASSUME Stable, NEW file \in FileOf(slot)
  PROVE  LET left == DropPageCache(file, {})
         IN  /\ left = Null \/ left \in FileOf(slot)
             /\ left # Null => left.bytes = file.bytes /\ left.linked
<1> DEFINE bytes == [i \in Units(slot) |-> IF i \in {} THEN file.stored[i] ELSE file.bytes[i]]
<1>1. file.bytes \in [Units(slot) -> Data]
  BY DEF FileOf
<1>2. bytes = file.bytes
  BY <1>1
<1>3. DropPageCache(file, {}) =
         IF file.linked THEN [file EXCEPT !.bytes = bytes, !.stored = bytes] ELSE Null
  BY DEF DropPageCache
<1> HIDE DEF bytes
<1>4. QED
  BY <1>1, <1>2, <1>3 DEF FileOf

\* All chunks are in the file before the memory is unmapped.
LEMMA EndOffloadStep ==
  ASSUME Stable, "writeback" \notin Faults, EndOffload
  PROVE  IInv'
<1>1. /\ call = "offload" /\ step = "device" /\ ~InChunk
      /\ UNCHANGED <<expected, path, dir, staging, step, offset, done, exited>>
      /\ gpu' = [gpu EXCEPT ![slot] = Blank(slot)]
      /\ state' = [state EXCEPT ![slot] = "PAUSED"]
      /\ call' = "none" /\ slot' = Null
  BY DEF EndOffload
<1> DEFINE f == path[slot]
           left == DropPageCache(files[f], {})
<1>2. files' = [files EXCEPT ![f] = left]
  BY DEF EndOffload, LostPages
<1>3. /\ slot \in Slots /\ f \in Files /\ files[f] \in FileOf(slot) /\ f # Null
      /\ state[slot] = "ACTIVE"
  BY <1>1, FileOfCall, DiskAssumption DEF Stable, IInv, StreamInv
<1>4. /\ left = Null \/ left \in FileOf(slot)
      /\ left # Null => left.bytes = files[f].bytes /\ left.linked
  BY <1>3, NothingLost
<1> HIDE DEF left
<1>5. \A g \in Files : files'[g] = IF g = f THEN left ELSE files[g]
  BY <1>2 DEF Stable, IInv, TypeOK
<1>6. \A s \in Slots : /\ gpu'[s] = IF s = slot THEN Blank(slot) ELSE gpu[s]
                       /\ state'[s] = IF s = slot THEN "PAUSED" ELSE state[s]
  BY <1>1 DEF Stable, IInv, TypeOK
<1>7. files[f].bytes = expected[slot]
  <2>1. \A i \in Units(slot) : i < offset
    <3>1. offset \in Nat /\ SizeOf[slot] \in Nat
      BY <1>3, DiskAssumption DEF Stable, IInv, TypeOK
    <3>2. QED
      BY <3>1, <1>1 DEF Units, InChunk
  <2>2. \A i \in Units(slot) : files[f].bytes[i] = gpu[slot][i]
    BY <1>1, <2>1 DEF Stable, IInv, StreamInv, FileSeen
  <2>3. files[f].bytes \in [Units(slot) -> Data] /\ gpu[slot] \in [Units(slot) -> Data]
    BY <1>3 DEF FileOf, Stable, IInv, TypeOK
  <2>4. files[f].bytes = gpu[slot]
    BY <2>2, <2>3
  <2>5. QED
    BY <1>3, <2>4 DEF Stable, IInv, ContentKept
<1>8. /\ files' = [g \in Files |-> files'[g]]
      /\ \A g \in Files : files'[g] = Null \/ \E u \in Slots : files'[g] \in FileOf(u)
      /\ FilesAccounted'
  BY <1>1, <1>2, <1>3, <1>4, FileChanges
<1>9. TypeOK'
  <2>1. Blank(slot) \in [Units(slot) -> Data]
    BY DEF Blank, Data
  <2>2. gpu' = [s \in Slots |-> gpu'[s]]
    BY <1>1 DEF Stable, IInv, TypeOK
  <2>3. \A s \in Slots : gpu'[s] \in [Units(s) -> Data]
    BY <1>6, <2>1 DEF Stable, IInv, TypeOK
  <2>4. state' \in [Slots -> {"ABSENT", "ACTIVE", "PAUSED", "FREED"}]
    BY <1>1 DEF Stable, IInv, TypeOK
  <2>5. QED
    BY <1>1, <1>8, <2>2, <2>3, <2>4 DEF Stable, IInv, TypeOK
<1>10. StreamInv'
  BY <1>1 DEF StreamInv
<1>11. LinkedInv' /\ BlankInv'
  BY <1>1, <1>4, <1>5, <1>6 DEF Stable, IInv, LinkedInv, BlankInv
<1>12. ContentKept'
  <2>1. SUFFICES ASSUME NEW s \in Slots
                 PROVE  /\ state'[s] = "ACTIVE" => gpu'[s] = expected'[s]
                        /\ state'[s] = "PAUSED" => path'[s] # Null
                        /\ state'[s] = "PAUSED" /\ files'[path'[s]] # Null =>
                              files'[path'[s]].bytes = expected'[s]
    BY DEF ContentKept
  <2>2. CASE s = slot
    BY <2>2, <1>1, <1>3, <1>4, <1>5, <1>6, <1>7
  <2>3. CASE s # slot
    <3>1. state[s] = "PAUSED" => path[s] # Null /\ path[s] # f /\ path[s] \in Files
      <4>1. state[s] = "PAUSED" => path[s] # Null /\ path[s] \in Files
        BY DEF Stable, IInv, TypeOK, ContentKept
      <4>2. path[s] # Null => path[s] # path[slot]
        BY <2>3, <1>3 DEF Stable, IInv, FilesAccounted
      <4>3. QED
        BY <4>1, <4>2
    <3>2. state[s] = "PAUSED" => files'[path[s]] = files[path[s]]
      BY <3>1, <1>5
    <3>3. QED
      BY <2>3, <3>1, <3>2, <1>1, <1>6 DEF Stable, IInv, ContentKept
  <2>4. QED
    BY <2>2, <2>3
<1>13. QED
  BY <1>8, <1>9, <1>10, <1>11, <1>12 DEF IInv

\* All chunks are on the device before the tensor counts as active.
LEMMA EndOnloadStep ==
  ASSUME Stable, EndOnload
  PROVE  IInv'
<1>1. /\ call = "onload" /\ step = "file" /\ ~InChunk
      /\ UNCHANGED <<gpu, expected, path, dir, staging, step, offset, done, exited>>
      /\ state' = [state EXCEPT ![slot] = "ACTIVE"]
      /\ call' = "none" /\ slot' = Null
  BY DEF EndOnload
<1> DEFINE f == path[slot]
           left == DropPageCache(files[f], {})
<1>2. files' = [files EXCEPT ![f] = left]
  BY DEF EndOnload
<1>3. /\ slot \in Slots /\ f \in Files /\ files[f] \in FileOf(slot) /\ f # Null
      /\ state[slot] = "PAUSED"
  BY <1>1, FileOfCall, DiskAssumption DEF Stable, IInv, StreamInv
<1>4. /\ left = Null \/ left \in FileOf(slot)
      /\ left # Null => left.bytes = files[f].bytes /\ left.linked
  BY <1>3, NothingLost
<1> HIDE DEF left
<1>5. \A g \in Files : files'[g] = IF g = f THEN left ELSE files[g]
  BY <1>2 DEF Stable, IInv, TypeOK
<1>6. \A s \in Slots : state'[s] = IF s = slot THEN "ACTIVE" ELSE state[s]
  BY <1>1 DEF Stable, IInv, TypeOK
<1>7. gpu[slot] = expected[slot]
  <2>1. \A i \in Units(slot) : i < offset
    <3>1. offset \in Nat /\ SizeOf[slot] \in Nat
      BY <1>3, DiskAssumption DEF Stable, IInv, TypeOK
    <3>2. QED
      BY <3>1, <1>1 DEF Units, InChunk
  <2>2. \A i \in Units(slot) : gpu[slot][i] = expected[slot][i]
    BY <1>1, <2>1 DEF Stable, IInv, StreamInv
  <2>3. gpu[slot] \in [Units(slot) -> Data] /\ expected[slot] \in [Units(slot) -> Data]
    BY <1>3 DEF Stable, IInv, TypeOK
  <2>4. QED
    BY <2>2, <2>3
<1>8. /\ files' = [g \in Files |-> files'[g]]
      /\ \A g \in Files : files'[g] = Null \/ \E u \in Slots : files'[g] \in FileOf(u)
      /\ FilesAccounted'
  BY <1>1, <1>2, <1>3, <1>4, FileChanges
<1>9. TypeOK'
  BY <1>1, <1>8 DEF Stable, IInv, TypeOK
<1>10. StreamInv'
  BY <1>1 DEF StreamInv
<1>11. LinkedInv' /\ BlankInv'
  BY <1>1, <1>4, <1>5, <1>6 DEF Stable, IInv, LinkedInv, BlankInv
<1>12. ContentKept'
  <2>1. \A s \in Slots : s # slot /\ state[s] = "PAUSED" =>
            path[s] # Null /\ path[s] # f /\ path[s] \in Files
    BY <1>3 DEF Stable, IInv, TypeOK, ContentKept, FilesAccounted
  <2>2. \A s \in Slots : s # slot /\ state[s] = "PAUSED" =>
            files'[path[s]] = files[path[s]]
    BY <2>1, <1>5
  <2>3. QED
    BY <2>1, <2>2, <1>1, <1>6, <1>7 DEF Stable, IInv, ContentKept
<1>13. QED
  BY <1>8, <1>9, <1>10, <1>11, <1>12 DEF IInv

------------------------------------------------------------------------------
(* Failures *)

\* The process ends where it is.
LEMMA CallFailsStep ==
  ASSUME Stable, CallFails
  PROVE  IInv'
<1>1. /\ UNCHANGED <<state, gpu, expected, path, files, dir, staging, call, step, slot, offset, done>>
      /\ exited' = "failed"
  BY DEF CallFails, Exit, tensors, stream
<1>2. TypeOK' /\ StreamInv'
  BY <1>1 DEF Stable, IInv, TypeOK, StreamInv, InChunk, ChunkLength, FileSeen
<1>3. LinkedInv' /\ BlankInv' /\ ContentKept' /\ FilesAccounted'
  BY <1>1 DEF Stable, IInv, LinkedInv, BlankInv, ContentKept, FilesAccounted
<1>4. QED
  BY <1>2, <1>3 DEF IInv

\* A file that is open keeps its contents without a name.
LEMMA FileLostStep ==
  ASSUME Stable, NEW f \in Files, FileLost(f)
  PROVE  IInv'
<1> DEFINE open == call # "none" /\ step # "open" /\ path[slot] = f
           left == IF open THEN [files[f] EXCEPT !.linked = FALSE] ELSE Null
<1>1. /\ UNCHANGED <<state, gpu, expected, path, dir, staging, stream, exited>>
      /\ files[f] # Null
      /\ files' = [files EXCEPT ![f] = left]
  BY DEF FileLost, tensors
<1>2. PICK s \in Slots : path[s] = f /\ files[f] \in FileOf(s)
  BY <1>1 DEF Stable, IInv, FilesAccounted
<1>3. /\ open => left \in FileOf(s) /\ left # Null /\ left.bytes = files[f].bytes
      /\ ~open => left = Null
  BY <1>2, DiskAssumption DEF FileOf
<1>4. \A g \in Files : files'[g] = IF g = f THEN left ELSE files[g]
  BY <1>1 DEF Stable, IInv, TypeOK
<1>5. /\ files' = [g \in Files |-> files'[g]]
      /\ \A g \in Files : files'[g] = Null \/ \E u \in Slots : files'[g] \in FileOf(u)
      /\ FilesAccounted'
  BY <1>1, <1>2, <1>3, FileChanges
<1>6. UNCHANGED <<call, step, slot, offset, done>>
  BY <1>1 DEF stream
<1> HIDE DEF left
<1>7. TypeOK'
  BY <1>1, <1>5, <1>6 DEF Stable, IInv, TypeOK
<1>8. StreamInv'
  <2>1. CASE call = "none"
    BY <2>1, <1>6 DEF StreamInv
  <2>2. CASE call # "none"
    <3>1. step # "open" => /\ path[slot] \in Files /\ files'[path[slot]] # Null
                           /\ files'[path[slot]].bytes = files[path[slot]].bytes
      BY <2>2, <1>3, <1>4, FileOfCall
    <3>2. InChunk' = InChunk /\ ChunkLength' = ChunkLength /\ FileSeen' = FileSeen
      BY <1>6 DEF InChunk, ChunkLength, FileSeen
    <3>3. QED
      BY <2>2, <3>1, <3>2, <1>1, <1>6 DEF Stable, IInv, StreamInv
  <2>3. QED
    BY <2>1, <2>2
<1>9. LinkedInv' /\ BlankInv'
  BY <1>1, <1>3, <1>4, <1>6 DEF Stable, IInv, LinkedInv, BlankInv
<1>10. ContentKept'
  <2>1. \A u \in Slots : state[u] = "PAUSED" => path[u] # Null /\ path[u] \in Files
    BY DEF Stable, IInv, TypeOK, ContentKept
  <2>2. \A g \in Files : files'[g] # Null => /\ files[g] # Null
                                            /\ files'[g].bytes = files[g].bytes
    BY <1>1, <1>3, <1>4
  <2>3. QED
    BY <1>1, <2>1, <2>2 DEF Stable, IInv, ContentKept
<1>11. QED
  BY <1>5, <1>7, <1>8, <1>9, <1>10 DEF IInv

------------------------------------------------------------------------------
(* The invariant *)

\* Nothing changes when a system call is interrupted, or after the exit.
LEMMA StutterStep ==
  ASSUME IInv, UNCHANGED vars
  PROVE  IInv'
<1>1. UNCHANGED <<state, gpu, expected, path, files, dir, staging, call, step, slot, offset, done, exited>>
  BY DEF vars, tensors, stream
<1>2. TypeOK' /\ StreamInv'
  BY <1>1 DEF IInv, TypeOK, StreamInv, InChunk, ChunkLength, FileSeen
<1>3. LinkedInv' /\ BlankInv' /\ ContentKept' /\ FilesAccounted'
  BY <1>1 DEF IInv, LinkedInv, BlankInv, ContentKept, FilesAccounted
<1>4. QED
  BY <1>2, <1>3 DEF IInv

\* Nothing is allocated at first, and there are no files.
LEMMA InitIInv == Init => IInv
<1> SUFFICES ASSUME Init PROVE IInv
  OBVIOUS
<1>1. \A s \in Slots : Blank(s) \in [Units(s) -> Data]
  BY DEF Blank, Data
<1>2. TypeOK
  BY <1>1 DEF Init, TypeOK
<1>3. StreamInv /\ LinkedInv /\ BlankInv /\ ContentKept /\ FilesAccounted
  BY DEF Init, StreamInv, LinkedInv, BlankInv, ContentKept, FilesAccounted
<1>4. QED
  BY <1>2, <1>3 DEF IInv

\* Every step preserves IInv.
LEMMA Inductive ==
  ASSUME IInv, [Next]_vars, "writeback" \notin Faults
  PROVE  IInv'
<1>1. CASE UNCHANGED vars
  BY <1>1, StutterStep
<1>2. ASSUME exited = "no", Transfer
      PROVE  IInv'
  <2>1. Stable
    BY <1>2 DEF Stable
  <2>2. QED
    BY <1>2, <2>1, CreateSlotFileStep, OpenSlotFileStep, OpenFailsStep, CopyOutStep, CopyInStep,
       WriteSomeStep, ReadSomeStep, EndOffloadStep, EndOnloadStep
    DEF Transfer
<1>3. ASSUME exited = "no", Client
      PROVE  IInv'
  <2>1. Stable
    BY <1>3 DEF Stable
  <2>2. QED
    BY <1>3, <2>1, MallocStep, FreeStep, ReleaseStep, BeginStep, WriteStep DEF Client
<1>4. ASSUME exited = "no", Interrupted \/ CallFails
      PROVE  IInv'
  <2>1. Stable
    BY <1>4 DEF Stable
  <2>2. QED
    BY <1>1, <1>4, <2>1, CallFailsStep DEF Interrupted
<1>5. ASSUME exited = "no", NEW d \in Dirs, SetDir(d)
      PROVE  IInv'
  BY <1>5, SetDirStep DEF Stable
<1>6. ASSUME exited = "no", NEW f \in Files, FileLost(f)
      PROVE  IInv'
  BY <1>6, FileLostStep DEF Stable
<1>7. QED
  BY <1>1, <1>2, <1>3, <1>4, <1>5, <1>6 DEF Next, Terminated

\* Every reachable state satisfies IInv, the properties included
\* (disk_backend.cpp:123-209).
THEOREM Invariance ==
  ASSUME "writeback" \notin Faults
  PROVE  Spec => []IInv
<1>1. Init => IInv
  BY InitIInv
<1>2. IInv /\ [Next]_vars => IInv'
  BY Inductive
<1>3. QED
  BY <1>1, <1>2, PTL DEF Spec

\* What was paused to the disk is restored bit by bit by resume: however the
\* copy is cut into chunks and system calls, whoever frees other tensors
\* meanwhile, and although every slot goes through one staging buffer.
THEOREM ContentIsKept ==
  ASSUME "writeback" \notin Faults
  PROVE  Spec => []ContentKept
<1>1. IInv => ContentKept
  BY DEF IInv
<1>2. QED
  BY <1>1, Invariance, PTL

\* One file for each slot that was ever paused, of the size of its tensor, gone
\* with the tensor; and it is missing only when others have removed it.
THEOREM FilesAreAccounted ==
  ASSUME "writeback" \notin Faults
  PROVE  Spec => []FilesAccounted
<1>1. IInv => FilesAccounted
  BY DEF IInv
<1>2. QED
  BY <1>1, Invariance, PTL
==============================================================================

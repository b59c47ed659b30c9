----------------------- MODULE AllocatorRefinementProofs -----------------------
(***************************************************************************)
(* The proof that Allocator implements PauseableMemory.  Most steps of the *)
(* allocator change nothing its clients can see; the lemmas of the first   *)
(* part say when that is so, those of the second treat the steps that are  *)
(* steps of PauseableMemory.                                               *)
(***************************************************************************)
EXTENDS AllocatorRefinement, AllocatorProofs

CallLabels == {"p_lock", "p_loop", "r_lock", "r_loop"}

\* No pause and no resume begins, ends or moves on.
CallsKept ==
    /\ todo' = todo
    /\ \A t \in Threads :
          /\ pc'[t] = pc[t] \/ (pc[t] \notin CallLabels /\ pc'[t] \notin CallLabels)
          /\ pc[t] \in CallLabels => filter'[t] = filter[t]

\* The entry of p, the memory mapped at p and its backups stay as they are.
BytesKept(p) ==
    /\ meta'[p] = meta[p]
    /\ meta[p] # Null =>
          /\ mapping'[p] = mapping[p]
          /\ mapping[p] # Null => content'[mapping[p]] = content[mapping[p]]
          /\ meta[p].cpu_backup # Null => hostData'[meta[p].cpu_backup] = hostData[meta[p].cpu_backup]
          /\ meta[p].disk # Null => fileData'[meta[p].disk] = fileData[meta[p].disk]

\* What a client sees of the step.
SameTensor(p)  == TensorAt(p)' = TensorAt(p)
SameTensors    == \A p \in Ptrs : TensorAt(p)' = TensorAt(p)
SameRequests   == \A t \in Threads : RequestOf(t)' = RequestOf(t)

LEMMA KeptRequests ==
  ASSUME CallsKept
  PROVE  SameRequests
  BY DEF CallsKept, CallLabels, SameRequests, RequestOf, InPause, InResume

LEMMA KeptCalls ==
  ASSUME CallsKept, NEW p \in Ptrs, meta'[p] = meta[p]
  PROVE  /\ Visited("p_loop", p)' <=> Visited("p_loop", p)
         /\ Visited("r_loop", p)' <=> Visited("r_loop", p)
         /\ GivenUp(p)' <=> GivenUp(p)
  BY DEF CallsKept, CallLabels, Visited, GivenUp, InPause, Matches

LEMMA KeptTensor ==
  ASSUME CallsKept, NEW p \in Ptrs, BytesKept(p)
  PROVE  SameTensor(p)
<1>1. meta'[p] = meta[p]
  BY DEF BytesKept
<1>2. IsActive(p)' = IsActive(p)
  BY <1>1, KeptCalls DEF IsActive
<1>3. meta[p] # Null => Bytes(p)' = Bytes(p)
  BY <1>1, KeptCalls DEF Bytes, BytesKept
<1>4. QED
  BY <1>1, <1>2, <1>3 DEF SameTensor, TensorAt, StateOf

\* A step that changes no entry and no data.
LEMMA KeptData ==
  ASSUME CallsKept, UNCHANGED <<meta, mapping, content, hostData, fileData>>
  PROVE  SameTensors /\ SameRequests
  BY KeptTensor, KeptRequests DEF SameTensors, SameTensor, BytesKept

\* A step that changes nothing a client can see is a stutter.
LEMMA Stutter ==
  ASSUME SameTensors, SameRequests, Reason' = Reason
  PROVE  UNCHANGED Memory!vars
  BY DEF SameTensors, SameRequests, Memory!vars, Tensors, Requests

LEMMA DataStutter ==
  ASSUME CallsKept, UNCHANGED <<meta, mapping, content, hostData, fileData, exited>>
  PROVE  UNCHANGED Memory!vars
  BY KeptData, Stutter DEF Reason

------------------------------------------------------------------------------
(* Steps that no client can see *)

\* An address without an entry: what is mapped there, and what the unit mapped
\* there holds, is nobody's tensor.
LEMMA OtherAddress ==
  ASSUME IInv, CallsKept, NEW q \in Ptrs, meta[q] = Null,
         UNCHANGED <<meta, hostData, fileData, exited>>,
         \A p \in Ptrs \ {q} : mapping'[p] = mapping[p],
         \A h \in Handles \ {mapping[q]} : content'[h] = content[h]
  PROVE  UNCHANGED Memory!vars
<1>1. ASSUME NEW p \in Ptrs
      PROVE  BytesKept(p)
  BY AllocatorAssumption DEF BytesKept, IInv, TypeOK, MappingInv
<1>2. QED
  BY <1>1, KeptTensor, KeptRequests, Stutter DEF SameTensors, SameTensor, Reason

LEMMA MallocCreateStutters ==
  ASSUME IInv, NEW t \in Threads, MallocCreate(t)
  PROVE  UNCHANGED Memory!vars
<1>1. PICK h \in Unused, p \in Ptrs \ reserved : mapping' = [mapping EXCEPT ![p] = h]
  BY DEF MallocCreate
<1>2. meta[p] = Null
  BY <1>1 DEF IInv, AddressInv, Tracked
<1>3. CallsKept /\ UNCHANGED <<meta, content, hostData, fileData, exited>>
  BY DEF MallocCreate, Goto, CallsKept, CallLabels, lock, backups, IInv, TypeOK
<1>4. QED
  BY <1>1, <1>2, <1>3, OtherAddress DEF IInv, TypeOK

LEMMA UntrackedMallocStutters ==
  ASSUME IInv, NEW t \in Threads, UntrackedMalloc(t)
  PROVE  UNCHANGED Memory!vars
<1>1. PICK p \in Ptrs \ reserved, h \in Unused : mapping' = [mapping EXCEPT ![p] = h]
  BY DEF UntrackedMalloc
<1>2. meta[p] = Null
  BY <1>1 DEF IInv, AddressInv, Tracked
<1>3. CallsKept /\ UNCHANGED <<meta, content, hostData, fileData, exited>>
  BY DEF UntrackedMalloc, CallsKept, CallLabels, lock, backups, local
<1>4. QED
  BY <1>1, <1>2, <1>3, OtherAddress DEF IInv, TypeOK

LEMMA FreeUntrackedStutters ==
  ASSUME IInv, NoDriverError', NEW t \in Threads, exited = "no", FreeUntracked(t)
  PROVE  UNCHANGED Memory!vars
<1>1. ptr[t] \in Ptrs /\ meta[ptr[t]] = Null
  BY DEF FreeUntracked, IInv, TypeOK, LocalInv
<1>2. /\ mapping' = [mapping EXCEPT ![ptr[t]] = Null]
      /\ content' = [content EXCEPT ![mapping[ptr[t]]] = Junk]
      /\ exited' = exited
  BY DEF FreeUntracked, Unmap, Accepted, NoDriverError
<1>3. CallsKept /\ UNCHANGED <<meta, hostData, fileData>>
  BY DEF FreeUntracked, Return, Goto, CallsKept, CallLabels, lock, backups, IInv, TypeOK
<1>4. QED
  BY <1>1, <1>2, <1>3, OtherAddress DEF IInv, TypeOK

LEMMA FreeDeviceStutters ==
  ASSUME IInv, NoDriverError', NEW t \in Threads, exited = "no", FreeDevice(t)
  PROVE  UNCHANGED Memory!vars
<1>1. ptr[t] \in Ptrs /\ meta[ptr[t]] = Null
  BY DEF FreeDevice, IInv, TypeOK, LocalInv, AddressInv, HoldsAddress
<1>2. CallsKept /\ UNCHANGED <<meta, hostData, fileData>>
  BY DEF FreeDevice, Goto, CallsKept, CallLabels, lock, backups, local, IInv, TypeOK
<1>3. CASE md[t].state = "ACTIVE"
  <2>1. md[t].allocHandle = mapping[ptr[t]]
    BY <1>3 DEF FreeDevice, IInv, MappingInv, MappedAs
  <2>2. /\ mapping' = [mapping EXCEPT ![ptr[t]] = Null]
        /\ content' = [content EXCEPT ![mapping[ptr[t]]] = Junk]
        /\ exited' = exited
    BY <1>3, <2>1 DEF FreeDevice, HoldsDeviceMemory, Unmap, Accepted, NoDriverError
  <2>3. QED
    BY <1>1, <1>2, <2>2, OtherAddress DEF IInv, TypeOK
<1>4. CASE md[t].state # "ACTIVE"
  <2>1. UNCHANGED <<mapping, content, exited>>
    BY <1>4 DEF FreeDevice, HoldsDeviceMemory, Accepted, NoDriverError
  <2>2. QED
    BY <1>2, <2>1, DataStutter
<1>5. QED
  BY <1>3, <1>4

\* free gives back the buffer and the file of the entry it took over, which no
\* entry has.
LEMMA FreeBackupStutters ==
  ASSUME IInv, NoDriverError', NEW t \in Threads, exited = "no", FreeBackup(t)
  PROVE  UNCHANGED Memory!vars
<1>1. CallsKept /\ UNCHANGED <<meta, mapping, content, exited>>
  BY DEF FreeBackup, FreeHost, Return, Goto, Accepted, NoDriverError, CallsKept, CallLabels,
         lock, device, IInv, TypeOK
<1>2. ASSUME NEW p \in Ptrs
      PROVE  BytesKept(p)
  <2>1. CASE meta[p] = Null
    BY <1>1, <2>1 DEF BytesKept
  <2>2. CASE meta[p] # Null
    <3>1. p \in Tracked /\ t \in Unregistered
      BY <2>2 DEF Tracked, Unregistered, FreeBackup
    <3>2. Apart(meta[p], md[t])
      BY <3>1 DEF IInv, BackupInv
    <3>3. meta[p] \in Metadata
      BY <2>2 DEF IInv, TypeOK
    <3>4. meta[p].cpu_backup # Null => hostData'[meta[p].cpu_backup] = hostData[meta[p].cpu_backup]
      BY <3>2, <3>3 DEF FreeBackup, FreeHost, Apart, IInv, TypeOK, Metadata
    <3>5. meta[p].disk # Null => fileData'[meta[p].disk] = fileData[meta[p].disk]
      BY <3>2, <3>3 DEF FreeBackup, Apart, Metadata
    <3>6. QED
      BY <1>1, <3>4, <3>5 DEF BytesKept
  <2>3. QED
    BY <2>1, <2>2
<1>3. QED
  BY <1>1, <1>2, KeptTensor, KeptRequests, Stutter DEF SameTensors, SameTensor, Reason

\* Steps that only move a call on, outside the loops.
QuietStep(t) ==
    \/ \E tag \in Tags, backup \in BackupModes : MallocCall(t, tag, backup)
    \/ MallocOutOfMemory(t)
    \/ \E p \in Ptrs : FreeCall(t, p) \/ QueryCall(t, p)
    \/ QueryNoCopy(t) \/ QueryFound(t) \/ QueryDone(t)
    \/ \E value \in Margins : SetMargin(t, value)

LEMMA QuietStepStutters ==
  ASSUME IInv, NEW t \in Threads, QuietStep(t)
  PROVE  UNCHANGED Memory!vars
<1> USE DEF CallsKept, CallLabels, lock, backups, device, local, Goto, Return, IInv, TypeOK
<1>1. CASE \E tag \in Tags, backup \in BackupModes : MallocCall(t, tag, backup)
  <2>1. CallsKept /\ UNCHANGED <<meta, mapping, content, hostData, fileData, exited>>
    BY <1>1 DEF MallocCall
  <2>2. QED
    BY <2>1, DataStutter
<1>2. CASE MallocOutOfMemory(t)
  <2>1. CallsKept /\ UNCHANGED <<meta, mapping, content, hostData, fileData, exited>>
    BY <1>2 DEF MallocOutOfMemory
  <2>2. QED
    BY <2>1, DataStutter
<1>3. CASE \E p \in Ptrs : FreeCall(t, p) \/ QueryCall(t, p)
  <2>1. CallsKept /\ UNCHANGED <<meta, mapping, content, hostData, fileData, exited>>
    BY <1>3 DEF FreeCall, QueryCall
  <2>2. QED
    BY <2>1, DataStutter
<1>4. CASE QueryNoCopy(t) \/ QueryFound(t) \/ QueryDone(t)
  <2>1. CallsKept /\ UNCHANGED <<meta, mapping, content, hostData, fileData, exited>>
    BY <1>4 DEF QueryNoCopy, QueryFound, QueryDone
  <2>2. QED
    BY <2>1, DataStutter
<1>5. CASE \E value \in Margins : SetMargin(t, value)
  <2>1. CallsKept /\ UNCHANGED <<meta, mapping, content, hostData, fileData, exited>>
    BY <1>5 DEF SetMargin
  <2>2. QED
    BY <2>1, DataStutter
<1>6. QED
  BY <1>1, <1>2, <1>3, <1>4, <1>5 DEF QuietStep

\* Nobody has visited anything before a loop begins, and the loop that begins
\* has everything left to visit that it is about.
LEMMA LoopBeginStutters ==
  ASSUME IInv, NEW t \in Threads, PauseLock(t) \/ ResumeLock(t)
  PROVE  UNCHANGED Memory!vars
<1>1. \A u \in Threads : pc[u] \notin {"p_loop", "r_loop"}
  BY AllocatorAssumption DEF PauseLock, ResumeLock, EnterLoop, IInv, LocalInv
<1>2. /\ \/ pc[t] = "p_lock" /\ pc' = [pc EXCEPT ![t] = "p_loop"]
         \/ pc[t] = "r_lock" /\ pc' = [pc EXCEPT ![t] = "r_loop"]
      /\ todo' = {p \in Tracked : Matches(meta[p], filter[t])}
      /\ UNCHANGED <<meta, mapping, content, hostData, fileData, exited, filter>>
  BY DEF PauseLock, ResumeLock, EnterLoop, Goto, device, backups, local
<1>3. \A u \in Threads : (InPause(u)' <=> InPause(u)) /\ (InResume(u)' <=> InResume(u))
  BY <1>2 DEF InPause, InResume, IInv, TypeOK
<1>4. SameRequests
  BY <1>2, <1>3 DEF SameRequests, RequestOf
<1>5. ASSUME NEW p \in Ptrs, meta[p] # Null
      PROVE  /\ ~Visited("p_loop", p) /\ ~Visited("r_loop", p)
             /\ ~Visited("p_loop", p)' /\ ~Visited("r_loop", p)'
             /\ GivenUp(p)' <=> GivenUp(p)
  <2>1. ~Visited("p_loop", p) /\ ~Visited("r_loop", p)
    BY <1>1 DEF Visited
  <2>2. \A u \in Threads : pc'[u] \in {"p_loop", "r_loop"} => u = t
    BY <1>1, <1>2 DEF IInv, TypeOK
  <2>3. p \notin todo' => ~Matches(meta'[p], filter'[t])
    BY <1>2, <1>5 DEF Tracked
  <2>4. ~Visited("p_loop", p)' /\ ~Visited("r_loop", p)'
    BY <2>2, <2>3 DEF Visited
  <2>5. GivenUp(p)' <=> GivenUp(p)
    BY <1>2, <1>3 DEF GivenUp, Matches
  <2>6. QED
    BY <2>1, <2>4, <2>5
<1>6. ASSUME NEW p \in Ptrs
      PROVE  TensorAt(p)' = TensorAt(p)
  <2>1. meta[p] # Null => IsActive(p)' = IsActive(p)
    BY <1>2, <1>5 DEF IsActive
  <2>2. meta[p] # Null => Bytes(p)' = Bytes(p)
    BY <1>2, <1>5 DEF Bytes
  <2>3. QED
    BY <1>2, <2>1, <2>2 DEF TensorAt, StateOf
<1>7. QED
  BY <1>2, <1>4, <1>6, Stutter DEF SameTensors, Reason

\* An entry the step of a loop is not about.
LEMMA KeptEntry ==
  ASSUME NEW p \in Ptrs, pc' = pc, filter' = filter, p \in todo' <=> p \in todo, BytesKept(p)
  PROVE  SameTensor(p)
<1>1. meta'[p] = meta[p]
  BY DEF BytesKept
<1>2. /\ Visited("p_loop", p)' <=> Visited("p_loop", p)
      /\ Visited("r_loop", p)' <=> Visited("r_loop", p)
      /\ GivenUp(p)' <=> GivenUp(p)
  BY <1>1 DEF Visited, GivenUp, InPause, Matches
<1>3. IsActive(p)' = IsActive(p)
  BY <1>1, <1>2 DEF IsActive
<1>4. meta[p] # Null => Bytes(p)' = Bytes(p)
  BY <1>1, <1>2 DEF Bytes, BytesKept
<1>5. QED
  BY <1>1, <1>3, <1>4 DEF SameTensor, TensorAt, StateOf

\* The entry the step is about: pause finds it active and resume paused, and
\* that is what it counts as until the loop ends.
LEMMA VisitedEntry ==
  ASSUME IInv, NEW t \in Threads, NEW p \in todo, NEW n,
         meta' = [meta EXCEPT ![p] = n], n.tag = meta[p].tag, n.backup = meta[p].backup,
         todo' = todo \ {p}, pc' = pc, filter' = filter,
         \/ pc[t] = "p_loop" /\ meta[p].state = "ACTIVE"
         \/ pc[t] = "r_loop" /\ meta[p].state = "PAUSED"
  PROVE  /\ IsActive(p)' = IsActive(p)
         /\ GivenUp(p)' <=> GivenUp(p)
         /\ GivenUp(p) => meta[p].backup = "none"
<1>1. p \in Ptrs /\ p \in Tracked /\ Matches(meta[p], filter[t])
  BY DEF IInv, TypeOK, LocalInv, LoopInv
<1>2. meta'[p] = n /\ Matches(meta'[p], filter'[t]) /\ p \notin todo'
  BY <1>1 DEF IInv, TypeOK, Matches
<1>3. \A u \in Threads : pc[u] \in {"p_loop", "r_loop"} => u = t
  BY DEF IInv, LocalInv
<1>4. ~Visited("p_loop", p) /\ ~Visited("r_loop", p)
  BY DEF Visited
<1>5. CASE pc[t] = "p_loop"
  <2>1. Visited("p_loop", p)'
    BY <1>2, <1>5 DEF Visited
  <2>2. QED
    BY <1>4, <1>5, <2>1, <1>2 DEF IsActive, GivenUp, InPause, Matches
<1>6. CASE pc[t] = "r_loop"
  <2>1. Visited("r_loop", p)'
    BY <1>2, <1>6 DEF Visited
  <2>2. ~Visited("p_loop", p)'
    BY <1>3, <1>6 DEF Visited
  <2>3. QED
    BY <1>4, <1>6, <2>1, <2>2, <1>2 DEF IsActive, GivenUp, InPause, Matches
<1>7. QED
  BY <1>5, <1>6

\* A step of a loop that moves the bytes of p and leaves those of the other
\* entries alone is a stutter.
LEMMA EntryStutter ==
  ASSUME IInv, NEW t \in Threads, NEW p \in todo, NEW n,
         meta' = [meta EXCEPT ![p] = n], n # Null, n.tag = meta[p].tag, n.backup = meta[p].backup,
         todo' = todo \ {p}, UNCHANGED <<pc, filter, exited>>,
         \/ pc[t] = "p_loop" /\ meta[p].state = "ACTIVE"
         \/ pc[t] = "r_loop" /\ meta[p].state = "PAUSED",
         ~GivenUp(p) => Bytes(p)' = Bytes(p),
         \A q \in Ptrs \ {p} : BytesKept(q)
  PROVE  UNCHANGED Memory!vars
<1>1. p \in Ptrs /\ meta[p] # Null
  BY DEF IInv, TypeOK, LocalInv, Tracked
<1>2. IsActive(p)' = IsActive(p) /\ (GivenUp(p)' <=> GivenUp(p))
  BY VisitedEntry
<1>3. Bytes(p)' = Bytes(p)
  BY <1>2 DEF Bytes
<1>4. meta'[p] = n
  BY <1>1 DEF IInv, TypeOK
<1>5. TensorAt(p)' = TensorAt(p)
  BY <1>1, <1>2, <1>3, <1>4 DEF TensorAt, StateOf
<1>6. ASSUME NEW q \in Ptrs \ {p}
      PROVE  TensorAt(q)' = TensorAt(q)
  BY KeptEntry DEF SameTensor
<1>7. SameTensors /\ SameRequests
  BY <1>5, <1>6 DEF SameTensors, SameRequests, RequestOf, InPause, InResume
<1>8. QED
  BY <1>7, Stutter DEF Reason

\* The memory of another entry is not the unit that is unmapped or mapped.
LEMMA OtherMemory ==
  ASSUME IInv, NEW p \in Ptrs, NEW q \in Ptrs \ {p}, meta[q] # Null, NEW n, NEW h, NEW d, NEW x,
         meta' = [meta EXCEPT ![p] = n], mapping' = [mapping EXCEPT ![p] = x],
         content' = [content EXCEPT ![h] = d],
         h \notin phys \/ h = mapping[p]
  PROVE  /\ meta'[q] = meta[q] /\ mapping'[q] = mapping[q]
         /\ mapping[q] # Null => content'[mapping[q]] = content[mapping[q]]
<1>1. meta'[q] = meta[q] /\ mapping'[q] = mapping[q]
  BY DEF IInv, TypeOK
<1>2. mapping[q] # Null => mapping[q] \in phys /\ mapping[q] # mapping[p] /\ mapping[q] \in Handles
  BY DEF IInv, TypeOK, MappingInv, Mapped
<1>3. QED
  BY <1>1, <1>2 DEF IInv, TypeOK

\* What another entry keeps in a buffer or in a file is not what an entry keeps
\* there, nor what is not in use.
LEMMA OtherBackups ==
  ASSUME IInv, NEW p \in Tracked, NEW q \in Tracked \ {p}
  PROVE  /\ meta[q] \in Metadata
         /\ meta[q].cpu_backup # Null =>
               /\ meta[q].cpu_backup # meta[p].cpu_backup
               /\ meta[q].cpu_backup \in Bufs /\ hostKind[meta[q].cpu_backup] # "free"
         /\ meta[q].disk # Null =>
               /\ meta[q].disk # meta[p].disk
               /\ meta[q].disk \in Files /\ fileData[meta[q].disk] # Null
<1>1. meta[q] \in Metadata
  BY DEF IInv, TypeOK, Tracked
<1>2. BackupsMatch(meta[q]) /\ Apart(meta[q], meta[p])
  BY DEF IInv, BackupInv
<1>3. QED
  BY <1>1, <1>2 DEF BackupsMatch, Apart, Metadata, CPUBackupKind

LEMMA PauseEntryStutters ==
  ASSUME IInv, NEW t \in Threads, NEW p \in todo,
         PauseNoBackup(t, p) \/ PauseToHost(t, p) \/ PauseToDisk(t, p)
  PROVE  UNCHANGED Memory!vars
<1> p \in Ptrs /\ p \in Tracked /\ BackupsMatch(meta[p])
  BY EntryFacts
<1>1. ASSUME NEW n \in Metadata, PausedWithoutBackup(t, p, n)
      PROVE  UNCHANGED Memory!vars
  <2>1. GivenUp(p)
    BY <1>1 DEF PausedWithoutBackup, PausedAs, GivenUp, InPause, IInv, LoopInv
  <2>2. ASSUME NEW q \in Ptrs \ {p}
        PROVE  BytesKept(q)
    <3>1. meta'[q] = meta[q] /\ UNCHANGED <<hostData, fileData>>
      BY <1>1 DEF PausedWithoutBackup, PausedAs, IInv, TypeOK
    <3>2. QED
      BY <1>1, <3>1, OtherMemory DEF PausedWithoutBackup, PausedAs, BytesKept
  <2>3. QED
    BY <1>1, <2>1, <2>2, EntryStutter, AllocatorAssumption DEF PausedWithoutBackup, PausedAs
<1>2. ASSUME NEW n \in Metadata, NEW b \in Bufs, NEW kind \in CPUBackupKind,
             PausedToHost(t, p, n, b, kind)
      PROVE  UNCHANGED Memory!vars
  <2>1. Bytes(p) = content[mapping[p]] /\ b # Null
    BY <1>2, AllocatorAssumption DEF PausedToHost, PausedAs, Bytes, GivenUp
  <2>2. meta'[p] = n /\ mapping'[p] = Null /\ hostData'[b] = content[mapping[p]]
    BY <1>2 DEF PausedToHost, PausedAs, IInv, TypeOK
  <2>3. Bytes(p)' = content[mapping[p]]
    BY <1>2, <2>1, <2>2 DEF PausedToHost, PausedAs, Bytes, GivenUp
  <2>4. ASSUME NEW q \in Ptrs \ {p}
        PROVE  BytesKept(q)
    <3>1. meta'[q] = meta[q] /\ UNCHANGED fileData
      BY <1>2 DEF PausedToHost, PausedAs, IInv, TypeOK
    <3>2. meta[q] # Null /\ meta[q].cpu_backup # Null
             => hostData'[meta[q].cpu_backup] = hostData[meta[q].cpu_backup]
      BY <1>2, OtherBackups DEF PausedToHost, Tracked, IInv, TypeOK
    <3>3. QED
      BY <1>2, <3>1, <3>2, OtherMemory DEF PausedToHost, PausedAs, BytesKept
  <2>5. QED
    BY <1>2, <2>1, <2>3, <2>4, EntryStutter, AllocatorAssumption DEF PausedToHost, PausedAs
<1>3. ASSUME NEW n \in Metadata, NEW f \in Files, PausedToDisk(t, p, n, f)
      PROVE  UNCHANGED Memory!vars
  <2>1. Bytes(p) = content[mapping[p]] /\ f # Null
    BY <1>3, AllocatorAssumption DEF PausedToDisk, PausedAs, Bytes, GivenUp
  <2>2. meta'[p] = n /\ mapping'[p] = Null /\ fileData'[f] = content[mapping[p]]
    BY <1>3 DEF PausedToDisk, PausedAs, IInv, TypeOK
  <2>3. n.cpu_backup = Null
    BY <1>3 DEF PausedToDisk, BackupsMatch
  <2>4. Bytes(p)' = content[mapping[p]]
    BY <1>3, <2>1, <2>2, <2>3 DEF PausedToDisk, PausedAs, Bytes, GivenUp
  <2>5. ASSUME NEW q \in Ptrs \ {p}
        PROVE  BytesKept(q)
    <3>1. meta'[q] = meta[q] /\ UNCHANGED hostData
      BY <1>3 DEF PausedToDisk, PausedAs, IInv, TypeOK
    <3>2. meta[q] # Null /\ meta[q].disk # Null
             => fileData'[meta[q].disk] = fileData[meta[q].disk]
      BY <1>3, OtherBackups DEF PausedToDisk, Tracked, IInv, TypeOK
    <3>3. QED
      BY <1>3, <3>1, <3>2, OtherMemory DEF PausedToDisk, PausedAs, BytesKept
  <2>6. QED
    BY <1>3, <2>1, <2>4, <2>5, EntryStutter, AllocatorAssumption DEF PausedToDisk, PausedAs
<1>4. QED
  BY <1>1, <1>2, <1>3, PauseNoBackupEffect, PauseToHostEffect, PauseToDiskEffect

LEMMA ResumeEntryStutters ==
  ASSUME IInv, NEW t \in Threads, NEW p \in todo,
         ResumeNoBackup(t, p) \/ ResumeFromHost(t, p) \/ ResumeFromDisk(t, p)
  PROVE  UNCHANGED Memory!vars
<1> p \in Ptrs /\ p \in Tracked /\ BackupsMatch(meta[p])
  BY EntryFacts
<1>1. ASSUME NEW n \in Metadata, NEW h \in Handles, NEW data, ResumedAs(t, p, n, h, data)
      PROVE  /\ meta'[p] = n /\ mapping'[p] = h /\ content'[h] = data /\ h # Null
             /\ GivenUp(p)' <=> GivenUp(p)
  <2>1. meta'[p] = n /\ mapping'[p] = h /\ content'[h] = data /\ h # Null
    BY <1>1, AllocatorAssumption DEF ResumedAs, IInv, TypeOK
  <2>2. QED
    BY <1>1, <2>1, VisitedEntry DEF ResumedAs
<1>2. ASSUME NEW n \in Metadata, NEW h \in Handles, ResumedEmpty(t, p, n, h)
      PROVE  UNCHANGED Memory!vars
  <2>1. meta'[p] = n /\ mapping'[p] = h /\ content'[h] = Junk /\ h # Null
        /\ (GivenUp(p)' <=> GivenUp(p))
    BY <1>1, <1>2 DEF ResumedEmpty
  <2>2. Bytes(p) = Junk
    BY <1>2 DEF ResumedEmpty, ResumedAs, Bytes, BackupsMatch
  <2>3. Bytes(p)' = Junk
    BY <2>1 DEF Bytes
  <2>4. ASSUME NEW q \in Ptrs \ {p}
        PROVE  BytesKept(q)
    <3>1. meta'[q] = meta[q] /\ UNCHANGED <<hostData, fileData>>
      BY <1>2 DEF ResumedEmpty, ResumedAs, IInv, TypeOK
    <3>2. QED
      BY <1>2, <3>1, OtherMemory DEF ResumedEmpty, ResumedAs, BytesKept
  <2>5. QED
    BY <1>2, <2>2, <2>3, <2>4, EntryStutter, AllocatorAssumption DEF ResumedEmpty, ResumedAs
<1>3. ASSUME NEW n \in Metadata, NEW h \in Handles, ResumedFromHost(t, p, n, h)
      PROVE  UNCHANGED Memory!vars
  <2> DEFINE b == meta[p].cpu_backup
  <2>1. /\ meta'[p] = n /\ mapping'[p] = h /\ content'[h] = hostData[b] /\ h # Null
        /\ GivenUp(p)' <=> GivenUp(p)
    BY <1>1, <1>3 DEF ResumedFromHost
  <2>2. Bytes(p) = hostData[b]
    BY <1>3, AllocatorAssumption DEF ResumedFromHost, ResumedAs, Bytes, GivenUp
  <2>3. Bytes(p)' = hostData[b]
    BY <1>3, <2>1 DEF Bytes, ResumedFromHost, GivenUp
  <2>4. ASSUME NEW q \in Ptrs \ {p}
        PROVE  BytesKept(q)
    <3>1. meta'[q] = meta[q] /\ UNCHANGED fileData
      BY <1>3 DEF ResumedFromHost, ResumedAs, IInv, TypeOK
    <3>2. meta[q] # Null /\ meta[q].cpu_backup # Null
             => hostData'[meta[q].cpu_backup] = hostData[meta[q].cpu_backup]
      BY <1>3, OtherBackups DEF ResumedFromHost, Tracked, IInv, TypeOK
    <3>3. QED
      BY <1>3, <3>1, <3>2, OtherMemory DEF ResumedFromHost, ResumedAs, BytesKept
  <2>5. QED
    BY <1>3, <2>2, <2>3, <2>4, EntryStutter, AllocatorAssumption DEF ResumedFromHost, ResumedAs
<1>4. ASSUME NEW n \in Metadata, NEW h \in Handles, ResumedFromDisk(t, p, n, h)
      PROVE  UNCHANGED Memory!vars
  <2> DEFINE f == meta[p].disk
  <2>1. /\ meta'[p] = n /\ mapping'[p] = h /\ content'[h] = fileData[f] /\ h # Null
        /\ GivenUp(p)' <=> GivenUp(p)
    BY <1>1, <1>4 DEF ResumedFromDisk
  <2>2. Bytes(p) = fileData[f]
    BY <1>4, AllocatorAssumption DEF ResumedFromDisk, ResumedAs, Bytes, GivenUp, BackupsMatch
  <2>3. Bytes(p)' = fileData[f]
    BY <1>4, <2>1 DEF Bytes, ResumedFromDisk, GivenUp
  <2>4. ASSUME NEW q \in Ptrs \ {p}
        PROVE  BytesKept(q)
    <3>1. meta'[q] = meta[q] /\ UNCHANGED <<hostData, fileData>>
      BY <1>4 DEF ResumedFromDisk, ResumedAs, IInv, TypeOK
    <3>2. QED
      BY <1>4, <3>1, OtherMemory DEF ResumedFromDisk, ResumedAs, BytesKept
  <2>5. QED
    BY <1>4, <2>2, <2>3, <2>4, EntryStutter, AllocatorAssumption DEF ResumedFromDisk, ResumedAs
<1>5. QED
  BY <1>2, <1>3, <1>4, ResumeNoBackupEffect, ResumeFromHostEffect, ResumeFromDiskEffect

------------------------------------------------------------------------------
(* Steps that are steps of PauseableMemory *)

\* The bytes of a tensor are data, so that an entry and a tensor are the same
\* thing, and so are a call in progress and a request.
LEMMA TensorIsEntry ==
  ASSUME IInv, NEW p \in Ptrs
  PROVE  /\ meta[p] # Null => TensorAt(p) \in Memory!Tensor /\ Bytes(p) \in Data
         /\ TensorAt(p) # Null <=> meta[p] # Null
<1>1. CASE meta[p] = Null
  BY <1>1 DEF TensorAt, StateOf
<1>2. CASE meta[p] # Null
  <2>1. meta[p] \in Metadata /\ BackupsMatch(meta[p])
    BY <1>2 DEF IInv, TypeOK, BackupInv, Tracked
  <2>2. Bytes(p) \in Data
    BY <2>1 DEF Bytes, BackupsMatch, IInv, TypeOK, Metadata, Data
  <2>3. StateOf(p) \in {"ACTIVE", "PAUSED"}
    BY DEF StateOf
  <2>4. TensorAt(p) = [tag |-> meta[p].tag, backup |-> meta[p].backup,
                       state |-> StateOf(p), content |-> Bytes(p)]
    BY <1>2 DEF TensorAt, StateOf
  <2>5. TensorAt(p) \in Memory!Tensor
    BY <2>1, <2>2, <2>3, <2>4 DEF Memory!Tensor, Metadata
  <2>6. QED
    BY <1>2, <2>2, <2>5, RefinementAssumption
<1>3. QED
  BY <1>1, <1>2

LEMMA RequestIsCall ==
  ASSUME IInv, NEW t \in Threads
  PROVE  /\ Requests[t] = RequestOf(t)
         /\ t \in Memory!Requested("pause") <=> InPause(t)
         /\ t \in Memory!Requested("resume") <=> InResume(t)
         /\ RequestOf(t) # Null => InPause(t) \/ InResume(t)
<1>1. Requests[t] = RequestOf(t)
  BY DEF Requests
<1>2. InPause(t) => RequestOf(t) # Null
  BY RefinementAssumption DEF RequestOf, Memory!Request, IInv, TypeOK
<1>3. InResume(t) => RequestOf(t) # Null
  BY RefinementAssumption DEF RequestOf, Memory!Request, InPause, InResume, IInv, TypeOK
<1>4. QED
  BY <1>1, <1>2, <1>3 DEF RequestOf, Memory!Requested, InPause, InResume

LEMMA CoveredIsMatched ==
  ASSUME IInv, NEW t \in Threads, InPause(t) \/ InResume(t), NEW p \in Ptrs
  PROVE  p \in Memory!Covered(Requests[t]) <=> meta[p] # Null /\ Matches(meta[p], filter[t])
<1>1. Requests[t].filter = filter[t]
  <2>1. Requests[t] = RequestOf(t)
    BY DEF Requests
  <2>2. CASE InPause(t)
    BY <2>1, <2>2 DEF RequestOf
  <2>3. CASE InResume(t)
    BY <2>1, <2>3 DEF RequestOf
  <2>4. QED
    BY <2>2, <2>3
<1>2. Tensors[p] = TensorAt(p)
  BY DEF Tensors
<1>3. meta[p] # Null => TensorAt(p).tag = meta[p].tag
  BY DEF TensorAt, StateOf
<1>4. QED
  BY <1>1, <1>2, <1>3, TensorIsEntry DEF Memory!Covered, Memory!Live, Memory!Covers, Matches

\* Nobody is in a loop while the lock is free, and only its holder is.
LEMMA LoopHolder ==
  ASSUME IInv
  PROVE  /\ mutex = Null => \A p : ~Visited("p_loop", p) /\ ~Visited("r_loop", p)
         /\ \A t, u \in Threads : pc[t] \in {"p_loop", "r_loop"} /\ pc[u] \in {"p_loop", "r_loop"}
                                  => t = u
  BY AllocatorAssumption DEF IInv, LocalInv, Visited

LEMMA MallocRegisters ==
  ASSUME IInv, IInv', exited = "no", NEW t \in Threads, MallocRegister(t)
  PROVE  Memory!Next
<1>0. PICK p \in Ptrs : p = ptr[t]
  BY DEF MallocRegister, IInv, TypeOK, LocalInv
<1>1. p \in Ptrs /\ meta[p] = Null /\ md[t] \in Metadata /\ md[t].state = "ACTIVE"
  BY <1>0 DEF MallocRegister, IInv, TypeOK, LocalInv, AddressInv, HoldsAddress
<1>2. /\ meta' = [meta EXCEPT ![p] = md[t]]
      /\ UNCHANGED <<mapping, content, hostData, fileData, exited>>
  BY <1>0, <1>1 DEF MallocRegister, Emplace, device, backups
<1>3. CallsKept /\ mutex' = Null
  BY DEF MallocRegister, Return, Goto, CallsKept, CallLabels, lock, IInv, TypeOK
<1>4. ASSUME NEW q \in Ptrs \ {p}
      PROVE  TensorAt(q)' = TensorAt(q)
  BY <1>2, <1>3, KeptTensor DEF BytesKept, SameTensor, IInv, TypeOK
<1>5. meta'[p] = md[t] /\ md[t] # Null
  BY <1>1, <1>2, AllocatorAssumption DEF IInv, TypeOK
<1>6. IsActive(p)' = TRUE
  <2>1. \A u \in Threads : pc'[u] \notin {"p_loop", "r_loop"}
    BY AllocatorAssumption DEF MallocRegister, Return, Goto, IInv, TypeOK, LocalInv
  <2>2. ~Visited("p_loop", p)' /\ ~Visited("r_loop", p)'
    BY <2>1 DEF Visited
  <2>3. QED
    BY <1>1, <1>5, <2>2 DEF IsActive
<1>7. TensorAt(p)' = [tag |-> md[t].tag, backup |-> md[t].backup,
                      state |-> "ACTIVE", content |-> Bytes(p)']
  BY <1>5, <1>6 DEF TensorAt, StateOf
<1>8. Bytes(p)' \in Data
  <2>1. BackupsMatch(meta[p])'
    BY <1>1, <1>5 DEF IInv, BackupInv, Tracked
  <2>2. QED
    BY <1>1, <1>5, <2>1 DEF Bytes, BackupsMatch, IInv, TypeOK, Metadata, Data
<1>9. Tensors' = [Tensors EXCEPT ![p] = TensorAt(p)']
  BY <1>1, <1>4 DEF Tensors
<1>10. Tensors[p] = Null
  BY <1>1 DEF Tensors, TensorAt
<1>11. Requests' = Requests
  BY <1>3, KeptRequests DEF Requests, SameRequests
<1>12. Memory!Allocate(p, md[t].tag, md[t].backup, Bytes(p)')
  BY <1>2, <1>7, <1>9, <1>10, <1>11 DEF Memory!Allocate, Reason
<1>13. md[t].tag \in Tags /\ md[t].backup \in BackupModes
  BY <1>1 DEF Metadata
<1>14. QED
  BY <1>1, <1>8, <1>12, <1>13 DEF Memory!Next, Reason

LEMMA FreeLooksUp ==
  ASSUME IInv, exited = "no", NEW t \in Threads, FreeLookup(t)
  PROVE  Memory!Next
<1>0. PICK p \in Ptrs : p = ptr[t]
  BY DEF FreeLookup, IInv, TypeOK, LocalInv
<1>1. p \in Ptrs /\ meta[p] # Null
  BY <1>0 DEF FreeLookup, IInv, TypeOK, LocalInv
<1>2. /\ meta' = [meta EXCEPT ![p] = Null]
      /\ UNCHANGED <<mapping, content, hostData, fileData, exited>>
  BY <1>0 DEF FreeLookup, device, backups
<1>3. CallsKept
  BY DEF FreeLookup, Goto, CallsKept, CallLabels, lock, IInv, TypeOK
<1>4. ASSUME NEW q \in Ptrs \ {p}
      PROVE  TensorAt(q)' = TensorAt(q)
  BY <1>2, <1>3, KeptTensor DEF BytesKept, SameTensor, IInv, TypeOK
<1>5. TensorAt(p)' = Null
  BY <1>1, <1>2 DEF TensorAt, StateOf, IInv, TypeOK
<1>6. Tensors' = [Tensors EXCEPT ![p] = Null] /\ Tensors[p] # Null
  BY <1>1, <1>4, <1>5, TensorIsEntry DEF Tensors
<1>7. Requests' = Requests
  BY <1>3, KeptRequests DEF Requests, SameRequests
<1>8. Memory!Free(p)
  BY <1>2, <1>6, <1>7 DEF Memory!Free, Reason
<1>9. QED
  BY <1>1, <1>8 DEF Memory!Next, Reason

\* A client writes a tensor no call is about, or memory that is no tensor.
LEMMA WriteRefines ==
  ASSUME IInv, exited = "no", NEW p \in Ptrs, NEW v \in Values, Write(p, v)
  PROVE  [Memory!Next]_(Memory!vars)
<1>1. CallsKept /\ UNCHANGED <<meta, mapping, hostData, fileData, exited>>
  BY DEF Write, CallsKept, CallLabels, lock, backups, local
<1>2. mapping[p] \in Handles /\ content' = [content EXCEPT ![mapping[p]] = v]
  BY DEF Write, IInv, TypeOK
<1>3. CASE meta[p] = Null
  BY <1>1, <1>2, <1>3, OtherAddress DEF IInv, TypeOK
<1>4. CASE meta[p] # Null
  <2>1. \A u \in Threads : InPause(u) \/ InResume(u) => ~Matches(meta[p], filter[u])
    BY <1>4 DEF Write, Settled, InPause, InResume
  <2>2. ~Visited("p_loop", p) /\ ~Visited("r_loop", p) /\ ~GivenUp(p)
    BY <2>1 DEF Visited, GivenUp, InPause, InResume
  <2>3. meta[p].state = "ACTIVE"
    BY <1>4 DEF Write, IInv, TypeOK, MappingInv, MappedAs, Tracked, Metadata, State
  <2>4. IsActive(p) = TRUE
    BY <2>2, <2>3 DEF IsActive
  <2>5. IsActive(p)' = IsActive(p) /\ ~GivenUp(p)'
    BY <1>1, <2>2, KeptCalls DEF IsActive
  <2>6. Bytes(p)' = v
    BY <1>1, <1>2, <2>5, AllocatorAssumption DEF Bytes, IInv, TypeOK
  <2>7. ASSUME NEW q \in Ptrs \ {p}
        PROVE  TensorAt(q)' = TensorAt(q)
    <3>1. mapping[q] # Null => mapping[q] # mapping[p] /\ mapping[q] \in Handles
      BY DEF IInv, TypeOK, MappingInv
    <3>2. BytesKept(q)
      BY <1>1, <1>2, <3>1 DEF BytesKept, IInv, TypeOK
    <3>3. QED
      BY <1>1, <3>2, KeptTensor DEF SameTensor
  <2>8. TensorAt(p) = [tag |-> meta[p].tag, backup |-> meta[p].backup,
                       state |-> StateOf(p), content |-> Bytes(p)]
    BY <1>4 DEF TensorAt, StateOf
  <2>9. TensorAt(p)' = [tag |-> meta[p].tag, backup |-> meta[p].backup,
                        state |-> StateOf(p), content |-> v]
    BY <1>1, <1>4, <2>5, <2>6 DEF TensorAt, StateOf
  <2>10. TensorAt(p)' = [TensorAt(p) EXCEPT !.content = v]
    BY <2>8, <2>9
  <2>11. Tensors' = [Tensors EXCEPT ![p].content = v]
    BY <2>7, <2>10 DEF Tensors
  <2>12. Tensors[p] # Null /\ Tensors[p].state = "ACTIVE"
    <3>1. Tensors[p] = TensorAt(p) /\ TensorAt(p) # Null
      BY <1>4, TensorIsEntry DEF Tensors
    <3>2. TensorAt(p).state = "ACTIVE"
      BY <2>4, <2>8 DEF StateOf
    <3>3. QED
      BY <3>1, <3>2
  <2>13. p \notin Memory!Unsettled
    BY <2>1, RequestIsCall, CoveredIsMatched DEF Memory!Unsettled, Memory!Requested
  <2>14. Requests' = Requests
    BY <1>1, KeptRequests DEF Requests, SameRequests
  <2>15. Memory!Write(p, v)
    BY <1>1, <2>11, <2>12, <2>13, <2>14 DEF Memory!Write, Reason
  <2>16. QED
    BY <2>15 DEF Memory!Next, Reason, Data
<1>5. QED
  BY <1>3, <1>4

\* The request of pause makes the tensors without a backup lose their content.
LEMMA PauseIsCalled ==
  ASSUME IInv, exited = "no", NEW t \in Threads, NEW tagFilter \in Tags \cup {Null},
         PauseCall(t, tagFilter)
  PROVE  Memory!Next
<1> DEFINE r == [op |-> "pause", filter |-> tagFilter]
<1>1. /\ pc[t] = "idle" /\ pc' = [pc EXCEPT ![t] = "p_lock"]
      /\ filter' = [filter EXCEPT ![t] = tagFilter]
      /\ UNCHANGED <<meta, mapping, content, hostData, fileData, exited, todo>>
  BY DEF PauseCall, Goto, device, backups, lock
<1>2. RequestOf(t) = Null /\ RequestOf(t)' = r
  BY <1>1 DEF RequestOf, InPause, InResume, IInv, TypeOK
<1>3. ASSUME NEW u \in Threads \ {t}
      PROVE  RequestOf(u)' = RequestOf(u)
  BY <1>1 DEF RequestOf, InPause, InResume, IInv, TypeOK
<1>4. Requests[t] = Null /\ Requests' = [Requests EXCEPT ![t] = r]
  BY <1>2, <1>3 DEF Requests
<1>5. ASSUME NEW p \in Ptrs
      PROVE  TensorAt(p)' = IF p \in Memory!Covered(r) /\ Tensors[p].backup = "none"
                            THEN [Tensors[p] EXCEPT !.content = Junk] ELSE Tensors[p]
  <2>0. Tensors[p] = TensorAt(p)
    BY DEF Tensors
  <2>1. CASE meta[p] = Null
    BY <1>1, <2>0, <2>1 DEF TensorAt, StateOf, Memory!Covered, Memory!Live
  <2>2. CASE meta[p] # Null
    <3>1. /\ Visited("p_loop", p)' <=> Visited("p_loop", p)
          /\ Visited("r_loop", p)' <=> Visited("r_loop", p)
      BY <1>1 DEF Visited, IInv, TypeOK, Matches
    <3>2. IsActive(p)' = IsActive(p)
      BY <1>1, <3>1 DEF IsActive
    <3>3. GivenUp(p)' <=> GivenUp(p) \/ (meta[p].backup = "none" /\ Matches(meta[p], tagFilter))
      BY <1>1 DEF GivenUp, InPause, IInv, TypeOK, Matches
    <3>4. TensorAt(p) = [tag |-> meta[p].tag, backup |-> meta[p].backup,
                         state |-> StateOf(p), content |-> Bytes(p)]
      BY <2>2 DEF TensorAt, StateOf
    <3>5. TensorAt(p)' = [tag |-> meta[p].tag, backup |-> meta[p].backup,
                          state |-> StateOf(p), content |-> Bytes(p)']
      BY <1>1, <2>2, <3>2 DEF TensorAt, StateOf
    <3>6. p \in Memory!Covered(r) <=> Matches(meta[p], tagFilter)
      BY <2>0, <2>2, <3>4, TensorIsEntry DEF Memory!Covered, Memory!Live, Memory!Covers, Matches
    <3>7. Bytes(p)' = IF meta[p].backup = "none" /\ Matches(meta[p], tagFilter)
                      THEN Junk ELSE Bytes(p)
      BY <1>1, <3>3 DEF Bytes
    <3>8. QED
      BY <2>0, <3>4, <3>5, <3>6, <3>7
  <2>3. QED
    BY <2>1, <2>2
<1>6. Tensors' = [p \in Ptrs |-> IF p \in Memory!Covered(r) /\ Tensors[p].backup = "none"
                                THEN [Tensors[p] EXCEPT !.content = Junk] ELSE Tensors[p]]
  BY <1>5 DEF Tensors
<1>7. Memory!CallPause(t, r)
  BY <1>1, <1>4, <1>6 DEF Memory!CallPause, Reason
<1>8. r \in Memory!Request
  BY DEF Memory!Request
<1>9. QED
  BY <1>7, <1>8 DEF Memory!Next, Reason

LEMMA ResumeIsCalled ==
  ASSUME IInv, exited = "no", NEW t \in Threads, NEW tagFilter \in Tags \cup {Null},
         ResumeCall(t, tagFilter)
  PROVE  Memory!Next
<1> DEFINE r == [op |-> "resume", filter |-> tagFilter]
<1>1. /\ pc[t] = "idle" /\ pc' = [pc EXCEPT ![t] = "r_lock"]
      /\ filter' = [filter EXCEPT ![t] = tagFilter]
      /\ UNCHANGED <<meta, mapping, content, hostData, fileData, exited, todo>>
  BY DEF ResumeCall, Goto, device, backups, lock
<1>2. RequestOf(t) = Null /\ RequestOf(t)' = r
  BY <1>1 DEF RequestOf, InPause, InResume, IInv, TypeOK
<1>3. ASSUME NEW u \in Threads \ {t}
      PROVE  RequestOf(u)' = RequestOf(u)
  BY <1>1 DEF RequestOf, InPause, InResume, IInv, TypeOK
<1>4. Requests[t] = Null /\ Requests' = [Requests EXCEPT ![t] = r]
  BY <1>2, <1>3 DEF Requests
<1>5. ASSUME NEW p \in Ptrs
      PROVE  TensorAt(p)' = TensorAt(p)
  <2>1. /\ Visited("p_loop", p)' <=> Visited("p_loop", p)
        /\ Visited("r_loop", p)' <=> Visited("r_loop", p)
        /\ GivenUp(p)' <=> GivenUp(p)
    BY <1>1 DEF Visited, GivenUp, InPause, IInv, TypeOK, Matches
  <2>2. IsActive(p)' = IsActive(p) /\ Bytes(p)' = Bytes(p)
    BY <1>1, <2>1 DEF IsActive, Bytes
  <2>3. QED
    BY <1>1, <2>2 DEF TensorAt, StateOf
<1>6. Tensors' = Tensors
  BY <1>5 DEF Tensors
<1>7. Memory!CallResume(t, r)
  BY <1>1, <1>4, <1>6 DEF Memory!CallResume, Reason
<1>8. r \in Memory!Request
  BY DEF Memory!Request
<1>9. QED
  BY <1>7, <1>8 DEF Memory!Next, Reason

\* What the end of a loop changes of the calls in progress and of the tensors.
LEMMA LoopEndEffect ==
  ASSUME IInv, NEW t \in Threads, PauseReturn(t) \/ ResumeReturn(t)
  PROVE  /\ UNCHANGED <<meta, mapping, content, hostData, fileData, exited>>
         /\ Requests' = [Requests EXCEPT ![t] = Null]
         /\ \A p \in Ptrs : meta[p] # Null =>
               /\ IsActive(p) = IF pc[t] = "p_loop" THEN Matches(meta[p], filter[t])
                                                         \/ meta[p].state = "ACTIVE"
                                ELSE ~Matches(meta[p], filter[t]) /\ meta[p].state = "ACTIVE"
               /\ IsActive(p)' = (meta[p].state = "ACTIVE")
               /\ GivenUp(p) <=> \/ GivenUp(p)'
                                 \/ meta[p].backup = "none" /\ pc[t] = "p_loop"
                                    /\ Matches(meta[p], filter[t])
<1>1. /\ pc[t] \in {"p_loop", "r_loop"} /\ todo = {}
      /\ pc' = [pc EXCEPT ![t] = "idle"] /\ filter' = [filter EXCEPT ![t] = Null]
      /\ UNCHANGED <<meta, mapping, content, hostData, fileData, exited>>
  BY DEF PauseReturn, ResumeReturn, LeaveLoop, Return, Goto, device, backups
<1>2. \A u \in Threads : pc[u] \in {"p_loop", "r_loop"} <=> u = t
  BY <1>1, LoopHolder
<1>3. \A u \in Threads : pc'[u] \notin {"p_loop", "r_loop"}
  BY <1>1, <1>2 DEF IInv, TypeOK
<1>4. RequestOf(t)' = Null
  BY <1>1 DEF RequestOf, InPause, InResume, IInv, TypeOK
<1>5. ASSUME NEW u \in Threads \ {t}
      PROVE  RequestOf(u)' = RequestOf(u)
  BY <1>1 DEF RequestOf, InPause, InResume, IInv, TypeOK
<1>6. Requests' = [Requests EXCEPT ![t] = Null]
  BY <1>4, <1>5 DEF Requests
<1>7. ASSUME NEW p \in Ptrs, meta[p] # Null
      PROVE  /\ IsActive(p) = IF pc[t] = "p_loop" THEN Matches(meta[p], filter[t])
                                                         \/ meta[p].state = "ACTIVE"
                               ELSE ~Matches(meta[p], filter[t]) /\ meta[p].state = "ACTIVE"
             /\ IsActive(p)' = (meta[p].state = "ACTIVE")
             /\ GivenUp(p) <=> \/ GivenUp(p)'
                               \/ meta[p].backup = "none" /\ pc[t] = "p_loop"
                                  /\ Matches(meta[p], filter[t])
  <2>1. /\ Visited("p_loop", p) <=> pc[t] = "p_loop" /\ Matches(meta[p], filter[t])
        /\ Visited("r_loop", p) <=> pc[t] = "r_loop" /\ Matches(meta[p], filter[t])
    BY <1>1, <1>2 DEF Visited
  <2>2. ~Visited("p_loop", p)' /\ ~Visited("r_loop", p)'
    BY <1>3 DEF Visited
  <2>3. IsActive(p)' = (meta[p].state = "ACTIVE")
    BY <1>1, <2>2 DEF IsActive
  <2>4. IsActive(p) = IF pc[t] = "p_loop" THEN Matches(meta[p], filter[t])
                                                  \/ meta[p].state = "ACTIVE"
                      ELSE ~Matches(meta[p], filter[t]) /\ meta[p].state = "ACTIVE"
    BY <1>1, <2>1 DEF IsActive
  <2>5. GivenUp(p) <=> \/ GivenUp(p)'
                       \/ meta[p].backup = "none" /\ pc[t] = "p_loop" /\ Matches(meta[p], filter[t])
    BY <1>1, <1>2 DEF GivenUp, InPause, IInv, TypeOK, Matches
  <2>6. QED
    BY <2>3, <2>4, <2>5
<1>8. QED
  BY <1>1, <1>6, <1>7

LEMMA PauseIsPerformed ==
  ASSUME IInv, exited = "no", NEW t \in Threads, PauseReturn(t)
  PROVE  Memory!Next
<1> DEFINE covered == Memory!Covered(Requests[t])
<1>1. InPause(t) /\ pc[t] = "p_loop" /\ todo = {}
  BY DEF PauseReturn, LeaveLoop, InPause
<1>2. t \in Memory!Requested("pause")
  BY <1>1, RequestIsCall
<1>3. ASSUME NEW p \in covered
      PROVE  /\ Tensors[p].state = "ACTIVE"
             /\ TensorAt(p)' = [Tensors[p] EXCEPT !.state = "PAUSED"]
  <2>1. p \in Ptrs /\ meta[p] # Null /\ Matches(meta[p], filter[t])
    BY <1>1, CoveredIsMatched DEF Memory!Covered, Memory!Live
  <2>2. IsActive(p) = TRUE
    BY <1>1, <2>1, LoopEndEffect
  <2>3. meta[p].state = "PAUSED" /\ mapping[p] = Null /\ BackupsMatch(meta[p])
    BY <1>1, <2>1 DEF IInv, LoopInv, MappingInv, MappedAs, BackupInv, Tracked
  <2>4. IsActive(p)' = FALSE
    BY <2>1, <2>3, LoopEndEffect
  <2>5. Bytes(p)' = Bytes(p)
    BY <1>1, <2>1, <2>3, LoopEndEffect DEF Bytes, BackupsMatch
  <2>6. TensorAt(p) = [tag |-> meta[p].tag, backup |-> meta[p].backup,
                       state |-> "ACTIVE", content |-> Bytes(p)]
    BY <2>1, <2>2 DEF TensorAt, StateOf
  <2>7. TensorAt(p)' = [tag |-> meta[p].tag, backup |-> meta[p].backup,
                        state |-> "PAUSED", content |-> Bytes(p)]
    BY <2>1, <2>4, <2>5, LoopEndEffect DEF TensorAt, StateOf
  <2>8. Tensors[p] = TensorAt(p)
    BY <2>1 DEF Tensors
  <2>9. Tensors[p].state = "ACTIVE"
    BY <2>6, <2>8
  <2>10. TensorAt(p)' = [Tensors[p] EXCEPT !.state = "PAUSED"]
    BY <2>6, <2>7, <2>8
  <2>11. QED
    BY <2>9, <2>10
<1>4. ASSUME NEW p \in Ptrs \ covered
      PROVE  TensorAt(p)' = Tensors[p]
  <2>0. Tensors[p] = TensorAt(p)
    BY DEF Tensors
  <2>1. CASE meta[p] = Null
    BY <2>0, <2>1, LoopEndEffect DEF TensorAt, StateOf
  <2>2. CASE meta[p] # Null
    <3>1. ~Matches(meta[p], filter[t])
      BY <1>1, <2>2, CoveredIsMatched
    <3>2. IsActive(p)' = IsActive(p) /\ (GivenUp(p)' <=> GivenUp(p))
      BY <1>1, <2>2, <3>1, LoopEndEffect
    <3>3. Bytes(p)' = Bytes(p)
      BY <3>2, LoopEndEffect DEF Bytes
    <3>4. QED
      BY <2>0, <2>2, <3>2, <3>3, LoopEndEffect DEF TensorAt, StateOf
  <2>3. QED
    BY <2>1, <2>2
<1>5. Tensors' = [p \in Ptrs |-> IF p \in covered THEN [Tensors[p] EXCEPT !.state = "PAUSED"]
                                ELSE Tensors[p]]
  BY <1>3, <1>4 DEF Tensors
<1>6. Requests' = [Requests EXCEPT ![t] = Null] /\ Reason' = Reason
  BY LoopEndEffect DEF Reason
<1>7. Memory!Perform(t, "pause", "PAUSED")
  BY <1>2, <1>3, <1>5, <1>6 DEF Memory!Perform
<1>8. QED
  BY <1>7 DEF Memory!Next, Reason

LEMMA ResumeIsPerformed ==
  ASSUME IInv, exited = "no", NEW t \in Threads, ResumeReturn(t)
  PROVE  Memory!Next
<1> DEFINE covered == Memory!Covered(Requests[t])
<1>1. InResume(t) /\ pc[t] = "r_loop" /\ todo = {}
  BY DEF ResumeReturn, LeaveLoop, InResume
<1>2. t \in Memory!Requested("resume")
  BY <1>1, RequestIsCall
<1>3. ASSUME NEW p \in Ptrs, meta[p] # Null
      PROVE  Bytes(p)' = Bytes(p)
  BY <1>1, <1>3, LoopEndEffect DEF Bytes
<1>4. ASSUME NEW p \in covered
      PROVE  /\ Tensors[p].state = "PAUSED"
             /\ TensorAt(p)' = [Tensors[p] EXCEPT !.state = "ACTIVE"]
  <2>1. p \in Ptrs /\ meta[p] # Null /\ Matches(meta[p], filter[t])
    BY <1>1, CoveredIsMatched DEF Memory!Covered, Memory!Live
  <2>2. IsActive(p) = FALSE
    BY <1>1, <2>1, LoopEndEffect
  <2>3. meta[p].state = "ACTIVE"
    BY <1>1, <2>1 DEF IInv, LoopInv, Tracked
  <2>4. IsActive(p)' = TRUE
    BY <2>1, <2>3, LoopEndEffect
  <2>5. TensorAt(p) = [tag |-> meta[p].tag, backup |-> meta[p].backup,
                       state |-> "PAUSED", content |-> Bytes(p)]
    BY <2>1, <2>2 DEF TensorAt, StateOf
  <2>6. TensorAt(p)' = [tag |-> meta[p].tag, backup |-> meta[p].backup,
                        state |-> "ACTIVE", content |-> Bytes(p)]
    BY <1>3, <2>1, <2>4, LoopEndEffect DEF TensorAt, StateOf
  <2>7. Tensors[p] = TensorAt(p)
    BY <2>1 DEF Tensors
  <2>8. Tensors[p].state = "PAUSED"
    BY <2>5, <2>7
  <2>9. TensorAt(p)' = [Tensors[p] EXCEPT !.state = "ACTIVE"]
    BY <2>5, <2>6, <2>7
  <2>10. QED
    BY <2>8, <2>9
<1>5. ASSUME NEW p \in Ptrs \ covered
      PROVE  TensorAt(p)' = Tensors[p]
  <2>0. Tensors[p] = TensorAt(p)
    BY DEF Tensors
  <2>1. CASE meta[p] = Null
    BY <2>0, <2>1, LoopEndEffect DEF TensorAt, StateOf
  <2>2. CASE meta[p] # Null
    <3>1. ~Matches(meta[p], filter[t])
      BY <1>1, <2>2, CoveredIsMatched
    <3>2. IsActive(p)' = IsActive(p)
      BY <1>1, <2>2, <3>1, LoopEndEffect
    <3>3. QED
      BY <1>3, <2>0, <2>2, <3>2, LoopEndEffect DEF TensorAt, StateOf
  <2>3. QED
    BY <2>1, <2>2
<1>6. Tensors' = [p \in Ptrs |-> IF p \in covered THEN [Tensors[p] EXCEPT !.state = "ACTIVE"]
                                ELSE Tensors[p]]
  BY <1>4, <1>5 DEF Tensors
<1>7. Requests' = [Requests EXCEPT ![t] = Null] /\ Reason' = Reason
  BY LoopEndEffect DEF Reason
<1>8. Memory!Perform(t, "resume", "ACTIVE")
  BY <1>2, <1>4, <1>6, <1>7 DEF Memory!Perform
<1>9. QED
  BY <1>8 DEF Memory!Next, Reason

\* The process ends: the tensors and the calls are those it leaves behind.
LEMMA ExitKeeps ==
  ASSUME NEW reason, Exit(reason)
  PROVE  Tensors' = Tensors /\ Requests' = Requests
<1>1. UNCHANGED <<meta, mapping, content, hostData, fileData, pc, filter, todo>>
  BY DEF Exit, device, backups, lock, local
<1>2. CallsKept
  BY <1>1 DEF CallsKept
<1>3. QED
  BY <1>1, <1>2, KeptData DEF SameTensors, SameRequests, Tensors, Requests

LEMMA ExitFails ==
  ASSUME exited = "no", NEW reason \in Exits \ {"no", "not_active", "not_paused", "driver_error"},
         Exit(reason)
  PROVE  Memory!Next
  BY ExitKeeps DEF Memory!Next, Memory!Failure, Reason, Exit

\* The process ends for a misuse only if a tensor is in the state the call is
\* to bring it to.
LEMMA MisuseEnds ==
  ASSUME IInv, exited = "no", NEW t \in Threads, PauseNotActive(t) \/ ResumeNotPaused(t)
  PROVE  Memory!Next
<1>1. ASSUME NEW p \in todo, pc[t] \in {"p_loop", "r_loop"}
      PROVE  /\ p \in Memory!Covered(Requests[t])
             /\ Tensors[p].state = meta[p].state
  <2>1. p \in Ptrs /\ meta[p] # Null /\ Matches(meta[p], filter[t])
    BY <1>1 DEF IInv, TypeOK, LocalInv, LoopInv, Tracked
  <2>2. p \in Memory!Covered(Requests[t])
    BY <1>1, <2>1, CoveredIsMatched DEF InPause, InResume
  <2>3. IsActive(p) = (meta[p].state = "ACTIVE")
    BY <1>1 DEF IsActive, Visited
  <2>4. Tensors[p].state = StateOf(p)
    BY <2>1 DEF Tensors, TensorAt
  <2>5. meta[p].state \in {"ACTIVE", "PAUSED"}
    BY EntryFacts DEF Metadata, State
  <2>6. QED
    BY <2>2, <2>3, <2>4, <2>5 DEF StateOf
<1>2. CASE PauseNotActive(t)
  <2>1. PICK p \in todo : meta[p].state # "ACTIVE"
    BY <1>2 DEF PauseNotActive
  <2>2. p \in Memory!Covered(Requests[t]) /\ Tensors[p].state = "PAUSED"
    BY <1>1, <1>2, <2>1, EntryFacts DEF PauseNotActive, Metadata, State
  <2>3. t \in Memory!Requested("pause")
    BY <1>2, RequestIsCall DEF PauseNotActive, InPause
  <2>4. Memory!Misuse(t, "pause", "PAUSED", "not_active")
    BY <1>2, <2>2, <2>3, ExitKeeps DEF PauseNotActive, Memory!Misuse, Reason, Exit
  <2>5. QED
    BY <2>4 DEF Memory!Next, Reason
<1>3. CASE ResumeNotPaused(t)
  <2>1. PICK p \in todo : meta[p].state # "PAUSED"
    BY <1>3 DEF ResumeNotPaused
  <2>2. meta[p].state = "ACTIVE"
    BY <2>1, EntryFacts DEF Metadata, State
  <2>3. p \in Memory!Covered(Requests[t]) /\ Tensors[p].state = "ACTIVE"
    BY <1>1, <1>3, <2>1, <2>2 DEF ResumeNotPaused
  <2>4. t \in Memory!Requested("resume")
    BY <1>3, RequestIsCall DEF ResumeNotPaused, InResume
  <2>5. Memory!Misuse(t, "resume", "ACTIVE", "not_paused")
    BY <1>3, <2>3, <2>4, ExitKeeps DEF ResumeNotPaused, Memory!Misuse, Reason, Exit
  <2>6. QED
    BY <2>5 DEF Memory!Next, Reason
<1>4. QED
  BY <1>2, <1>3

------------------------------------------------------------------------------
(* The implementation *)

LEMMA InitImplements == Init => Memory!Init
<1> SUFFICES ASSUME Init
             PROVE  Memory!Init
  OBVIOUS
<1>1. \A p \in Ptrs : TensorAt(p) = Null
  BY DEF Init, TensorAt
<1>2. \A t \in Threads : RequestOf(t) = Null
  BY DEF Init, RequestOf, InPause, InResume
<1>3. QED
  BY <1>1, <1>2 DEF Init, Memory!Init, Tensors, Requests, Reason

LEMMA NextImplements ==
  ASSUME IInv, IInv', [Next]_vars
  PROVE  [Memory!Next]_(Memory!vars)
<1> USE DEF IInv
<1>1. CASE UNCHANGED vars
  <2>1. CallsKept /\ UNCHANGED <<meta, mapping, content, hostData, fileData, exited>>
    BY <1>1 DEF vars, device, backups, lock, local, CallsKept
  <2>2. QED
    BY <2>1, DataStutter
<1>2. ASSUME NEW p \in Ptrs, NEW v \in Values, exited = "no", Write(p, v)
      PROVE  [Memory!Next]_(Memory!vars)
  BY <1>2, WriteRefines
<1>3. ASSUME NEW t \in Threads, exited = "no", Call(t)
      PROVE  [Memory!Next]_(Memory!vars)
  <2>1. CASE MallocBothBackups(t)
    BY <1>3, <2>1, ExitFails DEF MallocBothBackups, Exits
  <2>2. CASE UntrackedMalloc(t)
    BY <2>2, UntrackedMallocStutters
  <2>3. CASE QuietStep(t)
    BY <2>3, QuietStepStutters
  <2>4. CASE \E tagFilter \in Tags \cup {Null} : PauseCall(t, tagFilter) \/ ResumeCall(t, tagFilter)
    BY <1>3, <2>4, PauseIsCalled, ResumeIsCalled
  <2>5. QED
    BY <1>3, <2>1, <2>2, <2>3, <2>4 DEF Call, QuietStep
<1>4. ASSUME NEW t \in Threads, exited = "no", Step(t)
      PROVE  [Memory!Next]_(Memory!vars)
  <2>1. CASE QuietStep(t)
    BY <2>1, QuietStepStutters
  <2>2. CASE MallocCreate(t)
    BY <2>2, MallocCreateStutters
  <2>3. CASE MallocRegister(t)
    BY <1>4, <2>3, MallocRegisters
  <2>4. CASE FreeUntracked(t) \/ FreeDevice(t) \/ FreeBackup(t)
    BY <1>4, <2>4, FreeUntrackedStutters, FreeDeviceStutters, FreeBackupStutters
  <2>5. CASE FreeLookup(t)
    BY <1>4, <2>5, FreeLooksUp
  <2>6. CASE PauseLock(t) \/ ResumeLock(t)
    BY <2>6, LoopBeginStutters
  <2>7. CASE PauseNotActive(t) \/ ResumeNotPaused(t)
    BY <1>4, <2>7, MisuseEnds
  <2>8. CASE PauseReturn(t) \/ ResumeReturn(t)
    BY <1>4, <2>8, PauseIsPerformed, ResumeIsPerformed
  <2>9. CASE \E p \in todo : \/ PauseNoBackup(t, p) \/ PauseToHost(t, p) \/ PauseToDisk(t, p)
                             \/ ResumeNoBackup(t, p) \/ ResumeFromHost(t, p) \/ ResumeFromDisk(t, p)
    BY <2>9, PauseEntryStutters, ResumeEntryStutters
  <2>10. CASE QueryNotFound(t) \/ QueryLostContent(t) \/ OutOfResources(t)
    BY <1>4, <2>10, ExitFails DEF QueryNotFound, QueryLostContent, OutOfResources, Exits
  <2>11. QED
    BY <1>4, <2>1, <2>2, <2>3, <2>4, <2>5, <2>6, <2>7, <2>8, <2>9, <2>10 DEF Step, QuietStep
<1>5. ASSUME NEW t \in Threads, exited = "no", CudaFails(t)
      PROVE  [Memory!Next]_(Memory!vars)
  BY <1>5, ExitFails DEF CudaFails, Exits
<1>6. CASE Terminated
  BY <1>1, <1>6 DEF Terminated
<1>7. QED
  BY <1>1, <1>2, <1>3, <1>4, <1>5, <1>6 DEF Next

\* The allocator implements PauseableMemory: for the clients of any number of
\* threads a pause and a resume take effect at once, whatever other calls run
\* while their loops visit the entries (core.cpp:79-647).
THEOREM AllocatorImplementsMemory == Spec => ImplementsMemory
<1>1. Init => Memory!Init
  BY InitImplements
<1>2. IInv /\ IInv' /\ [Next]_vars => [Memory!Next]_(Memory!vars)
  BY NextImplements
<1>3. QED
  BY <1>1, <1>2, Invariance, PTL DEF Spec, Memory!Spec, ImplementsMemory
==============================================================================

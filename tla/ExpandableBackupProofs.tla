-------------------------- MODULE ExpandableBackupProofs --------------------------
(***************************************************************************)
(* Proofs about the backups of Expandable, for every number of threads,    *)
(* pages, handles, units of memory, buffers, files, tags, values and       *)
(* devices: BackupInv of ExpandableInv is inductive together with CoreInv, *)
(* and what a paused page held is in its buffer or its file, where the     *)
(* clients look for it.                                                    *)
(***************************************************************************)
EXTENDS ExpandableProofs

\* The lock is held by the one call that is in a loop.
LEMMA LoopHolder ==
  ASSUME CoreInv
  PROVE  /\ mutex = Null => \A t \in Threads : pc[t] \notin InLoop
         /\ \A t, u \in Threads : pc[t] \in InLoop /\ pc[u] \in InLoop => t = u
  BY ExpandableAssumption DEF CoreInv, LocalInv

\* What the index finds.
LEMMA EntryAtPage ==
  ASSUME CoreInv, NEW p \in Pages, index[p] # Null
  PROVE  /\ index[p] \in Tracked /\ index[p] \in Logical
         /\ meta[index[p]] \in VMMAllocationMetadata /\ meta[index[p]].ptr = p
         /\ meta[index[p]].state \in {"ACTIVE", "PAUSED"}
         /\ meta[index[p]].state = "ACTIVE" => /\ mapping[p] = meta[index[p]].physical_handle
                                               /\ mapping[p] \in phys /\ mapping[p] \in Units
         /\ meta[index[p]].state = "PAUSED" => mapping[p] = Null
<1>1. index[p] \in Tracked /\ meta[index[p]].ptr = p /\ p # Null
  BY ExpandableAssumption DEF CoreInv, MapsAgree
<1>2. index[p] \in Logical /\ meta[index[p]] \in VMMAllocationMetadata
  BY <1>1, EntryType DEF CoreInv
<1>3. meta[index[p]].state \in {"ACTIVE", "PAUSED"}
  BY <1>2 DEF VMMAllocationMetadata, State
<1>4. MatchesDevice(meta[index[p]]) /\ phys \subseteq Units
  BY <1>1 DEF CoreInv, HandlesMatchDevice, TypeOK
<1> QED
  BY <1>1, <1>2, <1>3, <1>4 DEF MatchesDevice

\* The page an entry says it is mapped at.
LEMMA PageOfEntry ==
  ASSUME CoreInv, NEW l \in Tracked
  PROVE  /\ l \in Logical /\ meta[l] \in VMMAllocationMetadata /\ meta[l] # Null
         /\ meta[l].ptr # Null => meta[l].ptr \in Pages /\ index[meta[l].ptr] = l
<1>1. l \in Logical /\ meta[l] \in VMMAllocationMetadata /\ meta[l] # Null
  BY EntryType DEF CoreInv
<1>2. meta[l].ptr \in Pages \cup {Null}
  BY <1>1 DEF VMMAllocationMetadata
<1> QED
  BY <1>1, <1>2 DEF CoreInv, MapsAgree

\* Replacing an entry by one for the same handle and buffer.
LEMMA ReplacedFields ==
  ASSUME TypeOK, NEW l, NEW n, Replaced(l, n)
  PROVE  /\ Tracked' = Tracked /\ l \in Tracked /\ l \in Logical /\ n # Null
         /\ meta'[l] = n
         /\ \A k \in Tracked : k # l => meta'[k] = meta[k]
         /\ n.tag = meta[l].tag /\ n.backup = meta[l].backup
<1>1. n.tag = meta[l].tag /\ n.backup = meta[l].backup
  BY DEF Replaced
<1>2. \A k \in Tracked : k \in Logical
  BY DEF Tracked
<1> QED
  BY <1>1, <1>2, ReplacedEntries

\* When nobody holds the lock, what is backed up is paused.
LEMMA UnlockedPaused ==
  ASSUME CoreInv, BufferInv, mutex = Null, NEW l \in Tracked, meta[l].cpu_backup # Null
  PROVE  meta[l].state = "PAUSED"
<1>1. meta[l].state \in {"ACTIVE", "PAUSED"}
  BY EntryType DEF CoreInv, VMMAllocationMetadata, State
<1>2. \A t \in Threads : ~BackedUpBy(t, l)
  BY LoopHolder DEF BackedUpBy, InLoop
<1> QED
  BY <1>1, <1>2 DEF BufferInv

\* A call in the second loop of pause has todo before it, one in that of resume
\* nothing that is backed up and active.
LEMMA ResumingPaused ==
  ASSUME CoreInv, BufferInv, NEW t \in Threads, pc[t] = "r_loop",
         NEW l \in Tracked, meta[l].cpu_backup # Null
  PROVE  meta[l].state = "PAUSED"
<1>1. meta[l].state \in {"ACTIVE", "PAUSED"}
  BY EntryType DEF CoreInv, VMMAllocationMetadata, State
<1>2. \A u \in Threads : ~BackedUpBy(u, l)
  BY LoopHolder DEF BackedUpBy, InLoop
<1> QED
  BY <1>1, <1>2 DEF BufferInv

\* The pages of a run, from the first page not yet backed up.
LEMMA RunEntries ==
  ASSUME CoreInv, FirstLoopInv, NEW t \in Threads, pc[t] = "p_backup",
         NEW first \in toBackUp, meta[index[first]].state = "ACTIVE"
  PROVE  /\ first \in Pages /\ first \in Run(first)
         /\ \A p \in Run(first) :
               /\ p \in Pages /\ p >= first /\ index[p] # Null
               /\ meta[index[p]].state = "ACTIVE" /\ meta[index[p]].backup = "cpu"
               /\ meta[index[p]].tag = meta[index[first]].tag
               /\ Matches(meta[index[p]], filter[t])
         /\ \A p \in Pages, q \in Run(first) :
               first <= p /\ p <= q => p \in Run(first)
         /\ \A q \in Pages :
               /\ first <= q
               /\ \A p \in first + 1 .. q : /\ index[p] # Null
                                            /\ meta[index[p]].state = "ACTIVE"
                                            /\ meta[index[p]].backup = "cpu"
                                            /\ meta[index[p]].tag = meta[index[first]].tag
               => q \in Run(first)
<1>1. first \in 0 .. NumPages - 1 /\ NumPages \in Nat /\ index[first] # Null
  BY ExpandableAssumption DEF CoreInv, TypeOK, LoopInv, Pages
<1>2. Matches(meta[index[first]], filter[t]) /\ meta[index[first]].backup = "cpu"
  BY DEF FirstLoopInv
<1>3. first \in Pages /\ first \in Run(first)
  BY <1>1 DEF Run, Pages
<1>4. ASSUME NEW p \in Run(first)
      PROVE  /\ p \in Pages /\ p >= first /\ index[p] # Null
             /\ meta[index[p]].state = "ACTIVE" /\ meta[index[p]].backup = "cpu"
             /\ meta[index[p]].tag = meta[index[first]].tag
             /\ Matches(meta[index[p]], filter[t])
  <2>1. p \in Pages /\ p >= first /\ p \in first .. NumPages - 1
    BY <1>1 DEF Run, Pages
  <2>2. p = first \/ p \in first + 1 .. p
    BY <1>1, <2>1
  <2>3. /\ index[p] # Null
        /\ meta[index[p]].state = "ACTIVE" /\ meta[index[p]].backup = "cpu"
        /\ meta[index[p]].tag = meta[index[first]].tag
    BY <1>1, <1>2, <2>2 DEF Run
  <2> QED
    BY <1>2, <2>1, <2>3 DEF Matches
<1>5. ASSUME NEW p \in Pages, NEW q \in Run(first), first <= p, p <= q
      PROVE  p \in Run(first)
  <2>1. p \in first .. NumPages - 1 /\ q \in first .. NumPages - 1
    BY <1>1, <1>5 DEF Run, Pages
  <2>2. \A x \in first + 1 .. p : x \in first + 1 .. q
    BY <1>1, <1>5, <2>1
  <2> QED
    BY <2>1, <2>2 DEF Run
<1>6. \A q \in Pages :
         /\ first <= q
         /\ \A p \in first + 1 .. q : /\ index[p] # Null
                                      /\ meta[index[p]].state = "ACTIVE"
                                      /\ meta[index[p]].backup = "cpu"
                                      /\ meta[index[p]].tag = meta[index[first]].tag
         => q \in Run(first)
  <2>1. \A q \in Pages : first <= q => q \in first .. NumPages - 1
    BY <1>1 DEF Pages
  <2> QED
    BY <2>1 DEF Run
<1> QED
  BY <1>3, <1>4, <1>5, <1>6

\* The first loop of pause copies the pages of a run to one buffer that was free.
LEMMA BackUpRunCopies ==
  ASSUME CoreInv, FirstLoopInv, NEW t \in Threads, BackUpRun(t)
  PROVE  \E first \in toBackUp, b \in Bufs :
           /\ ~InUse(b)
           /\ \A p \in toBackUp : first <= p
           /\ meta[index[first]].state = "ACTIVE"
           /\ toBackUp' = toBackUp \ Run(first)
           /\ \A l \in Tracked : meta[l].ptr \in Run(first) =>
                 meta'[l].cpu_backup = b /\ meta'[l].cpu_backup_offset = meta[l].ptr - first
           /\ \A l \in Tracked : meta[l].ptr \notin Run(first) => meta'[l] = meta[l]
           /\ \A c \in Bufs : c # b => hostData'[c] = hostData[c] \/ ~InUse(c)'
           /\ InUse(b)' => \A p \in Run(first) : hostData'[b][p - first] = content[mapping[p]]
           /\ \A c \in Bufs : hostData'[c] # Blank => InUse(c)'
<1>0. pc[t] = "p_backup"
  BY DEF BackUpRun
<1>1. PICK first \in toBackUp, b \in {c \in Bufs : ~InUse(c)} :
          /\ \A p \in toBackUp : first <= p
          /\ meta[index[first]].state = "ACTIVE"
          /\ meta' = [l \in Logical |->
                        IF l \in Tracked /\ meta[l].ptr \in Run(first)
                        THEN [meta[l] EXCEPT !.cpu_backup = b,
                                             !.cpu_backup_offset = BackupOffset(first, meta[l].ptr)]
                        ELSE meta[l]]
          /\ KeepShared([hostData EXCEPT ![b] =
                [i \in Pages |-> IF first + i \in Run(first) THEN content[mapping[first + i]] ELSE Junk]])
          /\ toBackUp' = toBackUp \ Run(first)
  BY DEF BackUpRun
<1> DEFINE copy == [i \in Pages |-> IF first + i \in Run(first)
                                    THEN content[mapping[first + i]] ELSE Junk]
<1>2. hostData \in [Bufs -> [Pages -> Data]]
  BY DEF CoreInv, TypeOK
<1>3. \A c \in Bufs : hostData'[c] = IF InUse(c)' THEN (IF c = b THEN copy ELSE hostData[c]) ELSE Blank
  BY <1>1, <1>2 DEF KeepShared
<1>4. ASSUME NEW p \in Run(first)
      PROVE  p - first \in Pages /\ copy[p - first] = content[mapping[p]]
  <2>1. first \in 0 .. NumPages - 1 /\ p \in first .. NumPages - 1 /\ NumPages \in Nat
    BY <1>0, <1>1, ExpandableAssumption DEF Run, CoreInv, TypeOK, Pages
  <2>2. p - first \in Pages /\ first + (p - first) = p
    BY <2>1 DEF Pages
  <2> QED
    BY <2>2
<1>5. ASSUME NEW l \in Tracked, meta[l].ptr \in Run(first)
      PROVE  meta'[l].cpu_backup = b /\ meta'[l].cpu_backup_offset = meta[l].ptr - first
  <2>1. l \in Logical /\ meta[l] \in VMMAllocationMetadata
    BY PageOfEntry
  <2>2. meta'[l] = [meta[l] EXCEPT !.cpu_backup = b,
                                   !.cpu_backup_offset = BackupOffset(first, meta[l].ptr)]
    BY <1>1, <1>5, <2>1
  <2> QED
    BY <2>1, <2>2 DEF BackupOffset, VMMAllocationMetadata
<1>6. \A l \in Tracked : meta[l].ptr \notin Run(first) => meta'[l] = meta[l]
  BY <1>1 DEF Tracked
<1> HIDE DEF copy
<1>7. \A c \in Bufs : c # b => hostData'[c] = hostData[c] \/ ~InUse(c)'
  BY <1>3
<1>8. InUse(b)' => \A p \in Run(first) : hostData'[b][p - first] = content[mapping[p]]
  BY <1>1, <1>3, <1>4
<1>9. \A c \in Bufs : hostData'[c] # Blank => InUse(c)'
  BY <1>3
<1> QED
  BY <1>1, <1>5, <1>6, <1>7, <1>8, <1>9

------------------------------------------------------------------------------
(* Who has a buffer *)

\* A step that leaves the entries and the buffers alone.
LEMMA SameBuffers ==
  ASSUME BufferInv, meta' = meta, hostData' = hostData,
         \A t \in Threads : made'[t] # Null => made'[t].cpu_backup = Null /\ made'[t].backup # "both",
         \A t \in Threads, l \in Tracked :
            meta[l].cpu_backup # Null /\ meta[l].state = "ACTIVE" /\ BackedUpBy(t, l) => BackedUpBy(t, l)'
  PROVE  BufferInv'
<1>1. Tracked' = Tracked /\ \A b \in Bufs : InUse(b)' <=> InUse(b)
  BY DEF Tracked, InUse
<1> QED
  BY <1>1 DEF BufferInv

\* A call that holds the lock for one step, and gives no handle a buffer.
LEMMA UnlockedBuffers ==
  ASSUME CoreInv, BufferInv, mutex = Null,
         \A t \in Threads : made'[t] # Null => made'[t].cpu_backup = Null /\ made'[t].backup # "both",
         \A l \in Tracked' :
            /\ meta'[l].backup # "both"
            /\ meta'[l].cpu_backup # Null => /\ l \in Tracked /\ meta[l].cpu_backup # Null
                                             /\ meta'[l].backup = meta[l].backup
                                             /\ meta'[l].state = meta[l].state
            /\ meta'[l].backup = "cpu" /\ meta'[l].state = "PAUSED" => meta'[l].cpu_backup # Null,
         \A b \in Bufs : hostData'[b] # Blank => InUse(b)'
  PROVE  BufferInv'
<1>1. \A l \in Tracked' : meta'[l].cpu_backup # Null => meta'[l].backup = "cpu" /\ meta'[l].state = "PAUSED"
  BY UnlockedPaused DEF BufferInv
<1>2. \A l \in Tracked' : ~(meta'[l].cpu_backup # Null /\ meta'[l].state = "ACTIVE")
  BY <1>1
<1> QED
  BY <1>1, <1>2 DEF BufferInv

\* Who has a buffer, and which buffers are in use.
LEMMA BufferStep ==
  ASSUME IInv, [Next]_vars
  PROVE  BufferInv'
<1>0. /\ CoreInv /\ TypeOK /\ MapsAgree /\ LoopInv /\ LocalInv
      /\ BufferInv /\ FirstLoopInv /\ RunsInv /\ CopyInv /\ ContentKept /\ ViewInv
      /\ Tracked \subseteq Logical
  BY DEF CoreInv, IInv, BackupInv, Tracked
<1>1. ASSUME NEW t \in Threads, NEW tag \in Tags, NEW backup \in BackupModes, VmmCreate(t, tag, backup)
      PROVE  BufferInv'
  <2>1. PICK h \in Unused : made' = [made EXCEPT ![t] = NewEntry(tag, backup, h)]
    BY <1>1 DEF VmmCreate
  <2>2. NewEntry(tag, backup, h).cpu_backup = Null /\ NewEntry(tag, backup, h).backup # "both"
    BY <1>1 DEF VmmCreate, NewEntry
  <2>3. /\ meta' = meta /\ hostData' = hostData
        /\ \A u \in Threads : made'[u] # Null => made'[u].cpu_backup = Null /\ made'[u].backup # "both"
    BY <1>1, <1>0, <2>1, <2>2 DEF VmmCreate, BufferInv, device, backups, maps, lock, local, client
  <2>4. \A u \in Threads, k \in Tracked : BackedUpBy(u, k) => BackedUpBy(u, k)'
    BY <1>1, <1>0, <2>3 DEF VmmCreate, BackedUpBy, device, backups, maps, lock, local, client
  <2> QED
    BY <1>0, <2>3, <2>4, SameBuffers
<1>2. ASSUME NEW t \in Threads, VmmRegister(t)
      PROVE  BufferInv'
  <2>1. PICK l \in Logical \ Tracked : meta' = [meta EXCEPT ![l] = made[t]]
    BY <1>2 DEF VmmRegister
  <2>2. /\ made[t] # Null /\ made[t].state = "ACTIVE" /\ made[t].cpu_backup = Null
        /\ made[t].backup # "both"
    BY <1>2, <1>0 DEF VmmRegister, LocalInv, BufferInv
  <2>3. /\ Tracked' = Tracked \cup {l} /\ meta'[l] = made[t]
        /\ \A k \in Tracked : meta'[k] = meta[k]
    BY <1>0, <2>1, <2>2 DEF Tracked, TypeOK
  <2>4. \A u \in Threads : made'[u] # Null => made'[u].cpu_backup = Null /\ made'[u].backup # "both"
    BY <1>2, <1>0 DEF VmmRegister, BufferInv
  <2>5. \A b \in Bufs : hostData'[b] # Blank => InUse(b)'
    BY <1>2, <1>0, <2>3 DEF VmmRegister, BufferInv, InUse, device, backups, maps, lock, local, client
  <2>6. mutex = Null
    BY <1>2 DEF VmmRegister
  <2> QED
    BY <1>0, <2>2, <2>3, <2>4, <2>5, <2>6, UnlockedBuffers DEF BufferInv
<1>3. ASSUME NEW l \in Logical, NEW p \in Pages, VmmMap(l, p)
      PROVE  BufferInv'
  <2>1. PICK n \in VMMAllocationMetadata : MappedAs(l, p, n)
    BY <1>3, <1>0, VmmMapEffect
  <2>2. /\ Tracked' = Tracked
        /\ \A k \in Tracked : /\ meta'[k].backup = meta[k].backup /\ meta'[k].state = meta[k].state
                              /\ SameBackup(meta[k], meta'[k])
    BY <1>0, <2>1, ReplacedFields DEF MappedAs, SameBackup
  <2>3. \A t \in Threads : made'[t] # Null => made'[t].cpu_backup = Null /\ made'[t].backup # "both"
    BY <1>3, <1>0 DEF VmmMap, BufferInv, device, backups, maps, lock, local, client
  <2>4. \A b \in Bufs : hostData'[b] # Blank => InUse(b)'
    <3>1. \A b \in Bufs : InUse(b) => InUse(b)'
      BY <2>2 DEF InUse, SameBackup
    <3>2. hostData' = hostData
      BY <1>3 DEF VmmMap, backups
    <3> QED
      BY <1>0, <3>1, <3>2 DEF BufferInv
  <2>5. mutex = Null
    BY <1>3 DEF VmmMap
  <2> QED
    BY <1>0, <2>2, <2>3, <2>4, <2>5, UnlockedBuffers DEF BufferInv, SameBackup
<1>4. ASSUME NEW first \in Pages, NEW last \in Pages, NEW dev \in Devices, VmmSetAccess(first, last, dev)
      PROVE  BufferInv'
  <2>1. /\ Tracked' = Tracked
        /\ \A l \in Tracked : SameHandle(meta[l], meta'[l]) /\ SameBackup(meta[l], meta'[l])
    BY <1>4, <1>0, VmmSetAccessEffect
  <2>2. /\ Tracked' = Tracked
        /\ \A k \in Tracked : /\ meta'[k].backup = meta[k].backup /\ meta'[k].state = meta[k].state
                              /\ SameBackup(meta[k], meta'[k])
    BY <1>0, <2>1 DEF SameHandle
  <2>3. \A t \in Threads : made'[t] # Null => made'[t].cpu_backup = Null /\ made'[t].backup # "both"
    BY <1>4, <1>0 DEF VmmSetAccess, BufferInv, device, backups, maps, lock, local, client
  <2>4. \A b \in Bufs : hostData'[b] # Blank => InUse(b)'
    <3>1. \A b \in Bufs : InUse(b) => InUse(b)'
      BY <2>2 DEF InUse, SameBackup
    <3>2. hostData' = hostData
      BY <1>4 DEF VmmSetAccess, backups
    <3> QED
      BY <1>0, <3>1, <3>2 DEF BufferInv
  <2>5. mutex = Null
    BY <1>4 DEF VmmSetAccess
  <2> QED
    BY <1>0, <2>2, <2>3, <2>4, <2>5, UnlockedBuffers DEF BufferInv, SameBackup
<1>5. ASSUME NEW p \in Pages, VmmUnmap(p)
      PROVE  BufferInv'
  <2>1. PICK n \in VMMAllocationMetadata : UnmappedAs(index[p], n)
    BY <1>5, <1>0, VmmUnmapEffect
  <2>2. /\ Tracked' = Tracked
        /\ \A k \in Tracked : /\ meta'[k].backup = meta[k].backup /\ meta'[k].state = meta[k].state
                              /\ SameBackup(meta[k], meta'[k])
    BY <1>0, <2>1, ReplacedFields DEF UnmappedAs, SameBackup
  <2>3. \A t \in Threads : made'[t] # Null => made'[t].cpu_backup = Null /\ made'[t].backup # "both"
    BY <1>5, <1>0 DEF VmmUnmap, BufferInv, device, backups, maps, lock, local, client
  <2>4. \A b \in Bufs : hostData'[b] # Blank => InUse(b)'
    <3>1. \A b \in Bufs : InUse(b) => InUse(b)'
      BY <2>2 DEF InUse, SameBackup
    <3>2. hostData' = hostData
      BY <1>5 DEF VmmUnmap, backups
    <3> QED
      BY <1>0, <3>1, <3>2 DEF BufferInv
  <2>5. mutex = Null
    BY <1>5 DEF VmmUnmap
  <2> QED
    BY <1>0, <2>2, <2>3, <2>4, <2>5, UnlockedBuffers DEF BufferInv, SameBackup
<1>6. ASSUME NEW l \in Logical, VmmRelease(l)
      PROVE  BufferInv'
  <2>1. /\ l \in Tracked /\ meta' = [meta EXCEPT ![l] = Null]
        /\ KeepShared(hostData) /\ made' = made /\ mutex = Null
    BY <1>6 DEF VmmRelease, local
  <2>2. Tracked' = Tracked \ {l} /\ \A k \in Tracked' : meta'[k] = meta[k]
    BY <1>0, <2>1 DEF Tracked, TypeOK
  <2>3. \A b \in Bufs : hostData'[b] # Blank => InUse(b)'
    BY <2>1 DEF KeepShared
  <2>4. \A t \in Threads : made'[t] # Null => made'[t].cpu_backup = Null /\ made'[t].backup # "both"
    BY <1>0, <2>1 DEF BufferInv
  <2> QED
    BY <1>0, <2>1, <2>2, <2>3, <2>4, UnlockedBuffers DEF BufferInv
<1>7. ASSUME NEW p \in Pages, UntrackedMap(p)
      PROVE  BufferInv'
  <2>1. /\ meta' = meta /\ hostData' = hostData
        /\ \A t \in Threads : made'[t] # Null => made'[t].cpu_backup = Null /\ made'[t].backup # "both"
    BY <1>7, <1>0 DEF UntrackedMap, BufferInv, device, backups, maps, lock, local, client
  <2>2. \A u \in Threads, k \in Tracked : BackedUpBy(u, k) => BackedUpBy(u, k)'
    BY <1>7, <1>0, <2>1 DEF UntrackedMap, BackedUpBy, InLoop, device, backups, maps, lock, local, client
  <2> QED
    BY <1>0, <2>1, <2>2, SameBuffers
<1>8. ASSUME NEW p \in Pages, UntrackedUnmap(p)
      PROVE  BufferInv'
  <2>1. /\ meta' = meta /\ hostData' = hostData
        /\ \A t \in Threads : made'[t] # Null => made'[t].cpu_backup = Null /\ made'[t].backup # "both"
    BY <1>8, <1>0 DEF UntrackedUnmap, BufferInv, device, backups, maps, lock, local, client
  <2>2. \A u \in Threads, k \in Tracked : BackedUpBy(u, k) => BackedUpBy(u, k)'
    BY <1>8, <1>0, <2>1 DEF UntrackedUnmap, BackedUpBy, InLoop, device, backups, maps, lock, local, client
  <2> QED
    BY <1>0, <2>1, <2>2, SameBuffers
<1>9. ASSUME NEW t \in Threads, NEW tagFilter \in Tags \cup {Null}, Pause(t, tagFilter)
      PROVE  BufferInv'
  <2>1. /\ meta' = meta /\ hostData' = hostData /\ made' = made /\ mutex = Null
    BY <1>9 DEF Pause, maps, backups
  <2>2. Tracked' = Tracked /\ \A b \in Bufs : InUse(b)' <=> InUse(b)
    BY <2>1 DEF Tracked, InUse
  <2> QED
    BY <1>0, <2>1, <2>2, UnlockedBuffers DEF BufferInv
<1>10. ASSUME NEW t \in Threads, BackUpRun(t)
      PROVE  BufferInv'
  <2>1. PICK first \in toBackUp, b \in Bufs :
           /\ meta[index[first]].state = "ACTIVE"
           /\ toBackUp' = toBackUp \ Run(first)
           /\ \A l \in Tracked : meta[l].ptr \in Run(first) => meta'[l].cpu_backup = b
           /\ \A l \in Tracked : meta[l].ptr \notin Run(first) => meta'[l] = meta[l]
           /\ \A c \in Bufs : hostData'[c] # Blank => InUse(c)'
    BY <1>10, <1>0, BackUpRunCopies
  <2>2. /\ Tracked' = Tracked
        /\ \A l \in Tracked : SameHandle(meta[l], meta'[l])
    BY <1>10, <1>0, BackUpRunEffect
  <2>3. UNCHANGED <<pc, filter, todo, made>> /\ pc[t] = "p_backup"
    BY <1>10 DEF BackUpRun, local
  <2>4. ASSUME NEW l \in Tracked, meta'[l].cpu_backup # Null
        PROVE  /\ meta'[l].backup = "cpu"
               /\ meta'[l].state = "ACTIVE" => \E u \in Threads : BackedUpBy(u, l)'
    <3>1. CASE meta[l].ptr \in Run(first)
      <4>1. /\ meta[l].ptr \in Pages /\ index[meta[l].ptr] = l
        BY <1>0, <2>1, <2>3, <3>1, RunEntries, PageOfEntry, ExpandableAssumption
      <4>2. meta[l].backup = "cpu" /\ Matches(meta[l], filter[t])
        BY <1>0, <2>1, <2>3, <3>1, <4>1, RunEntries
      <4>3. BackedUpBy(t, l)'
        BY <2>1, <2>2, <2>3, <3>1, <4>1, <4>2 DEF BackedUpBy, Matches, SameHandle
      <4> QED
        BY <2>2, <4>2, <4>3 DEF SameHandle
    <3>2. CASE meta[l].ptr \notin Run(first)
      <4>1. meta'[l] = meta[l]
        BY <2>1, <3>2
      <4>2. meta[l].backup = "cpu" /\ (meta[l].state = "ACTIVE" => \E u \in Threads : BackedUpBy(u, l))
        BY <1>0, <2>4, <4>1 DEF BufferInv
      <4>3. \A u \in Threads : BackedUpBy(u, l) => BackedUpBy(u, l)'
        BY <2>1, <2>3, <4>1 DEF BackedUpBy
      <4> QED
        BY <4>1, <4>2, <4>3
    <3> QED
      BY <3>1, <3>2
  <2>5. ASSUME NEW l \in Tracked
        PROVE  /\ meta'[l].backup # "both"
               /\ meta'[l].backup = "cpu" /\ meta'[l].state = "PAUSED" => meta'[l].cpu_backup # Null
    BY <1>0, <2>1, <2>2, ExpandableAssumption DEF SameHandle, BufferInv
  <2> QED
    BY <1>0, <2>1, <2>2, <2>3, <2>4, <2>5 DEF BufferInv
<1>11. ASSUME NEW t \in Threads, BackUpDone(t)
      PROVE  BufferInv'
  <2>1. /\ meta' = meta /\ hostData' = hostData
        /\ \A u \in Threads : made'[u] # Null => made'[u].cpu_backup = Null /\ made'[u].backup # "both"
    BY <1>11, <1>0 DEF BackUpDone, BufferInv, device, backups, maps, lock, local, client
  <2>2. /\ pc[t] = "p_backup" /\ todo' = {l \in Tracked : Matches(meta[l], filter[t])}
        /\ pc' = [pc EXCEPT ![t] = "p_release"] /\ filter' = filter
        /\ pc \in [Threads -> {"idle", "c_register", "p_backup", "p_release", "r_loop", "q_read"}]
    BY <1>11, <1>0 DEF BackUpDone, TypeOK
  <2>3. \A u \in Threads, k \in Tracked : BackedUpBy(u, k) => u = t
    BY <1>0, <2>2, LoopHolder DEF BackedUpBy, InLoop
  <2>4. \A k \in Tracked : BackedUpBy(t, k) => BackedUpBy(t, k)'
    BY <2>1, <2>2 DEF BackedUpBy
  <2> QED
    BY <1>0, <2>1, <2>3, <2>4, SameBuffers
<1>12. ASSUME NEW t \in Threads, NEW l \in todo, PauseEntry(t, l)
      PROVE  BufferInv'
  <2>0. l \in Tracked
    BY <1>0, EntryInLoop
  <2>1. PICK n \in VMMAllocationMetadata, f \in SlotFiles(meta[l]) : PausedAs(l, n, f)
    BY <1>12, <1>0, <2>0, PauseEntryEffect
  <2>2. /\ Tracked' = Tracked /\ meta'[l] = n /\ \A k \in Tracked : k # l => meta'[k] = meta[k]
        /\ n.backup = meta[l].backup /\ n.state = "PAUSED" /\ n.cpu_backup = meta[l].cpu_backup
    BY <1>0, <2>1, ReplacedFields DEF PausedAs, SameBackup
  <2>3. /\ UNCHANGED <<hostData, pc, filter, made, toBackUp>> /\ todo' = todo \ {l}
        /\ meta[l].backup = "cpu" => meta[l].cpu_backup # Null
    BY <1>12 DEF PauseEntry, local
  <2>4. \A u \in Threads, k \in Tracked : k # l /\ BackedUpBy(u, k) => BackedUpBy(u, k)'
    BY <2>2, <2>3 DEF BackedUpBy
  <2>5. \A b \in Bufs : InUse(b) => InUse(b)'
    BY <2>2 DEF InUse
  <2>6. \A k \in Tracked : k # l /\ meta'[k].cpu_backup # Null /\ meta'[k].state = "ACTIVE"
                             => \E u \in Threads : BackedUpBy(u, k)'
    BY <1>0, <2>2, <2>4 DEF BufferInv
  <2> QED
    BY <1>0, <2>0, <2>2, <2>3, <2>5, <2>6 DEF BufferInv
<1>13. ASSUME NEW t \in Threads, LoopReturn(t)
      PROVE  BufferInv'
  <2>1. /\ meta' = meta /\ hostData' = hostData
        /\ \A u \in Threads : made'[u] # Null => made'[u].cpu_backup = Null /\ made'[u].backup # "both"
    BY <1>13, <1>0 DEF LoopReturn, BufferInv, device, backups, maps, lock, local, client
  <2>2. /\ pc[t] \in {"p_release", "r_loop"} /\ todo = {}
    BY <1>13 DEF LoopReturn
  <2>3. \A u \in Threads, k \in Tracked : ~BackedUpBy(u, k)
    BY <1>0, <2>2, LoopHolder DEF BackedUpBy, InLoop
  <2> QED
    BY <1>0, <2>1, <2>3, SameBuffers
<1>14. ASSUME NEW t \in Threads, NEW tagFilter \in Tags \cup {Null}, Resume(t, tagFilter)
      PROVE  BufferInv'
  <2>1. /\ meta' = meta /\ hostData' = hostData /\ made' = made /\ mutex = Null
    BY <1>14 DEF Resume, maps, backups
  <2>2. Tracked' = Tracked /\ \A b \in Bufs : InUse(b)' <=> InUse(b)
    BY <2>1 DEF Tracked, InUse
  <2> QED
    BY <1>0, <2>1, <2>2, UnlockedBuffers DEF BufferInv
<1>15. ASSUME NEW t \in Threads, NEW l \in todo, ResumeEntry(t, l)
      PROVE  BufferInv'
  <2>0. l \in Tracked /\ pc[t] = "r_loop" /\ KeepShared(hostData) /\ made' = made
    BY <1>15, <1>0, EntryInLoop DEF ResumeEntry, local
  <2>1. PICK h \in Unused, n \in VMMAllocationMetadata : ResumedAs(l, n, h)
    BY <1>15, <1>0, <2>0, ResumeEntryEffect
  <2>2. /\ Tracked' = Tracked /\ meta'[l] = n /\ \A k \in Tracked : k # l => meta'[k] = meta[k]
        /\ n.backup = meta[l].backup /\ n.state = "ACTIVE" /\ n.cpu_backup = Null
    BY <1>0, <2>1, ReplacedFields DEF ResumedAs
  <2>3. \A b \in Bufs : hostData'[b] # Blank => InUse(b)'
    BY <2>0 DEF KeepShared
  <2>4. \A k \in Tracked : meta[k].cpu_backup # Null => meta[k].state = "PAUSED"
    BY <1>0, <2>0, ResumingPaused
  <2> QED
    BY <1>0, <2>0, <2>2, <2>3, <2>4 DEF BufferInv
<1>16. ASSUME NEW t \in Threads, NEW first \in Pages, NEW size \in 1 .. NumPages, QueryFound(t, first, size)
      PROVE  BufferInv'
  <2>1. /\ meta' = meta /\ hostData' = hostData
        /\ \A u \in Threads : made'[u] # Null => made'[u].cpu_backup = Null /\ made'[u].backup # "both"
    BY <1>16, <1>0 DEF QueryFound, BufferInv, device, backups, maps, lock, local, client
  <2>2. \A u \in Threads, k \in Tracked : BackedUpBy(u, k) => BackedUpBy(u, k)'
    BY <1>16, <1>0, <2>1 DEF QueryFound, BackedUpBy, InLoop, device, backups, maps, lock, local, client
  <2> QED
    BY <1>0, <2>1, <2>2, SameBuffers
<1>17. ASSUME NEW t \in Threads, QueryDone(t)
      PROVE  BufferInv'
  <2>1. /\ meta' = meta /\ hostData' = hostData
        /\ \A u \in Threads : made'[u] # Null => made'[u].cpu_backup = Null /\ made'[u].backup # "both"
    BY <1>17, <1>0 DEF QueryDone, BufferInv, device, backups, maps, lock, local, client
  <2>2. \A u \in Threads, k \in Tracked : BackedUpBy(u, k) => BackedUpBy(u, k)'
    BY <1>17, <1>0, <2>1 DEF QueryDone, BackedUpBy, InLoop, device, backups, maps, lock, local, client
  <2> QED
    BY <1>0, <2>1, <2>2, SameBuffers
<1>18. ASSUME NEW p \in Pages, NEW v \in Values, Write(p, v)
      PROVE  BufferInv'
  <2>1. /\ meta' = meta /\ hostData' = hostData
        /\ \A t \in Threads : made'[t] # Null => made'[t].cpu_backup = Null /\ made'[t].backup # "both"
    BY <1>18, <1>0 DEF Write, BufferInv, device, backups, maps, lock, local, client
  <2>2. \A u \in Threads, k \in Tracked : BackedUpBy(u, k) => BackedUpBy(u, k)'
    BY <1>18, <1>0, <2>1 DEF Write, BackedUpBy, InLoop, device, backups, maps, lock, local, client
  <2> QED
    BY <1>0, <2>1, <2>2, SameBuffers
<1>19. ASSUME Leaves PROVE BufferInv'
  <2>1. /\ meta' = meta /\ hostData' = hostData
        /\ \A t \in Threads : made'[t] # Null => made'[t].cpu_backup = Null /\ made'[t].backup # "both"
    BY <1>19, <1>0 DEF Leaves, Exit, BufferInv, device, backups, maps, lock, local, client
  <2>2. \A u \in Threads, k \in Tracked : BackedUpBy(u, k) => BackedUpBy(u, k)'
    BY <1>19, <1>0, <2>1 DEF Leaves, Exit, BackedUpBy, InLoop, device, backups, maps, lock, local, client
  <2> QED
    BY <1>0, <2>1, <2>2, SameBuffers
<1>20. CASE UNCHANGED vars
  <2>1. /\ meta' = meta /\ hostData' = hostData
        /\ \A t \in Threads : made'[t] # Null => made'[t].cpu_backup = Null /\ made'[t].backup # "both"
    BY <1>20, <1>0 DEF vars, BufferInv, device, backups, maps, lock, local, client
  <2>2. \A u \in Threads, k \in Tracked : BackedUpBy(u, k) => BackedUpBy(u, k)'
    BY <1>20, <1>0, <2>1 DEF vars, BackedUpBy, InLoop, device, backups, maps, lock, local, client
  <2> QED
    BY <1>0, <2>1, <2>2, SameBuffers
<1>21. QED
  BY <1>1, <1>2, <1>3, <1>4, <1>5, <1>6, <1>7, <1>8, <1>9, <1>10, <1>11,
     <1>12, <1>13, <1>14, <1>15, <1>16, <1>17, <1>18, <1>19, <1>20, StepCases

------------------------------------------------------------------------------
(* The first loop of pause *)

\* A step that leaves what the first loop looks at alone.
LEMMA SameFirstLoop ==
  ASSUME FirstLoopInv, meta' = meta, index' = index, toBackUp' = toBackUp,
         \A t \in Threads : pc'[t] = "p_backup" => pc[t] = "p_backup" /\ filter'[t] = filter[t]
  PROVE  FirstLoopInv'
  BY DEF FirstLoopInv, Matches

\* No first loop runs.
LEMMA NoFirstLoop ==
  ASSUME \A t \in Threads : pc'[t] # "p_backup"
  PROVE  FirstLoopInv'
  BY DEF FirstLoopInv

\* What the first loop of pause has done.
LEMMA FirstLoopStep ==
  ASSUME IInv, [Next]_vars
  PROVE  FirstLoopInv'
<1>0. /\ CoreInv /\ TypeOK /\ MapsAgree /\ LoopInv /\ LocalInv
      /\ BufferInv /\ FirstLoopInv /\ RunsInv /\ CopyInv /\ ContentKept /\ ViewInv
      /\ Tracked \subseteq Logical
      /\ pc \in [Threads -> {"idle", "c_register", "p_backup", "p_release", "r_loop", "q_read"}]
  BY DEF CoreInv, IInv, BackupInv, Tracked, TypeOK
<1>1. ASSUME NEW t \in Threads, NEW tag \in Tags, NEW backup \in BackupModes, VmmCreate(t, tag, backup)
      PROVE  FirstLoopInv'
  <2>1. /\ meta' = meta /\ index' = index /\ toBackUp' = toBackUp
        /\ \A u \in Threads : pc'[u] = "p_backup" => pc[u] = "p_backup" /\ filter'[u] = filter[u]
    BY <1>1, <1>0 DEF VmmCreate, maps, lock, local
  <2> QED
    BY <1>0, <2>1, SameFirstLoop
<1>2. ASSUME NEW t \in Threads, VmmRegister(t)
      PROVE  FirstLoopInv'
  <2>1. \A u \in Threads : pc'[u] # "p_backup"
    BY <1>2, <1>0, LoopHolder DEF VmmRegister, InLoop, local
  <2> QED
    BY <2>1, NoFirstLoop
<1>3. ASSUME NEW l \in Logical, NEW p \in Pages, VmmMap(l, p)
      PROVE  FirstLoopInv'
  <2>1. \A u \in Threads : pc'[u] # "p_backup"
    BY <1>3, <1>0, LoopHolder DEF VmmMap, InLoop, local
  <2> QED
    BY <2>1, NoFirstLoop
<1>4. ASSUME NEW first \in Pages, NEW last \in Pages, NEW dev \in Devices, VmmSetAccess(first, last, dev)
      PROVE  FirstLoopInv'
  <2>1. \A u \in Threads : pc'[u] # "p_backup"
    BY <1>4, <1>0, LoopHolder DEF VmmSetAccess, InLoop, local
  <2> QED
    BY <2>1, NoFirstLoop
<1>5. ASSUME NEW p \in Pages, VmmUnmap(p)
      PROVE  FirstLoopInv'
  <2>1. \A u \in Threads : pc'[u] # "p_backup"
    BY <1>5, <1>0, LoopHolder DEF VmmUnmap, InLoop, local
  <2> QED
    BY <2>1, NoFirstLoop
<1>6. ASSUME NEW l \in Logical, VmmRelease(l)
      PROVE  FirstLoopInv'
  <2>1. \A u \in Threads : pc'[u] # "p_backup"
    BY <1>6, <1>0, LoopHolder DEF VmmRelease, InLoop, local
  <2> QED
    BY <2>1, NoFirstLoop
<1>7. ASSUME NEW p \in Pages, UntrackedMap(p)
      PROVE  FirstLoopInv'
  <2>1. \A u \in Threads : pc'[u] # "p_backup"
    BY <1>7, <1>0, LoopHolder DEF UntrackedMap, InLoop, local
  <2> QED
    BY <2>1, NoFirstLoop
<1>8. ASSUME NEW p \in Pages, UntrackedUnmap(p)
      PROVE  FirstLoopInv'
  <2>1. \A u \in Threads : pc'[u] # "p_backup"
    BY <1>8, <1>0, LoopHolder DEF UntrackedUnmap, InLoop, local
  <2> QED
    BY <2>1, NoFirstLoop
<1>9. ASSUME NEW t \in Threads, NEW tagFilter \in Tags \cup {Null}, Pause(t, tagFilter)
      PROVE  FirstLoopInv'
  <2>1. /\ toBackUp' = {p \in Pages : /\ index[p] # Null
                                      /\ Matches(meta[index[p]], tagFilter)
                                      /\ meta[index[p]].backup = "cpu"}
        /\ meta' = meta /\ index' = index /\ filter' = [filter EXCEPT ![t] = tagFilter]
        /\ pc' = [pc EXCEPT ![t] = "p_backup"] /\ mutex = Null
    BY <1>9 DEF Pause, maps
  <2>2. filter'[t] = tagFilter
    BY <1>0, <2>1 DEF TypeOK
  <2>3. \A u \in Threads : pc'[u] = "p_backup" => u = t
    BY <1>0, <2>1, LoopHolder DEF InLoop
  <2> QED
    BY <2>1, <2>2, <2>3 DEF FirstLoopInv, Matches
<1>10. ASSUME NEW t \in Threads, BackUpRun(t)
      PROVE  FirstLoopInv'
  <2>1. PICK first \in toBackUp, b \in Bufs :
           /\ \A p \in toBackUp : first <= p
           /\ meta[index[first]].state = "ACTIVE"
           /\ toBackUp' = toBackUp \ Run(first)
           /\ \A l \in Tracked : meta[l].ptr \in Run(first) => meta'[l].cpu_backup = b
           /\ \A l \in Tracked : meta[l].ptr \notin Run(first) => meta'[l] = meta[l]
    BY <1>10, <1>0, BackUpRunCopies
  <2>2. \A l \in Tracked : SameHandle(meta[l], meta'[l])
    BY <1>10, <1>0, BackUpRunEffect
  <2>3. UNCHANGED <<pc, filter, index>> /\ pc[t] = "p_backup"
    BY <1>10 DEF BackUpRun, local
  <2>4. \A p \in Pages : index[p] # Null => index[p] \in Tracked /\ meta[index[p]].ptr = p
    BY <1>0, EntryAtPage
  <2>5. \A p \in Pages \ Run(first) : index[p] # Null => meta'[index[p]] = meta[index[p]]
    BY <2>1, <2>4
  <2>6. toBackUp \subseteq Pages /\ \A p \in toBackUp : index[p] # Null
    BY <1>0 DEF TypeOK, LoopInv
  <2>7. ASSUME NEW p \in toBackUp'
        PROVE  Matches(meta'[index[p]], filter[t]) /\ meta'[index[p]].backup = "cpu"
    BY <1>0, <2>1, <2>3, <2>5, <2>6 DEF FirstLoopInv
  <2>8. ASSUME NEW p \in Pages \ toBackUp', index[p] # Null, meta'[index[p]].backup = "cpu",
               Matches(meta'[index[p]], filter[t])
        PROVE  /\ meta'[index[p]].state = "ACTIVE" /\ meta'[index[p]].cpu_backup # Null
               /\ p + 1 \in toBackUp' => \/ meta'[index[p + 1]].tag # meta'[index[p]].tag
                                         \/ meta'[index[p + 1]].state # "ACTIVE"
    <3>1. CASE p \in Run(first)
      <4>1. /\ meta'[index[p]].state = "ACTIVE" /\ meta'[index[p]].cpu_backup = b
            /\ meta'[index[p]].tag = meta[index[first]].tag
        BY <1>0, <2>1, <2>2, <2>3, <2>4, <3>1, RunEntries DEF SameHandle
      <4>2. ASSUME p + 1 \in toBackUp', meta[index[p + 1]].tag = meta[index[first]].tag,
                   meta[index[p + 1]].state = "ACTIVE"
            PROVE  FALSE
        <5>1. p + 1 \in toBackUp /\ p + 1 \notin Run(first) /\ p + 1 \in Pages /\ index[p + 1] # Null
          BY <2>1, <2>6, <4>2
        <5>2. meta[index[p + 1]].backup = "cpu"
          BY <1>0, <2>3, <5>1 DEF FirstLoopInv
        <5>3. \A x \in first + 1 .. p + 1 : x = p + 1 \/ x \in Run(first)
          <6>1. first \in Nat /\ p \in Nat /\ NumPages \in Nat /\ p <= NumPages - 1
            BY <2>6, ExpandableAssumption DEF Pages
          <6>2. ASSUME NEW x \in first + 1 .. p + 1, x # p + 1
                PROVE  x \in Pages /\ first <= x /\ x <= p
            <7>1. x \in Nat /\ first + 1 <= x /\ x <= p + 1
              BY <6>1
            <7> QED
              BY <6>1, <6>2, <7>1 DEF Pages
          <6> QED
            BY <1>0, <2>1, <2>3, <3>1, <6>2, RunEntries
        <5>4. first <= p + 1
          BY <2>1, <5>1
        <5>5. \A x \in first + 1 .. p + 1 : /\ index[x] # Null
                                            /\ meta[index[x]].state = "ACTIVE"
                                            /\ meta[index[x]].backup = "cpu"
                                            /\ meta[index[x]].tag = meta[index[first]].tag
          BY <1>0, <2>1, <2>3, <4>2, <5>1, <5>2, <5>3, RunEntries
        <5> QED
          BY <1>0, <2>1, <2>3, <5>1, <5>4, <5>5, RunEntries
      <4>3. p + 1 \in toBackUp' => meta'[index[p + 1]] = meta[index[p + 1]]
        BY <2>1, <2>5, <2>6
      <4> QED
        BY <4>1, <4>2, <4>3, ExpandableAssumption
    <3>2. CASE p \notin Run(first)
      <4>1. p \in Pages \ toBackUp /\ meta'[index[p]] = meta[index[p]]
        BY <2>1, <2>5, <2>8, <3>2
      <4>2. p + 1 \in toBackUp' => p + 1 \in toBackUp /\ meta'[index[p + 1]] = meta[index[p + 1]]
        BY <2>1, <2>5, <2>6
      <4> QED
        BY <1>0, <2>3, <2>8, <4>1, <4>2 DEF FirstLoopInv
    <3> QED
      BY <3>1, <3>2
  <2>9. \A u \in Threads : pc[u] = "p_backup" => u = t
    BY <1>0, <2>3, LoopHolder DEF InLoop
  <2> QED
    BY <2>3, <2>7, <2>8, <2>9 DEF FirstLoopInv, Matches
<1>11. ASSUME NEW t \in Threads, BackUpDone(t)
      PROVE  FirstLoopInv'
  <2>1. \A u \in Threads : pc'[u] # "p_backup"
    BY <1>11, <1>0, LoopHolder DEF BackUpDone, InLoop, local
  <2> QED
    BY <2>1, NoFirstLoop
<1>12. ASSUME NEW t \in Threads, NEW l \in todo, PauseEntry(t, l)
      PROVE  FirstLoopInv'
  <2>1. \A u \in Threads : pc'[u] # "p_backup"
    BY <1>12, <1>0, LoopHolder DEF PauseEntry, InLoop, local
  <2> QED
    BY <2>1, NoFirstLoop
<1>13. ASSUME NEW t \in Threads, LoopReturn(t)
      PROVE  FirstLoopInv'
  <2>1. \A u \in Threads : pc'[u] # "p_backup"
    BY <1>13, <1>0, LoopHolder DEF LoopReturn, InLoop, local
  <2> QED
    BY <2>1, NoFirstLoop
<1>14. ASSUME NEW t \in Threads, NEW tagFilter \in Tags \cup {Null}, Resume(t, tagFilter)
      PROVE  FirstLoopInv'
  <2>1. \A u \in Threads : pc'[u] # "p_backup"
    BY <1>14, <1>0, LoopHolder DEF Resume, InLoop, local
  <2> QED
    BY <2>1, NoFirstLoop
<1>15. ASSUME NEW t \in Threads, NEW l \in todo, ResumeEntry(t, l)
      PROVE  FirstLoopInv'
  <2>1. \A u \in Threads : pc'[u] # "p_backup"
    BY <1>15, <1>0, LoopHolder DEF ResumeEntry, InLoop, local
  <2> QED
    BY <2>1, NoFirstLoop
<1>16. ASSUME NEW t \in Threads, NEW first \in Pages, NEW size \in 1 .. NumPages, QueryFound(t, first, size)
      PROVE  FirstLoopInv'
  <2>1. \A u \in Threads : pc'[u] # "p_backup"
    BY <1>16, <1>0, LoopHolder DEF QueryFound, InLoop, local
  <2> QED
    BY <2>1, NoFirstLoop
<1>17. ASSUME NEW t \in Threads, QueryDone(t)
      PROVE  FirstLoopInv'
  <2>1. /\ meta' = meta /\ index' = index /\ toBackUp' = toBackUp
        /\ \A u \in Threads : pc'[u] = "p_backup" => pc[u] = "p_backup" /\ filter'[u] = filter[u]
    BY <1>17, <1>0 DEF QueryDone, maps, lock, local
  <2> QED
    BY <1>0, <2>1, SameFirstLoop
<1>18. ASSUME NEW p \in Pages, NEW v \in Values, Write(p, v)
      PROVE  FirstLoopInv'
  <2>1. /\ meta' = meta /\ index' = index /\ toBackUp' = toBackUp
        /\ \A u \in Threads : pc'[u] = "p_backup" => pc[u] = "p_backup" /\ filter'[u] = filter[u]
    BY <1>18, <1>0 DEF Write, maps, lock, local
  <2> QED
    BY <1>0, <2>1, SameFirstLoop
<1>19. ASSUME Leaves PROVE FirstLoopInv'
  <2>1. /\ meta' = meta /\ index' = index /\ toBackUp' = toBackUp
        /\ \A u \in Threads : pc'[u] = "p_backup" => pc[u] = "p_backup" /\ filter'[u] = filter[u]
    BY <1>19, <1>0 DEF Leaves, Exit, maps, lock, local
  <2> QED
    BY <1>0, <2>1, SameFirstLoop
<1>20. CASE UNCHANGED vars
  <2>1. /\ meta' = meta /\ index' = index /\ toBackUp' = toBackUp
        /\ \A u \in Threads : pc'[u] = "p_backup" => pc[u] = "p_backup" /\ filter'[u] = filter[u]
    BY <1>20, <1>0 DEF vars, maps, lock, local
  <2> QED
    BY <1>0, <2>1, SameFirstLoop
<1>21. QED
  BY <1>1, <1>2, <1>3, <1>4, <1>5, <1>6, <1>7, <1>8, <1>9, <1>10, <1>11,
     <1>12, <1>13, <1>14, <1>15, <1>16, <1>17, <1>18, <1>19, <1>20, StepCases

------------------------------------------------------------------------------
(* The slots on disk *)

\* A handle that is paused with a disk backup has a file.
LEMMA SlotStep ==
  ASSUME IInv, [Next]_vars
  PROVE  SlotInv'
<1>0. /\ CoreInv /\ TypeOK /\ MapsAgree /\ LoopInv /\ LocalInv
      /\ BufferInv /\ FirstLoopInv /\ RunsInv /\ CopyInv /\ ContentKept /\ ViewInv /\ SlotInv
      /\ Tracked \subseteq Logical
      /\ pc \in [Threads -> {"idle", "c_register", "p_backup", "p_release", "r_loop", "q_read"}]
  BY DEF CoreInv, IInv, BackupInv, Tracked, TypeOK
<1>1. ASSUME NEW t \in Threads, NEW tag \in Tags, NEW backup \in BackupModes, VmmCreate(t, tag, backup)
      PROVE  SlotInv'
  <2>1. meta' = meta
    BY <1>1 DEF VmmCreate, maps
  <2>2. Tracked' = Tracked
    BY <2>1 DEF Tracked
  <2> QED
    BY <1>0, <2>1, <2>2 DEF SlotInv
<1>2. ASSUME NEW t \in Threads, VmmRegister(t)
      PROVE  SlotInv'
  <2>1. PICK l \in Logical \ Tracked : meta' = [meta EXCEPT ![l] = made[t]]
    BY <1>2 DEF VmmRegister
  <2>2. made[t] # Null /\ made[t].state = "ACTIVE"
    BY <1>2, <1>0 DEF VmmRegister, LocalInv
  <2>3. /\ Tracked' = Tracked \cup {l} /\ meta'[l] = made[t]
        /\ \A k \in Tracked : meta'[k] = meta[k]
    BY <1>0, <2>1, <2>2 DEF Tracked, TypeOK
  <2> QED
    BY <1>0, <2>2, <2>3 DEF SlotInv
<1>3. ASSUME NEW l \in Logical, NEW p \in Pages, VmmMap(l, p)
      PROVE  SlotInv'
  <2>1. PICK n \in VMMAllocationMetadata : MappedAs(l, p, n)
    BY <1>3, <1>0, VmmMapEffect
  <2>2. /\ Tracked' = Tracked /\ l \in Tracked /\ meta'[l] = n
        /\ \A k \in Tracked : k # l => meta'[k] = meta[k]
        /\ n.tag = meta[l].tag /\ n.backup = meta[l].backup /\ n.state = meta[l].state
        /\ n.cpu_backup = meta[l].cpu_backup /\ n.disk = meta[l].disk
    BY <1>0, <2>1, ReplacedFields DEF MappedAs, SameBackup
  <2> QED
    BY <1>0, <2>2 DEF SlotInv
<1>4. ASSUME NEW first \in Pages, NEW last \in Pages, NEW dev \in Devices, VmmSetAccess(first, last, dev)
      PROVE  SlotInv'
  <2>2. /\ Tracked' = Tracked
        /\ \A l \in Tracked : SameHandle(meta[l], meta'[l]) /\ SameBackup(meta[l], meta'[l])
    BY <1>4, <1>0, VmmSetAccessEffect
  <2> QED
    BY <1>0, <2>2 DEF SlotInv, SameHandle
<1>5. ASSUME NEW p \in Pages, VmmUnmap(p)
      PROVE  SlotInv'
  <2>1. PICK n \in VMMAllocationMetadata : UnmappedAs(index[p], n)
    BY <1>5, <1>0, VmmUnmapEffect
  <2>2. /\ Tracked' = Tracked /\ index[p] \in Tracked /\ meta'[index[p]] = n
        /\ \A k \in Tracked : k # index[p] => meta'[k] = meta[k]
        /\ n.backup = meta[index[p]].backup /\ n.state = meta[index[p]].state
        /\ n.disk = meta[index[p]].disk
    BY <1>0, <2>1, ReplacedFields DEF UnmappedAs, SameBackup
  <2> QED
    BY <1>0, <2>2 DEF SlotInv
<1>6. ASSUME NEW l \in Logical, VmmRelease(l)
      PROVE  SlotInv'
  <2>1. /\ l \in Tracked /\ meta[l].ptr = Null /\ meta' = [meta EXCEPT ![l] = Null]
    BY <1>6 DEF VmmRelease
  <2>2. Tracked' = Tracked \ {l} /\ \A k \in Tracked' : meta'[k] = meta[k]
    BY <1>0, <2>1 DEF Tracked, TypeOK
  <2> QED
    BY <1>0, <2>2 DEF SlotInv
<1>7. ASSUME NEW p \in Pages, UntrackedMap(p)
      PROVE  SlotInv'
  <2>1. meta' = meta
    BY <1>7 DEF UntrackedMap, maps
  <2>2. Tracked' = Tracked
    BY <2>1 DEF Tracked
  <2> QED
    BY <1>0, <2>1, <2>2 DEF SlotInv
<1>8. ASSUME NEW p \in Pages, UntrackedUnmap(p)
      PROVE  SlotInv'
  <2>1. meta' = meta
    BY <1>8 DEF UntrackedUnmap, maps
  <2>2. Tracked' = Tracked
    BY <2>1 DEF Tracked
  <2> QED
    BY <1>0, <2>1, <2>2 DEF SlotInv
<1>9. ASSUME NEW t \in Threads, NEW tagFilter \in Tags \cup {Null}, Pause(t, tagFilter)
      PROVE  SlotInv'
  <2>1. meta' = meta
    BY <1>9 DEF Pause, maps
  <2>2. Tracked' = Tracked
    BY <2>1 DEF Tracked
  <2> QED
    BY <1>0, <2>1, <2>2 DEF SlotInv
<1>10. ASSUME NEW t \in Threads, BackUpRun(t)
      PROVE  SlotInv'
  <2>2. /\ Tracked' = Tracked
        /\ \A l \in Tracked : SameHandle(meta[l], meta'[l])
    BY <1>10, <1>0, BackUpRunEffect
  <2> QED
    BY <1>0, <2>2 DEF SlotInv, SameHandle
<1>11. ASSUME NEW t \in Threads, BackUpDone(t)
      PROVE  SlotInv'
  <2>1. meta' = meta
    BY <1>11 DEF BackUpDone, maps
  <2>2. Tracked' = Tracked
    BY <2>1 DEF Tracked
  <2> QED
    BY <1>0, <2>1, <2>2 DEF SlotInv
<1>12. ASSUME NEW t \in Threads, NEW l \in todo, PauseEntry(t, l)
      PROVE  SlotInv'
  <2>0. l \in Tracked
    BY <1>0, EntryInLoop
  <2>1. PICK f \in SlotFiles(meta[l]), n \in VMMAllocationMetadata :
           /\ PausedAs(l, n, f)
           /\ f \in Files \cup {Null}
           /\ fileData' = [g \in Files |-> IF meta[l].backup = "disk" /\ g = f
                                           THEN content[mapping[meta[l].ptr]] ELSE fileData[g]]
    BY <1>12, <1>0, <2>0, PauseEntryEffect
  <2>2. /\ Tracked' = Tracked /\ meta'[l] = n /\ \A k \in Tracked : k # l => meta'[k] = meta[k]
        /\ n.backup = meta[l].backup /\ n.tag = meta[l].tag /\ n.state = "PAUSED" /\ n.disk = f
        /\ n.cpu_backup = meta[l].cpu_backup /\ n.cpu_backup_offset = meta[l].cpu_backup_offset
    BY <1>0, <2>1, ReplacedFields DEF PausedAs, SameBackup
  <2>3. meta[l].backup = "disk" => f # Null
    BY ExpandableAssumption DEF SlotFiles
  <2> QED
    BY <1>0, <2>0, <2>2, <2>3 DEF SlotInv
<1>13. ASSUME NEW t \in Threads, LoopReturn(t)
      PROVE  SlotInv'
  <2>1. meta' = meta
    BY <1>13 DEF LoopReturn, maps
  <2>2. Tracked' = Tracked
    BY <2>1 DEF Tracked
  <2> QED
    BY <1>0, <2>1, <2>2 DEF SlotInv
<1>14. ASSUME NEW t \in Threads, NEW tagFilter \in Tags \cup {Null}, Resume(t, tagFilter)
      PROVE  SlotInv'
  <2>1. meta' = meta
    BY <1>14 DEF Resume, maps
  <2>2. Tracked' = Tracked
    BY <2>1 DEF Tracked
  <2> QED
    BY <1>0, <2>1, <2>2 DEF SlotInv
<1>15. ASSUME NEW t \in Threads, NEW l \in todo, ResumeEntry(t, l)
      PROVE  SlotInv'
  <2>0. l \in Tracked /\ pc[t] = "r_loop" /\ KeepShared(hostData)
    BY <1>15, <1>0, EntryInLoop DEF ResumeEntry
  <2>1. PICK h \in Unused, n \in VMMAllocationMetadata :
           /\ ResumedAs(l, n, h)
           /\ phys' = phys \cup {h}
           /\ mapping' = [mapping EXCEPT ![meta[l].ptr] = h]
           /\ content' = [content EXCEPT ![h] = BackedUp(meta[l])]
    BY <1>15, <1>0, <2>0, ResumeEntryEffect
  <2>2. /\ Tracked' = Tracked /\ meta'[l] = n /\ \A k \in Tracked : k # l => meta'[k] = meta[k]
        /\ n.backup = meta[l].backup /\ n.state = "ACTIVE" /\ n.cpu_backup = Null
        /\ n.physical_handle = h
    BY <1>0, <2>1, ReplacedFields DEF ResumedAs
  <2> QED
    BY <1>0, <2>0, <2>2 DEF SlotInv
<1>16. ASSUME NEW t \in Threads, NEW first \in Pages, NEW size \in 1 .. NumPages, QueryFound(t, first, size)
      PROVE  SlotInv'
  <2>1. meta' = meta
    BY <1>16 DEF QueryFound, maps
  <2>2. Tracked' = Tracked
    BY <2>1 DEF Tracked
  <2> QED
    BY <1>0, <2>1, <2>2 DEF SlotInv
<1>17. ASSUME NEW t \in Threads, QueryDone(t)
      PROVE  SlotInv'
  <2>1. meta' = meta
    BY <1>17 DEF QueryDone, maps
  <2>2. Tracked' = Tracked
    BY <2>1 DEF Tracked
  <2> QED
    BY <1>0, <2>1, <2>2 DEF SlotInv
<1>18. ASSUME NEW p \in Pages, NEW v \in Values, Write(p, v)
      PROVE  SlotInv'
  <2>1. meta' = meta
    BY <1>18 DEF Write, maps
  <2>2. Tracked' = Tracked
    BY <2>1 DEF Tracked
  <2> QED
    BY <1>0, <2>1, <2>2 DEF SlotInv
<1>19. ASSUME Leaves PROVE SlotInv'
  <2>1. meta' = meta
    BY <1>19 DEF Leaves, Exit, maps
  <2>2. Tracked' = Tracked
    BY <2>1 DEF Tracked
  <2> QED
    BY <1>0, <2>1, <2>2 DEF SlotInv
<1>20. CASE UNCHANGED vars
  <2>1. meta' = meta
    BY <1>20 DEF vars, maps
  <2>2. Tracked' = Tracked
    BY <2>1 DEF Tracked
  <2> QED
    BY <1>0, <2>1, <2>2 DEF SlotInv
<1>21. QED
  BY <1>1, <1>2, <1>3, <1>4, <1>5, <1>6, <1>7, <1>8, <1>9, <1>10, <1>11,
     <1>12, <1>13, <1>14, <1>15, <1>16, <1>17, <1>18, <1>19, <1>20, StepCases

------------------------------------------------------------------------------
(* The backups of adjacent pages *)

\* A step that backs nothing up and pauses nothing.
LEMMA FewerRuns ==
  ASSUME RunsInv,
         \A p \in Pages : index'[p] # Null /\ meta'[index'[p]].cpu_backup # Null =>
            /\ index[p] # Null
            /\ SameBackup(meta[index[p]], meta'[index'[p]])
            /\ meta'[index'[p]].tag = meta[index[p]].tag
            /\ meta'[index'[p]].state = meta[index[p]].state,
         \A t \in Threads : pc[t] = "p_backup" => pc'[t] = "p_backup"
  PROVE  RunsInv'
<1> SUFFICES ASSUME NEW first \in Pages, NEW last \in Pages, first <= last,
                    BackedUpTogether(first, last)'
             PROVE  /\ meta'[index'[last]].cpu_backup = meta'[index'[first]].cpu_backup
                    /\ meta'[index'[last]].cpu_backup_offset
                          = meta'[index'[first]].cpu_backup_offset + (last - first)
  BY DEF RunsInv
<1>1. /\ first \in first .. last /\ last \in first .. last
      /\ \A p \in first .. last : p \in Pages
  BY ExpandableAssumption DEF Pages
<1>2. \A p \in first .. last :
         /\ index[p] # Null /\ meta[index[p]].cpu_backup # Null
         /\ SameBackup(meta[index[p]], meta'[index'[p]])
         /\ meta'[index'[p]].tag = meta[index[p]].tag
         /\ meta'[index'[p]].state = meta[index[p]].state
  BY <1>1 DEF BackedUpTogether, SameBackup
<1>3. BackedUpTogether(first, last)
  BY <1>1, <1>2 DEF BackedUpTogether
<1> QED
  BY <1>1, <1>2, <1>3 DEF RunsInv, SameBackup

\* The backups of adjacent pages follow each other.
LEMMA RunsStep ==
  ASSUME IInv, [Next]_vars
  PROVE  RunsInv'
<1>0. /\ CoreInv /\ TypeOK /\ MapsAgree /\ LoopInv /\ LocalInv
      /\ BufferInv /\ FirstLoopInv /\ RunsInv /\ CopyInv /\ ContentKept /\ ViewInv /\ SlotInv
      /\ Tracked \subseteq Logical
      /\ pc \in [Threads -> {"idle", "c_register", "p_backup", "p_release", "r_loop", "q_read"}]
  BY DEF CoreInv, IInv, BackupInv, Tracked, TypeOK
<1>1. ASSUME NEW t \in Threads, NEW tag \in Tags, NEW backup \in BackupModes, VmmCreate(t, tag, backup)
      PROVE  RunsInv'
  <2>1. meta' = meta /\ index' = index
    BY <1>1 DEF VmmCreate, maps
  <2>2. \A u \in Threads : pc[u] = "p_backup" => pc'[u] = "p_backup"
    BY <1>1, <1>0 DEF VmmCreate, local
  <2> QED
    BY <1>0, <2>1, <2>2, FewerRuns DEF SameBackup
<1>2. ASSUME NEW t \in Threads, VmmRegister(t)
      PROVE  RunsInv'
  <2>1. PICK l \in Logical \ Tracked : meta' = [meta EXCEPT ![l] = made[t]]
    BY <1>2 DEF VmmRegister
  <2>2. made[t] # Null /\ made[t].state = "ACTIVE"
    BY <1>2, <1>0 DEF VmmRegister, LocalInv
  <2>3. /\ Tracked' = Tracked \cup {l} /\ meta'[l] = made[t]
        /\ \A k \in Tracked : meta'[k] = meta[k]
    BY <1>0, <2>1, <2>2 DEF Tracked, TypeOK
  <2>4. \A p \in Pages : index'[p] # Null => index[p] # Null /\ meta'[index'[p]] = meta[index[p]]
    BY <1>2, <1>0, <2>3, EntryAtPage DEF VmmRegister
  <2>5. \A u \in Threads : pc[u] = "p_backup" => pc'[u] = "p_backup"
    BY <1>2, <1>0 DEF VmmRegister, local
  <2> QED
    BY <1>0, <2>4, <2>5, FewerRuns DEF SameBackup
<1>3. ASSUME NEW l \in Logical, NEW p \in Pages, VmmMap(l, p)
      PROVE  RunsInv'
  <2>1. PICK n \in VMMAllocationMetadata : MappedAs(l, p, n)
    BY <1>3, <1>0, VmmMapEffect
  <2>2. /\ Tracked' = Tracked /\ l \in Tracked /\ meta'[l] = n
        /\ \A k \in Tracked : k # l => meta'[k] = meta[k]
        /\ n.tag = meta[l].tag /\ n.backup = meta[l].backup /\ n.state = meta[l].state
        /\ n.cpu_backup = meta[l].cpu_backup /\ n.disk = meta[l].disk
    BY <1>0, <2>1, ReplacedFields DEF MappedAs, SameBackup
  <2>3. n.cpu_backup = Null
    <3>1. mutex = Null /\ meta[l].state = "ACTIVE"
      BY <1>3 DEF VmmMap
    <3> QED
      BY <1>0, <2>2, <3>1, UnlockedPaused
  <2>4. \A q \in Pages : index'[q] # Null /\ meta'[index'[q]].cpu_backup # Null =>
           index[q] # Null /\ meta'[index'[q]] = meta[index[q]]
    <3>1. index' = [index EXCEPT ![p] = l] /\ meta[l].ptr = Null
      BY <1>3 DEF VmmMap
    <3>2. \A q \in Pages : index[q] # Null => index[q] \in Tracked /\ index[q] # l
      BY <1>0, <3>1, EntryAtPage, ExpandableAssumption
    <3>3. index'[p] = l /\ \A q \in Pages : q # p => index'[q] = index[q]
      BY <1>0, <3>1 DEF TypeOK
    <3> QED
      BY <2>2, <2>3, <3>2, <3>3
  <2>5. \A u \in Threads : pc[u] = "p_backup" => pc'[u] = "p_backup"
    BY <1>3, <1>0 DEF VmmMap, local
  <2> QED
    BY <1>0, <2>4, <2>5, FewerRuns DEF SameBackup
<1>4. ASSUME NEW first \in Pages, NEW last \in Pages, NEW dev \in Devices, VmmSetAccess(first, last, dev)
      PROVE  RunsInv'
  <2>2. /\ Tracked' = Tracked
        /\ \A l \in Tracked : SameHandle(meta[l], meta'[l]) /\ SameBackup(meta[l], meta'[l])
    BY <1>4, <1>0, VmmSetAccessEffect
  <2>3. \A q \in Pages : index[q] # Null => index[q] \in Tracked
    BY <1>0, EntryAtPage
  <2>4. \A q \in Pages : index'[q] # Null =>
           /\ index[q] # Null
           /\ SameBackup(meta[index[q]], meta'[index'[q]])
           /\ meta'[index'[q]].tag = meta[index[q]].tag
           /\ meta'[index'[q]].state = meta[index[q]].state
    BY <1>4, <2>2, <2>3 DEF VmmSetAccess, SameHandle
  <2>5. \A u \in Threads : pc[u] = "p_backup" => pc'[u] = "p_backup"
    BY <1>4, <1>0 DEF VmmSetAccess, local
  <2> QED
    BY <1>0, <2>4, <2>5, FewerRuns DEF SameBackup
<1>5. ASSUME NEW p \in Pages, VmmUnmap(p)
      PROVE  RunsInv'
  <2>1. PICK n \in VMMAllocationMetadata : UnmappedAs(index[p], n)
    BY <1>5, <1>0, VmmUnmapEffect
  <2>2. /\ Tracked' = Tracked /\ index[p] \in Tracked /\ meta'[index[p]] = n
        /\ \A k \in Tracked : k # index[p] => meta'[k] = meta[k]
        /\ n.backup = meta[index[p]].backup /\ n.state = meta[index[p]].state
        /\ n.disk = meta[index[p]].disk
    BY <1>0, <2>1, ReplacedFields DEF UnmappedAs, SameBackup
  <2>3. index' = [index EXCEPT ![p] = Null]
    BY <1>5 DEF VmmUnmap, UnmappedEntry
  <2>4. \A q \in Pages : index[q] # Null => index[q] \in Tracked /\ meta[index[q]].ptr = q
    BY <1>0, EntryAtPage
  <2>5. \A q \in Pages : index'[q] # Null => index[q] # Null /\ meta'[index'[q]] = meta[index[q]]
    BY <1>0, <2>2, <2>3, <2>4 DEF TypeOK
  <2>6. \A u \in Threads : pc[u] = "p_backup" => pc'[u] = "p_backup"
    BY <1>5, <1>0 DEF VmmUnmap, local
  <2> QED
    BY <1>0, <2>5, <2>6, FewerRuns DEF SameBackup
<1>6. ASSUME NEW l \in Logical, VmmRelease(l)
      PROVE  RunsInv'
  <2>1. /\ l \in Tracked /\ meta[l].ptr = Null /\ meta' = [meta EXCEPT ![l] = Null]
    BY <1>6 DEF VmmRelease
  <2>2. Tracked' = Tracked \ {l} /\ \A k \in Tracked' : meta'[k] = meta[k]
    BY <1>0, <2>1 DEF Tracked, TypeOK
  <2>3. \A q \in Pages : index[q] # Null => index[q] \in Tracked /\ index[q] # l
    BY <1>0, <2>1, EntryAtPage, ExpandableAssumption
  <2>4. \A q \in Pages : index'[q] # Null => index[q] # Null /\ meta'[index'[q]] = meta[index[q]]
    BY <1>6, <2>2, <2>3 DEF VmmRelease
  <2>5. \A u \in Threads : pc[u] = "p_backup" => pc'[u] = "p_backup"
    BY <1>6, <1>0 DEF VmmRelease, local
  <2> QED
    BY <1>0, <2>4, <2>5, FewerRuns DEF SameBackup
<1>7. ASSUME NEW p \in Pages, UntrackedMap(p)
      PROVE  RunsInv'
  <2>1. meta' = meta /\ index' = index
    BY <1>7 DEF UntrackedMap, maps
  <2>2. \A u \in Threads : pc[u] = "p_backup" => pc'[u] = "p_backup"
    BY <1>7, <1>0 DEF UntrackedMap, local
  <2> QED
    BY <1>0, <2>1, <2>2, FewerRuns DEF SameBackup
<1>8. ASSUME NEW p \in Pages, UntrackedUnmap(p)
      PROVE  RunsInv'
  <2>1. meta' = meta /\ index' = index
    BY <1>8 DEF UntrackedUnmap, maps
  <2>2. \A u \in Threads : pc[u] = "p_backup" => pc'[u] = "p_backup"
    BY <1>8, <1>0 DEF UntrackedUnmap, local
  <2> QED
    BY <1>0, <2>1, <2>2, FewerRuns DEF SameBackup
<1>9. ASSUME NEW t \in Threads, NEW tagFilter \in Tags \cup {Null}, Pause(t, tagFilter)
      PROVE  RunsInv'
  <2>1. meta' = meta /\ index' = index
    BY <1>9 DEF Pause, maps
  <2>2. \A u \in Threads : pc[u] = "p_backup" => pc'[u] = "p_backup"
    BY <1>9, <1>0 DEF Pause, local
  <2> QED
    BY <1>0, <2>1, <2>2, FewerRuns DEF SameBackup
<1>10. ASSUME NEW t \in Threads, BackUpRun(t)
      PROVE  RunsInv'
  <2>1. PICK first \in toBackUp, b \in Bufs :
           /\ ~InUse(b)
           /\ \A p \in toBackUp : first <= p
           /\ meta[index[first]].state = "ACTIVE"
           /\ \A l \in Tracked : meta[l].ptr \in Run(first) =>
                 meta'[l].cpu_backup = b /\ meta'[l].cpu_backup_offset = meta[l].ptr - first
           /\ \A l \in Tracked : meta[l].ptr \notin Run(first) => meta'[l] = meta[l]
           /\ \A c \in Bufs : c # b => hostData'[c] = hostData[c] \/ ~InUse(c)'
           /\ InUse(b)' => \A p \in Run(first) : hostData'[b][p - first] = content[mapping[p]]
    BY <1>10, <1>0, BackUpRunCopies
  <2>2. /\ Tracked' = Tracked
        /\ \A l \in Tracked : SameHandle(meta[l], meta'[l])
    BY <1>10, <1>0, BackUpRunEffect
  <2>3. UNCHANGED <<pc, filter, index, expected, content, fileData>> /\ pc[t] = "p_backup"
    BY <1>10 DEF BackUpRun, local, device, client
  <2>4. \A p \in Pages : index[p] # Null => index[p] \in Tracked /\ meta[index[p]].ptr = p
    BY <1>0, EntryAtPage
  <2>5. \A p \in Pages \ Run(first) : index[p] # Null => meta'[index[p]] = meta[index[p]]
    BY <2>1, <2>4
  <2> SUFFICES ASSUME NEW a \in Pages, NEW z \in Pages, a <= z, BackedUpTogether(a, z)'
               PROVE  /\ meta'[index'[z]].cpu_backup = meta'[index'[a]].cpu_backup
                      /\ meta'[index'[z]].cpu_backup_offset
                            = meta'[index'[a]].cpu_backup_offset + (z - a)
    BY DEF RunsInv
  <2>6. a \in a .. z /\ z \in a .. z /\ \A p \in a .. z : p \in Pages /\ a <= p /\ p <= z
    BY ExpandableAssumption DEF Pages
  <2>7. \A p \in a .. z : /\ index[p] # Null /\ index[p] \in Tracked
                          /\ meta'[index[p]].cpu_backup # Null
                          /\ meta[index[p]].tag = meta[index[a]].tag
                          /\ meta[index[p]].state = meta[index[a]].state
    BY <2>2, <2>3, <2>4, <2>6 DEF BackedUpTogether, SameHandle
  <2>8. first \in Pages /\ index[first] # Null
    BY <1>0 DEF TypeOK, LoopInv
  <2>9. CASE \A p \in a .. z : p \notin Run(first)
    <3>1. \A p \in a .. z : meta'[index[p]] = meta[index[p]]
      BY <2>5, <2>6, <2>7, <2>9
    <3>2. BackedUpTogether(a, z)
      BY <2>7, <3>1 DEF BackedUpTogether
    <3> QED
      BY <1>0, <2>3, <2>6, <3>1, <3>2 DEF RunsInv
  <2>10. CASE \E p \in a .. z : p \in Run(first)
    <3>1. PICK q \in a .. z : q \in Run(first)
      BY <2>10
    <3>2. /\ meta[index[q]].state = "ACTIVE" /\ meta[index[q]].tag = meta[index[first]].tag
          /\ first <= q
      BY <1>0, <2>1, <2>3, <3>1, RunEntries
    <3>3. \A p \in a .. z : /\ meta[index[p]].state = "ACTIVE"
                            /\ meta[index[p]].tag = meta[index[first]].tag
      BY <2>7, <3>2
    <3>4. ASSUME NEW p \in a .. z
          PROVE  meta[index[p]].backup = "cpu"
      <4>1. CASE p \in Run(first)
        BY <1>0, <2>1, <2>3, <4>1, RunEntries
      <4>2. CASE p \notin Run(first)
        BY <1>0, <2>5, <2>6, <2>7, <4>2 DEF BufferInv
      <4> QED
        BY <4>1, <4>2
    <3>5. first <= a
      <4> SUFFICES ASSUME ~(first <= a)
                   PROVE  FALSE
        OBVIOUS
      <4> DEFINE p == first - 1
      <4>1. p \in Pages /\ p \in a .. z /\ p + 1 = first /\ ~(first <= p)
        BY <2>6, <2>8, <3>1, <3>2, ExpandableAssumption DEF Pages
      <4>2. p \notin toBackUp
        BY <2>1, <4>1
      <4>3. Matches(meta[index[p]], filter[t])
        BY <1>0, <2>3, <3>3, <4>1 DEF FirstLoopInv, Matches
      <4> HIDE DEF p
      <4>4. meta[index[first]].tag # meta[index[p]].tag \/ meta[index[first]].state # "ACTIVE"
        BY <1>0, <2>3, <2>7, <3>4, <4>1, <4>2, <4>3 DEF FirstLoopInv
      <4> QED
        BY <2>1, <3>3, <4>1, <4>4
    <3>6. ASSUME NEW p \in a .. z
          PROVE  p \in Run(first)
      <4>1. first <= p /\ p \in Pages
        BY <2>6, <2>8, <3>5, ExpandableAssumption DEF Pages
      <4>2. ASSUME NEW x \in first + 1 .. p
            PROVE  /\ index[x] # Null
                   /\ meta[index[x]].state = "ACTIVE" /\ meta[index[x]].backup = "cpu"
                   /\ meta[index[x]].tag = meta[index[first]].tag
        <5>1. x \in Pages /\ first <= x /\ (x <= q \/ x \in a .. z)
          BY <2>6, <2>8, <3>1, <4>1, ExpandableAssumption DEF Pages
        <5>2. CASE x <= q
          BY <1>0, <2>1, <2>3, <3>1, <5>1, <5>2, RunEntries
        <5>3. CASE x \in a .. z
          BY <2>7, <3>3, <3>4, <5>3
        <5> QED
          BY <5>1, <5>2, <5>3
      <4> QED
        BY <1>0, <2>1, <2>3, <4>1, <4>2, RunEntries
    <3>7. \A p \in a .. z : meta'[index[p]].cpu_backup = b /\ meta'[index[p]].cpu_backup_offset = p - first
      BY <2>1, <2>4, <2>6, <2>7, <3>6
    <3>8. z - first = (a - first) + (z - a)
      BY <2>8, <3>5, ExpandableAssumption DEF Pages
    <3> QED
      BY <2>3, <2>6, <3>7, <3>8
  <2> QED
    BY <2>9, <2>10
<1>11. ASSUME NEW t \in Threads, BackUpDone(t)
      PROVE  RunsInv'
  <2>1. /\ meta' = meta /\ index' = index /\ toBackUp = {} /\ pc[t] = "p_backup"
    BY <1>11 DEF BackUpDone, maps
  <2>2. ASSUME NEW p \in Pages, index[p] # Null, meta[index[p]].cpu_backup # Null
        PROVE  meta[index[p]].state = IF Matches(meta[index[p]], filter[t]) THEN "ACTIVE" ELSE "PAUSED"
    <3>1. index[p] \in Tracked /\ meta[index[p]].state \in {"ACTIVE", "PAUSED"}
      BY <1>0, <2>2, EntryAtPage
    <3>2. meta[index[p]].backup = "cpu"
      BY <1>0, <2>2, <3>1 DEF BufferInv
    <3>3. CASE Matches(meta[index[p]], filter[t])
      BY <1>0, <2>1, <2>2, <3>2, <3>3 DEF FirstLoopInv
    <3>4. CASE ~Matches(meta[index[p]], filter[t])
      <4>1. \A u \in Threads : BackedUpBy(u, index[p]) => u = t
        BY <1>0, <2>1, LoopHolder DEF BackedUpBy, InLoop
      <4>2. \A u \in Threads : ~BackedUpBy(u, index[p])
        BY <3>4, <4>1 DEF BackedUpBy
      <4> QED
        BY <1>0, <2>2, <3>1, <3>4, <4>2 DEF BufferInv
    <3> QED
      BY <3>3, <3>4
  <2>3. \A a, z \in Pages : BackedUpTogether(a, z)' => BackedUpTogether(a, z)
    <3> SUFFICES ASSUME NEW a \in Pages, NEW z \in Pages, BackedUpTogether(a, z)'
                 PROVE  BackedUpTogether(a, z)
      OBVIOUS
    <3>1. \A q \in a .. z : q \in Pages /\ a \in a .. z
      BY ExpandableAssumption DEF Pages
    <3>2. \A q \in a .. z : /\ index[q] # Null /\ meta[index[q]].cpu_backup # Null
                            /\ meta[index[q]].tag = meta[index[a]].tag
      BY <2>1 DEF BackedUpTogether
    <3>3. \A q \in a .. z : meta[index[q]].state = meta[index[a]].state
      BY <2>2, <3>1, <3>2 DEF Matches
    <3> QED
      BY <3>2, <3>3 DEF BackedUpTogether
  <2> QED
    BY <1>0, <2>1, <2>3 DEF RunsInv
<1>12. ASSUME NEW t \in Threads, NEW l \in todo, PauseEntry(t, l)
      PROVE  RunsInv'
  <2>0. l \in Tracked
    BY <1>0, EntryInLoop
  <2>1. PICK f \in SlotFiles(meta[l]), n \in VMMAllocationMetadata :
           /\ PausedAs(l, n, f)
           /\ f \in Files \cup {Null}
           /\ fileData' = [g \in Files |-> IF meta[l].backup = "disk" /\ g = f
                                           THEN content[mapping[meta[l].ptr]] ELSE fileData[g]]
    BY <1>12, <1>0, <2>0, PauseEntryEffect
  <2>2. /\ Tracked' = Tracked /\ meta'[l] = n /\ \A k \in Tracked : k # l => meta'[k] = meta[k]
        /\ n.backup = meta[l].backup /\ n.tag = meta[l].tag /\ n.state = "PAUSED" /\ n.disk = f
        /\ n.cpu_backup = meta[l].cpu_backup /\ n.cpu_backup_offset = meta[l].cpu_backup_offset
    BY <1>0, <2>1, ReplacedFields DEF PausedAs, SameBackup
  <2>3. \A q \in Pages : index[q] # Null => index[q] \in Tracked
    BY <1>0, EntryAtPage
  <2>4. index' = index /\ \A q \in Pages : index[q] # Null =>
           /\ SameBackup(meta[index[q]], meta'[index'[q]])
           /\ meta'[index'[q]].tag = meta[index[q]].tag
    BY <1>12, <2>2, <2>3 DEF PauseEntry, SameBackup
  <2>5. \A u \in Threads : pc[u] # "p_backup"
    BY <1>12, <1>0, LoopHolder DEF PauseEntry, InLoop
  <2>6. \A a, z \in Pages : BackedUpTogether(a, z)' => BackedUpTogether(a, z)
    <3> SUFFICES ASSUME NEW a \in Pages, NEW z \in Pages, BackedUpTogether(a, z)'
                 PROVE  BackedUpTogether(a, z)
      OBVIOUS
    <3>1. \A q \in a .. z : q \in Pages /\ a \in a .. z
      BY ExpandableAssumption DEF Pages
    <3>2. \A q \in a .. z : index[q] # Null /\ meta'[index'[q]].cpu_backup # Null
      BY <2>4 DEF BackedUpTogether
    <3> QED
      BY <2>4, <2>5, <3>1, <3>2 DEF BackedUpTogether, SameBackup
  <2>7. \A a, z \in Pages : a <= z => a \in a .. z /\ z \in a .. z
    BY ExpandableAssumption DEF Pages
  <2>8. \A a, z \in Pages : BackedUpTogether(a, z)' /\ a <= z => index[a] # Null /\ index[z] # Null
    BY <2>4, <2>7 DEF BackedUpTogether
  <2> QED
    BY <1>0, <2>4, <2>6, <2>8 DEF RunsInv, SameBackup
<1>13. ASSUME NEW t \in Threads, LoopReturn(t)
      PROVE  RunsInv'
  <2>1. meta' = meta /\ index' = index
    BY <1>13 DEF LoopReturn, maps
  <2>2. \A u \in Threads : pc[u] = "p_backup" => pc'[u] = "p_backup"
    BY <1>13, <1>0 DEF LoopReturn, local
  <2> QED
    BY <1>0, <2>1, <2>2, FewerRuns DEF SameBackup
<1>14. ASSUME NEW t \in Threads, NEW tagFilter \in Tags \cup {Null}, Resume(t, tagFilter)
      PROVE  RunsInv'
  <2>1. meta' = meta /\ index' = index
    BY <1>14 DEF Resume, maps
  <2>2. \A u \in Threads : pc[u] = "p_backup" => pc'[u] = "p_backup"
    BY <1>14, <1>0 DEF Resume, local
  <2> QED
    BY <1>0, <2>1, <2>2, FewerRuns DEF SameBackup
<1>15. ASSUME NEW t \in Threads, NEW l \in todo, ResumeEntry(t, l)
      PROVE  RunsInv'
  <2>0. l \in Tracked /\ pc[t] = "r_loop" /\ KeepShared(hostData)
    BY <1>15, <1>0, EntryInLoop DEF ResumeEntry
  <2>1. PICK h \in Unused, n \in VMMAllocationMetadata :
           /\ ResumedAs(l, n, h)
           /\ phys' = phys \cup {h}
           /\ mapping' = [mapping EXCEPT ![meta[l].ptr] = h]
           /\ content' = [content EXCEPT ![h] = BackedUp(meta[l])]
    BY <1>15, <1>0, <2>0, ResumeEntryEffect
  <2>2. /\ Tracked' = Tracked /\ meta'[l] = n /\ \A k \in Tracked : k # l => meta'[k] = meta[k]
        /\ n.backup = meta[l].backup /\ n.state = "ACTIVE" /\ n.cpu_backup = Null
        /\ n.physical_handle = h
    BY <1>0, <2>1, ReplacedFields DEF ResumedAs
  <2>3. \A q \in Pages : index[q] # Null => index[q] \in Tracked
    BY <1>0, EntryAtPage
  <2>4. \A q \in Pages : index'[q] # Null /\ meta'[index'[q]].cpu_backup # Null =>
           index[q] # Null /\ meta'[index'[q]] = meta[index[q]]
    BY <1>15, <2>2, <2>3 DEF ResumeEntry
  <2>5. \A u \in Threads : pc[u] = "p_backup" => pc'[u] = "p_backup"
    BY <1>15, <1>0 DEF ResumeEntry, local
  <2> QED
    BY <1>0, <2>4, <2>5, FewerRuns DEF SameBackup
<1>16. ASSUME NEW t \in Threads, NEW first \in Pages, NEW size \in 1 .. NumPages, QueryFound(t, first, size)
      PROVE  RunsInv'
  <2>1. meta' = meta /\ index' = index
    BY <1>16 DEF QueryFound, maps
  <2>2. \A u \in Threads : pc[u] = "p_backup" => pc'[u] = "p_backup"
    BY <1>16, <1>0 DEF QueryFound, local
  <2> QED
    BY <1>0, <2>1, <2>2, FewerRuns DEF SameBackup
<1>17. ASSUME NEW t \in Threads, QueryDone(t)
      PROVE  RunsInv'
  <2>1. meta' = meta /\ index' = index
    BY <1>17 DEF QueryDone, maps
  <2>2. \A u \in Threads : pc[u] = "p_backup" => pc'[u] = "p_backup"
    BY <1>17, <1>0 DEF QueryDone, local
  <2> QED
    BY <1>0, <2>1, <2>2, FewerRuns DEF SameBackup
<1>18. ASSUME NEW p \in Pages, NEW v \in Values, Write(p, v)
      PROVE  RunsInv'
  <2>1. meta' = meta /\ index' = index
    BY <1>18 DEF Write, maps
  <2>2. \A u \in Threads : pc[u] = "p_backup" => pc'[u] = "p_backup"
    BY <1>18, <1>0 DEF Write, local
  <2> QED
    BY <1>0, <2>1, <2>2, FewerRuns DEF SameBackup
<1>19. ASSUME Leaves PROVE RunsInv'
  <2>1. meta' = meta /\ index' = index
    BY <1>19 DEF Leaves, Exit, maps
  <2>2. \A u \in Threads : pc[u] = "p_backup" => pc'[u] = "p_backup"
    BY <1>19, <1>0 DEF Leaves, Exit, local
  <2> QED
    BY <1>0, <2>1, <2>2, FewerRuns DEF SameBackup
<1>20. CASE UNCHANGED vars
  <2>1. meta' = meta /\ index' = index
    BY <1>20 DEF vars, maps
  <2>2. \A u \in Threads : pc[u] = "p_backup" => pc'[u] = "p_backup"
    BY <1>20, <1>0 DEF vars, local
  <2> QED
    BY <1>0, <2>1, <2>2, FewerRuns DEF SameBackup
<1>21. QED
  BY <1>1, <1>2, <1>3, <1>4, <1>5, <1>6, <1>7, <1>8, <1>9, <1>10, <1>11,
     <1>12, <1>13, <1>14, <1>15, <1>16, <1>17, <1>18, <1>19, <1>20, StepCases

------------------------------------------------------------------------------
(* What the buffers hold *)

\* A step that changes no buffer in use and backs nothing up.
LEMMA SameCopies ==
  ASSUME CopyInv,
         \A p \in Pages : index'[p] # Null /\ expected'[p] # Junk /\ meta'[index'[p]].cpu_backup # Null =>
            /\ index[p] # Null /\ expected'[p] = expected[p]
            /\ SameBackup(meta[index[p]], meta'[index'[p]])
            /\ hostData'[meta'[index'[p]].cpu_backup] = hostData[meta'[index'[p]].cpu_backup]
  PROVE  CopyInv'
  BY DEF CopyInv, SameBackup

\* A buffer that a handle still has keeps its bytes.
LEMMA SharedKept ==
  ASSUME KeepShared(hostData), NEW l \in Tracked', meta'[l].cpu_backup \in Bufs
  PROVE  hostData'[meta'[l].cpu_backup] = hostData[meta'[l].cpu_backup]
<1>1. PICK c \in Bufs : c = meta'[l].cpu_backup
  OBVIOUS
<1>2. InUse(c)'
  BY <1>1 DEF InUse
<1> QED
  BY <1>1, <1>2 DEF KeepShared

\* The buffers hold what the pages are expected to.
LEMMA CopyStep ==
  ASSUME IInv, [Next]_vars
  PROVE  CopyInv'
<1>0. /\ CoreInv /\ TypeOK /\ MapsAgree /\ LoopInv /\ LocalInv
      /\ BufferInv /\ FirstLoopInv /\ RunsInv /\ CopyInv /\ ContentKept /\ ViewInv /\ SlotInv
      /\ Tracked \subseteq Logical
      /\ pc \in [Threads -> {"idle", "c_register", "p_backup", "p_release", "r_loop", "q_read"}]
  BY DEF CoreInv, IInv, BackupInv, Tracked, TypeOK
<1>1. ASSUME NEW t \in Threads, NEW tag \in Tags, NEW backup \in BackupModes, VmmCreate(t, tag, backup)
      PROVE  CopyInv'
  <2>1. /\ meta' = meta /\ index' = index /\ hostData' = hostData /\ expected' = expected
    BY <1>1 DEF VmmCreate, maps, backups, client
  <2> QED
    BY <1>0, <2>1, SameCopies DEF SameBackup
<1>2. ASSUME NEW t \in Threads, VmmRegister(t)
      PROVE  CopyInv'
  <2>1. PICK l \in Logical \ Tracked : meta' = [meta EXCEPT ![l] = made[t]]
    BY <1>2 DEF VmmRegister
  <2>2. made[t] # Null /\ made[t].state = "ACTIVE"
    BY <1>2, <1>0 DEF VmmRegister, LocalInv
  <2>3. /\ Tracked' = Tracked \cup {l} /\ meta'[l] = made[t]
        /\ \A k \in Tracked : meta'[k] = meta[k]
    BY <1>0, <2>1, <2>2 DEF Tracked, TypeOK
  <2>4. \A p \in Pages : index'[p] # Null => index[p] # Null /\ meta'[index'[p]] = meta[index[p]]
    BY <1>2, <1>0, <2>3, EntryAtPage DEF VmmRegister
  <2>5. \A q \in Pages : expected'[q] = expected[q]
    BY <1>2 DEF VmmRegister, client
  <2>6. hostData' = hostData
    BY <1>2 DEF VmmRegister, backups
  <2> QED
    BY <1>0, <2>4, <2>5, <2>6, SameCopies DEF SameBackup
<1>3. ASSUME NEW l \in Logical, NEW p \in Pages, VmmMap(l, p)
      PROVE  CopyInv'
  <2>1. PICK n \in VMMAllocationMetadata : MappedAs(l, p, n)
    BY <1>3, <1>0, VmmMapEffect
  <2>2. /\ Tracked' = Tracked /\ l \in Tracked /\ meta'[l] = n
        /\ \A k \in Tracked : k # l => meta'[k] = meta[k]
        /\ n.tag = meta[l].tag /\ n.backup = meta[l].backup /\ n.state = meta[l].state
        /\ n.cpu_backup = meta[l].cpu_backup /\ n.disk = meta[l].disk
    BY <1>0, <2>1, ReplacedFields DEF MappedAs, SameBackup
  <2>3. n.cpu_backup = Null
    <3>1. mutex = Null /\ meta[l].state = "ACTIVE"
      BY <1>3 DEF VmmMap
    <3> QED
      BY <1>0, <2>2, <3>1, UnlockedPaused
  <2>4. \A q \in Pages : index'[q] # Null /\ meta'[index'[q]].cpu_backup # Null =>
           index[q] # Null /\ meta'[index'[q]] = meta[index[q]]
    <3>1. index' = [index EXCEPT ![p] = l] /\ meta[l].ptr = Null
      BY <1>3 DEF VmmMap
    <3>2. \A q \in Pages : index[q] # Null => index[q] \in Tracked /\ index[q] # l
      BY <1>0, <3>1, EntryAtPage, ExpandableAssumption
    <3>3. index'[p] = l /\ \A q \in Pages : q # p => index'[q] = index[q]
      BY <1>0, <3>1 DEF TypeOK
    <3> QED
      BY <2>2, <2>3, <3>2, <3>3
  <2>5. \A q \in Pages : expected'[q] = expected[q]
    BY <1>3 DEF VmmMap, client
  <2>6. hostData' = hostData
    BY <1>3 DEF VmmMap, backups
  <2> QED
    BY <1>0, <2>4, <2>5, <2>6, SameCopies DEF SameBackup
<1>4. ASSUME NEW first \in Pages, NEW last \in Pages, NEW dev \in Devices, VmmSetAccess(first, last, dev)
      PROVE  CopyInv'
  <2>2. /\ Tracked' = Tracked
        /\ \A l \in Tracked : SameHandle(meta[l], meta'[l]) /\ SameBackup(meta[l], meta'[l])
    BY <1>4, <1>0, VmmSetAccessEffect
  <2>3. \A q \in Pages : index[q] # Null => index[q] \in Tracked
    BY <1>0, EntryAtPage
  <2>4. \A q \in Pages : index'[q] # Null =>
           /\ index[q] # Null
           /\ SameBackup(meta[index[q]], meta'[index'[q]])
           /\ meta'[index'[q]].tag = meta[index[q]].tag
           /\ meta'[index'[q]].state = meta[index[q]].state
    BY <1>4, <2>2, <2>3 DEF VmmSetAccess, SameHandle
  <2>5. \A q \in Pages : expected'[q] = expected[q]
    BY <1>4 DEF VmmSetAccess, client
  <2>6. hostData' = hostData
    BY <1>4 DEF VmmSetAccess, backups
  <2> QED
    BY <1>0, <2>4, <2>5, <2>6, SameCopies DEF SameBackup
<1>5. ASSUME NEW p \in Pages, VmmUnmap(p)
      PROVE  CopyInv'
  <2>1. PICK n \in VMMAllocationMetadata : UnmappedAs(index[p], n)
    BY <1>5, <1>0, VmmUnmapEffect
  <2>2. /\ Tracked' = Tracked /\ index[p] \in Tracked /\ meta'[index[p]] = n
        /\ \A k \in Tracked : k # index[p] => meta'[k] = meta[k]
        /\ n.backup = meta[index[p]].backup /\ n.state = meta[index[p]].state
        /\ n.disk = meta[index[p]].disk
    BY <1>0, <2>1, ReplacedFields DEF UnmappedAs, SameBackup
  <2>3. index' = [index EXCEPT ![p] = Null]
    BY <1>5 DEF VmmUnmap, UnmappedEntry
  <2>4. \A q \in Pages : index[q] # Null => index[q] \in Tracked /\ meta[index[q]].ptr = q
    BY <1>0, EntryAtPage
  <2>5. \A q \in Pages : index'[q] # Null => index[q] # Null /\ meta'[index'[q]] = meta[index[q]]
    BY <1>0, <2>2, <2>3, <2>4 DEF TypeOK
  <2>6. expected' = [expected EXCEPT ![p] = Junk] /\ hostData' = hostData
    BY <1>5 DEF VmmUnmap, backups
  <2>7. \A q \in Pages : expected'[q] # Junk => expected'[q] = expected[q]
    BY <1>0, <2>6 DEF TypeOK
  <2> QED
    BY <1>0, <2>5, <2>6, <2>7, SameCopies DEF SameBackup
<1>6. ASSUME NEW l \in Logical, VmmRelease(l)
      PROVE  CopyInv'
  <2>1. /\ l \in Tracked /\ meta[l].ptr = Null /\ meta' = [meta EXCEPT ![l] = Null]
    BY <1>6 DEF VmmRelease
  <2>2. Tracked' = Tracked \ {l} /\ \A k \in Tracked' : meta'[k] = meta[k]
    BY <1>0, <2>1 DEF Tracked, TypeOK
  <2>3. \A q \in Pages : index[q] # Null => index[q] \in Tracked /\ index[q] # l
    BY <1>0, <2>1, EntryAtPage, ExpandableAssumption
  <2>4. \A q \in Pages : index'[q] # Null => index[q] # Null /\ meta'[index'[q]] = meta[index[q]]
    BY <1>6, <2>2, <2>3 DEF VmmRelease
  <2>5. KeepShared(hostData) /\ expected' = expected /\ index' = index
    BY <1>6 DEF VmmRelease, client
  <2>6. ASSUME NEW q \in Pages, index[q] # Null, meta'[index[q]].cpu_backup # Null
        PROVE  hostData'[meta'[index[q]].cpu_backup] = hostData[meta'[index[q]].cpu_backup]
    <3>1. index[q] \in Tracked' /\ index[q] \in Tracked /\ meta'[index[q]] = meta[index[q]]
      BY <2>2, <2>3, <2>6
    <3>2. meta[index[q]].cpu_backup \in Bufs
      BY <1>0, <2>6, <3>1, PageOfEntry DEF VMMAllocationMetadata
    <3> QED
      BY <2>5, <3>1, <3>2, SharedKept
  <2> QED
    BY <1>0, <2>4, <2>5, <2>6, SameCopies DEF SameBackup
<1>7. ASSUME NEW p \in Pages, UntrackedMap(p)
      PROVE  CopyInv'
  <2>1. /\ meta' = meta /\ index' = index /\ hostData' = hostData /\ expected' = expected
    BY <1>7 DEF UntrackedMap, maps, backups, client
  <2> QED
    BY <1>0, <2>1, SameCopies DEF SameBackup
<1>8. ASSUME NEW p \in Pages, UntrackedUnmap(p)
      PROVE  CopyInv'
  <2>1. /\ meta' = meta /\ index' = index /\ hostData' = hostData /\ expected' = expected
    BY <1>8 DEF UntrackedUnmap, maps, backups, client
  <2> QED
    BY <1>0, <2>1, SameCopies DEF SameBackup
<1>9. ASSUME NEW t \in Threads, NEW tagFilter \in Tags \cup {Null}, Pause(t, tagFilter)
      PROVE  CopyInv'
  <2>1. /\ meta' = meta /\ index' = index /\ hostData' = hostData /\ expected' = expected
    BY <1>9 DEF Pause, maps, backups, client
  <2> QED
    BY <1>0, <2>1, SameCopies DEF SameBackup
<1>10. ASSUME NEW t \in Threads, BackUpRun(t)
      PROVE  CopyInv'
  <2>1. PICK first \in toBackUp, b \in Bufs :
           /\ ~InUse(b)
           /\ \A p \in toBackUp : first <= p
           /\ meta[index[first]].state = "ACTIVE"
           /\ \A l \in Tracked : meta[l].ptr \in Run(first) =>
                 meta'[l].cpu_backup = b /\ meta'[l].cpu_backup_offset = meta[l].ptr - first
           /\ \A l \in Tracked : meta[l].ptr \notin Run(first) => meta'[l] = meta[l]
           /\ \A c \in Bufs : c # b => hostData'[c] = hostData[c] \/ ~InUse(c)'
           /\ InUse(b)' => \A p \in Run(first) : hostData'[b][p - first] = content[mapping[p]]
    BY <1>10, <1>0, BackUpRunCopies
  <2>2. /\ Tracked' = Tracked
        /\ \A l \in Tracked : SameHandle(meta[l], meta'[l])
    BY <1>10, <1>0, BackUpRunEffect
  <2>3. UNCHANGED <<pc, filter, index, expected, content, fileData>> /\ pc[t] = "p_backup"
    BY <1>10 DEF BackUpRun, local, device, client
  <2>4. \A p \in Pages : index[p] # Null => index[p] \in Tracked /\ meta[index[p]].ptr = p
    BY <1>0, EntryAtPage
  <2>5. \A p \in Pages \ Run(first) : index[p] # Null => meta'[index[p]] = meta[index[p]]
    BY <2>1, <2>4
  <2> SUFFICES ASSUME NEW p \in Pages, index[p] # Null, expected[p] # Junk,
                      meta'[index[p]].cpu_backup # Null
               PROVE  hostData'[meta'[index[p]].cpu_backup][meta'[index[p]].cpu_backup_offset] = expected[p]
    BY <2>3 DEF CopyInv
  <2>6. index[p] \in Tracked /\ meta[index[p]].ptr = p
    BY <2>4
  <2>7. CASE p \in Run(first)
    <3>1. meta[index[p]].state = "ACTIVE" /\ mapping[p] = meta[index[p]].physical_handle
      BY <1>0, <2>1, <2>3, <2>7, EntryAtPage, RunEntries
    <3>2. content[mapping[p]] = expected[p]
      BY <1>0, <3>1 DEF ContentKept, HoldsContent
    <3>3. meta'[index[p]].cpu_backup = b /\ meta'[index[p]].cpu_backup_offset = p - first
      BY <2>1, <2>6, <2>7
    <3>4. InUse(b)'
      BY <2>2, <2>6, <3>3 DEF InUse
    <3> QED
      BY <2>1, <2>7, <3>2, <3>3, <3>4
  <2>8. CASE p \notin Run(first)
    <3>1. meta'[index[p]] = meta[index[p]]
      BY <2>5, <2>8
    <3>2. PICK c \in Bufs : c = meta[index[p]].cpu_backup
      BY <1>0, <2>6, <3>1, PageOfEntry DEF VMMAllocationMetadata
    <3>3. c # b
      BY <2>1, <2>6, <3>2 DEF InUse
    <3>4. InUse(c)'
      BY <2>2, <2>6, <3>1, <3>2 DEF InUse
    <3>5. hostData'[c] = hostData[c]
      BY <2>1, <3>3, <3>4
    <3> QED
      BY <1>0, <3>1, <3>2, <3>5 DEF CopyInv
  <2> QED
    BY <2>7, <2>8
<1>11. ASSUME NEW t \in Threads, BackUpDone(t)
      PROVE  CopyInv'
  <2>1. /\ meta' = meta /\ index' = index /\ hostData' = hostData /\ expected' = expected
    BY <1>11 DEF BackUpDone, maps, backups, client
  <2> QED
    BY <1>0, <2>1, SameCopies DEF SameBackup
<1>12. ASSUME NEW t \in Threads, NEW l \in todo, PauseEntry(t, l)
      PROVE  CopyInv'
  <2>0. l \in Tracked
    BY <1>0, EntryInLoop
  <2>1. PICK f \in SlotFiles(meta[l]), n \in VMMAllocationMetadata :
           /\ PausedAs(l, n, f)
           /\ f \in Files \cup {Null}
           /\ fileData' = [g \in Files |-> IF meta[l].backup = "disk" /\ g = f
                                           THEN content[mapping[meta[l].ptr]] ELSE fileData[g]]
    BY <1>12, <1>0, <2>0, PauseEntryEffect
  <2>2. /\ Tracked' = Tracked /\ meta'[l] = n /\ \A k \in Tracked : k # l => meta'[k] = meta[k]
        /\ n.backup = meta[l].backup /\ n.tag = meta[l].tag /\ n.state = "PAUSED" /\ n.disk = f
        /\ n.cpu_backup = meta[l].cpu_backup /\ n.cpu_backup_offset = meta[l].cpu_backup_offset
    BY <1>0, <2>1, ReplacedFields DEF PausedAs, SameBackup
  <2>3. \A q \in Pages : index[q] # Null => index[q] \in Tracked
    BY <1>0, EntryAtPage
  <2>4. index' = index /\ hostData' = hostData
    BY <1>12 DEF PauseEntry
  <2>5. \A q \in Pages : index[q] # Null => SameBackup(meta[index[q]], meta'[index[q]])
    BY <2>2, <2>3 DEF SameBackup
  <2>6. \A q \in Pages : expected'[q] # Junk => expected'[q] = expected[q]
    BY <1>12, <1>0 DEF PauseEntry, TypeOK
  <2> QED
    BY <1>0, <2>4, <2>5, <2>6, SameCopies
<1>13. ASSUME NEW t \in Threads, LoopReturn(t)
      PROVE  CopyInv'
  <2>1. /\ meta' = meta /\ index' = index /\ hostData' = hostData /\ expected' = expected
    BY <1>13 DEF LoopReturn, maps, backups, client
  <2> QED
    BY <1>0, <2>1, SameCopies DEF SameBackup
<1>14. ASSUME NEW t \in Threads, NEW tagFilter \in Tags \cup {Null}, Resume(t, tagFilter)
      PROVE  CopyInv'
  <2>1. /\ meta' = meta /\ index' = index /\ hostData' = hostData /\ expected' = expected
    BY <1>14 DEF Resume, maps, backups, client
  <2> QED
    BY <1>0, <2>1, SameCopies DEF SameBackup
<1>15. ASSUME NEW t \in Threads, NEW l \in todo, ResumeEntry(t, l)
      PROVE  CopyInv'
  <2>0. l \in Tracked /\ pc[t] = "r_loop" /\ KeepShared(hostData)
    BY <1>15, <1>0, EntryInLoop DEF ResumeEntry
  <2>1. PICK h \in Unused, n \in VMMAllocationMetadata :
           /\ ResumedAs(l, n, h)
           /\ phys' = phys \cup {h}
           /\ mapping' = [mapping EXCEPT ![meta[l].ptr] = h]
           /\ content' = [content EXCEPT ![h] = BackedUp(meta[l])]
    BY <1>15, <1>0, <2>0, ResumeEntryEffect
  <2>2. /\ Tracked' = Tracked /\ meta'[l] = n /\ \A k \in Tracked : k # l => meta'[k] = meta[k]
        /\ n.backup = meta[l].backup /\ n.state = "ACTIVE" /\ n.cpu_backup = Null
        /\ n.physical_handle = h
    BY <1>0, <2>1, ReplacedFields DEF ResumedAs
  <2>3. \A q \in Pages : index[q] # Null => index[q] \in Tracked
    BY <1>0, EntryAtPage
  <2>4. \A q \in Pages : index'[q] # Null /\ meta'[index'[q]].cpu_backup # Null =>
           index[q] # Null /\ meta'[index'[q]] = meta[index[q]]
    BY <1>15, <2>2, <2>3 DEF ResumeEntry
  <2>5. expected' = expected /\ index' = index
    BY <1>15 DEF ResumeEntry, client
  <2>6. ASSUME NEW q \in Pages, index[q] # Null, meta'[index[q]].cpu_backup # Null
        PROVE  hostData'[meta'[index[q]].cpu_backup] = hostData[meta'[index[q]].cpu_backup]
    <3>1. index[q] \in Tracked' /\ index[q] \in Tracked /\ meta'[index[q]] = meta[index[q]]
      BY <2>2, <2>3, <2>4, <2>5, <2>6
    <3>2. meta[index[q]].cpu_backup \in Bufs
      BY <1>0, <2>6, <3>1, PageOfEntry DEF VMMAllocationMetadata
    <3> QED
      BY <2>0, <3>1, <3>2, SharedKept
  <2> QED
    BY <1>0, <2>4, <2>5, <2>6, SameCopies DEF SameBackup
<1>16. ASSUME NEW t \in Threads, NEW first \in Pages, NEW size \in 1 .. NumPages, QueryFound(t, first, size)
      PROVE  CopyInv'
  <2>1. /\ meta' = meta /\ index' = index /\ hostData' = hostData /\ expected' = expected
    BY <1>16 DEF QueryFound, maps, backups, client
  <2> QED
    BY <1>0, <2>1, SameCopies DEF SameBackup
<1>17. ASSUME NEW t \in Threads, QueryDone(t)
      PROVE  CopyInv'
  <2>1. /\ meta' = meta /\ index' = index /\ hostData' = hostData /\ expected' = expected
    BY <1>17 DEF QueryDone, maps, backups, client
  <2> QED
    BY <1>0, <2>1, SameCopies DEF SameBackup
<1>18. ASSUME NEW p \in Pages, NEW v \in Values, Write(p, v)
      PROVE  CopyInv'
  <2>1. /\ meta' = meta /\ index' = index /\ hostData' = hostData
        /\ expected' = [expected EXCEPT ![p] = v] /\ index[p] # Null /\ mapping[p] # Null
    BY <1>18 DEF Write, maps, backups
  <2>2. meta[index[p]].state = "ACTIVE" /\ index[p] \in Tracked
    BY <1>0, <2>1, EntryAtPage
  <2>3. \A u \in Threads : ~BackedUpBy(u, index[p])
    BY <1>18 DEF Write, BackedUpBy
  <2>4. meta[index[p]].cpu_backup = Null
    BY <1>0, <2>2, <2>3 DEF BufferInv
  <2>5. \A q \in Pages : q # p => expected'[q] = expected[q]
    BY <1>0, <2>1 DEF TypeOK
  <2> QED
    BY <1>0, <2>1, <2>4, <2>5, SameCopies DEF SameBackup
<1>19. ASSUME Leaves PROVE CopyInv'
  <2>1. /\ meta' = meta /\ index' = index /\ hostData' = hostData /\ expected' = expected
    BY <1>19 DEF Leaves, Exit, maps, backups, client
  <2> QED
    BY <1>0, <2>1, SameCopies DEF SameBackup
<1>20. CASE UNCHANGED vars
  <2>1. /\ meta' = meta /\ index' = index /\ hostData' = hostData /\ expected' = expected
    BY <1>20 DEF vars, maps, backups, client
  <2> QED
    BY <1>0, <2>1, SameCopies DEF SameBackup
<1>21. QED
  BY <1>1, <1>2, <1>3, <1>4, <1>5, <1>6, <1>7, <1>8, <1>9, <1>10, <1>11,
     <1>12, <1>13, <1>14, <1>15, <1>16, <1>17, <1>18, <1>19, <1>20, StepCases

------------------------------------------------------------------------------
(* What the pages hold *)

\* A page p holds after a step what it held before.
KeepsPage(p) ==
    LET m == meta[index[p]]  n == meta'[index'[p]] IN
    /\ index'[p] # Null /\ n.state = m.state /\ n.backup = m.backup
    /\ m.state = "ACTIVE" => /\ n.physical_handle = m.physical_handle
                             /\ content'[m.physical_handle] = content[m.physical_handle]
    /\ m.state # "ACTIVE" /\ m.backup = "cpu" => /\ SameBackup(m, n)
                                                 /\ hostData'[m.cpu_backup] = hostData[m.cpu_backup]
    /\ m.state # "ACTIVE" /\ m.backup = "disk" => n.disk = m.disk /\ fileData'[m.disk] = fileData[m.disk]

\* No page that is expected to hold something changes.
LEMMA KeptPages ==
  ASSUME ContentKept,
         \A p \in Pages : expected'[p] # Junk => /\ expected'[p] = expected[p]
                                                 /\ index[p] # Null => KeepsPage(p)
  PROVE  ContentKept'
<1> SUFFICES ASSUME NEW p \in Pages, expected'[p] # Junk
             PROVE  index'[p] # Null /\ HoldsContent(p, expected[p])'
  BY DEF ContentKept
<1>1. index[p] # Null /\ HoldsContent(p, expected[p]) /\ expected'[p] = expected[p] /\ KeepsPage(p)
  <2>1. expected'[p] = expected[p] /\ (index[p] # Null => KeepsPage(p))
    BY DEF KeepsPage
  <2>2. index[p] # Null /\ HoldsContent(p, expected[p])
    BY <2>1 DEF ContentKept
  <2> QED
    BY <2>1, <2>2
<1> DEFINE m == meta[index[p]]
           n == meta'[index'[p]]
<1>2. CASE m.state = "ACTIVE"
  BY <1>1, <1>2 DEF HoldsContent, KeepsPage
<1>3. CASE m.state # "ACTIVE" /\ m.backup = "cpu"
  BY <1>1, <1>3 DEF HoldsContent, KeepsPage, SameBackup
<1>4. CASE m.state # "ACTIVE" /\ m.backup # "cpu"
  BY <1>1, <1>4 DEF HoldsContent, KeepsPage
<1> QED
  BY <1>2, <1>3, <1>4

\* An entry is unchanged, and so is where its bytes are.
LEMMA UnchangedPage ==
  ASSUME NEW p \in Pages, index[p] # Null, index'[p] = index[p], meta'[index[p]] = meta[index[p]],
         meta[index[p]].state = "ACTIVE" =>
            content'[meta[index[p]].physical_handle] = content[meta[index[p]].physical_handle],
         meta[index[p]].backup = "cpu" /\ meta[index[p]].state # "ACTIVE" =>
            hostData'[meta[index[p]].cpu_backup] = hostData[meta[index[p]].cpu_backup],
         meta[index[p]].backup = "disk" /\ meta[index[p]].state # "ACTIVE" =>
            fileData'[meta[index[p]].disk] = fileData[meta[index[p]].disk]
  PROVE  KeepsPage(p)
  BY DEF KeepsPage, SameBackup

\* The units of two entries differ, so that releasing or filling one leaves the other.
LEMMA OtherUnit ==
  ASSUME CoreInv, NEW k \in Tracked, meta[k].state = "ACTIVE",
         NEW h, NEW v, content' = [content EXCEPT ![h] = v],
         h \notin phys \/ \E l \in Tracked : l # k /\ meta[l].physical_handle = h
  PROVE  content'[meta[k].physical_handle] = content[meta[k].physical_handle]
<1>1. meta[k].physical_handle \in phys
  BY DEF CoreInv, HandlesMatchDevice, MatchesDevice
<1>2. meta[k].physical_handle # Null /\ meta[k].physical_handle \in Units
  BY <1>1, ExpandableAssumption DEF CoreInv, TypeOK
<1>3. meta[k].physical_handle # h
  BY <1>1, <1>2, UnitsApart
<1> QED
  BY <1>2, <1>3 DEF CoreInv, TypeOK

\* A paused entry with a host or a disk backup has it.
LEMMA PausedHasBackup ==
  ASSUME CoreInv, BufferInv, SlotInv, NEW l \in Tracked, meta[l].state # "ACTIVE"
  PROVE  /\ meta[l].backup = "cpu" => meta[l].cpu_backup \in Bufs
         /\ meta[l].backup = "disk" => /\ meta[l].disk \in Files /\ meta[l].disk # Null
                                       /\ fileData[meta[l].disk] # Null
<1>1. meta[l] \in VMMAllocationMetadata
  BY PageOfEntry
<1>2. meta[l].state = "PAUSED"
  BY <1>1 DEF VMMAllocationMetadata, State
<1>3. meta[l].backup = "cpu" => meta[l].cpu_backup \in Bufs
  BY <1>1, <1>2 DEF BufferInv, VMMAllocationMetadata
<1>4. meta[l].backup = "disk" => meta[l].disk \in Files /\ meta[l].disk # Null
  BY <1>1, <1>2 DEF SlotInv, VMMAllocationMetadata
<1> QED
  BY <1>3, <1>4 DEF CoreInv, FilesInv, BackupFilesAccounted

\* The pages hold what they are expected to, or their backups do.
LEMMA ContentStep ==
  ASSUME IInv, [Next]_vars
  PROVE  ContentKept'
<1>0. /\ CoreInv /\ TypeOK /\ MapsAgree /\ LoopInv /\ LocalInv
      /\ BufferInv /\ FirstLoopInv /\ RunsInv /\ CopyInv /\ ContentKept /\ ViewInv /\ SlotInv
      /\ Tracked \subseteq Logical
      /\ pc \in [Threads -> {"idle", "c_register", "p_backup", "p_release", "r_loop", "q_read"}]
  BY DEF CoreInv, IInv, BackupInv, Tracked, TypeOK
<1>1. ASSUME NEW t \in Threads, NEW tag \in Tags, NEW backup \in BackupModes, VmmCreate(t, tag, backup)
      PROVE  ContentKept'
  <2>1. /\ meta' = meta /\ index' = index /\ hostData' = hostData /\ fileData' = fileData
        /\ content' = content /\ expected' = expected
    BY <1>1 DEF VmmCreate, maps, backups, client, device
  <2> QED
    BY <1>0, <2>1, KeptPages DEF KeepsPage, SameBackup
<1>2. ASSUME NEW t \in Threads, VmmRegister(t)
      PROVE  ContentKept'
  <2>1. PICK l \in Logical \ Tracked : meta' = [meta EXCEPT ![l] = made[t]]
    BY <1>2 DEF VmmRegister
  <2>2. made[t] # Null /\ made[t].state = "ACTIVE"
    BY <1>2, <1>0 DEF VmmRegister, LocalInv
  <2>3. /\ Tracked' = Tracked \cup {l} /\ meta'[l] = made[t]
        /\ \A k \in Tracked : meta'[k] = meta[k]
    BY <1>0, <2>1, <2>2 DEF Tracked, TypeOK
  <2>4. \A q \in Pages : index[q] # Null => index'[q] = index[q] /\ meta'[index[q]] = meta[index[q]]
    BY <1>2, <1>0, <2>3, EntryAtPage DEF VmmRegister
  <2>5. UNCHANGED <<content, hostData, fileData, expected>>
    BY <1>2 DEF VmmRegister, backups, client, device
  <2> QED
    BY <1>0, <2>4, <2>5, KeptPages, UnchangedPage
<1>3. ASSUME NEW l \in Logical, NEW p \in Pages, VmmMap(l, p)
      PROVE  ContentKept'
  <2>1. PICK n \in VMMAllocationMetadata : MappedAs(l, p, n)
    BY <1>3, <1>0, VmmMapEffect
  <2>2. /\ Tracked' = Tracked /\ l \in Tracked /\ meta'[l] = n
        /\ \A k \in Tracked : k # l => meta'[k] = meta[k]
        /\ n.tag = meta[l].tag /\ n.backup = meta[l].backup /\ n.state = meta[l].state
        /\ n.cpu_backup = meta[l].cpu_backup /\ n.disk = meta[l].disk
    BY <1>0, <2>1, ReplacedFields DEF MappedAs, SameBackup
  <2>3. index' = [index EXCEPT ![p] = l] /\ meta[l].ptr = Null /\ index[p] = Null
    BY <1>3 DEF VmmMap
  <2>4. \A q \in Pages : index[q] # Null => index[q] \in Tracked /\ index[q] # l
    BY <1>0, <2>3, EntryAtPage, ExpandableAssumption
  <2>5. \A q \in Pages : index[q] # Null => index'[q] = index[q] /\ meta'[index[q]] = meta[index[q]]
    BY <1>0, <2>2, <2>3, <2>4 DEF TypeOK
  <2>6. UNCHANGED <<content, hostData, fileData, expected>>
    BY <1>3 DEF VmmMap, backups, client, device
  <2> QED
    BY <1>0, <2>5, <2>6, KeptPages, UnchangedPage
<1>4. ASSUME NEW first \in Pages, NEW last \in Pages, NEW dev \in Devices, VmmSetAccess(first, last, dev)
      PROVE  ContentKept'
  <2>2. /\ Tracked' = Tracked
        /\ \A l \in Tracked : SameHandle(meta[l], meta'[l]) /\ SameBackup(meta[l], meta'[l])
    BY <1>4, <1>0, VmmSetAccessEffect
  <2>3. \A q \in Pages : index[q] # Null => index[q] \in Tracked
    BY <1>0, EntryAtPage
  <2>4. UNCHANGED <<index, content, hostData, fileData, expected>>
    BY <1>4 DEF VmmSetAccess, backups
  <2>5. \A q \in Pages : index[q] # Null => KeepsPage(q)
    BY <2>2, <2>3, <2>4 DEF KeepsPage, SameHandle
  <2> QED
    BY <1>0, <2>4, <2>5, KeptPages
<1>5. ASSUME NEW p \in Pages, VmmUnmap(p)
      PROVE  ContentKept'
  <2>1. PICK n \in VMMAllocationMetadata : UnmappedAs(index[p], n)
    BY <1>5, <1>0, VmmUnmapEffect
  <2>2. /\ Tracked' = Tracked /\ index[p] \in Tracked /\ meta'[index[p]] = n
        /\ \A k \in Tracked : k # index[p] => meta'[k] = meta[k]
        /\ n.backup = meta[index[p]].backup /\ n.state = meta[index[p]].state
        /\ n.disk = meta[index[p]].disk
    BY <1>0, <2>1, ReplacedFields DEF UnmappedAs, SameBackup
  <2>3. /\ index' = [index EXCEPT ![p] = Null] /\ expected' = [expected EXCEPT ![p] = Junk]
        /\ UNCHANGED <<content, hostData, fileData>>
    BY <1>5 DEF VmmUnmap, UnmappedEntry, backups
  <2>4. \A q \in Pages : index[q] # Null => index[q] \in Tracked /\ meta[index[q]].ptr = q
    BY <1>0, EntryAtPage
  <2>5. \A q \in Pages : q # p /\ index[q] # Null => index'[q] = index[q] /\ meta'[index[q]] = meta[index[q]]
    BY <1>0, <2>2, <2>3, <2>4 DEF TypeOK
  <2>6. \A q \in Pages : expected'[q] # Junk => q # p /\ expected'[q] = expected[q]
    BY <1>0, <2>3 DEF TypeOK
  <2> QED
    BY <1>0, <2>3, <2>5, <2>6, KeptPages, UnchangedPage
<1>6. ASSUME NEW l \in Logical, VmmRelease(l)
      PROVE  ContentKept'
  <2>1. /\ l \in Tracked /\ meta[l].ptr = Null /\ meta' = [meta EXCEPT ![l] = Null]
    BY <1>6 DEF VmmRelease
  <2>2. Tracked' = Tracked \ {l} /\ \A k \in Tracked' : meta'[k] = meta[k]
    BY <1>0, <2>1 DEF Tracked, TypeOK
  <2>3. /\ KeepShared(hostData) /\ expected' = expected /\ index' = index
        /\ fileData' = [f \in Files |-> IF f = meta[l].disk THEN Null ELSE fileData[f]]
        /\ \/ content' = content
           \/ content' = [content EXCEPT ![meta[l].physical_handle] = Junk]
    BY <1>6 DEF VmmRelease, client, FilesAfterRelease, ReleaseUnit
  <2>4. \A q \in Pages : index[q] # Null => index[q] \in Tracked /\ index[q] # l
    BY <1>0, <2>1, EntryAtPage, ExpandableAssumption
  <2>5. ASSUME NEW q \in Pages, index[q] # Null
        PROVE  KeepsPage(q)
    <3>1. /\ index[q] \in Tracked' /\ index[q] \in Tracked /\ index[q] # l
          /\ meta'[index[q]] = meta[index[q]]
      BY <2>2, <2>4, <2>5
    <3>2. meta[index[q]].state = "ACTIVE" =>
             content'[meta[index[q]].physical_handle] = content[meta[index[q]].physical_handle]
      <4>1. CASE content' = content
        BY <4>1
      <4>2. CASE content' = [content EXCEPT ![meta[l].physical_handle] = Junk]
        BY <1>0, <2>1, <3>1, <4>2, OtherUnit
      <4> QED
        BY <2>3, <4>1, <4>2
    <3>3. meta[index[q]].backup = "cpu" /\ meta[index[q]].state # "ACTIVE" =>
             hostData'[meta[index[q]].cpu_backup] = hostData[meta[index[q]].cpu_backup]
      BY <1>0, <2>3, <3>1, PausedHasBackup, SharedKept
    <3>4. meta[index[q]].backup = "disk" /\ meta[index[q]].state # "ACTIVE" =>
             fileData'[meta[index[q]].disk] = fileData[meta[index[q]].disk]
      <4> SUFFICES ASSUME meta[index[q]].backup = "disk", meta[index[q]].state # "ACTIVE"
                   PROVE  fileData'[meta[index[q]].disk] = fileData[meta[index[q]].disk]
        OBVIOUS
      <4>1. meta[index[q]].disk \in Files /\ meta[index[q]].disk # Null
        BY <1>0, <3>1, PausedHasBackup
      <4>2. meta[index[q]].disk # meta[l].disk
        BY <1>0, <2>1, <3>1, <4>1 DEF CoreInv, FilesInv
      <4> QED
        BY <2>3, <4>1, <4>2
    <3> QED
      BY <2>3, <2>5, <3>1, <3>2, <3>3, <3>4, UnchangedPage
  <2> QED
    BY <1>0, <2>3, <2>5, KeptPages
<1>7. ASSUME NEW p \in Pages, UntrackedMap(p)
      PROVE  ContentKept'
  <2>1. /\ meta' = meta /\ index' = index /\ hostData' = hostData /\ fileData' = fileData
        /\ content' = content /\ expected' = expected
    BY <1>7 DEF UntrackedMap, maps, backups, client, device
  <2> QED
    BY <1>0, <2>1, KeptPages DEF KeepsPage, SameBackup
<1>8. ASSUME NEW p \in Pages, UntrackedUnmap(p)
      PROVE  ContentKept'
  <2>1. /\ UNCHANGED <<meta, index, hostData, fileData, expected>>
        /\ index[p] = Null /\ mapping[p] # Null /\ content' = [content EXCEPT ![mapping[p]] = Junk]
    BY <1>8 DEF UntrackedUnmap, ReleaseUnit, maps, backups
  <2>2. ASSUME NEW q \in Pages, index[q] # Null, meta[index[q]].state = "ACTIVE"
        PROVE  content'[meta[index[q]].physical_handle] = content[meta[index[q]].physical_handle]
    <3>1. index[q] \in Tracked /\ meta[index[q]].physical_handle \in Units
      BY <1>0, <2>2, EntryAtPage
    <3>2. meta[index[q]].physical_handle # mapping[p]
      BY <1>0, <2>1, <3>1, UnitsApart
    <3> QED
      BY <1>0, <2>1, <3>1, <3>2 DEF TypeOK
  <2>3. \A q \in Pages : index[q] # Null => KeepsPage(q)
    BY <2>1, <2>2, UnchangedPage
  <2> QED
    BY <1>0, <2>1, <2>3, KeptPages
<1>9. ASSUME NEW t \in Threads, NEW tagFilter \in Tags \cup {Null}, Pause(t, tagFilter)
      PROVE  ContentKept'
  <2>1. /\ meta' = meta /\ index' = index /\ hostData' = hostData /\ fileData' = fileData
        /\ content' = content /\ expected' = expected
    BY <1>9 DEF Pause, maps, backups, client, device
  <2> QED
    BY <1>0, <2>1, KeptPages DEF KeepsPage, SameBackup
<1>10. ASSUME NEW t \in Threads, BackUpRun(t)
      PROVE  ContentKept'
  <2>1. PICK first \in toBackUp, b \in Bufs :
           /\ ~InUse(b)
           /\ \A p \in toBackUp : first <= p
           /\ meta[index[first]].state = "ACTIVE"
           /\ \A l \in Tracked : meta[l].ptr \in Run(first) =>
                 meta'[l].cpu_backup = b /\ meta'[l].cpu_backup_offset = meta[l].ptr - first
           /\ \A l \in Tracked : meta[l].ptr \notin Run(first) => meta'[l] = meta[l]
           /\ \A c \in Bufs : c # b => hostData'[c] = hostData[c] \/ ~InUse(c)'
           /\ InUse(b)' => \A p \in Run(first) : hostData'[b][p - first] = content[mapping[p]]
    BY <1>10, <1>0, BackUpRunCopies
  <2>2. /\ Tracked' = Tracked
        /\ \A l \in Tracked : SameHandle(meta[l], meta'[l])
    BY <1>10, <1>0, BackUpRunEffect
  <2>3. UNCHANGED <<pc, filter, index, expected, content, fileData>> /\ pc[t] = "p_backup"
    BY <1>10 DEF BackUpRun, local, device, client
  <2>4. \A p \in Pages : index[p] # Null => index[p] \in Tracked /\ meta[index[p]].ptr = p
    BY <1>0, EntryAtPage
  <2>5. \A p \in Pages \ Run(first) : index[p] # Null => meta'[index[p]] = meta[index[p]]
    BY <2>1, <2>4
  <2>6. ASSUME NEW q \in Pages, index[q] # Null
        PROVE  KeepsPage(q)
    <3>1. /\ index[q] \in Tracked /\ SameHandle(meta[index[q]], meta'[index[q]])
          /\ meta[index[q]].state \in {"ACTIVE", "PAUSED"}
      BY <1>0, <2>2, <2>6, EntryAtPage
    <3>2. CASE meta[index[q]].state = "ACTIVE"
      BY <2>3, <2>6, <3>1, <3>2 DEF KeepsPage, SameHandle
    <3>3. CASE meta[index[q]].state = "PAUSED"
      <4>1. meta'[index[q]] = meta[index[q]]
        BY <1>0, <2>1, <2>3, <2>5, <2>6, <3>3, RunEntries
      <4>2. ASSUME meta[index[q]].backup = "cpu"
            PROVE  hostData'[meta[index[q]].cpu_backup] = hostData[meta[index[q]].cpu_backup]
        <5>1. PICK c \in Bufs : c = meta[index[q]].cpu_backup
          BY <1>0, <3>1, <3>3, <4>2, PausedHasBackup
        <5>2. c # b
          BY <2>1, <3>1, <5>1 DEF InUse
        <5>3. InUse(c)'
          BY <2>2, <3>1, <4>1, <5>1 DEF InUse
        <5> QED
          BY <2>1, <5>1, <5>2, <5>3
      <4> QED
        BY <2>3, <2>6, <3>3, <4>1, <4>2, UnchangedPage
    <3> QED
      BY <3>1, <3>2, <3>3
  <2> QED
    BY <1>0, <2>3, <2>6, KeptPages
<1>11. ASSUME NEW t \in Threads, BackUpDone(t)
      PROVE  ContentKept'
  <2>1. /\ meta' = meta /\ index' = index /\ hostData' = hostData /\ fileData' = fileData
        /\ content' = content /\ expected' = expected
    BY <1>11 DEF BackUpDone, maps, backups, client, device
  <2> QED
    BY <1>0, <2>1, KeptPages DEF KeepsPage, SameBackup
<1>12. ASSUME NEW t \in Threads, NEW l \in todo, PauseEntry(t, l)
      PROVE  ContentKept'
  <2>0. l \in Tracked
    BY <1>0, EntryInLoop
  <2>1. PICK f \in SlotFiles(meta[l]), n \in VMMAllocationMetadata :
           /\ PausedAs(l, n, f)
           /\ f \in Files \cup {Null}
           /\ fileData' = [g \in Files |-> IF meta[l].backup = "disk" /\ g = f
                                           THEN content[mapping[meta[l].ptr]] ELSE fileData[g]]
    BY <1>12, <1>0, <2>0, PauseEntryEffect
  <2>2. /\ Tracked' = Tracked /\ meta'[l] = n /\ \A k \in Tracked : k # l => meta'[k] = meta[k]
        /\ n.backup = meta[l].backup /\ n.tag = meta[l].tag /\ n.state = "PAUSED" /\ n.disk = f
        /\ n.cpu_backup = meta[l].cpu_backup /\ n.cpu_backup_offset = meta[l].cpu_backup_offset
    BY <1>0, <2>1, ReplacedFields DEF PausedAs, SameBackup
  <2>3. /\ meta[l].state = "ACTIVE" /\ meta[l].ptr # Null
        /\ meta[l].backup = "cpu" => meta[l].cpu_backup # Null
        /\ content' = [content EXCEPT ![meta[l].physical_handle] = Junk]
        /\ UNCHANGED <<index, hostData>>
        /\ expected' = IF meta[l].backup = "none" THEN [expected EXCEPT ![meta[l].ptr] = Junk] ELSE expected
    BY <1>12 DEF PauseEntry, PauseRelease, ReleaseUnit
  <2>4. PICK p \in Pages : p = meta[l].ptr /\ index[p] = l /\ index[p] # Null
    BY <1>0, <2>0, <2>3, PageOfEntry, ExpandableAssumption
  <2>5. /\ mapping[p] = meta[l].physical_handle
        /\ meta[l].backup \in {"none", "cpu", "disk"}
    <3>1. mapping[p] = meta[l].physical_handle
      BY <1>0, <2>3, <2>4, EntryAtPage
    <3>2. meta[l].backup \in BackupModes /\ meta[l].backup # "both"
      BY <1>0, <2>0, PageOfEntry DEF BufferInv, VMMAllocationMetadata
    <3> QED
      BY <3>1, <3>2, ExpandableAssumption
  <2>6. ASSUME expected'[p] # Junk
        PROVE  HoldsContent(p, expected[p])' /\ expected'[p] = expected[p]
    <3>1. expected'[p] = expected[p] /\ meta[l].backup # "none"
      BY <1>0, <2>3, <2>4, <2>6 DEF TypeOK
    <3>2. content[mapping[p]] = expected[p]
      BY <1>0, <2>3, <2>4, <2>5, <2>6, <3>1 DEF ContentKept, HoldsContent
    <3>3. CASE meta[l].backup = "cpu"
      <4>1. hostData[meta[l].cpu_backup][meta[l].cpu_backup_offset] = expected[p]
        BY <1>0, <2>0, <2>3, <2>4, <2>6, <3>1, <3>3 DEF CopyInv
      <4> QED
        BY <2>2, <2>3, <2>4, <3>1, <3>3, <4>1 DEF HoldsContent
    <3>4. CASE meta[l].backup = "disk"
      <4>1. f \in Files
        BY <2>1, <3>4, ExpandableAssumption DEF SlotFiles
      <4>2. fileData'[f] = expected[p]
        BY <2>1, <2>4, <3>2, <3>4, <4>1
      <4> QED
        BY <2>2, <2>3, <2>4, <3>1, <3>4, <4>2 DEF HoldsContent
    <3> QED
      BY <2>5, <3>1, <3>3, <3>4
  <2>7. ASSUME NEW q \in Pages, q # p, index[q] # Null
        PROVE  KeepsPage(q) /\ expected'[q] = expected[q]
    <3>1. /\ index[q] \in Tracked /\ index[q] # l
          /\ meta'[index[q]] = meta[index[q]]
      BY <1>0, <2>2, <2>4, <2>7, EntryAtPage
    <3>2. meta[index[q]].state = "ACTIVE" =>
             content'[meta[index[q]].physical_handle] = content[meta[index[q]].physical_handle]
      BY <1>0, <2>0, <2>3, <3>1, OtherUnit
    <3>3. ASSUME meta[index[q]].backup = "disk", meta[index[q]].state # "ACTIVE"
          PROVE  fileData'[meta[index[q]].disk] = fileData[meta[index[q]].disk]
      <4>1. /\ meta[index[q]].disk \in Files /\ meta[index[q]].disk # Null
            /\ fileData[meta[index[q]].disk] # Null
        BY <1>0, <3>1, <3>3, PausedHasBackup
      <4>2. meta[l].disk # meta[index[q]].disk
        BY <1>0, <2>0, <3>1, <4>1 DEF CoreInv, FilesInv
      <4>3. meta[l].backup = "disk" => f # meta[index[q]].disk
        BY <2>1, <4>1, <4>2 DEF SlotFiles
      <4> QED
        BY <2>1, <4>1, <4>3
    <3>4. expected'[q] = expected[q]
      BY <1>0, <2>3, <2>4, <2>7 DEF TypeOK
    <3> QED
      BY <2>3, <2>7, <3>1, <3>2, <3>3, <3>4, UnchangedPage
  <2>8. ASSUME NEW q \in Pages, expected'[q] # Junk
        PROVE  index'[q] # Null /\ HoldsContent(q, expected[q])'
    <3>1. CASE q = p
      BY <1>0, <2>0, <2>3, <2>4, <2>6, <2>8, <3>1, PageOfEntry, ExpandableAssumption
    <3>2. CASE q # p
      <4>1. expected[q] # Junk
        BY <1>0, <2>3, <2>4, <2>8, <3>2 DEF TypeOK
      <4>2. index[q] # Null /\ HoldsContent(q, expected[q])
        BY <1>0, <4>1 DEF ContentKept
      <4> QED
        BY <2>7, <3>2, <4>2 DEF HoldsContent, KeepsPage, SameBackup
    <3> QED
      BY <3>1, <3>2
  <2> QED
    BY <2>8 DEF ContentKept
<1>13. ASSUME NEW t \in Threads, LoopReturn(t)
      PROVE  ContentKept'
  <2>1. /\ meta' = meta /\ index' = index /\ hostData' = hostData /\ fileData' = fileData
        /\ content' = content /\ expected' = expected
    BY <1>13 DEF LoopReturn, maps, backups, client, device
  <2> QED
    BY <1>0, <2>1, KeptPages DEF KeepsPage, SameBackup
<1>14. ASSUME NEW t \in Threads, NEW tagFilter \in Tags \cup {Null}, Resume(t, tagFilter)
      PROVE  ContentKept'
  <2>1. /\ meta' = meta /\ index' = index /\ hostData' = hostData /\ fileData' = fileData
        /\ content' = content /\ expected' = expected
    BY <1>14 DEF Resume, maps, backups, client, device
  <2> QED
    BY <1>0, <2>1, KeptPages DEF KeepsPage, SameBackup
<1>15. ASSUME NEW t \in Threads, NEW l \in todo, ResumeEntry(t, l)
      PROVE  ContentKept'
  <2>0. l \in Tracked /\ pc[t] = "r_loop" /\ KeepShared(hostData)
    BY <1>15, <1>0, EntryInLoop DEF ResumeEntry
  <2>1. PICK h \in Unused, n \in VMMAllocationMetadata :
           /\ ResumedAs(l, n, h)
           /\ phys' = phys \cup {h}
           /\ mapping' = [mapping EXCEPT ![meta[l].ptr] = h]
           /\ content' = [content EXCEPT ![h] = BackedUp(meta[l])]
    BY <1>15, <1>0, <2>0, ResumeEntryEffect
  <2>2. /\ Tracked' = Tracked /\ meta'[l] = n /\ \A k \in Tracked : k # l => meta'[k] = meta[k]
        /\ n.backup = meta[l].backup /\ n.state = "ACTIVE" /\ n.cpu_backup = Null
        /\ n.physical_handle = h
    BY <1>0, <2>1, ReplacedFields DEF ResumedAs
  <2>3. /\ meta[l].state = "PAUSED" /\ meta[l].ptr # Null
        /\ UNCHANGED <<index, fileData, expected>>
    BY <1>15 DEF ResumeEntry, client
  <2>4. PICK p \in Pages : p = meta[l].ptr /\ index[p] = l /\ index[p] # Null
    BY <1>0, <2>0, <2>3, PageOfEntry, ExpandableAssumption
  <2>5. content'[h] = BackedUp(meta[l])
    BY <1>0, <2>1 DEF TypeOK, Unused
  <2>6. ASSUME expected[p] # Junk
        PROVE  HoldsContent(p, expected[p])'
    <3>1. HoldsContent(p, expected[p])
      BY <1>0, <2>6 DEF ContentKept
    <3>2. CASE meta[l].backup = "cpu"
      <4>1. meta[l].cpu_backup # Null
        BY <1>0, <2>0, <2>3, <3>2 DEF BufferInv
      <4>2. BackedUp(meta[l]) = expected[p]
        BY <2>3, <2>4, <3>1, <3>2, <4>1 DEF HoldsContent, BackedUp
      <4> QED
        BY <2>2, <2>3, <2>4, <2>5, <4>2 DEF HoldsContent
    <3>3. CASE meta[l].backup # "cpu"
      <4>1. meta[l].backup = "disk" /\ fileData[meta[l].disk] = expected[p]
        BY <2>3, <2>4, <3>1, <3>3 DEF HoldsContent
      <4>2. meta[l].cpu_backup = Null /\ meta[l].disk # Null
        BY <1>0, <2>0, <2>3, <3>3, <4>1 DEF BufferInv, SlotInv
      <4>3. BackedUp(meta[l]) = expected[p]
        BY <4>1, <4>2 DEF BackedUp
      <4> QED
        BY <2>2, <2>3, <2>4, <2>5, <4>3 DEF HoldsContent
    <3> QED
      BY <3>2, <3>3
  <2>7. ASSUME NEW q \in Pages, q # p, index[q] # Null
        PROVE  KeepsPage(q)
    <3>1. /\ index[q] \in Tracked /\ index[q] \in Tracked' /\ index[q] # l
          /\ meta'[index[q]] = meta[index[q]]
      BY <1>0, <2>2, <2>4, <2>7, EntryAtPage
    <3>2. meta[index[q]].state = "ACTIVE" =>
             content'[meta[index[q]].physical_handle] = content[meta[index[q]].physical_handle]
      BY <1>0, <2>1, <3>1, OtherUnit DEF Unused
    <3>3. meta[index[q]].backup = "cpu" /\ meta[index[q]].state # "ACTIVE" =>
             hostData'[meta[index[q]].cpu_backup] = hostData[meta[index[q]].cpu_backup]
      BY <1>0, <2>0, <3>1, PausedHasBackup, SharedKept
    <3> QED
      BY <2>3, <2>7, <3>1, <3>2, <3>3, UnchangedPage
  <2>8. ASSUME NEW q \in Pages, expected[q] # Junk
        PROVE  index[q] # Null /\ HoldsContent(q, expected[q])'
    <3>1. index[q] # Null /\ HoldsContent(q, expected[q])
      BY <1>0, <2>8 DEF ContentKept
    <3>2. CASE q = p
      BY <2>6, <2>8, <3>1, <3>2
    <3>3. CASE q # p
      BY <2>3, <2>7, <3>1, <3>3 DEF HoldsContent, KeepsPage, SameBackup
    <3> QED
      BY <3>2, <3>3
  <2> QED
    BY <2>3, <2>8 DEF ContentKept
<1>16. ASSUME NEW t \in Threads, NEW first \in Pages, NEW size \in 1 .. NumPages, QueryFound(t, first, size)
      PROVE  ContentKept'
  <2>1. /\ meta' = meta /\ index' = index /\ hostData' = hostData /\ fileData' = fileData
        /\ content' = content /\ expected' = expected
    BY <1>16 DEF QueryFound, maps, backups, client, device
  <2> QED
    BY <1>0, <2>1, KeptPages DEF KeepsPage, SameBackup
<1>17. ASSUME NEW t \in Threads, QueryDone(t)
      PROVE  ContentKept'
  <2>1. /\ meta' = meta /\ index' = index /\ hostData' = hostData /\ fileData' = fileData
        /\ content' = content /\ expected' = expected
    BY <1>17 DEF QueryDone, maps, backups, client, device
  <2> QED
    BY <1>0, <2>1, KeptPages DEF KeepsPage, SameBackup
<1>18. ASSUME NEW p \in Pages, NEW v \in Values, Write(p, v)
      PROVE  ContentKept'
  <2>1. /\ UNCHANGED <<meta, index, hostData, fileData>> /\ index[p] # Null /\ mapping[p] # Null
        /\ content' = [content EXCEPT ![mapping[p]] = v] /\ expected' = [expected EXCEPT ![p] = v]
    BY <1>18 DEF Write, maps, backups
  <2>2. /\ meta[index[p]].state = "ACTIVE" /\ index[p] \in Tracked
        /\ mapping[p] = meta[index[p]].physical_handle /\ mapping[p] \in Units
    BY <1>0, <2>1, EntryAtPage
  <2>3. HoldsContent(p, v)' /\ expected'[p] = v
    BY <1>0, <2>1, <2>2 DEF HoldsContent, TypeOK
  <2>4. ASSUME NEW q \in Pages, q # p, index[q] # Null
        PROVE  KeepsPage(q) /\ expected'[q] = expected[q]
    <3>1. index[q] \in Tracked /\ index[q] # index[p]
      BY <1>0, <2>1, <2>4, EntryAtPage
    <3>2. meta[index[q]].state = "ACTIVE" =>
             content'[meta[index[q]].physical_handle] = content[meta[index[q]].physical_handle]
      BY <1>0, <2>1, <2>2, <3>1, OtherUnit
    <3> QED
      BY <1>0, <2>1, <2>4, <3>2, UnchangedPage DEF TypeOK
  <2>5. ASSUME NEW q \in Pages, q # p, expected'[q] # Junk
        PROVE  index'[q] # Null /\ HoldsContent(q, expected[q])' /\ expected'[q] = expected[q]
    <3>1. expected'[q] = expected[q] /\ expected[q] # Junk
      BY <1>0, <2>1, <2>5 DEF TypeOK
    <3>2. index[q] # Null /\ HoldsContent(q, expected[q])
      BY <1>0, <3>1 DEF ContentKept
    <3> QED
      BY <2>1, <2>4, <2>5, <3>1, <3>2 DEF HoldsContent, KeepsPage, SameBackup
  <2>6. ASSUME NEW q \in Pages, expected'[q] # Junk
        PROVE  index'[q] # Null /\ HoldsContent(q, expected[q])'
    <3>1. CASE q = p
      BY <2>1, <2>3, <3>1 DEF HoldsContent
    <3>2. CASE q # p
      BY <2>5, <2>6, <3>2
    <3> QED
      BY <3>1, <3>2
  <2> QED
    BY <2>6 DEF ContentKept
<1>19. ASSUME Leaves PROVE ContentKept'
  <2>1. /\ meta' = meta /\ index' = index /\ hostData' = hostData /\ fileData' = fileData
        /\ content' = content /\ expected' = expected
    BY <1>19 DEF Leaves, Exit, maps, backups, client, device
  <2> QED
    BY <1>0, <2>1, KeptPages DEF KeepsPage, SameBackup
<1>20. CASE UNCHANGED vars
  <2>1. /\ meta' = meta /\ index' = index /\ hostData' = hostData /\ fileData' = fileData
        /\ content' = content /\ expected' = expected
    BY <1>20 DEF vars, maps, backups, client, device
  <2> QED
    BY <1>0, <2>1, KeptPages DEF KeepsPage, SameBackup
<1>21. QED
  BY <1>1, <1>2, <1>3, <1>4, <1>5, <1>6, <1>7, <1>8, <1>9, <1>10, <1>11,
     <1>12, <1>13, <1>14, <1>15, <1>16, <1>17, <1>18, <1>19, <1>20, StepCases

------------------------------------------------------------------------------
(* What the readers see *)

\* A page p of a view is after a step what it was before.
SeenAs(p) ==
    LET m == meta[index[p]]  n == meta'[index'[p]] IN
    /\ index'[p] # Null
    /\ n.state = m.state /\ n.tag = m.tag /\ SameBackup(m, n)

\* A page of a view is read by the one who holds the view.
LEMMA ViewReaders ==
  ASSUME TypeOK, ViewInv, NEW t \in Threads, pc[t] = "q_read", NEW i \in 0 .. view[t].size - 1
  PROVE  /\ view[t] \in View
         /\ view[t].page + i \in Pages /\ Readers(view[t].page + i) # {}
<1>1. view[t] \in View
  BY DEF TypeOK, ViewInv
<1>2. view[t].page \in Nat /\ view[t].size \in Nat
  BY <1>1, ExpandableAssumption DEF View, Pages
<1>3. view[t].page + i \in view[t].page .. view[t].page + view[t].size - 1
  BY <1>2
<1>4. t \in Readers(view[t].page + i)
  BY <1>3 DEF Readers
<1> QED
  BY <1>1, <1>4 DEF ViewInv

\* No view changes, and no resume begins.
LEMMA SameViews ==
  ASSUME TypeOK, ViewInv,
         \A t \in Threads : pc'[t] = "q_read" => pc[t] = "q_read" /\ view'[t] = view[t],
         \A u \in Threads : pc'[u] = "r_loop" => pc[u] = "r_loop" /\ filter'[u] = filter[u],
         \A p \in Pages : /\ Readers(p) # {} /\ index[p] # Null /\ meta[index[p]].state = "PAUSED"
                          /\ \A u \in Threads : pc[u] = "r_loop" => ~Matches(meta[index[p]], filter[u])
                          => SeenAs(p)
  PROVE  ViewInv'
<1> SUFFICES ASSUME NEW t \in Threads, pc'[t] = "q_read"
             PROVE  /\ view'[t] # Null
                    /\ \A i \in 0 .. view'[t].size - 1 :
                          LET p == view'[t].page + i  m == meta'[index'[p]] IN
                          /\ p \in Pages /\ index'[p] # Null
                          /\ m.state = "PAUSED"
                          /\ m.cpu_backup = view'[t].buf /\ m.cpu_backup_offset = view'[t].offset + i
                          /\ \A u \in Threads : pc'[u] = "r_loop" => ~Matches(m, filter'[u])
  BY DEF ViewInv, Matches
<1>1. pc[t] = "q_read" /\ view'[t] = view[t] /\ view[t] # Null
  BY DEF ViewInv
<1>2. ASSUME NEW i \in 0 .. view[t].size - 1
      PROVE  LET p == view[t].page + i  m == meta'[index'[p]] IN
             /\ p \in Pages /\ index'[p] # Null
             /\ m.state = "PAUSED"
             /\ m.cpu_backup = view[t].buf /\ m.cpu_backup_offset = view[t].offset + i
             /\ \A u \in Threads : pc'[u] = "r_loop" => ~Matches(m, filter'[u])
  <2> DEFINE p == view[t].page + i
             m == meta[index[p]]
  <2>1. p \in Pages /\ Readers(p) # {}
    BY <1>1, ViewReaders
  <2>2. /\ index[p] # Null /\ m.state = "PAUSED"
        /\ m.cpu_backup = view[t].buf /\ m.cpu_backup_offset = view[t].offset + i
        /\ \A u \in Threads : pc[u] = "r_loop" => ~Matches(m, filter[u])
    BY <1>1 DEF ViewInv
  <2>3. SeenAs(p)
    BY <2>1, <2>2
  <2>4. ASSUME NEW u \in Threads, pc'[u] = "r_loop"
        PROVE  ~Matches(meta'[index'[p]], filter'[u])
    BY <2>2, <2>3, <2>4 DEF SeenAs, Matches
  <2> QED
    BY <2>1, <2>2, <2>3, <2>4 DEF SeenAs, SameBackup
<1> QED
  BY <1>1, <1>2

\* The pages of a view stay as the reader found them.
LEMMA ViewStep ==
  ASSUME IInv, [Next]_vars
  PROVE  ViewInv'
<1>0. /\ CoreInv /\ TypeOK /\ MapsAgree /\ LoopInv /\ LocalInv
      /\ BufferInv /\ FirstLoopInv /\ RunsInv /\ CopyInv /\ ContentKept /\ ViewInv /\ SlotInv
      /\ Tracked \subseteq Logical
      /\ pc \in [Threads -> {"idle", "c_register", "p_backup", "p_release", "r_loop", "q_read"}]
  BY DEF CoreInv, IInv, BackupInv, Tracked, TypeOK
<1>1. ASSUME NEW t \in Threads, NEW tag \in Tags, NEW backup \in BackupModes, VmmCreate(t, tag, backup)
      PROVE  ViewInv'
  <2>1. meta' = meta /\ index' = index
    BY <1>1 DEF VmmCreate, maps
  <2>2. \A q \in Pages : index[q] # Null => SeenAs(q)
    BY <2>1 DEF SeenAs, SameBackup
  <2>3. /\ \A u \in Threads : pc'[u] = "q_read" => pc[u] = "q_read" /\ view'[u] = view[u]
        /\ \A u \in Threads : pc'[u] = "r_loop" => pc[u] = "r_loop" /\ filter'[u] = filter[u]
    BY <1>1, <1>0 DEF VmmCreate, local
  <2> QED
    BY <1>0, <2>2, <2>3, SameViews
<1>2. ASSUME NEW t \in Threads, VmmRegister(t)
      PROVE  ViewInv'
  <2>1. PICK l \in Logical \ Tracked : meta' = [meta EXCEPT ![l] = made[t]]
    BY <1>2 DEF VmmRegister
  <2>2. made[t] # Null /\ made[t].state = "ACTIVE"
    BY <1>2, <1>0 DEF VmmRegister, LocalInv
  <2>3. /\ Tracked' = Tracked \cup {l} /\ meta'[l] = made[t]
        /\ \A k \in Tracked : meta'[k] = meta[k]
    BY <1>0, <2>1, <2>2 DEF Tracked, TypeOK
  <2>4. \A q \in Pages : index[q] # Null => index'[q] = index[q] /\ meta'[index[q]] = meta[index[q]]
    BY <1>2, <1>0, <2>3, EntryAtPage DEF VmmRegister
  <2>5. \A q \in Pages : index[q] # Null => SeenAs(q)
    BY <2>4 DEF SeenAs, SameBackup
  <2>6. /\ \A u \in Threads : pc'[u] = "q_read" => pc[u] = "q_read" /\ view'[u] = view[u]
        /\ \A u \in Threads : pc'[u] = "r_loop" => pc[u] = "r_loop" /\ filter'[u] = filter[u]
    BY <1>2, <1>0 DEF VmmRegister, local
  <2> QED
    BY <1>0, <2>5, <2>6, SameViews
<1>3. ASSUME NEW l \in Logical, NEW p \in Pages, VmmMap(l, p)
      PROVE  ViewInv'
  <2>1. PICK n \in VMMAllocationMetadata : MappedAs(l, p, n)
    BY <1>3, <1>0, VmmMapEffect
  <2>2. /\ Tracked' = Tracked /\ l \in Tracked /\ meta'[l] = n
        /\ \A k \in Tracked : k # l => meta'[k] = meta[k]
        /\ n.tag = meta[l].tag /\ n.backup = meta[l].backup /\ n.state = meta[l].state
        /\ n.cpu_backup = meta[l].cpu_backup /\ n.disk = meta[l].disk
    BY <1>0, <2>1, ReplacedFields DEF MappedAs, SameBackup
  <2>3. index' = [index EXCEPT ![p] = l] /\ meta[l].ptr = Null /\ index[p] = Null
    BY <1>3 DEF VmmMap
  <2>4. \A q \in Pages : index[q] # Null => index[q] \in Tracked /\ index[q] # l
    BY <1>0, <2>3, EntryAtPage, ExpandableAssumption
  <2>5. \A q \in Pages : index[q] # Null => SeenAs(q)
    BY <1>0, <2>2, <2>3, <2>4 DEF TypeOK, SeenAs, SameBackup
  <2>6. /\ \A u \in Threads : pc'[u] = "q_read" => pc[u] = "q_read" /\ view'[u] = view[u]
        /\ \A u \in Threads : pc'[u] = "r_loop" => pc[u] = "r_loop" /\ filter'[u] = filter[u]
    BY <1>3, <1>0 DEF VmmMap, local
  <2> QED
    BY <1>0, <2>5, <2>6, SameViews
<1>4. ASSUME NEW first \in Pages, NEW last \in Pages, NEW dev \in Devices, VmmSetAccess(first, last, dev)
      PROVE  ViewInv'
  <2>2. /\ Tracked' = Tracked
        /\ \A l \in Tracked : SameHandle(meta[l], meta'[l]) /\ SameBackup(meta[l], meta'[l])
    BY <1>4, <1>0, VmmSetAccessEffect
  <2>3. \A q \in Pages : index[q] # Null => index[q] \in Tracked
    BY <1>0, EntryAtPage
  <2>4. index' = index
    BY <1>4 DEF VmmSetAccess
  <2>5. \A q \in Pages : index[q] # Null => SeenAs(q)
    BY <2>2, <2>3, <2>4 DEF SeenAs, SameHandle
  <2>6. /\ \A u \in Threads : pc'[u] = "q_read" => pc[u] = "q_read" /\ view'[u] = view[u]
        /\ \A u \in Threads : pc'[u] = "r_loop" => pc[u] = "r_loop" /\ filter'[u] = filter[u]
    BY <1>4, <1>0 DEF VmmSetAccess, local
  <2> QED
    BY <1>0, <2>5, <2>6, SameViews
<1>5. ASSUME NEW p \in Pages, VmmUnmap(p)
      PROVE  ViewInv'
  <2>1. PICK n \in VMMAllocationMetadata : UnmappedAs(index[p], n)
    BY <1>5, <1>0, VmmUnmapEffect
  <2>2. /\ Tracked' = Tracked /\ index[p] \in Tracked /\ meta'[index[p]] = n
        /\ \A k \in Tracked : k # index[p] => meta'[k] = meta[k]
        /\ n.backup = meta[index[p]].backup /\ n.state = meta[index[p]].state
        /\ n.disk = meta[index[p]].disk
    BY <1>0, <2>1, ReplacedFields DEF UnmappedAs, SameBackup
  <2>3. index' = [index EXCEPT ![p] = Null] /\ Readers(p) = {}
    BY <1>5 DEF VmmUnmap, UnmappedEntry
  <2>4. \A q \in Pages : index[q] # Null => index[q] \in Tracked /\ meta[index[q]].ptr = q
    BY <1>0, EntryAtPage
  <2>5. \A q \in Pages : q # p /\ index[q] # Null => index'[q] = index[q] /\ meta'[index[q]] = meta[index[q]]
    BY <1>5, <1>0, <2>2, <2>3, <2>4, EntryAtPage DEF TypeOK, VmmUnmap
  <2>6. \A q \in Pages : Readers(q) # {} /\ index[q] # Null => SeenAs(q)
    BY <2>3, <2>5 DEF SeenAs, SameBackup
  <2>7. /\ \A u \in Threads : pc'[u] = "q_read" => pc[u] = "q_read" /\ view'[u] = view[u]
        /\ \A u \in Threads : pc'[u] = "r_loop" => pc[u] = "r_loop" /\ filter'[u] = filter[u]
    BY <1>5, <1>0 DEF VmmUnmap, local
  <2> QED
    BY <1>0, <2>6, <2>7, SameViews
<1>6. ASSUME NEW l \in Logical, VmmRelease(l)
      PROVE  ViewInv'
  <2>1. /\ l \in Tracked /\ meta[l].ptr = Null /\ meta' = [meta EXCEPT ![l] = Null]
    BY <1>6 DEF VmmRelease
  <2>2. Tracked' = Tracked \ {l} /\ \A k \in Tracked' : meta'[k] = meta[k]
    BY <1>0, <2>1 DEF Tracked, TypeOK
  <2>3. \A q \in Pages : index[q] # Null => index[q] \in Tracked /\ index[q] # l
    BY <1>0, <2>1, EntryAtPage, ExpandableAssumption
  <2>4. index' = index
    BY <1>6 DEF VmmRelease
  <2>5. \A q \in Pages : index[q] # Null => SeenAs(q)
    BY <2>2, <2>3, <2>4 DEF SeenAs, SameBackup
  <2>6. /\ \A u \in Threads : pc'[u] = "q_read" => pc[u] = "q_read" /\ view'[u] = view[u]
        /\ \A u \in Threads : pc'[u] = "r_loop" => pc[u] = "r_loop" /\ filter'[u] = filter[u]
    BY <1>6, <1>0 DEF VmmRelease, local
  <2> QED
    BY <1>0, <2>5, <2>6, SameViews
<1>7. ASSUME NEW p \in Pages, UntrackedMap(p)
      PROVE  ViewInv'
  <2>1. meta' = meta /\ index' = index
    BY <1>7 DEF UntrackedMap, maps
  <2>2. \A q \in Pages : index[q] # Null => SeenAs(q)
    BY <2>1 DEF SeenAs, SameBackup
  <2>3. /\ \A u \in Threads : pc'[u] = "q_read" => pc[u] = "q_read" /\ view'[u] = view[u]
        /\ \A u \in Threads : pc'[u] = "r_loop" => pc[u] = "r_loop" /\ filter'[u] = filter[u]
    BY <1>7, <1>0 DEF UntrackedMap, local
  <2> QED
    BY <1>0, <2>2, <2>3, SameViews
<1>8. ASSUME NEW p \in Pages, UntrackedUnmap(p)
      PROVE  ViewInv'
  <2>1. meta' = meta /\ index' = index
    BY <1>8 DEF UntrackedUnmap, maps
  <2>2. \A q \in Pages : index[q] # Null => SeenAs(q)
    BY <2>1 DEF SeenAs, SameBackup
  <2>3. /\ \A u \in Threads : pc'[u] = "q_read" => pc[u] = "q_read" /\ view'[u] = view[u]
        /\ \A u \in Threads : pc'[u] = "r_loop" => pc[u] = "r_loop" /\ filter'[u] = filter[u]
    BY <1>8, <1>0 DEF UntrackedUnmap, local
  <2> QED
    BY <1>0, <2>2, <2>3, SameViews
<1>9. ASSUME NEW t \in Threads, NEW tagFilter \in Tags \cup {Null}, Pause(t, tagFilter)
      PROVE  ViewInv'
  <2>1. meta' = meta /\ index' = index
    BY <1>9 DEF Pause, maps
  <2>2. \A q \in Pages : index[q] # Null => SeenAs(q)
    BY <2>1 DEF SeenAs, SameBackup
  <2>3. /\ \A u \in Threads : pc'[u] = "q_read" => pc[u] = "q_read" /\ view'[u] = view[u]
        /\ \A u \in Threads : pc'[u] = "r_loop" => pc[u] = "r_loop" /\ filter'[u] = filter[u]
    BY <1>9, <1>0, LoopHolder DEF InLoop, Pause, local
  <2> QED
    BY <1>0, <2>2, <2>3, SameViews
<1>10. ASSUME NEW t \in Threads, BackUpRun(t)
      PROVE  ViewInv'
  <2>1. PICK first \in toBackUp, b \in Bufs :
           /\ ~InUse(b)
           /\ \A p \in toBackUp : first <= p
           /\ meta[index[first]].state = "ACTIVE"
           /\ \A l \in Tracked : meta[l].ptr \in Run(first) =>
                 meta'[l].cpu_backup = b /\ meta'[l].cpu_backup_offset = meta[l].ptr - first
           /\ \A l \in Tracked : meta[l].ptr \notin Run(first) => meta'[l] = meta[l]
           /\ \A c \in Bufs : c # b => hostData'[c] = hostData[c] \/ ~InUse(c)'
           /\ InUse(b)' => \A p \in Run(first) : hostData'[b][p - first] = content[mapping[p]]
    BY <1>10, <1>0, BackUpRunCopies
  <2>2. /\ Tracked' = Tracked
        /\ \A l \in Tracked : SameHandle(meta[l], meta'[l])
    BY <1>10, <1>0, BackUpRunEffect
  <2>3. UNCHANGED <<pc, filter, index, expected, content, fileData>> /\ pc[t] = "p_backup"
    BY <1>10 DEF BackUpRun, local, device, client
  <2>4. \A p \in Pages : index[p] # Null => index[p] \in Tracked /\ meta[index[p]].ptr = p
    BY <1>0, EntryAtPage
  <2>5. \A p \in Pages \ Run(first) : index[p] # Null => meta'[index[p]] = meta[index[p]]
    BY <2>1, <2>4
  <2>6. ASSUME NEW q \in Pages, index[q] # Null, meta[index[q]].state = "PAUSED"
        PROVE  SeenAs(q)
    <3>1. meta'[index[q]] = meta[index[q]]
      BY <1>0, <2>1, <2>3, <2>5, <2>6, RunEntries
    <3> QED
      BY <2>3, <2>6, <3>1 DEF SeenAs, SameBackup
  <2>7. /\ \A u \in Threads : pc'[u] = "q_read" => pc[u] = "q_read" /\ view'[u] = view[u]
        /\ \A u \in Threads : pc'[u] = "r_loop" => pc[u] = "r_loop" /\ filter'[u] = filter[u]
    BY <1>10, <1>0 DEF BackUpRun, local
  <2> QED
    BY <1>0, <2>6, <2>7, SameViews
<1>11. ASSUME NEW t \in Threads, BackUpDone(t)
      PROVE  ViewInv'
  <2>1. meta' = meta /\ index' = index
    BY <1>11 DEF BackUpDone, maps
  <2>2. \A q \in Pages : index[q] # Null => SeenAs(q)
    BY <2>1 DEF SeenAs, SameBackup
  <2>3. /\ \A u \in Threads : pc'[u] = "q_read" => pc[u] = "q_read" /\ view'[u] = view[u]
        /\ \A u \in Threads : pc'[u] = "r_loop" => pc[u] = "r_loop" /\ filter'[u] = filter[u]
    BY <1>11, <1>0 DEF BackUpDone, local
  <2> QED
    BY <1>0, <2>2, <2>3, SameViews
<1>12. ASSUME NEW t \in Threads, NEW l \in todo, PauseEntry(t, l)
      PROVE  ViewInv'
  <2>0. l \in Tracked
    BY <1>0, EntryInLoop
  <2>1. PICK f \in SlotFiles(meta[l]), n \in VMMAllocationMetadata :
           /\ PausedAs(l, n, f)
           /\ f \in Files \cup {Null}
           /\ fileData' = [g \in Files |-> IF meta[l].backup = "disk" /\ g = f
                                           THEN content[mapping[meta[l].ptr]] ELSE fileData[g]]
    BY <1>12, <1>0, <2>0, PauseEntryEffect
  <2>2. /\ Tracked' = Tracked /\ meta'[l] = n /\ \A k \in Tracked : k # l => meta'[k] = meta[k]
        /\ n.backup = meta[l].backup /\ n.tag = meta[l].tag /\ n.state = "PAUSED" /\ n.disk = f
        /\ n.cpu_backup = meta[l].cpu_backup /\ n.cpu_backup_offset = meta[l].cpu_backup_offset
    BY <1>0, <2>1, ReplacedFields DEF PausedAs, SameBackup
  <2>3. meta[l].state = "ACTIVE" /\ index' = index
    BY <1>12 DEF PauseEntry
  <2>4. ASSUME NEW q \in Pages, index[q] # Null, meta[index[q]].state = "PAUSED"
        PROVE  SeenAs(q)
    <3>1. index[q] \in Tracked /\ meta'[index[q]] = meta[index[q]]
      BY <1>0, <2>2, <2>3, <2>4, EntryAtPage
    <3> QED
      BY <2>3, <2>4, <3>1 DEF SeenAs, SameBackup
  <2>5. /\ \A u \in Threads : pc'[u] = "q_read" => pc[u] = "q_read" /\ view'[u] = view[u]
        /\ \A u \in Threads : pc'[u] = "r_loop" => pc[u] = "r_loop" /\ filter'[u] = filter[u]
    BY <1>12, <1>0 DEF PauseEntry, local
  <2> QED
    BY <1>0, <2>4, <2>5, SameViews
<1>13. ASSUME NEW t \in Threads, LoopReturn(t)
      PROVE  ViewInv'
  <2>1. meta' = meta /\ index' = index
    BY <1>13 DEF LoopReturn, maps
  <2>2. \A q \in Pages : index[q] # Null => SeenAs(q)
    BY <2>1 DEF SeenAs, SameBackup
  <2>3. /\ \A u \in Threads : pc'[u] = "q_read" => pc[u] = "q_read" /\ view'[u] = view[u]
        /\ \A u \in Threads : pc'[u] = "r_loop" => pc[u] = "r_loop" /\ filter'[u] = filter[u]
    BY <1>13, <1>0 DEF LoopReturn, local
  <2> QED
    BY <1>0, <2>2, <2>3, SameViews
<1>14. ASSUME NEW t \in Threads, NEW tagFilter \in Tags \cup {Null}, Resume(t, tagFilter)
      PROVE  ViewInv'
  <2>1. /\ UNCHANGED <<meta, index, view>> /\ pc' = [pc EXCEPT ![t] = "r_loop"]
        /\ filter' = [filter EXCEPT ![t] = tagFilter] /\ mutex = Null
        /\ \A q \in Pages : Readers(q) # {} => ~Matches(meta[index[q]], tagFilter)
    BY <1>14 DEF Resume, maps
  <2>2. /\ \A u \in Threads : pc'[u] = "q_read" => pc[u] = "q_read"
        /\ \A u \in Threads : pc'[u] = "r_loop" => filter'[u] = tagFilter
    BY <1>0, <2>1, LoopHolder DEF InLoop, TypeOK
  <2>3. ASSUME NEW u \in Threads, pc[u] = "q_read", NEW i \in 0 .. view[u].size - 1
        PROVE  ~Matches(meta[index[view[u].page + i]], tagFilter)
    BY <1>0, <2>1, <2>3, ViewReaders
  <2> QED
    BY <1>0, <2>1, <2>2, <2>3 DEF ViewInv, Matches
<1>15. ASSUME NEW t \in Threads, NEW l \in todo, ResumeEntry(t, l)
      PROVE  ViewInv'
  <2>0. l \in Tracked /\ pc[t] = "r_loop" /\ KeepShared(hostData)
    BY <1>15, <1>0, EntryInLoop DEF ResumeEntry
  <2>1. PICK h \in Unused, n \in VMMAllocationMetadata :
           /\ ResumedAs(l, n, h)
           /\ phys' = phys \cup {h}
           /\ mapping' = [mapping EXCEPT ![meta[l].ptr] = h]
           /\ content' = [content EXCEPT ![h] = BackedUp(meta[l])]
    BY <1>15, <1>0, <2>0, ResumeEntryEffect
  <2>2. /\ Tracked' = Tracked /\ meta'[l] = n /\ \A k \in Tracked : k # l => meta'[k] = meta[k]
        /\ n.backup = meta[l].backup /\ n.state = "ACTIVE" /\ n.cpu_backup = Null
        /\ n.physical_handle = h
    BY <1>0, <2>1, ReplacedFields DEF ResumedAs
  <2>3. index' = index /\ Matches(meta[l], filter[t])
    BY <1>15, <1>0, <2>0 DEF ResumeEntry, LoopInv, InLoop
  <2>4. ASSUME NEW q \in Pages, index[q] # Null,
               \A u \in Threads : pc[u] = "r_loop" => ~Matches(meta[index[q]], filter[u])
        PROVE  SeenAs(q)
    <3>1. index[q] \in Tracked /\ meta'[index[q]] = meta[index[q]]
      BY <1>0, <2>0, <2>2, <2>3, <2>4, EntryAtPage
    <3> QED
      BY <2>3, <2>4, <3>1 DEF SeenAs, SameBackup
  <2>5. /\ \A u \in Threads : pc'[u] = "q_read" => pc[u] = "q_read" /\ view'[u] = view[u]
        /\ \A u \in Threads : pc'[u] = "r_loop" => pc[u] = "r_loop" /\ filter'[u] = filter[u]
    BY <1>15, <1>0 DEF ResumeEntry, local
  <2> QED
    BY <1>0, <2>4, <2>5, SameViews
<1>16. ASSUME NEW t \in Threads, NEW first \in Pages, NEW size \in 1 .. NumPages, QueryFound(t, first, size)
      PROVE  ViewInv'
  <2> DEFINE m == meta[index[first]]
             seen == [page |-> first, size |-> size, buf |-> m.cpu_backup,
                      offset |-> m.cpu_backup_offset]
  <2>1. /\ UNCHANGED <<meta, index, filter>> /\ pc' = [pc EXCEPT ![t] = "q_read"] /\ mutex = Null
        /\ view' = [view EXCEPT ![t] = seen]
        /\ Tensor(first, size) /\ m.state = "PAUSED" /\ (size > 1 => OneBuffer(first, size))
    BY <1>16 DEF QueryFound, maps, HasCopy
  <2>2. /\ \A u \in Threads : pc'[u] # "r_loop"
        /\ \A u \in Threads : u # t => pc'[u] = pc[u]
        /\ pc'[t] = "q_read"
    BY <1>0, <2>1, LoopHolder DEF InLoop, TypeOK
  <2>3. \A u \in Threads : view'[u] = IF u = t THEN seen ELSE view[u]
    BY <1>0, <2>1 DEF TypeOK
  <2>4. seen # Null
    <3>1. first \in first .. first + size - 1
      BY ExpandableAssumption DEF Pages
    <3>2. m \in VMMAllocationMetadata
      BY <1>0, <2>1, <3>1, EntryAtPage DEF Tensor
    <3>3. m.cpu_backup \in Bufs /\ m.cpu_backup_offset \in Pages
      BY <1>16, <3>2 DEF QueryFound, VMMAllocationMetadata
    <3>4. seen \in View
      BY <3>3 DEF View
    <3> QED
      BY <3>4, ExpandableAssumption
  <2>5. ASSUME NEW i \in 0 .. size - 1
        PROVE  /\ first + i \in Pages /\ index[first + i] # Null
               /\ meta[index[first + i]].state = "PAUSED"
               /\ meta[index[first + i]].cpu_backup = m.cpu_backup
               /\ meta[index[first + i]].cpu_backup_offset = m.cpu_backup_offset + i
    <3>1. first \in Nat /\ size \in Nat /\ NumPages \in Nat /\ i \in Nat
      BY ExpandableAssumption DEF Pages
    <3>2. first + i \in first .. first + size - 1
      BY <3>1
    <3>3. first + i \in Pages
      BY <2>1, <3>1, <3>2 DEF Tensor, Pages
    <3>4. index[first + i] # Null /\ meta[index[first + i]].state = m.state
      BY <2>1, <3>2 DEF Tensor
    <3>5. CASE i = 0
      <4>1. m.cpu_backup_offset \in Nat
        BY <1>0, <3>1, <3>3, <3>4, <3>5, EntryAtPage, ExpandableAssumption DEF VMMAllocationMetadata, Pages
      <4> QED
        BY <2>1, <3>1, <3>3, <3>4, <3>5, <4>1
    <3>6. CASE i # 0
      <4>1. size > 1 /\ first + i \in first + 1 .. first + size - 1 /\ (first + i) - first = i
        BY <3>1, <3>6
      <4> QED
        BY <2>1, <3>3, <3>4, <4>1 DEF OneBuffer
    <3> QED
      BY <3>5, <3>6
  <2>6. ASSUME NEW u \in Threads, pc'[u] = "q_read"
        PROVE  /\ view'[u] # Null
               /\ \A i \in 0 .. view'[u].size - 1 :
                     LET p == view'[u].page + i  n == meta'[index'[p]] IN
                     /\ p \in Pages /\ index'[p] # Null
                     /\ n.state = "PAUSED"
                     /\ n.cpu_backup = view'[u].buf /\ n.cpu_backup_offset = view'[u].offset + i
    <3>1. CASE u = t
      BY <2>1, <2>3, <2>4, <2>5, <3>1
    <3>2. CASE u # t
      BY <1>0, <2>1, <2>2, <2>3, <2>6, <3>2 DEF ViewInv
    <3> QED
      BY <3>1, <3>2
  <2> QED
    BY <2>2, <2>6 DEF ViewInv, Matches
<1>17. ASSUME NEW t \in Threads, QueryDone(t)
      PROVE  ViewInv'
  <2>1. meta' = meta /\ index' = index
    BY <1>17 DEF QueryDone, maps
  <2>2. \A q \in Pages : index[q] # Null => SeenAs(q)
    BY <2>1 DEF SeenAs, SameBackup
  <2>3. \A u \in Threads : pc'[u] = "q_read" => u # t /\ pc[u] = "q_read" /\ view'[u] = view[u]
    BY <1>17, <1>0 DEF QueryDone, ViewInv
  <2>4. \A u \in Threads : pc'[u] = "r_loop" => pc[u] = "r_loop" /\ filter'[u] = filter[u]
    BY <1>17, <1>0 DEF QueryDone
  <2> QED
    BY <1>0, <2>2, <2>3, <2>4, SameViews
<1>18. ASSUME NEW p \in Pages, NEW v \in Values, Write(p, v)
      PROVE  ViewInv'
  <2>1. meta' = meta /\ index' = index
    BY <1>18 DEF Write, maps
  <2>2. \A q \in Pages : index[q] # Null => SeenAs(q)
    BY <2>1 DEF SeenAs, SameBackup
  <2>3. /\ \A u \in Threads : pc'[u] = "q_read" => pc[u] = "q_read" /\ view'[u] = view[u]
        /\ \A u \in Threads : pc'[u] = "r_loop" => pc[u] = "r_loop" /\ filter'[u] = filter[u]
    BY <1>18, <1>0 DEF Write, local
  <2> QED
    BY <1>0, <2>2, <2>3, SameViews
<1>19. ASSUME Leaves PROVE ViewInv'
  <2>1. meta' = meta /\ index' = index
    BY <1>19 DEF Leaves, Exit, maps
  <2>2. \A q \in Pages : index[q] # Null => SeenAs(q)
    BY <2>1 DEF SeenAs, SameBackup
  <2>3. /\ \A u \in Threads : pc'[u] = "q_read" => pc[u] = "q_read" /\ view'[u] = view[u]
        /\ \A u \in Threads : pc'[u] = "r_loop" => pc[u] = "r_loop" /\ filter'[u] = filter[u]
    BY <1>19, <1>0 DEF Leaves, Exit, local
  <2> QED
    BY <1>0, <2>2, <2>3, SameViews
<1>20. CASE UNCHANGED vars
  <2>1. meta' = meta /\ index' = index
    BY <1>20 DEF vars, maps
  <2>2. \A q \in Pages : index[q] # Null => SeenAs(q)
    BY <2>1 DEF SeenAs, SameBackup
  <2>3. /\ \A u \in Threads : pc'[u] = "q_read" => pc[u] = "q_read" /\ view'[u] = view[u]
        /\ \A u \in Threads : pc'[u] = "r_loop" => pc[u] = "r_loop" /\ filter'[u] = filter[u]
    BY <1>20, <1>0 DEF vars, local
  <2> QED
    BY <1>0, <2>2, <2>3, SameViews
<1>21. QED
  BY <1>1, <1>2, <1>3, <1>4, <1>5, <1>6, <1>7, <1>8, <1>9, <1>10, <1>11,
     <1>12, <1>13, <1>14, <1>15, <1>16, <1>17, <1>18, <1>19, <1>20, StepCases

------------------------------------------------------------------------------
(* The invariant, and what follows from it *)

\* No handle exists when the program starts, and none is backed up.
LEMMA InitBackup ==
  ASSUME Init
  PROVE  BackupInv
<1>1. Tracked = {} /\ \A p \in Pages : index[p] = Null
  BY DEF Init, Tracked
<1>2. BufferInv
  BY <1>1 DEF Init, BufferInv
<1>3. SlotInv /\ FirstLoopInv /\ CopyInv /\ ViewInv
  BY <1>1 DEF Init, SlotInv, FirstLoopInv, CopyInv, ViewInv
<1>4. RunsInv
  <2> SUFFICES ASSUME NEW first \in Pages, NEW last \in Pages, first <= last,
                      BackedUpTogether(first, last)
               PROVE  FALSE
    BY DEF RunsInv
  <2>1. first \in first .. last
    BY ExpandableAssumption DEF Pages
  <2> QED
    BY <1>1, <2>1 DEF BackedUpTogether
<1>5. ContentKept
  BY DEF Init, ContentKept
<1> QED
  BY <1>2, <1>3, <1>4, <1>5 DEF BackupInv

\* CoreInv and BackupInv together are inductive.
LEMMA StepBackup ==
  ASSUME IInv, [Next]_vars
  PROVE  IInv'
<1>1. CoreInv'
  BY StepCore DEF IInv
<1> QED
  BY <1>1, BufferStep, SlotStep, FirstLoopStep, RunsStep, CopyStep, ContentStep, ViewStep DEF IInv, BackupInv

\* IInv holds in every state the program reaches.
THEOREM BackupInvariance == Spec => []IInv
<1>1. Init => IInv
  BY InitCore, InitBackup DEF IInv
<1>2. IInv /\ [Next]_vars => IInv'
  BY StepBackup
<1> QED
  BY <1>1, <1>2, PTL DEF Spec

\* Host memory is held by the handles that are paused with a host backup, and by
\* nobody else, whenever no pause or resume runs.
THEOREM HostMemoryCorrect == Spec => []HostMemoryAccounted
<1>1. ASSUME IInv
      PROVE  HostMemoryAccounted
  <2>1. CoreInv /\ BufferInv
    BY <1>1 DEF IInv, BackupInv
  <2>2. ASSUME mutex = Null, NEW l \in Tracked
        PROVE  meta[l].cpu_backup # Null <=> meta[l].state = "PAUSED" /\ meta[l].backup = "cpu"
    BY <2>1, <2>2, UnlockedPaused DEF BufferInv
  <2> QED
    BY <2>1, <2>2 DEF HostMemoryAccounted, BufferInv
<1> QED
  BY <1>1, BackupInvariance, PTL

\* What the client wrote to a page with a backup is there, or is in its backup,
\* after any sequence of pauses and resumes.
THEOREM ContentPreserved == Spec => []ContentKept
<1>1. IInv => ContentKept
  BY DEF IInv, BackupInv
<1> QED
  BY <1>1, BackupInvariance, PTL

\* A tensor that spans several paused handles has its backup in one piece.
THEOREM TensorWhole == Spec => []TensorInOneBuffer
<1>1. ASSUME IInv
      PROVE  TensorInOneBuffer
  <2>1. CoreInv /\ BufferInv /\ RunsInv
    BY <1>1 DEF IInv, BackupInv
  <2> SUFFICES ASSUME mutex = Null, NEW first \in Pages, NEW size \in 2 .. NumPages,
                      Tensor(first, size), meta[index[first]].backup = "cpu",
                      meta[index[first]].state = "PAUSED",
                      NEW p \in first + 1 .. first + size - 1
               PROVE  /\ meta[index[p]].cpu_backup = meta[index[first]].cpu_backup
                      /\ meta[index[p]].cpu_backup_offset = meta[index[first]].cpu_backup_offset + (p - first)
    BY DEF TensorInOneBuffer, OneBuffer
  <2>2. /\ first \in Nat /\ size \in Nat /\ NumPages \in Nat /\ p \in Nat
        /\ first + size <= NumPages
    BY ExpandableAssumption DEF Pages, Tensor
  <2>3. first <= p /\ p \in Pages
    BY <2>2 DEF Pages
  <2>4. \A q \in first .. p : q \in Pages /\ q \in first .. first + size - 1
    BY <2>2 DEF Pages
  <2>5. ASSUME NEW q \in first .. p
        PROVE  /\ index[q] # Null /\ meta[index[q]].cpu_backup # Null
               /\ meta[index[q]].tag = meta[index[first]].tag
               /\ meta[index[q]].state = meta[index[first]].state
    <3>1. /\ index[q] # Null /\ meta[index[q]].tag = meta[index[first]].tag
          /\ meta[index[q]].backup = "cpu" /\ meta[index[q]].state = "PAUSED"
      BY <2>4 DEF Tensor
    <3>2. index[q] \in Tracked
      BY <2>1, <2>4, <3>1, EntryAtPage
    <3> QED
      BY <2>1, <3>1, <3>2 DEF BufferInv
  <2>6. BackedUpTogether(first, p)
    BY <2>5 DEF BackedUpTogether
  <2> QED
    BY <2>1, <2>3, <2>6 DEF RunsInv
<1> QED
  BY <1>1, BackupInvariance, PTL

\* The view a query returned shows the tensor for as long as it is read.
THEOREM ViewCorrect == Spec => []ViewFaithful
<1>1. ASSUME IInv
      PROVE  ViewFaithful
  <2>1. CoreInv /\ TypeOK /\ ViewInv /\ CopyInv
    BY <1>1 DEF IInv, BackupInv, CoreInv
  <2> SUFFICES ASSUME NEW t \in Threads, pc[t] = "q_read", NEW i \in 0 .. view[t].size - 1,
                      expected[view[t].page + i] # Junk
               PROVE  /\ view[t].offset + i \in Pages
                      /\ hostData[view[t].buf][view[t].offset + i] = expected[view[t].page + i]
    BY DEF ViewFaithful
  <2> DEFINE p == view[t].page + i
             m == meta[index[p]]
  <2>2. /\ p \in Pages /\ index[p] # Null
        /\ m.cpu_backup = view[t].buf /\ m.cpu_backup_offset = view[t].offset + i
    BY <2>1 DEF ViewInv
  <2>3. view[t].buf \in Bufs
    BY <2>1, ViewReaders DEF View
  <2>4. m.cpu_backup_offset \in Pages
    BY <2>1, <2>2, EntryAtPage DEF VMMAllocationMetadata
  <2>5. hostData[m.cpu_backup][m.cpu_backup_offset] = expected[p]
    BY <2>1, <2>2, <2>3, ExpandableAssumption DEF CopyInv
  <2> QED
    BY <2>2, <2>4, <2>5
<1> QED
  BY <1>1, BackupInvariance, PTL

\* The call that holds the lock, for the handles of one tag, leaves the others.
LEMMA LoopKeepsOthers ==
  ASSUME IInv, NEW u \in Threads, mutex = u, filter[u] # Null, [Next]_vars
  PROVE  \A k \in Tracked : meta[k].tag # filter[u] => meta'[k] = meta[k]
<1>0. /\ CoreInv /\ TypeOK /\ MapsAgree /\ LoopInv /\ LocalInv
      /\ BufferInv /\ FirstLoopInv /\ RunsInv /\ CopyInv /\ ContentKept /\ ViewInv /\ SlotInv
      /\ Tracked \subseteq Logical
      /\ pc \in [Threads -> {"idle", "c_register", "p_backup", "p_release", "r_loop", "q_read"}]
  BY DEF CoreInv, IInv, BackupInv, Tracked, TypeOK
<1>1. ASSUME NEW t \in Threads, NEW tag \in Tags, NEW backup \in BackupModes, VmmCreate(t, tag, backup)
      PROVE  \A k \in Tracked : meta[k].tag # filter[u] => meta'[k] = meta[k]
  BY <1>1 DEF VmmCreate, maps
<1>2. ASSUME NEW t \in Threads, VmmRegister(t)
      PROVE  \A k \in Tracked : meta[k].tag # filter[u] => meta'[k] = meta[k]
  BY <1>2, ExpandableAssumption DEF VmmRegister
<1>3. ASSUME NEW l \in Logical, NEW p \in Pages, VmmMap(l, p)
      PROVE  \A k \in Tracked : meta[k].tag # filter[u] => meta'[k] = meta[k]
  BY <1>3, ExpandableAssumption DEF VmmMap
<1>4. ASSUME NEW first \in Pages, NEW last \in Pages, NEW dev \in Devices, VmmSetAccess(first, last, dev)
      PROVE  \A k \in Tracked : meta[k].tag # filter[u] => meta'[k] = meta[k]
  BY <1>4, ExpandableAssumption DEF VmmSetAccess
<1>5. ASSUME NEW p \in Pages, VmmUnmap(p)
      PROVE  \A k \in Tracked : meta[k].tag # filter[u] => meta'[k] = meta[k]
  BY <1>5, ExpandableAssumption DEF VmmUnmap
<1>6. ASSUME NEW l \in Logical, VmmRelease(l)
      PROVE  \A k \in Tracked : meta[k].tag # filter[u] => meta'[k] = meta[k]
  BY <1>6, ExpandableAssumption DEF VmmRelease
<1>7. ASSUME NEW p \in Pages, UntrackedMap(p)
      PROVE  \A k \in Tracked : meta[k].tag # filter[u] => meta'[k] = meta[k]
  BY <1>7 DEF UntrackedMap, maps
<1>8. ASSUME NEW p \in Pages, UntrackedUnmap(p)
      PROVE  \A k \in Tracked : meta[k].tag # filter[u] => meta'[k] = meta[k]
  BY <1>8 DEF UntrackedUnmap, maps
<1>9. ASSUME NEW t \in Threads, NEW tagFilter \in Tags \cup {Null}, Pause(t, tagFilter)
      PROVE  \A k \in Tracked : meta[k].tag # filter[u] => meta'[k] = meta[k]
  BY <1>9 DEF Pause, maps
<1>10. ASSUME NEW t \in Threads, BackUpRun(t)
      PROVE  \A k \in Tracked : meta[k].tag # filter[u] => meta'[k] = meta[k]
  <2>1. PICK first \in toBackUp, b \in Bufs :
           /\ ~InUse(b)
           /\ \A p \in toBackUp : first <= p
           /\ meta[index[first]].state = "ACTIVE"
           /\ \A l \in Tracked : meta[l].ptr \in Run(first) =>
                 meta'[l].cpu_backup = b /\ meta'[l].cpu_backup_offset = meta[l].ptr - first
           /\ \A l \in Tracked : meta[l].ptr \notin Run(first) => meta'[l] = meta[l]
           /\ \A c \in Bufs : c # b => hostData'[c] = hostData[c] \/ ~InUse(c)'
           /\ InUse(b)' => \A p \in Run(first) : hostData'[b][p - first] = content[mapping[p]]
    BY <1>10, <1>0, BackUpRunCopies
  <2>2. /\ Tracked' = Tracked
        /\ \A l \in Tracked : SameHandle(meta[l], meta'[l])
    BY <1>10, <1>0, BackUpRunEffect
  <2>3. UNCHANGED <<pc, filter, index, expected, content, fileData>> /\ pc[t] = "p_backup"
    BY <1>10 DEF BackUpRun, local, device, client
  <2>4. \A p \in Pages : index[p] # Null => index[p] \in Tracked /\ meta[index[p]].ptr = p
    BY <1>0, EntryAtPage
  <2>5. \A p \in Pages \ Run(first) : index[p] # Null => meta'[index[p]] = meta[index[p]]
    BY <2>1, <2>4
  <2>6. u = t
    BY <1>10, <1>0 DEF BackUpRun, LocalInv, InLoop
  <2>7. ASSUME NEW k \in Tracked, meta[k].ptr \in Run(first)
        PROVE  meta[k].tag = filter[u]
    <3>1. /\ meta[k].ptr \in Pages /\ Matches(meta[index[meta[k].ptr]], filter[t])
      BY <1>0, <2>1, <2>3, <2>7, RunEntries
    <3>2. index[meta[k].ptr] = k
      BY <1>0, <3>1, PageOfEntry, ExpandableAssumption
    <3> QED
      BY <2>6, <3>1, <3>2 DEF Matches
  <2> QED
    BY <2>1, <2>7
<1>11. ASSUME NEW t \in Threads, BackUpDone(t)
      PROVE  \A k \in Tracked : meta[k].tag # filter[u] => meta'[k] = meta[k]
  BY <1>11 DEF BackUpDone, maps
<1>12. ASSUME NEW t \in Threads, NEW l \in todo, PauseEntry(t, l)
      PROVE  \A k \in Tracked : meta[k].tag # filter[u] => meta'[k] = meta[k]
  <2>0. l \in Tracked
    BY <1>0, EntryInLoop
  <2>1. PICK f \in SlotFiles(meta[l]), n \in VMMAllocationMetadata :
           /\ PausedAs(l, n, f)
           /\ f \in Files \cup {Null}
           /\ fileData' = [g \in Files |-> IF meta[l].backup = "disk" /\ g = f
                                           THEN content[mapping[meta[l].ptr]] ELSE fileData[g]]
    BY <1>12, <1>0, <2>0, PauseEntryEffect
  <2>2. /\ Tracked' = Tracked /\ meta'[l] = n /\ \A k \in Tracked : k # l => meta'[k] = meta[k]
        /\ n.backup = meta[l].backup /\ n.tag = meta[l].tag /\ n.state = "PAUSED" /\ n.disk = f
        /\ n.cpu_backup = meta[l].cpu_backup /\ n.cpu_backup_offset = meta[l].cpu_backup_offset
    BY <1>0, <2>1, ReplacedFields DEF PausedAs, SameBackup
  <2>3. u = t
    BY <1>12, <1>0 DEF PauseEntry, LocalInv, InLoop
  <2>4. Matches(meta[l], filter[t])
    BY <1>12, <1>0 DEF PauseEntry, LoopInv, InLoop
  <2> QED
    BY <2>2, <2>3, <2>4 DEF Matches
<1>13. ASSUME NEW t \in Threads, LoopReturn(t)
      PROVE  \A k \in Tracked : meta[k].tag # filter[u] => meta'[k] = meta[k]
  BY <1>13 DEF LoopReturn, maps
<1>14. ASSUME NEW t \in Threads, NEW tagFilter \in Tags \cup {Null}, Resume(t, tagFilter)
      PROVE  \A k \in Tracked : meta[k].tag # filter[u] => meta'[k] = meta[k]
  BY <1>14 DEF Resume, maps
<1>15. ASSUME NEW t \in Threads, NEW l \in todo, ResumeEntry(t, l)
      PROVE  \A k \in Tracked : meta[k].tag # filter[u] => meta'[k] = meta[k]
  <2>0. l \in Tracked /\ pc[t] = "r_loop" /\ KeepShared(hostData)
    BY <1>15, <1>0, EntryInLoop DEF ResumeEntry
  <2>1. PICK h \in Unused, n \in VMMAllocationMetadata :
           /\ ResumedAs(l, n, h)
           /\ phys' = phys \cup {h}
           /\ mapping' = [mapping EXCEPT ![meta[l].ptr] = h]
           /\ content' = [content EXCEPT ![h] = BackedUp(meta[l])]
    BY <1>15, <1>0, <2>0, ResumeEntryEffect
  <2>2. /\ Tracked' = Tracked /\ meta'[l] = n /\ \A k \in Tracked : k # l => meta'[k] = meta[k]
        /\ n.backup = meta[l].backup /\ n.state = "ACTIVE" /\ n.cpu_backup = Null
        /\ n.physical_handle = h
    BY <1>0, <2>1, ReplacedFields DEF ResumedAs
  <2>3. u = t
    BY <1>15, <1>0 DEF ResumeEntry, LocalInv, InLoop
  <2>4. Matches(meta[l], filter[t])
    BY <1>15, <1>0 DEF ResumeEntry, LoopInv, InLoop
  <2> QED
    BY <2>2, <2>3, <2>4 DEF Matches
<1>16. ASSUME NEW t \in Threads, NEW first \in Pages, NEW size \in 1 .. NumPages, QueryFound(t, first, size)
      PROVE  \A k \in Tracked : meta[k].tag # filter[u] => meta'[k] = meta[k]
  BY <1>16 DEF QueryFound, maps
<1>17. ASSUME NEW t \in Threads, QueryDone(t)
      PROVE  \A k \in Tracked : meta[k].tag # filter[u] => meta'[k] = meta[k]
  BY <1>17 DEF QueryDone, maps
<1>18. ASSUME NEW p \in Pages, NEW v \in Values, Write(p, v)
      PROVE  \A k \in Tracked : meta[k].tag # filter[u] => meta'[k] = meta[k]
  BY <1>18 DEF Write, maps
<1>19. ASSUME Leaves PROVE \A k \in Tracked : meta[k].tag # filter[u] => meta'[k] = meta[k]
  BY <1>19 DEF Leaves, Exit, maps
<1>20. CASE UNCHANGED vars
  BY <1>20 DEF vars, maps
<1>21. QED
  BY <1>1, <1>2, <1>3, <1>4, <1>5, <1>6, <1>7, <1>8, <1>9, <1>10, <1>11,
     <1>12, <1>13, <1>14, <1>15, <1>16, <1>17, <1>18, <1>19, <1>20, StepCases

\* A pause or resume of one tag leaves the handles of the other tags as they are.
THEOREM OthersUntouched == Spec => OtherTagsUntouched
<1>1. ASSUME IInv, [Next]_vars
      PROVE  \A t \in Threads :
                mutex = t /\ filter[t] # Null
                    => \A l \in Tracked : meta[l].tag # filter[t] => meta'[l] = meta[l]
  BY <1>1, LoopKeepsOthers
<1>2. IInv /\ [Next]_vars =>
         [\A t \in Threads :
             mutex = t /\ filter[t] # Null
                 => \A l \in Tracked : meta[l].tag # filter[t] => meta'[l] = meta[l]]_vars
  BY <1>1
<1> QED
  BY <1>2, BackupInvariance, PTL DEF Spec, OtherTagsUntouched
==============================================================================

---------------------------- MODULE AllocatorProofs ----------------------------
(***************************************************************************)
(* Proofs about Allocator, for every set of threads, addresses, units of   *)
(* memory, buffers, files, tags and values.                                *)
(*                                                                         *)
(* IInv of AllocatorInv is inductive: one lemma per part, one step per     *)
(* action, and the safety properties of Allocator follow from it.  What    *)
(* the two loops do to one entry comes first, field by field, so that no   *)
(* proof about the loops has to compute a record update again.             *)
(***************************************************************************)
EXTENDS AllocatorInv, FiniteSetTheorems, TLAPS

(***************************************************************************)
(* The steps of the two loops, with every record update spelled out: n is  *)
(* the entry of p after the step.                                          *)
(***************************************************************************)
PausedAs(t, p, n) ==
    /\ pc[t] = "p_loop" /\ p \in Tracked /\ meta[p] \in Metadata /\ meta[p].state = "ACTIVE"
    /\ mapping[p] = meta[p].allocHandle /\ mapping[p] \in Handles /\ mapping[p] \in phys
    /\ n.state = "PAUSED" /\ n.tag = meta[p].tag /\ n.backup = meta[p].backup
    /\ n.allocHandle = meta[p].allocHandle
    /\ meta' = [meta EXCEPT ![p] = n]
    /\ mapping' = [mapping EXCEPT ![p] = Null]
    /\ phys' = phys \ {mapping[p]}
    /\ content' = [content EXCEPT ![mapping[p]] = Junk]
    /\ todo' = todo \ {p}
    /\ exited' = exited
    /\ UNCHANGED <<reserved, mutex, margin, pc, filter, ptr, md, view, owned>>

PausedWithoutBackup(t, p, n) ==
    /\ PausedAs(t, p, n)
    /\ meta[p].backup = "none"
    /\ n.cpu_backup = meta[p].cpu_backup /\ n.cpu_backup_kind = meta[p].cpu_backup_kind
    /\ n.disk = meta[p].disk
    /\ expected' = [expected EXCEPT ![p] = Junk]
    /\ UNCHANGED <<hostKind, hostData, fileData>>

PausedToHost(t, p, n, b, kind) ==
    /\ PausedAs(t, p, n)
    /\ meta[p].backup = "cpu"
    /\ n.cpu_backup = b /\ n.cpu_backup_kind = kind /\ n.disk = meta[p].disk
    /\ meta[p].cpu_backup = b \/ (meta[p].cpu_backup = Null /\ hostKind[b] = "free")
    /\ hostKind' = [hostKind EXCEPT ![b] = kind]
    /\ hostData' = [hostData EXCEPT ![b] = content[mapping[p]]]
    /\ UNCHANGED <<fileData, expected>>

PausedToDisk(t, p, n, f) ==
    /\ PausedAs(t, p, n)
    /\ meta[p].backup = "disk"
    /\ n.cpu_backup = meta[p].cpu_backup /\ n.cpu_backup_kind = meta[p].cpu_backup_kind
    /\ n.disk = f
    /\ meta[p].disk = f \/ (meta[p].disk = Null /\ fileData[f] = Null)
    /\ fileData' = [fileData EXCEPT ![f] = content[mapping[p]]]
    /\ UNCHANGED <<hostKind, hostData, expected>>

ResumedAs(t, p, n, h, data) ==
    /\ pc[t] = "r_loop" /\ p \in Tracked /\ meta[p] \in Metadata /\ meta[p].state = "PAUSED"
    /\ mapping[p] = Null /\ h \in Handles /\ h \notin phys
    /\ n.state = "ACTIVE" /\ n.tag = meta[p].tag /\ n.backup = meta[p].backup
    /\ n.cpu_backup_kind = meta[p].cpu_backup_kind /\ n.disk = meta[p].disk
    /\ n.allocHandle = h
    /\ meta' = [meta EXCEPT ![p] = n]
    /\ mapping' = [mapping EXCEPT ![p] = h]
    /\ phys' = phys \cup {h}
    /\ content' = [content EXCEPT ![h] = data]
    /\ todo' = todo \ {p}
    /\ exited' = exited
    /\ UNCHANGED <<reserved, mutex, margin, pc, filter, ptr, md, view, owned, expected, fileData>>

ResumedEmpty(t, p, n, h) ==
    /\ ResumedAs(t, p, n, h, Junk)
    /\ meta[p].backup = "none"
    /\ n.cpu_backup = meta[p].cpu_backup
    /\ UNCHANGED <<hostKind, hostData>>

ResumedFromHost(t, p, n, h) ==
    /\ ResumedAs(t, p, n, h, hostData[meta[p].cpu_backup])
    /\ meta[p].backup = "cpu" /\ meta[p].cpu_backup \in Bufs
    /\ n.cpu_backup = Null
    /\ hostKind' = [hostKind EXCEPT ![meta[p].cpu_backup] = "free"]
    /\ hostData' = [hostData EXCEPT ![meta[p].cpu_backup] = Junk]

ResumedFromDisk(t, p, n, h) ==
    /\ ResumedAs(t, p, n, h, fileData[meta[p].disk])
    /\ meta[p].backup = "disk" /\ meta[p].disk \in Files /\ fileData[meta[p].disk] \in Data
    /\ n.cpu_backup = meta[p].cpu_backup
    /\ UNCHANGED <<hostKind, hostData>>

\* Holding different buffers and files is symmetric.
LEMMA ApartSymmetric ==
  ASSUME NEW m, NEW n, Apart(m, n)
  PROVE  Apart(n, m)
  BY DEF Apart

\* Setting the state to PAUSED, field by field (core.cpp:436).
LEMMA PausedRecord ==
  ASSUME NEW m \in Metadata, NEW n, n = [m EXCEPT !.state = "PAUSED"]
  PROVE  /\ n \in Metadata
         /\ n.state = "PAUSED" /\ n.tag = m.tag /\ n.backup = m.backup
         /\ n.cpu_backup = m.cpu_backup /\ n.cpu_backup_kind = m.cpu_backup_kind
         /\ n.disk = m.disk /\ n.allocHandle = m.allocHandle
  BY DEF Metadata, State

\* Setting the state to ACTIVE and the new handle (core.cpp:583-584).
LEMMA ResumedRecord ==
  ASSUME NEW m \in Metadata, NEW h \in Handles, NEW n, n = Resumed(m, h)
  PROVE  /\ n \in Metadata
         /\ n.state = "ACTIVE" /\ n.tag = m.tag /\ n.backup = m.backup
         /\ n.cpu_backup = m.cpu_backup /\ n.cpu_backup_kind = m.cpu_backup_kind
         /\ n.disk = m.disk /\ n.allocHandle = h
  BY DEF Metadata, State, Resumed

\* Recording a host buffer and how it was obtained (core.cpp:417-418).
LEMMA HostRecord ==
  ASSUME NEW m \in Metadata, NEW b \in Bufs, NEW kind \in CPUBackupKind,
         NEW n, n = [m EXCEPT !.cpu_backup = b, !.cpu_backup_kind = kind]
  PROVE  /\ n \in Metadata
         /\ n.state = m.state /\ n.tag = m.tag /\ n.backup = m.backup
         /\ n.cpu_backup = b /\ n.cpu_backup_kind = kind
         /\ n.disk = m.disk /\ n.allocHandle = m.allocHandle
  BY DEF Metadata

\* Forgetting the host buffer resume freed (core.cpp:575).
LEMMA NoHostRecord ==
  ASSUME NEW m \in Metadata, NEW n, n = [m EXCEPT !.cpu_backup = Null]
  PROVE  /\ n \in Metadata
         /\ n.state = m.state /\ n.tag = m.tag /\ n.backup = m.backup
         /\ n.cpu_backup = Null /\ n.cpu_backup_kind = m.cpu_backup_kind
         /\ n.disk = m.disk /\ n.allocHandle = m.allocHandle
  BY DEF Metadata

\* Recording the file of a disk slot (disk_backend.cpp:107-119).
LEMMA DiskRecord ==
  ASSUME NEW m \in Metadata, NEW f \in Files, NEW n, n = [m EXCEPT !.disk = f]
  PROVE  /\ n \in Metadata
         /\ n.state = m.state /\ n.tag = m.tag /\ n.backup = m.backup
         /\ n.cpu_backup = m.cpu_backup /\ n.cpu_backup_kind = m.cpu_backup_kind
         /\ n.disk = f /\ n.allocHandle = m.allocHandle
  BY DEF Metadata

\* An entry in the loop has a well-typed record, and when it is active its unit
\* is mapped.
LEMMA EntryFacts ==
  ASSUME IInv, NEW p \in todo
  PROVE  /\ p \in Tracked /\ p \in Ptrs /\ meta[p] \in Metadata /\ BackupsMatch(meta[p])
         /\ p \in reserved
         /\ meta[p].state = "ACTIVE" => /\ mapping[p] = meta[p].allocHandle
                                        /\ mapping[p] \in Handles /\ mapping[p] \in phys
         /\ meta[p].state = "PAUSED" => mapping[p] = Null
  BY DEF IInv, TypeOK, LocalInv, AddressInv, MappingInv, MappedAs, BackupInv, Tracked, Mapped

\* The common part of pause's three cases.
LEMMA PauseEntryEffect ==
  ASSUME IInv, NEW t \in Threads, NEW p \in todo, NEW m \in Metadata, PauseEntry(t, p, m),
         m.tag = meta[p].tag, m.backup = meta[p].backup, m.allocHandle = meta[p].allocHandle
  PROVE  \E n \in Metadata : /\ PausedAs(t, p, n)
                             /\ n.cpu_backup = m.cpu_backup /\ n.disk = m.disk
                             /\ n.cpu_backup_kind = m.cpu_backup_kind
<1> DEFINE n == [m EXCEPT !.state = "PAUSED"]
<1>1. /\ n \in Metadata
      /\ n.state = "PAUSED" /\ n.tag = m.tag /\ n.backup = m.backup
      /\ n.cpu_backup = m.cpu_backup /\ n.cpu_backup_kind = m.cpu_backup_kind
      /\ n.disk = m.disk /\ n.allocHandle = m.allocHandle
  BY PausedRecord
<1>2. meta' = [meta EXCEPT ![p] = n]
  BY DEF PauseEntry
<1> HIDE DEF n
<1>3. /\ pc[t] = "p_loop" /\ meta[p].state = "ACTIVE"
      /\ mapping' = [mapping EXCEPT ![p] = Null]
      /\ phys' = phys \ {m.allocHandle}
      /\ content' = [content EXCEPT ![m.allocHandle] = Junk]
      /\ todo' = todo \ {p}
      /\ Accepted(CanUnmap(p, m.allocHandle))
      /\ UNCHANGED <<reserved, mutex, margin, pc, filter, ptr, md, view, owned>>
  BY DEF PauseEntry, Unmap, local
<1>4. exited' = exited
  BY <1>3, EntryFacts, AllocatorAssumption DEF Accepted, CanUnmap
<1>5. PausedAs(t, p, n)
  BY <1>1, <1>2, <1>3, <1>4, EntryFacts DEF PausedAs
<1>6. QED
  BY <1>1, <1>5

\* pause of an entry without a backup.
LEMMA PauseNoBackupEffect ==
  ASSUME IInv, NEW t \in Threads, NEW p \in todo, PauseNoBackup(t, p)
  PROVE  \E n \in Metadata : PausedWithoutBackup(t, p, n)
  BY EntryFacts, PauseEntryEffect DEF PauseNoBackup, PausedWithoutBackup, backups

\* pause of an entry backed up in host memory: the buffer is the entry's own or
\* one that was free, and the kind recorded is the kind it was obtained as.
LEMMA PauseToHostEffect ==
  ASSUME IInv, NEW t \in Threads, NEW p \in todo, PauseToHost(t, p)
  PROVE  \E n \in Metadata, b \in Bufs, kind \in CPUBackupKind : PausedToHost(t, p, n, b, kind)
<1>1. PICK buf \in HostBuffers(meta[p]) :
         /\ PauseEntry(t, p, [meta[p] EXCEPT !.cpu_backup = buf[1], !.cpu_backup_kind = buf[3]])
         /\ hostKind' = [hostKind EXCEPT ![buf[1]] = buf[2]]
         /\ hostData' = [hostData EXCEPT ![buf[1]] = Copied(p)]
  BY DEF PauseToHost
<1>2. meta[p] \in Metadata /\ BackupsMatch(meta[p])
  BY EntryFacts
<1>3. \E b \in Bufs, kind \in CPUBackupKind :
         /\ buf = <<b, kind, kind>>
         /\ meta[p].cpu_backup = b \/ (meta[p].cpu_backup = Null /\ hostKind[b] = "free")
  <2>1. CASE meta[p].cpu_backup # Null
    <3>1. buf = <<meta[p].cpu_backup, hostKind[meta[p].cpu_backup], meta[p].cpu_backup_kind>>
      BY <1>1, <2>1 DEF HostBuffers
    <3>2. meta[p].cpu_backup \in Bufs /\ meta[p].cpu_backup_kind \in CPUBackupKind
      BY <1>2, <2>1 DEF Metadata
    <3>3. hostKind[meta[p].cpu_backup] = meta[p].cpu_backup_kind
      BY <1>2, <2>1 DEF BackupsMatch
    <3>4. QED
      BY <3>1, <3>2, <3>3
  <2>2. CASE meta[p].cpu_backup = Null
    <3>1. PICK b \in {c \in Bufs : hostKind[c] = "free"}, kind \in HostKinds :
             buf = <<b, kind, kind>>
      BY <1>1, <2>2 DEF HostBuffers, RecordedKind
    <3>2. QED
      BY <2>2, <3>1, AllocatorAssumption
  <2>3. QED
    BY <2>1, <2>2
<1>4. PICK b \in Bufs, kind \in CPUBackupKind :
         /\ buf = <<b, kind, kind>>
         /\ meta[p].cpu_backup = b \/ (meta[p].cpu_backup = Null /\ hostKind[b] = "free")
  BY <1>3
<1>5. buf[1] = b /\ buf[2] = kind /\ buf[3] = kind
  BY <1>4
<1> DEFINE m == [meta[p] EXCEPT !.cpu_backup = b, !.cpu_backup_kind = kind]
<1>6. /\ m \in Metadata
      /\ m.state = meta[p].state /\ m.tag = meta[p].tag /\ m.backup = meta[p].backup
      /\ m.cpu_backup = b /\ m.cpu_backup_kind = kind
      /\ m.disk = meta[p].disk /\ m.allocHandle = meta[p].allocHandle
  <2>1. m = [meta[p] EXCEPT !.cpu_backup = b, !.cpu_backup_kind = kind]
    OBVIOUS
  <2> HIDE DEF m
  <2>2. QED
    BY <1>2, <2>1 DEF Metadata
<1>7. PauseEntry(t, p, m)
  BY <1>1, <1>5
<1> HIDE DEF m
<1>8. PICK n \in Metadata : /\ PausedAs(t, p, n)
                            /\ n.cpu_backup = m.cpu_backup /\ n.disk = m.disk
                            /\ n.cpu_backup_kind = m.cpu_backup_kind
  BY <1>6, <1>7, PauseEntryEffect
<1>9. PausedToHost(t, p, n, b, kind)
  BY <1>1, <1>4, <1>5, <1>6, <1>8 DEF PauseToHost, PausedToHost, Copied
<1>10. QED
  BY <1>4, <1>9

\* pause of an entry backed up on disk: the file is the entry's own or a new one.
LEMMA PauseToDiskEffect ==
  ASSUME IInv, NEW t \in Threads, NEW p \in todo, PauseToDisk(t, p)
  PROVE  \E n \in Metadata, f \in Files : PausedToDisk(t, p, n, f)
<1>1. PICK f \in SlotFiles(meta[p]) :
         /\ PauseEntry(t, p, [meta[p] EXCEPT !.disk = f])
         /\ fileData' = [fileData EXCEPT ![f] = Copied(p)]
  BY DEF PauseToDisk
<1>2. meta[p] \in Metadata
  BY EntryFacts
<1>3. f \in Files /\ (meta[p].disk = f \/ (meta[p].disk = Null /\ fileData[f] = Null))
  <2>1. CASE meta[p].disk = Null
    BY <1>1, <2>1 DEF SlotFiles
  <2>2. CASE meta[p].disk # Null
    <3>1. meta[p].disk \in Files
      BY <1>2, <2>2 DEF Metadata
    <3>2. f = meta[p].disk
      BY <1>1, <2>2 DEF SlotFiles
    <3>3. QED
      BY <3>1, <3>2
  <2>3. QED
    BY <2>1, <2>2
<1> DEFINE m == [meta[p] EXCEPT !.disk = f]
<1>4. /\ m \in Metadata
      /\ m.state = meta[p].state /\ m.tag = meta[p].tag /\ m.backup = meta[p].backup
      /\ m.cpu_backup = meta[p].cpu_backup /\ m.cpu_backup_kind = meta[p].cpu_backup_kind
      /\ m.disk = f /\ m.allocHandle = meta[p].allocHandle
  BY <1>2, <1>3, DiskRecord
<1>5. PauseEntry(t, p, m)
  BY <1>1
<1> HIDE DEF m
<1>6. PICK n \in Metadata : /\ PausedAs(t, p, n)
                            /\ n.cpu_backup = m.cpu_backup /\ n.disk = m.disk
                            /\ n.cpu_backup_kind = m.cpu_backup_kind
  BY <1>4, <1>5, PauseEntryEffect
<1>7. PausedToDisk(t, p, n, f)
  BY <1>1, <1>3, <1>4, <1>6 DEF PauseToDisk, PausedToDisk, Copied
<1>8. QED
  BY <1>3, <1>7

\* The common part of resume's three cases.
LEMMA ResumeEntryEffect ==
  ASSUME IInv, NEW t \in Threads, NEW p \in todo, NEW m \in Metadata, NEW data,
         ResumeEntry(t, p, m, data), UNCHANGED <<exited, fileData>>,
         m.tag = meta[p].tag, m.backup = meta[p].backup, m.disk = meta[p].disk,
         m.cpu_backup_kind = meta[p].cpu_backup_kind
  PROVE  \E n \in Metadata, h \in Handles :
            ResumedAs(t, p, n, h, data) /\ n.cpu_backup = m.cpu_backup
<1>1. PICK h \in Unused : /\ phys' = phys \cup {h}
                          /\ mapping' = [mapping EXCEPT ![p] = h]
                          /\ content' = [content EXCEPT ![h] = data]
                          /\ meta' = [meta EXCEPT ![p] = Resumed(m, h)]
  BY DEF ResumeEntry
<1>2. h \in Handles /\ h \notin phys
  BY <1>1 DEF Unused
<1> DEFINE n == Resumed(m, h)
<1>3. /\ n \in Metadata
      /\ n.state = "ACTIVE" /\ n.tag = m.tag /\ n.backup = m.backup
      /\ n.cpu_backup = m.cpu_backup /\ n.cpu_backup_kind = m.cpu_backup_kind
      /\ n.disk = m.disk /\ n.allocHandle = h
  BY <1>2, ResumedRecord
<1>7. meta' = [meta EXCEPT ![p] = n]
  BY <1>1
<1> HIDE DEF n
<1>4. /\ pc[t] = "r_loop" /\ meta[p].state = "PAUSED"
      /\ todo' = todo \ {p}
      /\ UNCHANGED <<reserved, mutex, margin, pc, filter, ptr, md, view, owned, expected>>
  BY DEF ResumeEntry, local, client
<1>5. ResumedAs(t, p, n, h, data)
  BY <1>1, <1>2, <1>3, <1>7, <1>4, EntryFacts DEF ResumedAs
<1>8. QED
  BY <1>2, <1>3, <1>5

\* resume of an entry without a backup.
LEMMA ResumeNoBackupEffect ==
  ASSUME IInv, NEW t \in Threads, NEW p \in todo, ResumeNoBackup(t, p)
  PROVE  \E n \in Metadata, h \in Handles : ResumedEmpty(t, p, n, h)
<1>1. UNCHANGED <<exited, hostKind, hostData, fileData>>
  BY EntryFacts DEF ResumeNoBackup, ResumeEntry, Accepted, CanMap, backups
<1>2. QED
  BY <1>1, EntryFacts, ResumeEntryEffect DEF ResumeNoBackup, ResumedEmpty

\* resume from host memory: the driver and the allocator accept every call.
LEMMA ResumeFromHostEffect ==
  ASSUME IInv, NEW t \in Threads, NEW p \in todo, ResumeFromHost(t, p)
  PROVE  \E n \in Metadata, h \in Handles : ResumedFromHost(t, p, n, h)
<1>0. meta[p] \in Metadata
  BY EntryFacts
<1> DEFINE m == [meta[p] EXCEPT !.cpu_backup = Null]
<1>1. /\ m \in Metadata
      /\ m.state = meta[p].state /\ m.tag = meta[p].tag /\ m.backup = meta[p].backup
      /\ m.cpu_backup = Null /\ m.cpu_backup_kind = meta[p].cpu_backup_kind
      /\ m.disk = meta[p].disk /\ m.allocHandle = meta[p].allocHandle
  BY <1>0, NoHostRecord
<1>2. ResumeEntry(t, p, m, hostData[meta[p].cpu_backup])
  BY DEF ResumeFromHost
<1> HIDE DEF m
<1>3. UNCHANGED <<exited, fileData>>
  BY EntryFacts DEF ResumeFromHost, ResumeEntry, Accepted, CanMap, BackupsMatch
<1>4. PICK n \in Metadata, h \in Handles :
         ResumedAs(t, p, n, h, hostData[meta[p].cpu_backup]) /\ n.cpu_backup = m.cpu_backup
  BY <1>1, <1>2, <1>3, ResumeEntryEffect
<1>5. meta[p].cpu_backup \in Bufs
  BY EntryFacts DEF ResumeFromHost, Metadata
<1>6. ResumedFromHost(t, p, n, h)
  BY <1>1, <1>4, <1>5 DEF ResumeFromHost, ResumedFromHost
<1>7. QED
  BY <1>6

\* resume from the disk: the file is there.
LEMMA ResumeFromDiskEffect ==
  ASSUME IInv, NEW t \in Threads, NEW p \in todo, ResumeFromDisk(t, p)
  PROVE  \E n \in Metadata, h \in Handles : ResumedFromDisk(t, p, n, h)
<1>1. /\ meta[p].backup = "disk" /\ meta[p].disk \in Files
      /\ fileData[meta[p].disk] \in Data
      /\ UNCHANGED <<exited, hostKind, hostData, fileData>>
  BY EntryFacts DEF ResumeFromDisk, ResumeEntry, Accepted, CanMap, BackupsMatch, backups,
                    Metadata, IInv, TypeOK
<1>2. QED
  BY <1>1, EntryFacts, ResumeEntryEffect DEF ResumeFromDisk, ResumedFromDisk

------------------------------------------------------------------------------
(* Every step preserves the invariant *)

TypeInv == TypeOK /\ LocalInv

\* Types, and the facts about a call's locals.
LEMMA TypeStep ==
  ASSUME IInv, [Next]_vars
  PROVE  TypeInv'
<1> USE AllocatorAssumption DEF IInv, TypeInv, TypeOK, LocalInv, device, backups,
          lock, local, client, Goto, Return, Tracked, Unused
<1>1. ASSUME NEW t \in Threads, MallocBothBackups(t)
      PROVE  TypeInv'
  BY <1>1 DEF MallocBothBackups, Exit, Exits
<1>2. ASSUME NEW t \in Threads, UntrackedMalloc(t)
      PROVE  TypeInv'
  BY <1>2 DEF UntrackedMalloc
<1>3. ASSUME NEW t \in Threads, NEW tag \in Tags, NEW backup \in BackupModes, MallocCall(t, tag, backup)
      PROVE  TypeInv'
  BY <1>3 DEF MallocCall, NewMetadata, Labels, Metadata, State, CPUBackupKind
<1>4. ASSUME NEW t \in Threads, MallocOutOfMemory(t)
      PROVE  TypeInv'
  BY <1>4 DEF MallocOutOfMemory, Labels
<1>5. ASSUME NEW t \in Threads, MallocCreate(t)
      PROVE  TypeInv'
  BY <1>5 DEF MallocCreate, Labels, Metadata
<1>6. ASSUME NEW t \in Threads, MallocRegister(t)
      PROVE  TypeInv'
  BY <1>6 DEF MallocRegister, Emplace, Labels
<1>7. ASSUME NEW t \in Threads, NEW p \in Ptrs, FreeCall(t, p)
      PROVE  TypeInv'
  BY <1>7 DEF FreeCall, Labels, Data
<1>8. ASSUME NEW t \in Threads, FreeUntracked(t)
      PROVE  TypeInv'
  <2>1. content' \in [Handles -> Data]
    BY <1>8 DEF FreeUntracked, Unmap, Data
  <2>2. QED
    BY <1>8, <2>1 DEF FreeUntracked, Accepted, Unmap, Labels, Exits
<1>9. ASSUME NEW t \in Threads, FreeLookup(t)
      PROVE  TypeInv'
  BY <1>9 DEF FreeLookup, Labels
<1>10. ASSUME NEW t \in Threads, FreeDevice(t)
      PROVE  TypeInv'
  BY <1>10 DEF FreeDevice, Accepted, Unmap, Labels, Exits, Data
<1>11. ASSUME NEW t \in Threads, FreeBackup(t)
      PROVE  TypeInv'
  BY <1>11 DEF FreeBackup, FreeHost, Accepted, Labels, Exits, Data, Metadata
<1>12. ASSUME NEW t \in Threads, NEW tagFilter \in Tags \cup {Null}, PauseCall(t, tagFilter)
      PROVE  TypeInv'
  BY <1>12 DEF PauseCall, Labels
<1>13. ASSUME NEW t \in Threads, PauseLock(t)
      PROVE  TypeInv'
  BY <1>13 DEF PauseLock, EnterLoop, Labels
<1>14. ASSUME NEW t \in Threads, PauseNotActive(t)
      PROVE  TypeInv'
  BY <1>14 DEF PauseNotActive, Exit, Exits
<1>15. ASSUME NEW t \in Threads, NEW p \in todo, PauseNoBackup(t, p)
      PROVE  TypeInv'
  <2>1. PICK n \in Metadata : PausedWithoutBackup(t, p, n)
    BY <1>15, PauseNoBackupEffect
  <2>2. QED
    BY <2>1 DEF PausedWithoutBackup, PausedAs, Data
<1>16. ASSUME NEW t \in Threads, NEW p \in todo, PauseToHost(t, p)
      PROVE  TypeInv'
  <2>1. PICK n \in Metadata, b \in Bufs, kind \in CPUBackupKind :
          PausedToHost(t, p, n, b, kind)
    BY <1>16, PauseToHostEffect
  <2>2. QED
    BY <2>1 DEF PausedToHost, PausedAs, Data
<1>17. ASSUME NEW t \in Threads, NEW p \in todo, PauseToDisk(t, p)
      PROVE  TypeInv'
  <2>1. PICK n \in Metadata, f \in Files : PausedToDisk(t, p, n, f)
    BY <1>17, PauseToDiskEffect
  <2>2. QED
    BY <2>1 DEF PausedToDisk, PausedAs, Data
<1>18. ASSUME NEW t \in Threads, PauseReturn(t)
      PROVE  TypeInv'
  BY <1>18 DEF PauseReturn, LeaveLoop, Labels
<1>19. ASSUME NEW t \in Threads, NEW tagFilter \in Tags \cup {Null}, ResumeCall(t, tagFilter)
      PROVE  TypeInv'
  BY <1>19 DEF ResumeCall, Labels
<1>20. ASSUME NEW t \in Threads, ResumeLock(t)
      PROVE  TypeInv'
  BY <1>20 DEF ResumeLock, EnterLoop, Labels
<1>21. ASSUME NEW t \in Threads, ResumeNotPaused(t)
      PROVE  TypeInv'
  BY <1>21 DEF ResumeNotPaused, Exit, Exits
<1>22. ASSUME NEW t \in Threads, NEW p \in todo, ResumeNoBackup(t, p)
      PROVE  TypeInv'
  <2>1. PICK n \in Metadata, h \in Handles : ResumedEmpty(t, p, n, h)
    BY <1>22, ResumeNoBackupEffect
  <2>2. QED
    BY <2>1 DEF ResumedEmpty, ResumedAs, Data
<1>23. ASSUME NEW t \in Threads, NEW p \in todo, ResumeFromHost(t, p)
      PROVE  TypeInv'
  <2>1. PICK n \in Metadata, h \in Handles : ResumedFromHost(t, p, n, h)
    BY <1>23, ResumeFromHostEffect
  <2>2. QED
    BY <2>1 DEF ResumedFromHost, ResumedAs, Data
<1>24. ASSUME NEW t \in Threads, NEW p \in todo, ResumeFromDisk(t, p)
      PROVE  TypeInv'
  <2>1. PICK n \in Metadata, h \in Handles : ResumedFromDisk(t, p, n, h)
    BY <1>24, ResumeFromDiskEffect
  <2>2. QED
    BY <2>1 DEF ResumedFromDisk, ResumedAs, Data
<1>25. ASSUME NEW t \in Threads, ResumeReturn(t)
      PROVE  TypeInv'
  BY <1>25 DEF ResumeReturn, LeaveLoop, Labels
<1>26. ASSUME NEW t \in Threads, NEW p \in Ptrs, QueryCall(t, p)
      PROVE  TypeInv'
  BY <1>26 DEF QueryCall, Labels
<1>27. ASSUME NEW t \in Threads, QueryNotFound(t)
      PROVE  TypeInv'
  BY <1>27 DEF QueryNotFound, Exit, Exits
<1>28. ASSUME NEW t \in Threads, QueryNoCopy(t)
      PROVE  TypeInv'
  BY <1>28 DEF QueryNoCopy, Labels
<1>29. ASSUME NEW t \in Threads, QueryLostContent(t)
      PROVE  TypeInv'
  BY <1>29 DEF QueryLostContent, Exit, Exits
<1>30. ASSUME NEW t \in Threads, QueryFound(t)
      PROVE  TypeInv'
  BY <1>30 DEF QueryFound, Labels, Metadata
<1>31. ASSUME NEW t \in Threads, QueryDone(t)
      PROVE  TypeInv'
  BY <1>31 DEF QueryDone, Labels
<1>32. ASSUME NEW t \in Threads, OutOfResources(t)
      PROVE  TypeInv'
  BY <1>32 DEF OutOfResources, Exit, Exits
<1>33. ASSUME NEW t \in Threads, CudaFails(t)
      PROVE  TypeInv'
  BY <1>33 DEF CudaFails, Exit, Exits
<1>34. ASSUME NEW t \in Threads, NEW value \in Margins, SetMargin(t, value)
      PROVE  TypeInv'
  BY <1>34 DEF SetMargin
<1>35. ASSUME NEW p \in Ptrs, NEW v \in Values, Write(p, v)
      PROVE  TypeInv'
  BY <1>35 DEF Write, Data
<1>36. CASE UNCHANGED vars
  BY <1>36 DEF vars
<1>37. QED
  BY <1>1, <1>2, <1>3, <1>4, <1>5, <1>6, <1>7, <1>8, <1>9, <1>10, <1>11,
     <1>12, <1>13, <1>14, <1>15, <1>16, <1>17, <1>18, <1>19, <1>20, <1>21,
     <1>22, <1>23, <1>24, <1>25, <1>26, <1>27, <1>28, <1>29, <1>30, <1>31,
     <1>32, <1>33, <1>34, <1>35, <1>36
     DEF Next, Step, Call, Terminated

\* An address belongs to one owner.
LEMMA AddressStep ==
  ASSUME IInv, [Next]_vars
  PROVE  AddressInv'
<1> USE AllocatorAssumption DEF IInv, TypeOK, LocalInv, AddressInv, HoldsAddress, device, backups,
          lock, local, client, Goto, Return, Tracked, Unused
<1>1. ASSUME NEW t \in Threads, MallocBothBackups(t)
      PROVE  AddressInv'
  BY <1>1 DEF MallocBothBackups, Exit
<1>2. ASSUME NEW t \in Threads, UntrackedMalloc(t)
      PROVE  AddressInv'
  BY <1>2 DEF UntrackedMalloc
<1>3. ASSUME NEW t \in Threads, NEW tag \in Tags, NEW backup \in BackupModes, MallocCall(t, tag, backup)
      PROVE  AddressInv'
  BY <1>3 DEF MallocCall, NewMetadata
<1>4. ASSUME NEW t \in Threads, MallocOutOfMemory(t)
      PROVE  AddressInv'
  BY <1>4 DEF MallocOutOfMemory
<1>5. ASSUME NEW t \in Threads, MallocCreate(t)
      PROVE  AddressInv'
  BY <1>5 DEF MallocCreate
<1>6. ASSUME NEW t \in Threads, MallocRegister(t)
      PROVE  AddressInv'
  BY <1>6 DEF MallocRegister, Emplace
<1>7. ASSUME NEW t \in Threads, NEW p \in Ptrs, FreeCall(t, p)
      PROVE  AddressInv'
  BY <1>7 DEF FreeCall
<1>8. ASSUME NEW t \in Threads, FreeUntracked(t)
      PROVE  AddressInv'
  BY <1>8 DEF FreeUntracked, Accepted, Unmap
<1>9. ASSUME NEW t \in Threads, FreeLookup(t)
      PROVE  AddressInv'
  BY <1>9 DEF FreeLookup
<1>10. ASSUME NEW t \in Threads, FreeDevice(t)
      PROVE  AddressInv'
  BY <1>10 DEF FreeDevice, Accepted, Unmap
<1>11. ASSUME NEW t \in Threads, FreeBackup(t)
      PROVE  AddressInv'
  BY <1>11 DEF FreeBackup, FreeHost, Accepted
<1>12. ASSUME NEW t \in Threads, NEW tagFilter \in Tags \cup {Null}, PauseCall(t, tagFilter)
      PROVE  AddressInv'
  BY <1>12 DEF PauseCall
<1>13. ASSUME NEW t \in Threads, PauseLock(t)
      PROVE  AddressInv'
  BY <1>13 DEF PauseLock, EnterLoop
<1>14. ASSUME NEW t \in Threads, PauseNotActive(t)
      PROVE  AddressInv'
  BY <1>14 DEF PauseNotActive, Exit
<1>15. ASSUME NEW t \in Threads, NEW p \in todo, PauseNoBackup(t, p)
      PROVE  AddressInv'
  <2>1. PICK n \in Metadata : PausedWithoutBackup(t, p, n)
    BY <1>15, PauseNoBackupEffect
  <2>2. QED
    BY <2>1 DEF PausedWithoutBackup, PausedAs
<1>16. ASSUME NEW t \in Threads, NEW p \in todo, PauseToHost(t, p)
      PROVE  AddressInv'
  <2>1. PICK n \in Metadata, b \in Bufs, kind \in CPUBackupKind :
          PausedToHost(t, p, n, b, kind)
    BY <1>16, PauseToHostEffect
  <2>2. QED
    BY <2>1 DEF PausedToHost, PausedAs
<1>17. ASSUME NEW t \in Threads, NEW p \in todo, PauseToDisk(t, p)
      PROVE  AddressInv'
  <2>1. PICK n \in Metadata, f \in Files : PausedToDisk(t, p, n, f)
    BY <1>17, PauseToDiskEffect
  <2>2. QED
    BY <2>1 DEF PausedToDisk, PausedAs
<1>18. ASSUME NEW t \in Threads, PauseReturn(t)
      PROVE  AddressInv'
  BY <1>18 DEF PauseReturn, LeaveLoop
<1>19. ASSUME NEW t \in Threads, NEW tagFilter \in Tags \cup {Null}, ResumeCall(t, tagFilter)
      PROVE  AddressInv'
  BY <1>19 DEF ResumeCall
<1>20. ASSUME NEW t \in Threads, ResumeLock(t)
      PROVE  AddressInv'
  BY <1>20 DEF ResumeLock, EnterLoop
<1>21. ASSUME NEW t \in Threads, ResumeNotPaused(t)
      PROVE  AddressInv'
  BY <1>21 DEF ResumeNotPaused, Exit
<1>22. ASSUME NEW t \in Threads, NEW p \in todo, ResumeNoBackup(t, p)
      PROVE  AddressInv'
  <2>1. PICK n \in Metadata, h \in Handles : ResumedEmpty(t, p, n, h)
    BY <1>22, ResumeNoBackupEffect
  <2>2. QED
    BY <2>1 DEF ResumedEmpty, ResumedAs
<1>23. ASSUME NEW t \in Threads, NEW p \in todo, ResumeFromHost(t, p)
      PROVE  AddressInv'
  <2>1. PICK n \in Metadata, h \in Handles : ResumedFromHost(t, p, n, h)
    BY <1>23, ResumeFromHostEffect
  <2>2. QED
    BY <2>1 DEF ResumedFromHost, ResumedAs
<1>24. ASSUME NEW t \in Threads, NEW p \in todo, ResumeFromDisk(t, p)
      PROVE  AddressInv'
  <2>1. PICK n \in Metadata, h \in Handles : ResumedFromDisk(t, p, n, h)
    BY <1>24, ResumeFromDiskEffect
  <2>2. QED
    BY <2>1 DEF ResumedFromDisk, ResumedAs
<1>25. ASSUME NEW t \in Threads, ResumeReturn(t)
      PROVE  AddressInv'
  BY <1>25 DEF ResumeReturn, LeaveLoop
<1>26. ASSUME NEW t \in Threads, NEW p \in Ptrs, QueryCall(t, p)
      PROVE  AddressInv'
  BY <1>26 DEF QueryCall
<1>27. ASSUME NEW t \in Threads, QueryNotFound(t)
      PROVE  AddressInv'
  BY <1>27 DEF QueryNotFound, Exit
<1>28. ASSUME NEW t \in Threads, QueryNoCopy(t)
      PROVE  AddressInv'
  BY <1>28 DEF QueryNoCopy
<1>29. ASSUME NEW t \in Threads, QueryLostContent(t)
      PROVE  AddressInv'
  BY <1>29 DEF QueryLostContent, Exit
<1>30. ASSUME NEW t \in Threads, QueryFound(t)
      PROVE  AddressInv'
  BY <1>30 DEF QueryFound
<1>31. ASSUME NEW t \in Threads, QueryDone(t)
      PROVE  AddressInv'
  BY <1>31 DEF QueryDone
<1>32. ASSUME NEW t \in Threads, OutOfResources(t)
      PROVE  AddressInv'
  BY <1>32 DEF OutOfResources, Exit
<1>33. ASSUME NEW t \in Threads, CudaFails(t)
      PROVE  AddressInv'
  BY <1>33 DEF CudaFails, Exit
<1>34. ASSUME NEW t \in Threads, NEW value \in Margins, SetMargin(t, value)
      PROVE  AddressInv'
  BY <1>34 DEF SetMargin
<1>35. ASSUME NEW p \in Ptrs, NEW v \in Values, Write(p, v)
      PROVE  AddressInv'
  BY <1>35 DEF Write
<1>36. CASE UNCHANGED vars
  BY <1>36 DEF vars
<1>37. QED
  BY <1>1, <1>2, <1>3, <1>4, <1>5, <1>6, <1>7, <1>8, <1>9, <1>10, <1>11,
     <1>12, <1>13, <1>14, <1>15, <1>16, <1>17, <1>18, <1>19, <1>20, <1>21,
     <1>22, <1>23, <1>24, <1>25, <1>26, <1>27, <1>28, <1>29, <1>30, <1>31,
     <1>32, <1>33, <1>34, <1>35, <1>36
     DEF Next, Step, Call, Terminated

\* Unmapping p and releasing its unit keeps units and mappings one to one.
LEMMA UnmapUnit ==
  ASSUME IInv, NEW p \in Ptrs, mapping[p] # Null, Unmap(p, mapping[p])
  PROVE  phys' = {mapping'[q] : q \in Mapped'}
  BY DEF IInv, TypeOK, MappingInv, Unmap, Mapped

\* Entries and calls agree with what is mapped.
LEMMA MappingStep ==
  ASSUME IInv, [Next]_vars
  PROVE  MappingInv'
<1> USE AllocatorAssumption DEF IInv, TypeOK, LocalInv, AddressInv, MappingInv, MappedAs, HoldsAddress,
          Mapped, device, backups,
          lock, local, client, Goto, Return, Tracked, Unused
<1>1. ASSUME NEW t \in Threads, MallocBothBackups(t)
      PROVE  MappingInv'
  BY <1>1 DEF MallocBothBackups, Exit
<1>2. ASSUME NEW t \in Threads, UntrackedMalloc(t)
      PROVE  MappingInv'
  BY <1>2 DEF UntrackedMalloc
<1>3. ASSUME NEW t \in Threads, NEW tag \in Tags, NEW backup \in BackupModes, MallocCall(t, tag, backup)
      PROVE  MappingInv'
  BY <1>3 DEF MallocCall, NewMetadata
<1>4. ASSUME NEW t \in Threads, MallocOutOfMemory(t)
      PROVE  MappingInv'
  BY <1>4 DEF MallocOutOfMemory
<1>5. ASSUME NEW t \in Threads, MallocCreate(t)
      PROVE  MappingInv'
  BY <1>5 DEF MallocCreate
<1>6. ASSUME NEW t \in Threads, MallocRegister(t)
      PROVE  MappingInv'
  BY <1>6 DEF MallocRegister, Emplace
<1>7. ASSUME NEW t \in Threads, NEW p \in Ptrs, FreeCall(t, p)
      PROVE  MappingInv'
  BY <1>7 DEF FreeCall
<1>8. ASSUME NEW t \in Threads, FreeUntracked(t)
      PROVE  MappingInv'
  BY <1>8 DEF FreeUntracked, Accepted, Unmap
<1>9. ASSUME NEW t \in Threads, FreeLookup(t)
      PROVE  MappingInv'
  BY <1>9 DEF FreeLookup
<1>10. ASSUME NEW t \in Threads, FreeDevice(t)
      PROVE  MappingInv'
  <2>1. CASE md[t].state = "ACTIVE"
    <3>1. /\ ptr[t] \in Ptrs /\ mapping[ptr[t]] = md[t].allocHandle /\ mapping[ptr[t]] # Null
          /\ Unmap(ptr[t], mapping[ptr[t]])
      BY <1>10, <2>1 DEF FreeDevice, HoldsDeviceMemory
    <3>2. phys' = {mapping'[q] : q \in Mapped'}
      BY <3>1, UnmapUnit
    <3>3. QED
      BY <1>10, <3>1, <3>2 DEF FreeDevice, Unmap
  <2>2. CASE md[t].state # "ACTIVE"
    BY <1>10, <2>2 DEF FreeDevice, HoldsDeviceMemory
  <2>3. QED
    BY <2>1, <2>2
<1>11. ASSUME NEW t \in Threads, FreeBackup(t)
      PROVE  MappingInv'
  BY <1>11 DEF FreeBackup, FreeHost, Accepted
<1>12. ASSUME NEW t \in Threads, NEW tagFilter \in Tags \cup {Null}, PauseCall(t, tagFilter)
      PROVE  MappingInv'
  BY <1>12 DEF PauseCall
<1>13. ASSUME NEW t \in Threads, PauseLock(t)
      PROVE  MappingInv'
  BY <1>13 DEF PauseLock, EnterLoop
<1>14. ASSUME NEW t \in Threads, PauseNotActive(t)
      PROVE  MappingInv'
  BY <1>14 DEF PauseNotActive, Exit
<1>15. ASSUME NEW t \in Threads, NEW p \in todo, PauseNoBackup(t, p)
      PROVE  MappingInv'
  <2>1. PICK n \in Metadata : PausedWithoutBackup(t, p, n)
    BY <1>15, PauseNoBackupEffect
  <2>2. QED
    BY <2>1 DEF PausedWithoutBackup, PausedAs
<1>16. ASSUME NEW t \in Threads, NEW p \in todo, PauseToHost(t, p)
      PROVE  MappingInv'
  <2>1. PICK n \in Metadata, b \in Bufs, kind \in CPUBackupKind :
          PausedToHost(t, p, n, b, kind)
    BY <1>16, PauseToHostEffect
  <2>2. QED
    BY <2>1 DEF PausedToHost, PausedAs
<1>17. ASSUME NEW t \in Threads, NEW p \in todo, PauseToDisk(t, p)
      PROVE  MappingInv'
  <2>1. PICK n \in Metadata, f \in Files : PausedToDisk(t, p, n, f)
    BY <1>17, PauseToDiskEffect
  <2>2. QED
    BY <2>1 DEF PausedToDisk, PausedAs
<1>18. ASSUME NEW t \in Threads, PauseReturn(t)
      PROVE  MappingInv'
  BY <1>18 DEF PauseReturn, LeaveLoop
<1>19. ASSUME NEW t \in Threads, NEW tagFilter \in Tags \cup {Null}, ResumeCall(t, tagFilter)
      PROVE  MappingInv'
  BY <1>19 DEF ResumeCall
<1>20. ASSUME NEW t \in Threads, ResumeLock(t)
      PROVE  MappingInv'
  BY <1>20 DEF ResumeLock, EnterLoop
<1>21. ASSUME NEW t \in Threads, ResumeNotPaused(t)
      PROVE  MappingInv'
  BY <1>21 DEF ResumeNotPaused, Exit
<1>22. ASSUME NEW t \in Threads, NEW p \in todo, ResumeNoBackup(t, p)
      PROVE  MappingInv'
  <2>1. PICK n \in Metadata, h \in Handles : ResumedEmpty(t, p, n, h)
    BY <1>22, ResumeNoBackupEffect
  <2>2. QED
    BY <2>1 DEF ResumedEmpty, ResumedAs
<1>23. ASSUME NEW t \in Threads, NEW p \in todo, ResumeFromHost(t, p)
      PROVE  MappingInv'
  <2>1. PICK n \in Metadata, h \in Handles : ResumedFromHost(t, p, n, h)
    BY <1>23, ResumeFromHostEffect
  <2>2. QED
    BY <2>1 DEF ResumedFromHost, ResumedAs
<1>24. ASSUME NEW t \in Threads, NEW p \in todo, ResumeFromDisk(t, p)
      PROVE  MappingInv'
  <2>1. PICK n \in Metadata, h \in Handles : ResumedFromDisk(t, p, n, h)
    BY <1>24, ResumeFromDiskEffect
  <2>2. QED
    BY <2>1 DEF ResumedFromDisk, ResumedAs
<1>25. ASSUME NEW t \in Threads, ResumeReturn(t)
      PROVE  MappingInv'
  BY <1>25 DEF ResumeReturn, LeaveLoop
<1>26. ASSUME NEW t \in Threads, NEW p \in Ptrs, QueryCall(t, p)
      PROVE  MappingInv'
  BY <1>26 DEF QueryCall
<1>27. ASSUME NEW t \in Threads, QueryNotFound(t)
      PROVE  MappingInv'
  BY <1>27 DEF QueryNotFound, Exit
<1>28. ASSUME NEW t \in Threads, QueryNoCopy(t)
      PROVE  MappingInv'
  BY <1>28 DEF QueryNoCopy
<1>29. ASSUME NEW t \in Threads, QueryLostContent(t)
      PROVE  MappingInv'
  BY <1>29 DEF QueryLostContent, Exit
<1>30. ASSUME NEW t \in Threads, QueryFound(t)
      PROVE  MappingInv'
  BY <1>30 DEF QueryFound
<1>31. ASSUME NEW t \in Threads, QueryDone(t)
      PROVE  MappingInv'
  BY <1>31 DEF QueryDone
<1>32. ASSUME NEW t \in Threads, OutOfResources(t)
      PROVE  MappingInv'
  BY <1>32 DEF OutOfResources, Exit
<1>33. ASSUME NEW t \in Threads, CudaFails(t)
      PROVE  MappingInv'
  BY <1>33 DEF CudaFails, Exit
<1>34. ASSUME NEW t \in Threads, NEW value \in Margins, SetMargin(t, value)
      PROVE  MappingInv'
  BY <1>34 DEF SetMargin
<1>35. ASSUME NEW p \in Ptrs, NEW v \in Values, Write(p, v)
      PROVE  MappingInv'
  BY <1>35 DEF Write
<1>36. CASE UNCHANGED vars
  BY <1>36 DEF vars
<1>37. QED
  BY <1>1, <1>2, <1>3, <1>4, <1>5, <1>6, <1>7, <1>8, <1>9, <1>10, <1>11,
     <1>12, <1>13, <1>14, <1>15, <1>16, <1>17, <1>18, <1>19, <1>20, <1>21,
     <1>22, <1>23, <1>24, <1>25, <1>26, <1>27, <1>28, <1>29, <1>30, <1>31,
     <1>32, <1>33, <1>34, <1>35, <1>36
     DEF Next, Step, Call, Terminated

\* Entries and frees in progress own their buffers and files.
LEMMA BackupStep ==
  ASSUME IInv, [Next]_vars
  PROVE  BackupInv'
<1> USE AllocatorAssumption DEF IInv, TypeOK, LocalInv, BackupInv, BackupsMatch, Apart, Unregistered,
          device, backups,
          lock, local, client, Goto, Return, Tracked, Unused
<1>1. ASSUME NEW t \in Threads, MallocBothBackups(t)
      PROVE  BackupInv'
  BY <1>1 DEF MallocBothBackups, Exit
<1>2. ASSUME NEW t \in Threads, UntrackedMalloc(t)
      PROVE  BackupInv'
  BY <1>2 DEF UntrackedMalloc
<1>3. ASSUME NEW t \in Threads, NEW tag \in Tags, NEW backup \in BackupModes, MallocCall(t, tag, backup)
      PROVE  BackupInv'
  BY <1>3 DEF MallocCall, NewMetadata
<1>4. ASSUME NEW t \in Threads, MallocOutOfMemory(t)
      PROVE  BackupInv'
  BY <1>4 DEF MallocOutOfMemory
<1>5. ASSUME NEW t \in Threads, MallocCreate(t)
      PROVE  BackupInv'
  BY <1>5 DEF MallocCreate
<1>6. ASSUME NEW t \in Threads, MallocRegister(t)
      PROVE  BackupInv'
  BY <1>6 DEF MallocRegister, Emplace
<1>7. ASSUME NEW t \in Threads, NEW p \in Ptrs, FreeCall(t, p)
      PROVE  BackupInv'
  BY <1>7 DEF FreeCall
<1>8. ASSUME NEW t \in Threads, FreeUntracked(t)
      PROVE  BackupInv'
  BY <1>8 DEF FreeUntracked, Accepted, Unmap
<1>9. ASSUME NEW t \in Threads, FreeLookup(t)
      PROVE  BackupInv'
  BY <1>9 DEF FreeLookup
<1>10. ASSUME NEW t \in Threads, FreeDevice(t)
      PROVE  BackupInv'
  BY <1>10 DEF FreeDevice, Accepted, Unmap
<1>11. ASSUME NEW t \in Threads, FreeBackup(t)
      PROVE  BackupInv'
  <2>1. md[t] \in Metadata /\ t \in Unregistered
    BY <1>11 DEF FreeBackup, Unregistered
  <2>2. Unregistered' = Unregistered \ {t}
    BY <1>11 DEF FreeBackup, Unregistered
  <2>3. \A u \in Unregistered' : md'[u] = md[u] /\ Apart(md[u], md[t])
    BY <1>11, <2>1, <2>2 DEF FreeBackup, Apart
  <2>4. \A p \in Tracked : Apart(meta[p], md[t])
    BY <2>1
  <2>5. \A m \in Metadata : Apart(m, md[t]) /\ BackupsMatch(m) => BackupsMatch(m)'
    BY <1>11, <2>1 DEF FreeBackup, FreeHost, Apart, BackupsMatch, Metadata
  <2>6. QED
    BY <1>11, <2>2, <2>3, <2>4, <2>5 DEF FreeBackup
<1>12. ASSUME NEW t \in Threads, NEW tagFilter \in Tags \cup {Null}, PauseCall(t, tagFilter)
      PROVE  BackupInv'
  BY <1>12 DEF PauseCall
<1>13. ASSUME NEW t \in Threads, PauseLock(t)
      PROVE  BackupInv'
  BY <1>13 DEF PauseLock, EnterLoop
<1>14. ASSUME NEW t \in Threads, PauseNotActive(t)
      PROVE  BackupInv'
  BY <1>14 DEF PauseNotActive, Exit
<1>15. ASSUME NEW t \in Threads, NEW p \in todo, PauseNoBackup(t, p)
      PROVE  BackupInv'
  <2>1. PICK n \in Metadata : PausedWithoutBackup(t, p, n)
    BY <1>15, PauseNoBackupEffect
  <2>2. QED
    BY <2>1 DEF PausedWithoutBackup, PausedAs
<1>16. ASSUME NEW t \in Threads, NEW p \in todo, PauseToHost(t, p)
      PROVE  BackupInv'
  <2>1. PICK n \in Metadata, b \in Bufs, kind \in CPUBackupKind :
          PausedToHost(t, p, n, b, kind)
    BY <1>16, PauseToHostEffect
  <2> HIDE DEF BackupInv, BackupsMatch, Apart, Tracked, Unregistered
  <2>2. /\ meta' = [meta EXCEPT ![p] = n] /\ UNCHANGED <<pc, md, fileData>>
        /\ hostKind' = [hostKind EXCEPT ![b] = kind]
        /\ n.cpu_backup = b /\ n.cpu_backup_kind = kind /\ n.disk = meta[p].disk
        /\ n.backup = meta[p].backup /\ meta[p].backup = "cpu"
        /\ meta[p].cpu_backup = b \/ (meta[p].cpu_backup = Null /\ hostKind[b] = "free")
    BY <2>1 DEF PausedToHost, PausedAs
  <2>3. p \in Tracked /\ meta[p] \in Metadata /\ p \in Ptrs /\ BackupsMatch(meta[p])
    BY EntryFacts
  <2>4. Tracked' = Tracked /\ Unregistered' = Unregistered
    BY <2>2, <2>3 DEF Tracked, Unregistered
  <2>5. \A m \in Metadata : BackupsMatch(m) /\ Apart(m, meta[p]) /\ Apart(meta[p], m) =>
           BackupsMatch(m)' /\ Apart(m, n) /\ Apart(n, m)
    <3> SUFFICES ASSUME NEW m \in Metadata, BackupsMatch(m), Apart(m, meta[p]), Apart(meta[p], m)
                 PROVE  BackupsMatch(m)' /\ Apart(m, n) /\ Apart(n, m)
      OBVIOUS
    <3>1. m.cpu_backup # b
      BY <2>2 DEF BackupsMatch, Apart, Metadata, CPUBackupKind
    <3>2. m.cpu_backup # Null => m.cpu_backup \in Bufs
      BY DEF Metadata
    <3>3. QED
      BY <2>2, <3>1, <3>2 DEF BackupsMatch, Apart
  <2>6. BackupsMatch(n)'
    BY <2>2, <2>3 DEF BackupsMatch
  <2>7. meta'[p] = n /\ \A q \in Tracked : q # p => meta'[q] = meta[q] /\ meta[q] \in Metadata
    BY <2>2, <2>3 DEF Tracked
  <2>8. \A u \in Unregistered : md'[u] = md[u] /\ md[u] \in Metadata
    BY <2>2 DEF Unregistered
  <2>9. QED
    BY <2>3, <2>4, <2>5, <2>6, <2>7, <2>8, ApartSymmetric DEF BackupInv
<1>17. ASSUME NEW t \in Threads, NEW p \in todo, PauseToDisk(t, p)
      PROVE  BackupInv'
  <2>1. PICK n \in Metadata, f \in Files : PausedToDisk(t, p, n, f)
    BY <1>17, PauseToDiskEffect
  <2>2. QED
    BY <2>1 DEF PausedToDisk, PausedAs
<1>18. ASSUME NEW t \in Threads, PauseReturn(t)
      PROVE  BackupInv'
  BY <1>18 DEF PauseReturn, LeaveLoop
<1>19. ASSUME NEW t \in Threads, NEW tagFilter \in Tags \cup {Null}, ResumeCall(t, tagFilter)
      PROVE  BackupInv'
  BY <1>19 DEF ResumeCall
<1>20. ASSUME NEW t \in Threads, ResumeLock(t)
      PROVE  BackupInv'
  BY <1>20 DEF ResumeLock, EnterLoop
<1>21. ASSUME NEW t \in Threads, ResumeNotPaused(t)
      PROVE  BackupInv'
  BY <1>21 DEF ResumeNotPaused, Exit
<1>22. ASSUME NEW t \in Threads, NEW p \in todo, ResumeNoBackup(t, p)
      PROVE  BackupInv'
  <2>1. PICK n \in Metadata, h \in Handles : ResumedEmpty(t, p, n, h)
    BY <1>22, ResumeNoBackupEffect
  <2>2. QED
    BY <2>1 DEF ResumedEmpty, ResumedAs
<1>23. ASSUME NEW t \in Threads, NEW p \in todo, ResumeFromHost(t, p)
      PROVE  BackupInv'
  <2>1. PICK n \in Metadata, h \in Handles : ResumedFromHost(t, p, n, h)
    BY <1>23, ResumeFromHostEffect
  <2>2. QED
    BY <2>1 DEF ResumedFromHost, ResumedAs
<1>24. ASSUME NEW t \in Threads, NEW p \in todo, ResumeFromDisk(t, p)
      PROVE  BackupInv'
  <2>1. PICK n \in Metadata, h \in Handles : ResumedFromDisk(t, p, n, h)
    BY <1>24, ResumeFromDiskEffect
  <2>2. QED
    BY <2>1 DEF ResumedFromDisk, ResumedAs
<1>25. ASSUME NEW t \in Threads, ResumeReturn(t)
      PROVE  BackupInv'
  BY <1>25 DEF ResumeReturn, LeaveLoop
<1>26. ASSUME NEW t \in Threads, NEW p \in Ptrs, QueryCall(t, p)
      PROVE  BackupInv'
  BY <1>26 DEF QueryCall
<1>27. ASSUME NEW t \in Threads, QueryNotFound(t)
      PROVE  BackupInv'
  BY <1>27 DEF QueryNotFound, Exit
<1>28. ASSUME NEW t \in Threads, QueryNoCopy(t)
      PROVE  BackupInv'
  BY <1>28 DEF QueryNoCopy
<1>29. ASSUME NEW t \in Threads, QueryLostContent(t)
      PROVE  BackupInv'
  BY <1>29 DEF QueryLostContent, Exit
<1>30. ASSUME NEW t \in Threads, QueryFound(t)
      PROVE  BackupInv'
  BY <1>30 DEF QueryFound
<1>31. ASSUME NEW t \in Threads, QueryDone(t)
      PROVE  BackupInv'
  BY <1>31 DEF QueryDone
<1>32. ASSUME NEW t \in Threads, OutOfResources(t)
      PROVE  BackupInv'
  BY <1>32 DEF OutOfResources, Exit
<1>33. ASSUME NEW t \in Threads, CudaFails(t)
      PROVE  BackupInv'
  BY <1>33 DEF CudaFails, Exit
<1>34. ASSUME NEW t \in Threads, NEW value \in Margins, SetMargin(t, value)
      PROVE  BackupInv'
  BY <1>34 DEF SetMargin
<1>35. ASSUME NEW p \in Ptrs, NEW v \in Values, Write(p, v)
      PROVE  BackupInv'
  BY <1>35 DEF Write
<1>36. CASE UNCHANGED vars
  BY <1>36 DEF vars
<1>37. QED
  BY <1>1, <1>2, <1>3, <1>4, <1>5, <1>6, <1>7, <1>8, <1>9, <1>10, <1>11,
     <1>12, <1>13, <1>14, <1>15, <1>16, <1>17, <1>18, <1>19, <1>20, <1>21,
     <1>22, <1>23, <1>24, <1>25, <1>26, <1>27, <1>28, <1>29, <1>30, <1>31,
     <1>32, <1>33, <1>34, <1>35, <1>36
     DEF Next, Step, Call, Terminated

\* No buffer and no file leaks.
LEMMA LeakStep ==
  ASSUME IInv, [Next]_vars
  PROVE  LeakInv'
<1> USE AllocatorAssumption DEF IInv, TypeOK, LocalInv, LeakInv, Unregistered,
          device, backups,
          lock, local, client, Goto, Return, Tracked, Unused
<1>1. ASSUME NEW t \in Threads, MallocBothBackups(t)
      PROVE  LeakInv'
  BY <1>1 DEF MallocBothBackups, Exit
<1>2. ASSUME NEW t \in Threads, UntrackedMalloc(t)
      PROVE  LeakInv'
  BY <1>2 DEF UntrackedMalloc
<1>3. ASSUME NEW t \in Threads, NEW tag \in Tags, NEW backup \in BackupModes, MallocCall(t, tag, backup)
      PROVE  LeakInv'
  BY <1>3 DEF MallocCall, NewMetadata
<1>4. ASSUME NEW t \in Threads, MallocOutOfMemory(t)
      PROVE  LeakInv'
  BY <1>4 DEF MallocOutOfMemory
<1>5. ASSUME NEW t \in Threads, MallocCreate(t)
      PROVE  LeakInv'
  BY <1>5 DEF MallocCreate
<1>6. ASSUME NEW t \in Threads, MallocRegister(t)
      PROVE  LeakInv'
  BY <1>6 DEF MallocRegister, Emplace
<1>7. ASSUME NEW t \in Threads, NEW p \in Ptrs, FreeCall(t, p)
      PROVE  LeakInv'
  BY <1>7 DEF FreeCall
<1>8. ASSUME NEW t \in Threads, FreeUntracked(t)
      PROVE  LeakInv'
  BY <1>8 DEF FreeUntracked, Accepted, Unmap
<1>9. ASSUME NEW t \in Threads, FreeLookup(t)
      PROVE  LeakInv'
  BY <1>9 DEF FreeLookup
<1>10. ASSUME NEW t \in Threads, FreeDevice(t)
      PROVE  LeakInv'
  BY <1>10 DEF FreeDevice, Accepted, Unmap
<1>11. ASSUME NEW t \in Threads, FreeBackup(t)
      PROVE  LeakInv'
  BY <1>11 DEF FreeBackup, FreeHost, Accepted
<1>12. ASSUME NEW t \in Threads, NEW tagFilter \in Tags \cup {Null}, PauseCall(t, tagFilter)
      PROVE  LeakInv'
  BY <1>12 DEF PauseCall
<1>13. ASSUME NEW t \in Threads, PauseLock(t)
      PROVE  LeakInv'
  BY <1>13 DEF PauseLock, EnterLoop
<1>14. ASSUME NEW t \in Threads, PauseNotActive(t)
      PROVE  LeakInv'
  BY <1>14 DEF PauseNotActive, Exit
<1>15. ASSUME NEW t \in Threads, NEW p \in todo, PauseNoBackup(t, p)
      PROVE  LeakInv'
  <2>1. PICK n \in Metadata : PausedWithoutBackup(t, p, n)
    BY <1>15, PauseNoBackupEffect
  <2>2. QED
    BY <2>1 DEF PausedWithoutBackup, PausedAs, Metadata, CPUBackupKind
<1>16. ASSUME NEW t \in Threads, NEW p \in todo, PauseToHost(t, p)
      PROVE  LeakInv'
  <2>1. PICK n \in Metadata, b \in Bufs, kind \in CPUBackupKind :
          PausedToHost(t, p, n, b, kind)
    BY <1>16, PauseToHostEffect
  <2>2. QED
    BY <2>1 DEF PausedToHost, PausedAs, Metadata, CPUBackupKind
<1>17. ASSUME NEW t \in Threads, NEW p \in todo, PauseToDisk(t, p)
      PROVE  LeakInv'
  <2>1. PICK n \in Metadata, f \in Files : PausedToDisk(t, p, n, f)
    BY <1>17, PauseToDiskEffect
  <2>2. QED
    BY <2>1 DEF PausedToDisk, PausedAs, Metadata, CPUBackupKind
<1>18. ASSUME NEW t \in Threads, PauseReturn(t)
      PROVE  LeakInv'
  BY <1>18 DEF PauseReturn, LeaveLoop
<1>19. ASSUME NEW t \in Threads, NEW tagFilter \in Tags \cup {Null}, ResumeCall(t, tagFilter)
      PROVE  LeakInv'
  BY <1>19 DEF ResumeCall
<1>20. ASSUME NEW t \in Threads, ResumeLock(t)
      PROVE  LeakInv'
  BY <1>20 DEF ResumeLock, EnterLoop
<1>21. ASSUME NEW t \in Threads, ResumeNotPaused(t)
      PROVE  LeakInv'
  BY <1>21 DEF ResumeNotPaused, Exit
<1>22. ASSUME NEW t \in Threads, NEW p \in todo, ResumeNoBackup(t, p)
      PROVE  LeakInv'
  <2>1. PICK n \in Metadata, h \in Handles : ResumedEmpty(t, p, n, h)
    BY <1>22, ResumeNoBackupEffect
  <2>2. /\ p \in Tracked /\ meta' = [meta EXCEPT ![p] = n] /\ n # Null
        /\ n.cpu_backup = meta[p].cpu_backup /\ n.disk = meta[p].disk
        /\ UNCHANGED <<pc, md, hostKind, fileData>>
    BY <2>1 DEF ResumedEmpty, ResumedAs
  <2>3. Tracked' = Tracked /\ Unregistered' = Unregistered
    BY <2>2
  <2>4. QED
    BY <2>2, <2>3
<1>23. ASSUME NEW t \in Threads, NEW p \in todo, ResumeFromHost(t, p)
      PROVE  LeakInv'
  <2>1. PICK n \in Metadata, h \in Handles : ResumedFromHost(t, p, n, h)
    BY <1>23, ResumeFromHostEffect
  <2>2. QED
    BY <2>1 DEF ResumedFromHost, ResumedAs, Metadata, CPUBackupKind
<1>24. ASSUME NEW t \in Threads, NEW p \in todo, ResumeFromDisk(t, p)
      PROVE  LeakInv'
  <2>1. PICK n \in Metadata, h \in Handles : ResumedFromDisk(t, p, n, h)
    BY <1>24, ResumeFromDiskEffect
  <2>2. QED
    BY <2>1 DEF ResumedFromDisk, ResumedAs, Metadata, CPUBackupKind
<1>25. ASSUME NEW t \in Threads, ResumeReturn(t)
      PROVE  LeakInv'
  BY <1>25 DEF ResumeReturn, LeaveLoop
<1>26. ASSUME NEW t \in Threads, NEW p \in Ptrs, QueryCall(t, p)
      PROVE  LeakInv'
  BY <1>26 DEF QueryCall
<1>27. ASSUME NEW t \in Threads, QueryNotFound(t)
      PROVE  LeakInv'
  BY <1>27 DEF QueryNotFound, Exit
<1>28. ASSUME NEW t \in Threads, QueryNoCopy(t)
      PROVE  LeakInv'
  BY <1>28 DEF QueryNoCopy
<1>29. ASSUME NEW t \in Threads, QueryLostContent(t)
      PROVE  LeakInv'
  BY <1>29 DEF QueryLostContent, Exit
<1>30. ASSUME NEW t \in Threads, QueryFound(t)
      PROVE  LeakInv'
  BY <1>30 DEF QueryFound
<1>31. ASSUME NEW t \in Threads, QueryDone(t)
      PROVE  LeakInv'
  BY <1>31 DEF QueryDone
<1>32. ASSUME NEW t \in Threads, OutOfResources(t)
      PROVE  LeakInv'
  BY <1>32 DEF OutOfResources, Exit
<1>33. ASSUME NEW t \in Threads, CudaFails(t)
      PROVE  LeakInv'
  BY <1>33 DEF CudaFails, Exit
<1>34. ASSUME NEW t \in Threads, NEW value \in Margins, SetMargin(t, value)
      PROVE  LeakInv'
  BY <1>34 DEF SetMargin
<1>35. ASSUME NEW p \in Ptrs, NEW v \in Values, Write(p, v)
      PROVE  LeakInv'
  BY <1>35 DEF Write
<1>36. CASE UNCHANGED vars
  BY <1>36 DEF vars
<1>37. QED
  BY <1>1, <1>2, <1>3, <1>4, <1>5, <1>6, <1>7, <1>8, <1>9, <1>10, <1>11,
     <1>12, <1>13, <1>14, <1>15, <1>16, <1>17, <1>18, <1>19, <1>20, <1>21,
     <1>22, <1>23, <1>24, <1>25, <1>26, <1>27, <1>28, <1>29, <1>30, <1>31,
     <1>32, <1>33, <1>34, <1>35, <1>36
     DEF Next, Step, Call, Terminated

\* A loop leaves its entries in one state.
LEMMA LoopStep ==
  ASSUME IInv, [Next]_vars
  PROVE  LoopInv'
<1> USE AllocatorAssumption DEF IInv, TypeOK, LocalInv, LoopInv, Matches,
          device, backups,
          lock, local, client, Goto, Return, Tracked, Unused
<1>1. ASSUME NEW t \in Threads, MallocBothBackups(t)
      PROVE  LoopInv'
  BY <1>1 DEF MallocBothBackups, Exit
<1>2. ASSUME NEW t \in Threads, UntrackedMalloc(t)
      PROVE  LoopInv'
  BY <1>2 DEF UntrackedMalloc
<1>3. ASSUME NEW t \in Threads, NEW tag \in Tags, NEW backup \in BackupModes, MallocCall(t, tag, backup)
      PROVE  LoopInv'
  BY <1>3 DEF MallocCall, NewMetadata
<1>4. ASSUME NEW t \in Threads, MallocOutOfMemory(t)
      PROVE  LoopInv'
  BY <1>4 DEF MallocOutOfMemory
<1>5. ASSUME NEW t \in Threads, MallocCreate(t)
      PROVE  LoopInv'
  BY <1>5 DEF MallocCreate
<1>6. ASSUME NEW t \in Threads, MallocRegister(t)
      PROVE  LoopInv'
  BY <1>6 DEF MallocRegister, Emplace
<1>7. ASSUME NEW t \in Threads, NEW p \in Ptrs, FreeCall(t, p)
      PROVE  LoopInv'
  BY <1>7 DEF FreeCall
<1>8. ASSUME NEW t \in Threads, FreeUntracked(t)
      PROVE  LoopInv'
  BY <1>8 DEF FreeUntracked, Accepted, Unmap
<1>9. ASSUME NEW t \in Threads, FreeLookup(t)
      PROVE  LoopInv'
  BY <1>9 DEF FreeLookup
<1>10. ASSUME NEW t \in Threads, FreeDevice(t)
      PROVE  LoopInv'
  BY <1>10 DEF FreeDevice, Accepted, Unmap
<1>11. ASSUME NEW t \in Threads, FreeBackup(t)
      PROVE  LoopInv'
  BY <1>11 DEF FreeBackup, FreeHost, Accepted
<1>12. ASSUME NEW t \in Threads, NEW tagFilter \in Tags \cup {Null}, PauseCall(t, tagFilter)
      PROVE  LoopInv'
  BY <1>12 DEF PauseCall
<1>13. ASSUME NEW t \in Threads, PauseLock(t)
      PROVE  LoopInv'
  BY <1>13 DEF PauseLock, EnterLoop
<1>14. ASSUME NEW t \in Threads, PauseNotActive(t)
      PROVE  LoopInv'
  BY <1>14 DEF PauseNotActive, Exit
<1>15. ASSUME NEW t \in Threads, NEW p \in todo, PauseNoBackup(t, p)
      PROVE  LoopInv'
  <2>1. PICK n \in Metadata : PausedWithoutBackup(t, p, n)
    BY <1>15, PauseNoBackupEffect
  <2>2. QED
    BY <2>1 DEF PausedWithoutBackup, PausedAs
<1>16. ASSUME NEW t \in Threads, NEW p \in todo, PauseToHost(t, p)
      PROVE  LoopInv'
  <2>1. PICK n \in Metadata, b \in Bufs, kind \in CPUBackupKind :
          PausedToHost(t, p, n, b, kind)
    BY <1>16, PauseToHostEffect
  <2>2. QED
    BY <2>1 DEF PausedToHost, PausedAs
<1>17. ASSUME NEW t \in Threads, NEW p \in todo, PauseToDisk(t, p)
      PROVE  LoopInv'
  <2>1. PICK n \in Metadata, f \in Files : PausedToDisk(t, p, n, f)
    BY <1>17, PauseToDiskEffect
  <2>2. QED
    BY <2>1 DEF PausedToDisk, PausedAs
<1>18. ASSUME NEW t \in Threads, PauseReturn(t)
      PROVE  LoopInv'
  BY <1>18 DEF PauseReturn, LeaveLoop
<1>19. ASSUME NEW t \in Threads, NEW tagFilter \in Tags \cup {Null}, ResumeCall(t, tagFilter)
      PROVE  LoopInv'
  BY <1>19 DEF ResumeCall
<1>20. ASSUME NEW t \in Threads, ResumeLock(t)
      PROVE  LoopInv'
  BY <1>20 DEF ResumeLock, EnterLoop
<1>21. ASSUME NEW t \in Threads, ResumeNotPaused(t)
      PROVE  LoopInv'
  BY <1>21 DEF ResumeNotPaused, Exit
<1>22. ASSUME NEW t \in Threads, NEW p \in todo, ResumeNoBackup(t, p)
      PROVE  LoopInv'
  <2>1. PICK n \in Metadata, h \in Handles : ResumedEmpty(t, p, n, h)
    BY <1>22, ResumeNoBackupEffect
  <2>2. QED
    BY <2>1 DEF ResumedEmpty, ResumedAs
<1>23. ASSUME NEW t \in Threads, NEW p \in todo, ResumeFromHost(t, p)
      PROVE  LoopInv'
  <2>1. PICK n \in Metadata, h \in Handles : ResumedFromHost(t, p, n, h)
    BY <1>23, ResumeFromHostEffect
  <2>2. QED
    BY <2>1 DEF ResumedFromHost, ResumedAs
<1>24. ASSUME NEW t \in Threads, NEW p \in todo, ResumeFromDisk(t, p)
      PROVE  LoopInv'
  <2>1. PICK n \in Metadata, h \in Handles : ResumedFromDisk(t, p, n, h)
    BY <1>24, ResumeFromDiskEffect
  <2>2. QED
    BY <2>1 DEF ResumedFromDisk, ResumedAs
<1>25. ASSUME NEW t \in Threads, ResumeReturn(t)
      PROVE  LoopInv'
  BY <1>25 DEF ResumeReturn, LeaveLoop
<1>26. ASSUME NEW t \in Threads, NEW p \in Ptrs, QueryCall(t, p)
      PROVE  LoopInv'
  BY <1>26 DEF QueryCall
<1>27. ASSUME NEW t \in Threads, QueryNotFound(t)
      PROVE  LoopInv'
  BY <1>27 DEF QueryNotFound, Exit
<1>28. ASSUME NEW t \in Threads, QueryNoCopy(t)
      PROVE  LoopInv'
  BY <1>28 DEF QueryNoCopy
<1>29. ASSUME NEW t \in Threads, QueryLostContent(t)
      PROVE  LoopInv'
  BY <1>29 DEF QueryLostContent, Exit
<1>30. ASSUME NEW t \in Threads, QueryFound(t)
      PROVE  LoopInv'
  BY <1>30 DEF QueryFound
<1>31. ASSUME NEW t \in Threads, QueryDone(t)
      PROVE  LoopInv'
  BY <1>31 DEF QueryDone
<1>32. ASSUME NEW t \in Threads, OutOfResources(t)
      PROVE  LoopInv'
  BY <1>32 DEF OutOfResources, Exit
<1>33. ASSUME NEW t \in Threads, CudaFails(t)
      PROVE  LoopInv'
  BY <1>33 DEF CudaFails, Exit
<1>34. ASSUME NEW t \in Threads, NEW value \in Margins, SetMargin(t, value)
      PROVE  LoopInv'
  BY <1>34 DEF SetMargin
<1>35. ASSUME NEW p \in Ptrs, NEW v \in Values, Write(p, v)
      PROVE  LoopInv'
  BY <1>35 DEF Write
<1>36. CASE UNCHANGED vars
  BY <1>36 DEF vars
<1>37. QED
  BY <1>1, <1>2, <1>3, <1>4, <1>5, <1>6, <1>7, <1>8, <1>9, <1>10, <1>11,
     <1>12, <1>13, <1>14, <1>15, <1>16, <1>17, <1>18, <1>19, <1>20, <1>21,
     <1>22, <1>23, <1>24, <1>25, <1>26, <1>27, <1>28, <1>29, <1>30, <1>31,
     <1>32, <1>33, <1>34, <1>35, <1>36
     DEF Next, Step, Call, Terminated

\* What is queried is neither freed nor resumed.
LEMMA ViewStep ==
  ASSUME IInv, [Next]_vars
  PROVE  ViewInv'
<1> USE AllocatorAssumption DEF IInv, TypeOK, LocalInv, AddressInv, HoldsAddress, ViewInv, LoopInv, Matches,
          device, backups,
          lock, local, client, Goto, Return, Tracked, Unused
<1>1. ASSUME NEW t \in Threads, MallocBothBackups(t)
      PROVE  ViewInv'
  BY <1>1 DEF MallocBothBackups, Exit
<1>2. ASSUME NEW t \in Threads, UntrackedMalloc(t)
      PROVE  ViewInv'
  BY <1>2 DEF UntrackedMalloc
<1>3. ASSUME NEW t \in Threads, NEW tag \in Tags, NEW backup \in BackupModes, MallocCall(t, tag, backup)
      PROVE  ViewInv'
  BY <1>3 DEF MallocCall, NewMetadata
<1>4. ASSUME NEW t \in Threads, MallocOutOfMemory(t)
      PROVE  ViewInv'
  BY <1>4 DEF MallocOutOfMemory
<1>5. ASSUME NEW t \in Threads, MallocCreate(t)
      PROVE  ViewInv'
  BY <1>5 DEF MallocCreate
<1>6. ASSUME NEW t \in Threads, MallocRegister(t)
      PROVE  ViewInv'
  BY <1>6 DEF MallocRegister, Emplace
<1>7. ASSUME NEW t \in Threads, NEW p \in Ptrs, FreeCall(t, p)
      PROVE  ViewInv'
  BY <1>7 DEF FreeCall
<1>8. ASSUME NEW t \in Threads, FreeUntracked(t)
      PROVE  ViewInv'
  BY <1>8 DEF FreeUntracked, Accepted, Unmap
<1>9. ASSUME NEW t \in Threads, FreeLookup(t)
      PROVE  ViewInv'
  BY <1>9 DEF FreeLookup
<1>10. ASSUME NEW t \in Threads, FreeDevice(t)
      PROVE  ViewInv'
  BY <1>10 DEF FreeDevice, Accepted, Unmap
<1>11. ASSUME NEW t \in Threads, FreeBackup(t)
      PROVE  ViewInv'
  BY <1>11 DEF FreeBackup, FreeHost, Accepted
<1>12. ASSUME NEW t \in Threads, NEW tagFilter \in Tags \cup {Null}, PauseCall(t, tagFilter)
      PROVE  ViewInv'
  BY <1>12 DEF PauseCall
<1>13. ASSUME NEW t \in Threads, PauseLock(t)
      PROVE  ViewInv'
  BY <1>13 DEF PauseLock, EnterLoop
<1>14. ASSUME NEW t \in Threads, PauseNotActive(t)
      PROVE  ViewInv'
  BY <1>14 DEF PauseNotActive, Exit
<1>15. ASSUME NEW t \in Threads, NEW p \in todo, PauseNoBackup(t, p)
      PROVE  ViewInv'
  <2>1. PICK n \in Metadata : PausedWithoutBackup(t, p, n)
    BY <1>15, PauseNoBackupEffect
  <2>2. QED
    BY <2>1 DEF PausedWithoutBackup, PausedAs
<1>16. ASSUME NEW t \in Threads, NEW p \in todo, PauseToHost(t, p)
      PROVE  ViewInv'
  <2>1. PICK n \in Metadata, b \in Bufs, kind \in CPUBackupKind :
          PausedToHost(t, p, n, b, kind)
    BY <1>16, PauseToHostEffect
  <2>2. QED
    BY <2>1 DEF PausedToHost, PausedAs
<1>17. ASSUME NEW t \in Threads, NEW p \in todo, PauseToDisk(t, p)
      PROVE  ViewInv'
  <2>1. PICK n \in Metadata, f \in Files : PausedToDisk(t, p, n, f)
    BY <1>17, PauseToDiskEffect
  <2>2. QED
    BY <2>1 DEF PausedToDisk, PausedAs
<1>18. ASSUME NEW t \in Threads, PauseReturn(t)
      PROVE  ViewInv'
  BY <1>18 DEF PauseReturn, LeaveLoop
<1>19. ASSUME NEW t \in Threads, NEW tagFilter \in Tags \cup {Null}, ResumeCall(t, tagFilter)
      PROVE  ViewInv'
  BY <1>19 DEF ResumeCall
<1>20. ASSUME NEW t \in Threads, ResumeLock(t)
      PROVE  ViewInv'
  BY <1>20 DEF ResumeLock, EnterLoop
<1>21. ASSUME NEW t \in Threads, ResumeNotPaused(t)
      PROVE  ViewInv'
  BY <1>21 DEF ResumeNotPaused, Exit
<1>22. ASSUME NEW t \in Threads, NEW p \in todo, ResumeNoBackup(t, p)
      PROVE  ViewInv'
  <2>1. PICK n \in Metadata, h \in Handles : ResumedEmpty(t, p, n, h)
    BY <1>22, ResumeNoBackupEffect
  <2>2. /\ meta' = [meta EXCEPT ![p] = n] /\ n.tag = meta[p].tag /\ pc[t] = "r_loop"
        /\ p \in Tracked /\ UNCHANGED <<pc, ptr, filter, view, owned>>
    BY <2>1 DEF ResumedEmpty, ResumedAs
  <2>3. Matches(meta[p], filter[t])
    BY <2>2
  <2>4. \A u \in Threads : pc[u] \in {"q_lock", "q_read"} => ptr[u] # p
    BY <2>2, <2>3
  <2>5. QED
    BY <2>2, <2>4
<1>23. ASSUME NEW t \in Threads, NEW p \in todo, ResumeFromHost(t, p)
      PROVE  ViewInv'
  <2>1. PICK n \in Metadata, h \in Handles : ResumedFromHost(t, p, n, h)
    BY <1>23, ResumeFromHostEffect
  <2>2. /\ meta' = [meta EXCEPT ![p] = n] /\ n.tag = meta[p].tag /\ pc[t] = "r_loop"
        /\ p \in Tracked /\ UNCHANGED <<pc, ptr, filter, view, owned>>
    BY <2>1 DEF ResumedFromHost, ResumedAs
  <2>3. Matches(meta[p], filter[t])
    BY <2>2
  <2>4. \A u \in Threads : pc[u] \in {"q_lock", "q_read"} => ptr[u] # p
    BY <2>2, <2>3
  <2>5. QED
    BY <2>2, <2>4
<1>24. ASSUME NEW t \in Threads, NEW p \in todo, ResumeFromDisk(t, p)
      PROVE  ViewInv'
  <2>1. PICK n \in Metadata, h \in Handles : ResumedFromDisk(t, p, n, h)
    BY <1>24, ResumeFromDiskEffect
  <2>2. /\ meta' = [meta EXCEPT ![p] = n] /\ n.tag = meta[p].tag /\ pc[t] = "r_loop"
        /\ p \in Tracked /\ UNCHANGED <<pc, ptr, filter, view, owned>>
    BY <2>1 DEF ResumedFromDisk, ResumedAs
  <2>3. Matches(meta[p], filter[t])
    BY <2>2
  <2>4. \A u \in Threads : pc[u] \in {"q_lock", "q_read"} => ptr[u] # p
    BY <2>2, <2>3
  <2>5. QED
    BY <2>2, <2>4
<1>25. ASSUME NEW t \in Threads, ResumeReturn(t)
      PROVE  ViewInv'
  BY <1>25 DEF ResumeReturn, LeaveLoop
<1>26. ASSUME NEW t \in Threads, NEW p \in Ptrs, QueryCall(t, p)
      PROVE  ViewInv'
  BY <1>26 DEF QueryCall
<1>27. ASSUME NEW t \in Threads, QueryNotFound(t)
      PROVE  ViewInv'
  BY <1>27 DEF QueryNotFound, Exit
<1>28. ASSUME NEW t \in Threads, QueryNoCopy(t)
      PROVE  ViewInv'
  BY <1>28 DEF QueryNoCopy
<1>29. ASSUME NEW t \in Threads, QueryLostContent(t)
      PROVE  ViewInv'
  BY <1>29 DEF QueryLostContent, Exit
<1>30. ASSUME NEW t \in Threads, QueryFound(t)
      PROVE  ViewInv'
  BY <1>30 DEF QueryFound, HasCopy
<1>31. ASSUME NEW t \in Threads, QueryDone(t)
      PROVE  ViewInv'
  BY <1>31 DEF QueryDone
<1>32. ASSUME NEW t \in Threads, OutOfResources(t)
      PROVE  ViewInv'
  BY <1>32 DEF OutOfResources, Exit
<1>33. ASSUME NEW t \in Threads, CudaFails(t)
      PROVE  ViewInv'
  BY <1>33 DEF CudaFails, Exit
<1>34. ASSUME NEW t \in Threads, NEW value \in Margins, SetMargin(t, value)
      PROVE  ViewInv'
  BY <1>34 DEF SetMargin
<1>35. ASSUME NEW p \in Ptrs, NEW v \in Values, Write(p, v)
      PROVE  ViewInv'
  BY <1>35 DEF Write
<1>36. CASE UNCHANGED vars
  BY <1>36 DEF vars
<1>37. QED
  BY <1>1, <1>2, <1>3, <1>4, <1>5, <1>6, <1>7, <1>8, <1>9, <1>10, <1>11,
     <1>12, <1>13, <1>14, <1>15, <1>16, <1>17, <1>18, <1>19, <1>20, <1>21,
     <1>22, <1>23, <1>24, <1>25, <1>26, <1>27, <1>28, <1>29, <1>30, <1>31,
     <1>32, <1>33, <1>34, <1>35, <1>36
     DEF Next, Step, Call, Terminated

Untouched(q) ==
    /\ mapping'[q] = mapping[q] /\ meta'[q] = meta[q]
    /\ mapping[q] # Null => content'[mapping[q]] = content[mapping[q]]
    /\ meta[q] # Null =>
          /\ meta[q].cpu_backup # Null => hostData'[meta[q].cpu_backup] = hostData[meta[q].cpu_backup]
          /\ meta[q].disk # Null => fileData'[meta[q].disk] = fileData[meta[q].disk]

\* A step that does not touch what stands for the content of q keeps it.
LEMMA UntouchedHolds ==
  ASSUME NEW q \in Ptrs, NEW v, Untouched(q), HoldsContent(q, v)
  PROVE  HoldsContent(q, v)'
  BY DEF Untouched, HoldsContent

\* What mapped memory and the backups of different entries have to do with each
\* other.
LEMMA Disjoint ==
  ASSUME IInv, NEW q \in Ptrs
  PROVE  /\ mapping[q] # Null => mapping[q] \in phys /\ mapping[q] \in Handles
         /\ \A p \in Ptrs : p # q /\ mapping[p] # Null => mapping[p] # mapping[q]
         /\ meta[q] # Null =>
               /\ meta[q] \in Metadata /\ BackupsMatch(meta[q])
               /\ \A p \in Tracked : p # q => Apart(meta[q], meta[p])
               /\ \A t \in Unregistered : Apart(meta[q], md[t])
  BY DEF IInv, TypeOK, MappingInv, Mapped, BackupInv, Tracked

\* Contents are kept.
LEMMA ContentStep ==
  ASSUME IInv, [Next]_vars
  PROVE  ContentKept'
<1> USE AllocatorAssumption DEF IInv, TypeOK, LocalInv, AddressInv, MappingInv, MappedAs, BackupInv,
          BackupsMatch, Apart, Unregistered, HoldsAddress, ContentKept, device, backups,
          lock, local, client, Goto, Return, Tracked, Unused
<1>1. ASSUME NEW t \in Threads, MallocBothBackups(t)
      PROVE  ContentKept'
  BY <1>1 DEF MallocBothBackups, Exit, HoldsContent
<1>2. ASSUME NEW t \in Threads, UntrackedMalloc(t)
      PROVE  ContentKept'
  BY <1>2 DEF UntrackedMalloc, HoldsContent
<1>3. ASSUME NEW t \in Threads, NEW tag \in Tags, NEW backup \in BackupModes, MallocCall(t, tag, backup)
      PROVE  ContentKept'
  BY <1>3 DEF MallocCall, NewMetadata, HoldsContent
<1>4. ASSUME NEW t \in Threads, MallocOutOfMemory(t)
      PROVE  ContentKept'
  BY <1>4 DEF MallocOutOfMemory, HoldsContent
<1>5. ASSUME NEW t \in Threads, MallocCreate(t)
      PROVE  ContentKept'
  BY <1>5 DEF MallocCreate, HoldsContent
<1>6. ASSUME NEW t \in Threads, MallocRegister(t)
      PROVE  ContentKept'
  BY <1>6 DEF MallocRegister, Emplace, HoldsContent
<1>7. ASSUME NEW t \in Threads, NEW p \in Ptrs, FreeCall(t, p)
      PROVE  ContentKept'
  BY <1>7 DEF FreeCall, HoldsContent
<1>8. ASSUME NEW t \in Threads, FreeUntracked(t)
      PROVE  ContentKept'
  BY <1>8 DEF FreeUntracked, Accepted, Unmap, HoldsContent
<1>9. ASSUME NEW t \in Threads, FreeLookup(t)
      PROVE  ContentKept'
  BY <1>9 DEF FreeLookup, HoldsContent
<1>10. ASSUME NEW t \in Threads, FreeDevice(t)
      PROVE  ContentKept'
  <2>1. /\ ptr[t] \in Ptrs /\ ptr[t] \notin owned
        /\ UNCHANGED <<meta, hostData, fileData, owned, expected>>
    BY <1>10 DEF FreeDevice
  <2>2. \A q \in owned : Untouched(q)
    <3>1. CASE md[t].state = "ACTIVE"
      <4>1. mapping[ptr[t]] = md[t].allocHandle /\ mapping[ptr[t]] # Null
        BY <1>10, <3>1 DEF FreeDevice
      <4>2. /\ mapping' = [mapping EXCEPT ![ptr[t]] = Null]
            /\ content' = [content EXCEPT ![mapping[ptr[t]]] = Junk]
        BY <1>10, <3>1, <4>1 DEF FreeDevice, HoldsDeviceMemory, Unmap
      <4>3. QED
        BY <2>1, <4>1, <4>2, Disjoint DEF Untouched
    <3>2. CASE md[t].state # "ACTIVE"
      BY <1>10, <2>1, <3>2 DEF FreeDevice, HoldsDeviceMemory, Untouched
    <3>3. QED
      BY <3>1, <3>2
  <2>3. QED
    BY <2>1, <2>2, UntouchedHolds
<1>11. ASSUME NEW t \in Threads, FreeBackup(t)
      PROVE  ContentKept'
  <2>1. /\ t \in Unregistered /\ md[t] \in Metadata
        /\ UNCHANGED <<mapping, content, meta, owned, expected>>
    BY <1>11 DEF FreeBackup, Unregistered
  <2>2. \A q \in owned : Untouched(q)
    <3> SUFFICES ASSUME NEW q \in owned, meta[q] # Null
                 PROVE  /\ meta[q].cpu_backup # Null =>
                              hostData'[meta[q].cpu_backup] = hostData[meta[q].cpu_backup]
                        /\ meta[q].disk # Null => fileData'[meta[q].disk] = fileData[meta[q].disk]
      BY <2>1 DEF Untouched
    <3>1. meta[q] \in Metadata /\ Apart(meta[q], md[t])
      BY <2>1, Disjoint
    <3>2. QED
      BY <1>11, <3>1 DEF FreeBackup, FreeHost, Apart, Metadata
  <2>3. QED
    BY <2>1, <2>2, UntouchedHolds
<1>12. ASSUME NEW t \in Threads, NEW tagFilter \in Tags \cup {Null}, PauseCall(t, tagFilter)
      PROVE  ContentKept'
  BY <1>12 DEF PauseCall, HoldsContent
<1>13. ASSUME NEW t \in Threads, PauseLock(t)
      PROVE  ContentKept'
  BY <1>13 DEF PauseLock, EnterLoop, HoldsContent
<1>14. ASSUME NEW t \in Threads, PauseNotActive(t)
      PROVE  ContentKept'
  BY <1>14 DEF PauseNotActive, Exit, HoldsContent
<1>15. ASSUME NEW t \in Threads, NEW p \in todo, PauseNoBackup(t, p)
      PROVE  ContentKept'
  <2>1. PICK n \in Metadata : PausedWithoutBackup(t, p, n)
    BY <1>15, PauseNoBackupEffect
  <2>2. QED
    BY <2>1 DEF PausedWithoutBackup, PausedAs, HoldsContent
<1>16. ASSUME NEW t \in Threads, NEW p \in todo, PauseToHost(t, p)
      PROVE  ContentKept'
  <2>1. PICK n \in Metadata, b \in Bufs, kind \in CPUBackupKind :
          PausedToHost(t, p, n, b, kind)
    BY <1>16, PauseToHostEffect
  <2>2. /\ p \in Tracked /\ p \in Ptrs /\ BackupsMatch(meta[p]) /\ mapping[p] # Null
        /\ mapping[p] \in Handles
    BY <2>1, EntryFacts DEF PausedToHost, PausedAs
  <2>3. \A q \in owned : q # p => Untouched(q)
    <3> SUFFICES ASSUME NEW q \in owned, q # p
                 PROVE  Untouched(q)
      OBVIOUS
    <3>1. mapping'[q] = mapping[q] /\ meta'[q] = meta[q] /\ fileData' = fileData
      BY <2>1 DEF PausedToHost, PausedAs
    <3>2. mapping[q] # Null => content'[mapping[q]] = content[mapping[q]]
      BY <2>1, <2>2, Disjoint DEF PausedToHost, PausedAs
    <3>3. ASSUME meta[q] # Null, meta[q].cpu_backup # Null
          PROVE  hostData'[meta[q].cpu_backup] = hostData[meta[q].cpu_backup]
      <4>1. meta[q] \in Metadata /\ BackupsMatch(meta[q]) /\ Apart(meta[q], meta[p])
        BY <2>2, <3>3, Disjoint
      <4>2. meta[q].cpu_backup # b
        BY <2>1, <3>3, <4>1 DEF PausedToHost, BackupsMatch, Apart, Metadata, CPUBackupKind
      <4>3. QED
        BY <2>1, <3>3, <4>1, <4>2 DEF PausedToHost, Metadata
    <3>4. QED
      BY <3>1, <3>2, <3>3 DEF Untouched
  <2>4. ASSUME p \in owned, expected[p] # Junk
        PROVE  HoldsContent(p, expected[p])'
    <3>1. content[mapping[p]] = expected[p]
      BY <2>2, <2>4 DEF HoldsContent
    <3>2. /\ mapping'[p] = Null /\ meta'[p] = n /\ n # Null /\ n.cpu_backup = b /\ b # Null
          /\ hostData'[b] = content[mapping[p]] /\ expected' = expected
      BY <2>1, <2>2 DEF PausedToHost, PausedAs
    <3>3. QED
      BY <3>1, <3>2 DEF HoldsContent
  <2>5. owned' = owned /\ expected' = expected
    BY <2>1 DEF PausedToHost, PausedAs
  <2>6. QED
    BY <2>3, <2>4, <2>5, UntouchedHolds
<1>17. ASSUME NEW t \in Threads, NEW p \in todo, PauseToDisk(t, p)
      PROVE  ContentKept'
  <2>1. PICK n \in Metadata, f \in Files : PausedToDisk(t, p, n, f)
    BY <1>17, PauseToDiskEffect
  <2>2. QED
    BY <2>1 DEF PausedToDisk, PausedAs, HoldsContent
<1>18. ASSUME NEW t \in Threads, PauseReturn(t)
      PROVE  ContentKept'
  BY <1>18 DEF PauseReturn, LeaveLoop, HoldsContent
<1>19. ASSUME NEW t \in Threads, NEW tagFilter \in Tags \cup {Null}, ResumeCall(t, tagFilter)
      PROVE  ContentKept'
  BY <1>19 DEF ResumeCall, HoldsContent
<1>20. ASSUME NEW t \in Threads, ResumeLock(t)
      PROVE  ContentKept'
  BY <1>20 DEF ResumeLock, EnterLoop, HoldsContent
<1>21. ASSUME NEW t \in Threads, ResumeNotPaused(t)
      PROVE  ContentKept'
  BY <1>21 DEF ResumeNotPaused, Exit, HoldsContent
<1>22. ASSUME NEW t \in Threads, NEW p \in todo, ResumeNoBackup(t, p)
      PROVE  ContentKept'
  <2>1. PICK n \in Metadata, h \in Handles : ResumedEmpty(t, p, n, h)
    BY <1>22, ResumeNoBackupEffect
  <2>2. p \in Tracked /\ p \in Ptrs /\ BackupsMatch(meta[p]) /\ mapping[p] = Null
    BY <2>1, EntryFacts DEF ResumedEmpty, ResumedAs
  <2>3. \A q \in owned : q # p => Untouched(q)
    <3> SUFFICES ASSUME NEW q \in owned, q # p
                 PROVE  Untouched(q)
      OBVIOUS
    <3>1. mapping'[q] = mapping[q] /\ meta'[q] = meta[q] /\ fileData' = fileData
      BY <2>1 DEF ResumedEmpty, ResumedAs
    <3>2. mapping[q] # Null => content'[mapping[q]] = content[mapping[q]]
      BY <2>1, <2>2, Disjoint DEF ResumedEmpty, ResumedAs
    <3>3. ASSUME meta[q] # Null, meta[q].cpu_backup # Null
          PROVE  hostData'[meta[q].cpu_backup] = hostData[meta[q].cpu_backup]
      BY <2>1 DEF ResumedEmpty
    <3>4. QED
      BY <3>1, <3>2, <3>3 DEF Untouched
  <2>4. ASSUME p \in owned, expected[p] # Junk
        PROVE  HoldsContent(p, expected[p])'
    BY <2>1, <2>2, <2>4 DEF HoldsContent, BackupsMatch, ResumedEmpty
  <2>5. owned' = owned /\ expected' = expected
    BY <2>1 DEF ResumedEmpty, ResumedAs
  <2>6. QED
    BY <2>3, <2>4, <2>5, UntouchedHolds
<1>23. ASSUME NEW t \in Threads, NEW p \in todo, ResumeFromHost(t, p)
      PROVE  ContentKept'
  <2>1. PICK n \in Metadata, h \in Handles : ResumedFromHost(t, p, n, h)
    BY <1>23, ResumeFromHostEffect
  <2>2. p \in Tracked /\ p \in Ptrs /\ BackupsMatch(meta[p]) /\ mapping[p] = Null
    BY <2>1, EntryFacts DEF ResumedFromHost, ResumedAs
  <2>3. \A q \in owned : q # p => Untouched(q)
    <3> SUFFICES ASSUME NEW q \in owned, q # p
                 PROVE  Untouched(q)
      OBVIOUS
    <3>1. mapping'[q] = mapping[q] /\ meta'[q] = meta[q] /\ fileData' = fileData
      BY <2>1 DEF ResumedFromHost, ResumedAs
    <3>2. mapping[q] # Null => content'[mapping[q]] = content[mapping[q]]
      BY <2>1, <2>2, Disjoint DEF ResumedFromHost, ResumedAs
    <3>3. ASSUME meta[q] # Null, meta[q].cpu_backup # Null
          PROVE  hostData'[meta[q].cpu_backup] = hostData[meta[q].cpu_backup]
      <4>1. meta[q] \in Metadata /\ Apart(meta[q], meta[p])
        BY <2>2, <3>3, Disjoint
      <4>2. QED
        BY <2>1, <3>3, <4>1 DEF ResumedFromHost, Apart, Metadata
    <3>4. QED
      BY <3>1, <3>2, <3>3 DEF Untouched
  <2>4. ASSUME p \in owned, expected[p] # Junk
        PROVE  HoldsContent(p, expected[p])'
    <3>1. hostData[meta[p].cpu_backup] = expected[p]
      BY <2>1, <2>2, <2>4 DEF HoldsContent, BackupsMatch, ResumedFromHost
    <3>2. mapping'[p] = h /\ h # Null /\ content'[h] = hostData[meta[p].cpu_backup] /\ expected' = expected
      BY <2>1, <2>2 DEF ResumedFromHost, ResumedAs
    <3>3. QED
      BY <3>1, <3>2 DEF HoldsContent
  <2>5. owned' = owned /\ expected' = expected
    BY <2>1 DEF ResumedFromHost, ResumedAs
  <2>6. QED
    BY <2>3, <2>4, <2>5, UntouchedHolds
<1>24. ASSUME NEW t \in Threads, NEW p \in todo, ResumeFromDisk(t, p)
      PROVE  ContentKept'
  <2>1. PICK n \in Metadata, h \in Handles : ResumedFromDisk(t, p, n, h)
    BY <1>24, ResumeFromDiskEffect
  <2>2. p \in Tracked /\ p \in Ptrs /\ BackupsMatch(meta[p]) /\ mapping[p] = Null
    BY <2>1, EntryFacts DEF ResumedFromDisk, ResumedAs
  <2>3. \A q \in owned : q # p => Untouched(q)
    <3> SUFFICES ASSUME NEW q \in owned, q # p
                 PROVE  Untouched(q)
      OBVIOUS
    <3>1. mapping'[q] = mapping[q] /\ meta'[q] = meta[q] /\ fileData' = fileData
      BY <2>1 DEF ResumedFromDisk, ResumedAs
    <3>2. mapping[q] # Null => content'[mapping[q]] = content[mapping[q]]
      BY <2>1, <2>2, Disjoint DEF ResumedFromDisk, ResumedAs
    <3>3. ASSUME meta[q] # Null, meta[q].cpu_backup # Null
          PROVE  hostData'[meta[q].cpu_backup] = hostData[meta[q].cpu_backup]
      BY <2>1 DEF ResumedFromDisk
    <3>4. QED
      BY <3>1, <3>2, <3>3 DEF Untouched
  <2>4. ASSUME p \in owned, expected[p] # Junk
        PROVE  HoldsContent(p, expected[p])'
    <3>1. fileData[meta[p].disk] = expected[p]
      BY <2>1, <2>2, <2>4 DEF HoldsContent, BackupsMatch, ResumedFromDisk
    <3>2. mapping'[p] = h /\ h # Null /\ content'[h] = fileData[meta[p].disk] /\ expected' = expected
      BY <2>1, <2>2 DEF ResumedFromDisk, ResumedAs
    <3>3. QED
      BY <3>1, <3>2 DEF HoldsContent
  <2>5. owned' = owned /\ expected' = expected
    BY <2>1 DEF ResumedFromDisk, ResumedAs
  <2>6. QED
    BY <2>3, <2>4, <2>5, UntouchedHolds
<1>25. ASSUME NEW t \in Threads, ResumeReturn(t)
      PROVE  ContentKept'
  BY <1>25 DEF ResumeReturn, LeaveLoop, HoldsContent
<1>26. ASSUME NEW t \in Threads, NEW p \in Ptrs, QueryCall(t, p)
      PROVE  ContentKept'
  BY <1>26 DEF QueryCall, HoldsContent
<1>27. ASSUME NEW t \in Threads, QueryNotFound(t)
      PROVE  ContentKept'
  BY <1>27 DEF QueryNotFound, Exit, HoldsContent
<1>28. ASSUME NEW t \in Threads, QueryNoCopy(t)
      PROVE  ContentKept'
  BY <1>28 DEF QueryNoCopy, HoldsContent
<1>29. ASSUME NEW t \in Threads, QueryLostContent(t)
      PROVE  ContentKept'
  BY <1>29 DEF QueryLostContent, Exit, HoldsContent
<1>30. ASSUME NEW t \in Threads, QueryFound(t)
      PROVE  ContentKept'
  BY <1>30 DEF QueryFound, HoldsContent
<1>31. ASSUME NEW t \in Threads, QueryDone(t)
      PROVE  ContentKept'
  BY <1>31 DEF QueryDone, HoldsContent
<1>32. ASSUME NEW t \in Threads, OutOfResources(t)
      PROVE  ContentKept'
  BY <1>32 DEF OutOfResources, Exit, HoldsContent
<1>33. ASSUME NEW t \in Threads, CudaFails(t)
      PROVE  ContentKept'
  BY <1>33 DEF CudaFails, Exit, HoldsContent
<1>34. ASSUME NEW t \in Threads, NEW value \in Margins, SetMargin(t, value)
      PROVE  ContentKept'
  BY <1>34 DEF SetMargin, HoldsContent
<1>35. ASSUME NEW p \in Ptrs, NEW v \in Values, Write(p, v)
      PROVE  ContentKept'
  BY <1>35 DEF Write, HoldsContent
<1>36. CASE UNCHANGED vars
  BY <1>36 DEF vars, HoldsContent
<1>37. QED
  BY <1>1, <1>2, <1>3, <1>4, <1>5, <1>6, <1>7, <1>8, <1>9, <1>10, <1>11,
     <1>12, <1>13, <1>14, <1>15, <1>16, <1>17, <1>18, <1>19, <1>20, <1>21,
     <1>22, <1>23, <1>24, <1>25, <1>26, <1>27, <1>28, <1>29, <1>30, <1>31,
     <1>32, <1>33, <1>34, <1>35, <1>36
     DEF Next, Step, Call, Terminated

\* No operation is refused.
LEMMA DriverStep ==
  ASSUME IInv, [Next]_vars
  PROVE  NoDriverError'
<1> USE AllocatorAssumption DEF IInv, TypeOK, LocalInv, AddressInv, MappingInv, MappedAs, BackupInv,
          BackupsMatch, Unregistered, HoldsAddress, Mapped, NoDriverError, CanUnmap, backups, Tracked, Unused
<1>1. ASSUME NEW t \in Threads, MallocBothBackups(t)
      PROVE  NoDriverError'
  BY <1>1 DEF MallocBothBackups, Exit
<1>2. ASSUME NEW t \in Threads, UntrackedMalloc(t)
      PROVE  NoDriverError'
  BY <1>2 DEF UntrackedMalloc
<1>3. ASSUME NEW t \in Threads, NEW tag \in Tags, NEW backup \in BackupModes, MallocCall(t, tag, backup)
      PROVE  NoDriverError'
  BY <1>3 DEF MallocCall, NewMetadata
<1>4. ASSUME NEW t \in Threads, MallocOutOfMemory(t)
      PROVE  NoDriverError'
  BY <1>4 DEF MallocOutOfMemory
<1>5. ASSUME NEW t \in Threads, MallocCreate(t)
      PROVE  NoDriverError'
  BY <1>5 DEF MallocCreate
<1>6. ASSUME NEW t \in Threads, MallocRegister(t)
      PROVE  NoDriverError'
  BY <1>6 DEF MallocRegister, Emplace
<1>7. ASSUME NEW t \in Threads, NEW p \in Ptrs, FreeCall(t, p)
      PROVE  NoDriverError'
  BY <1>7 DEF FreeCall
<1>8. ASSUME NEW t \in Threads, FreeUntracked(t)
      PROVE  NoDriverError'
  BY <1>8 DEF FreeUntracked, Accepted, Unmap
<1>9. ASSUME NEW t \in Threads, FreeLookup(t)
      PROVE  NoDriverError'
  BY <1>9 DEF FreeLookup
<1>10. ASSUME NEW t \in Threads, FreeDevice(t)
      PROVE  NoDriverError'
  <2>1. CASE md[t].state = "ACTIVE"
    BY <1>10, <2>1 DEF FreeDevice, Accepted, HoldsDeviceMemory
  <2>2. CASE md[t].state # "ACTIVE"
    BY <1>10, <2>2 DEF FreeDevice, Accepted, HoldsDeviceMemory
  <2>3. QED
    BY <2>1, <2>2
<1>11. ASSUME NEW t \in Threads, FreeBackup(t)
      PROVE  NoDriverError'
  BY <1>11 DEF FreeBackup, FreeHost, Accepted
<1>12. ASSUME NEW t \in Threads, NEW tagFilter \in Tags \cup {Null}, PauseCall(t, tagFilter)
      PROVE  NoDriverError'
  BY <1>12 DEF PauseCall
<1>13. ASSUME NEW t \in Threads, PauseLock(t)
      PROVE  NoDriverError'
  BY <1>13 DEF PauseLock, EnterLoop
<1>14. ASSUME NEW t \in Threads, PauseNotActive(t)
      PROVE  NoDriverError'
  BY <1>14 DEF PauseNotActive, Exit
<1>15. ASSUME NEW t \in Threads, NEW p \in todo, PauseNoBackup(t, p)
      PROVE  NoDriverError'
  <2>1. PICK n \in Metadata : PausedWithoutBackup(t, p, n)
    BY <1>15, PauseNoBackupEffect
  <2>2. QED
    BY <2>1 DEF PausedWithoutBackup, PausedAs, NoDriverError
<1>16. ASSUME NEW t \in Threads, NEW p \in todo, PauseToHost(t, p)
      PROVE  NoDriverError'
  <2>1. PICK n \in Metadata, b \in Bufs, kind \in CPUBackupKind :
          PausedToHost(t, p, n, b, kind)
    BY <1>16, PauseToHostEffect
  <2>2. QED
    BY <2>1 DEF PausedToHost, PausedAs, NoDriverError
<1>17. ASSUME NEW t \in Threads, NEW p \in todo, PauseToDisk(t, p)
      PROVE  NoDriverError'
  <2>1. PICK n \in Metadata, f \in Files : PausedToDisk(t, p, n, f)
    BY <1>17, PauseToDiskEffect
  <2>2. QED
    BY <2>1 DEF PausedToDisk, PausedAs, NoDriverError
<1>18. ASSUME NEW t \in Threads, PauseReturn(t)
      PROVE  NoDriverError'
  BY <1>18 DEF PauseReturn, LeaveLoop
<1>19. ASSUME NEW t \in Threads, NEW tagFilter \in Tags \cup {Null}, ResumeCall(t, tagFilter)
      PROVE  NoDriverError'
  BY <1>19 DEF ResumeCall
<1>20. ASSUME NEW t \in Threads, ResumeLock(t)
      PROVE  NoDriverError'
  BY <1>20 DEF ResumeLock, EnterLoop
<1>21. ASSUME NEW t \in Threads, ResumeNotPaused(t)
      PROVE  NoDriverError'
  BY <1>21 DEF ResumeNotPaused, Exit
<1>22. ASSUME NEW t \in Threads, NEW p \in todo, ResumeNoBackup(t, p)
      PROVE  NoDriverError'
  <2>1. PICK n \in Metadata, h \in Handles : ResumedEmpty(t, p, n, h)
    BY <1>22, ResumeNoBackupEffect
  <2>2. QED
    BY <2>1 DEF ResumedEmpty, ResumedAs, NoDriverError
<1>23. ASSUME NEW t \in Threads, NEW p \in todo, ResumeFromHost(t, p)
      PROVE  NoDriverError'
  <2>1. PICK n \in Metadata, h \in Handles : ResumedFromHost(t, p, n, h)
    BY <1>23, ResumeFromHostEffect
  <2>2. QED
    BY <2>1 DEF ResumedFromHost, ResumedAs, NoDriverError
<1>24. ASSUME NEW t \in Threads, NEW p \in todo, ResumeFromDisk(t, p)
      PROVE  NoDriverError'
  <2>1. PICK n \in Metadata, h \in Handles : ResumedFromDisk(t, p, n, h)
    BY <1>24, ResumeFromDiskEffect
  <2>2. QED
    BY <2>1 DEF ResumedFromDisk, ResumedAs, NoDriverError
<1>25. ASSUME NEW t \in Threads, ResumeReturn(t)
      PROVE  NoDriverError'
  BY <1>25 DEF ResumeReturn, LeaveLoop
<1>26. ASSUME NEW t \in Threads, NEW p \in Ptrs, QueryCall(t, p)
      PROVE  NoDriverError'
  BY <1>26 DEF QueryCall
<1>27. ASSUME NEW t \in Threads, QueryNotFound(t)
      PROVE  NoDriverError'
  BY <1>27 DEF QueryNotFound, Exit
<1>28. ASSUME NEW t \in Threads, QueryNoCopy(t)
      PROVE  NoDriverError'
  BY <1>28 DEF QueryNoCopy
<1>29. ASSUME NEW t \in Threads, QueryLostContent(t)
      PROVE  NoDriverError'
  BY <1>29 DEF QueryLostContent, Exit
<1>30. ASSUME NEW t \in Threads, QueryFound(t)
      PROVE  NoDriverError'
  BY <1>30 DEF QueryFound
<1>31. ASSUME NEW t \in Threads, QueryDone(t)
      PROVE  NoDriverError'
  BY <1>31 DEF QueryDone
<1>32. ASSUME NEW t \in Threads, OutOfResources(t)
      PROVE  NoDriverError'
  BY <1>32 DEF OutOfResources, Exit
<1>33. ASSUME NEW t \in Threads, CudaFails(t)
      PROVE  NoDriverError'
  BY <1>33 DEF CudaFails, Exit
<1>34. ASSUME NEW t \in Threads, NEW value \in Margins, SetMargin(t, value)
      PROVE  NoDriverError'
  BY <1>34 DEF SetMargin
<1>35. ASSUME NEW p \in Ptrs, NEW v \in Values, Write(p, v)
      PROVE  NoDriverError'
  BY <1>35 DEF Write
<1>36. CASE UNCHANGED vars
  BY <1>36 DEF vars
<1>37. QED
  BY <1>1, <1>2, <1>3, <1>4, <1>5, <1>6, <1>7, <1>8, <1>9, <1>10, <1>11,
     <1>12, <1>13, <1>14, <1>15, <1>16, <1>17, <1>18, <1>19, <1>20, <1>21,
     <1>22, <1>23, <1>24, <1>25, <1>26, <1>27, <1>28, <1>29, <1>30, <1>31,
     <1>32, <1>33, <1>34, <1>35, <1>36
     DEF Next, Step, Call, Terminated

------------------------------------------------------------------------------
(* The inductive invariant *)

\* In the initial state nothing is allocated and no call is in progress.
LEMMA InitInv == Init => IInv
<1> SUFFICES ASSUME Init
             PROVE  IInv
  OBVIOUS
<1> USE AllocatorAssumption DEF Init
<1>1. Tracked = {} /\ HoldsAddress = {} /\ Unregistered = {} /\ Mapped = {}
  BY DEF Tracked, HoldsAddress, Unregistered, Mapped
<1>2. TypeOK
  BY DEF TypeOK, Data, Labels, Exits
<1>3. LocalInv
  BY <1>1 DEF LocalInv
<1>4. AddressInv
  BY <1>1 DEF AddressInv
<1>5. MappingInv
  BY <1>1 DEF MappingInv
<1>6. BackupInv
  BY <1>1 DEF BackupInv
<1>7. LeakInv
  BY <1>1 DEF LeakInv
<1>8. LoopInv /\ ViewInv
  BY <1>1 DEF LoopInv, ViewInv
<1>9. ContentKept /\ NoDriverError
  BY DEF ContentKept, NoDriverError
<1>10. QED
  BY <1>2, <1>3, <1>4, <1>5, <1>6, <1>7, <1>8, <1>9 DEF IInv

\* Every step of the program preserves the invariant.
LEMMA Inductive == IInv /\ [Next]_vars => IInv'
  BY TypeStep, AddressStep, MappingStep, BackupStep, LeakStep, LoopStep, ViewStep, ContentStep,
     DriverStep DEF IInv, TypeInv

\* The invariant holds in every reachable state, for every value of the
\* constants.
THEOREM Invariance == Spec => []IInv
<1>1. Init => IInv
  BY InitInv
<1>2. IInv /\ [Next]_vars => IInv'
  BY Inductive
<1>3. QED
  BY <1>1, <1>2, PTL DEF Spec

------------------------------------------------------------------------------
(* The properties of Allocator *)

\* Types.
THEOREM TypeCorrect == Spec => []TypeOK
<1>1. IInv => TypeOK
  BY DEF IInv
<1>2. QED
  BY <1>1, Invariance, PTL

\* Whatever the other threads are doing, an active entry has its own live unit
\* mapped at its address and a paused one has nothing mapped (core.cpp:79-193).
THEOREM EntriesMatchDevice == Spec => []StateMatchesDevice
<1>1. IInv => StateMatchesDevice
  BY AllocatorAssumption
     DEF IInv, TypeOK, AddressInv, MappingInv, MappedAs, StateMatchesDevice, Tracked, Mapped
<1>2. QED
  BY <1>1, Invariance, PTL

\* No unit leaks or is mapped twice, and an address stays reserved from malloc to
\* the end of free (README.md:27).
THEOREM DeviceMemoryAccounted == Spec => []DeviceAccounted
<1>1. IInv => DeviceAccounted
  BY DEF IInv, TypeOK, AddressInv, MappingInv, DeviceAccounted, Mapped
<1>2. QED
  BY <1>1, Invariance, PTL

\* The records that can hold a buffer or a file: entries, and frees in progress.
LEMMA HeldRecords ==
  ASSUME IInv
  PROVE  /\ \A p \in Tracked : meta[p] \in Metadata /\ BackupsMatch(meta[p])
         /\ \A t \in Unregistered : md[t] \in Metadata /\ BackupsMatch(md[t])
  BY DEF IInv, TypeOK, LocalInv, BackupInv, Tracked, Unregistered

\* No host buffer leaks, is shared, or is recorded with a kind it was not obtained
\* as, in any cycle of pause and resume (core.cpp:9-68).
THEOREM HostMemoryAccounted == Spec => []HostAccounted
<1>1. ASSUME IInv
      PROVE  HostAccounted
  <2> DEFINE Backups == {meta[p] : p \in Tracked} \cup {md[t] : t \in Unregistered}
             Held    == {m \in Backups : m.cpu_backup # Null}
  <2>1. \A m \in Held : /\ m.cpu_backup \in Bufs
                        /\ hostKind[m.cpu_backup] = m.cpu_backup_kind
                        /\ hostKind[m.cpu_backup] # "free"
    BY <1>1, HeldRecords DEF BackupsMatch, Metadata, CPUBackupKind
  <2>2. \A b \in Bufs : hostKind[b] # "free" => \E m \in Held : m.cpu_backup = b
    BY <1>1, AllocatorAssumption DEF IInv, LeakInv
  <2>3. {b \in Bufs : hostKind[b] # "free"} = {m.cpu_backup : m \in Held}
    BY <2>1, <2>2
  <2>4. QED
    BY <1>1, <2>1, <2>3 DEF IInv, BackupInv, Apart, HostAccounted
<1>2. QED
  BY <1>1, Invariance, PTL

\* No backup file is left behind or shared (disk_backend.cpp:107-161).
THEOREM BackupFilesAccounted == Spec => []FilesAccounted
<1>1. ASSUME IInv
      PROVE  FilesAccounted
  <2>1. \A p \in Tracked : meta[p].disk # Null =>
           meta[p].disk \in Files /\ fileData[meta[p].disk] # Null
    BY <1>1, HeldRecords DEF BackupsMatch, Metadata
  <2>2. \A t \in Unregistered : md[t].disk # Null =>
           md[t].disk \in Files /\ fileData[md[t].disk] # Null
    BY <1>1, HeldRecords DEF BackupsMatch, Metadata
  <2>3. {f \in Files : fileData[f] # Null}
           = ({meta[p].disk : p \in Tracked} \cup {md[t].disk : t \in Unregistered}) \ {Null}
    BY <1>1, <2>1, <2>2, AllocatorAssumption DEF IInv, LeakInv
  <2>4. QED
    BY <1>1, <2>3 DEF IInv, BackupInv, Apart, FilesAccounted
<1>2. QED
  BY <1>1, Invariance, PTL

\* What a client wrote survives every pause and resume with a backup
\* (README.md:77).
THEOREM ContentIsKept == Spec => []ContentKept
<1>1. IInv => ContentKept
  BY DEF IInv
<1>2. QED
  BY <1>1, Invariance, PTL

\* No operation on the driver or on a host buffer is ever refused.
THEOREM DriverAcceptsAll == Spec => []NoDriverError
<1>1. IInv => NoDriverError
  BY DEF IInv
<1>2. QED
  BY <1>1, Invariance, PTL

\* The pointer of get_cpu_backup_pointer is a live, complete copy until its reader
\* is done, under the contract of QueryCall, ResumeCall and FreeCall
\* (core.cpp:649-674).
THEOREM BackupViewsFaithful == Spec => []BackupViewFaithful
<1>1. ASSUME IInv, NEW t \in Threads, pc[t] = "q_read"
      PROVE  /\ hostKind[view[t]] # "free"
             /\ expected[ptr[t]] # Junk => hostData[view[t]] = expected[ptr[t]]
  <2> DEFINE p == ptr[t]
  <2>1. /\ p \in owned /\ p \in Tracked /\ meta[p].state = "PAUSED"
        /\ meta[p].cpu_backup = view[t] /\ view[t] # Null
    BY <1>1 DEF IInv, TypeOK, LocalInv, ViewInv, Tracked
  <2>2. /\ BackupsMatch(meta[p]) /\ meta[p] \in Metadata
        /\ mapping[p] = Null
    BY <1>1, <2>1, HeldRecords DEF IInv, MappingInv, MappedAs
  <2>3. expected[p] # Junk => HoldsContent(p, expected[p])
    BY <1>1, <2>1 DEF IInv, ContentKept
  <2>4. QED
    BY <2>1, <2>2, <2>3 DEF BackupsMatch, HoldsContent, Metadata, CPUBackupKind
<1>2. IInv => BackupViewFaithful
  BY <1>1 DEF BackupViewFaithful
<1>3. QED
  BY <1>2, Invariance, PTL

\* A call to pause or resume returns only with nothing left to do.
LEMMA LoopEnds ==
  ASSUME IInv, NEW u \in Threads, pc[u] \in {"p_loop", "r_loop"}, pc'[u] = "idle", [Next]_vars
  PROVE  todo = {} /\ UNCHANGED <<meta, mapping>>
<1> USE DEF IInv, TypeOK, device, local, Goto, Return, Labels
<1>1. ASSUME NEW t \in Threads, MallocBothBackups(t)
      PROVE  todo = {} /\ UNCHANGED <<meta, mapping>>
  BY <1>1 DEF MallocBothBackups, Exit
<1>2. ASSUME NEW t \in Threads, UntrackedMalloc(t)
      PROVE  todo = {} /\ UNCHANGED <<meta, mapping>>
  BY <1>2 DEF UntrackedMalloc
<1>3. ASSUME NEW t \in Threads, NEW tag \in Tags, NEW backup \in BackupModes, MallocCall(t, tag, backup)
      PROVE  todo = {} /\ UNCHANGED <<meta, mapping>>
  BY <1>3 DEF MallocCall, NewMetadata
<1>4. ASSUME NEW t \in Threads, MallocOutOfMemory(t)
      PROVE  todo = {} /\ UNCHANGED <<meta, mapping>>
  BY <1>4 DEF MallocOutOfMemory
<1>5. ASSUME NEW t \in Threads, MallocCreate(t)
      PROVE  todo = {} /\ UNCHANGED <<meta, mapping>>
  BY <1>5 DEF MallocCreate
<1>6. ASSUME NEW t \in Threads, MallocRegister(t)
      PROVE  todo = {} /\ UNCHANGED <<meta, mapping>>
  BY <1>6 DEF MallocRegister, Emplace
<1>7. ASSUME NEW t \in Threads, NEW p \in Ptrs, FreeCall(t, p)
      PROVE  todo = {} /\ UNCHANGED <<meta, mapping>>
  BY <1>7 DEF FreeCall
<1>8. ASSUME NEW t \in Threads, FreeUntracked(t)
      PROVE  todo = {} /\ UNCHANGED <<meta, mapping>>
  BY <1>8 DEF FreeUntracked, Accepted, Unmap
<1>9. ASSUME NEW t \in Threads, FreeLookup(t)
      PROVE  todo = {} /\ UNCHANGED <<meta, mapping>>
  BY <1>9 DEF FreeLookup
<1>10. ASSUME NEW t \in Threads, FreeDevice(t)
      PROVE  todo = {} /\ UNCHANGED <<meta, mapping>>
  BY <1>10 DEF FreeDevice, Accepted, Unmap
<1>11. ASSUME NEW t \in Threads, FreeBackup(t)
      PROVE  todo = {} /\ UNCHANGED <<meta, mapping>>
  BY <1>11 DEF FreeBackup, FreeHost, Accepted
<1>12. ASSUME NEW t \in Threads, NEW tagFilter \in Tags \cup {Null}, PauseCall(t, tagFilter)
      PROVE  todo = {} /\ UNCHANGED <<meta, mapping>>
  BY <1>12 DEF PauseCall
<1>13. ASSUME NEW t \in Threads, PauseLock(t)
      PROVE  todo = {} /\ UNCHANGED <<meta, mapping>>
  BY <1>13 DEF PauseLock, EnterLoop
<1>14. ASSUME NEW t \in Threads, PauseNotActive(t)
      PROVE  todo = {} /\ UNCHANGED <<meta, mapping>>
  BY <1>14 DEF PauseNotActive, Exit
<1>15. ASSUME NEW t \in Threads, NEW p \in todo, PauseNoBackup(t, p)
      PROVE  todo = {} /\ UNCHANGED <<meta, mapping>>
  BY <1>15 DEF PauseNoBackup, PauseEntry, Accepted, Unmap
<1>16. ASSUME NEW t \in Threads, NEW p \in todo, PauseToHost(t, p)
      PROVE  todo = {} /\ UNCHANGED <<meta, mapping>>
  BY <1>16 DEF PauseToHost, PauseEntry, Accepted, Unmap, HostBuffers, RecordedKind, Copied
<1>17. ASSUME NEW t \in Threads, NEW p \in todo, PauseToDisk(t, p)
      PROVE  todo = {} /\ UNCHANGED <<meta, mapping>>
  BY <1>17 DEF PauseToDisk, PauseEntry, Accepted, Unmap, SlotFiles, Copied
<1>18. ASSUME NEW t \in Threads, PauseReturn(t)
      PROVE  todo = {} /\ UNCHANGED <<meta, mapping>>
  BY <1>18 DEF PauseReturn, LeaveLoop
<1>19. ASSUME NEW t \in Threads, NEW tagFilter \in Tags \cup {Null}, ResumeCall(t, tagFilter)
      PROVE  todo = {} /\ UNCHANGED <<meta, mapping>>
  BY <1>19 DEF ResumeCall
<1>20. ASSUME NEW t \in Threads, ResumeLock(t)
      PROVE  todo = {} /\ UNCHANGED <<meta, mapping>>
  BY <1>20 DEF ResumeLock, EnterLoop
<1>21. ASSUME NEW t \in Threads, ResumeNotPaused(t)
      PROVE  todo = {} /\ UNCHANGED <<meta, mapping>>
  BY <1>21 DEF ResumeNotPaused, Exit
<1>22. ASSUME NEW t \in Threads, NEW p \in todo, ResumeNoBackup(t, p)
      PROVE  todo = {} /\ UNCHANGED <<meta, mapping>>
  BY <1>22 DEF ResumeNoBackup, ResumeEntry, Resumed, Accepted
<1>23. ASSUME NEW t \in Threads, NEW p \in todo, ResumeFromHost(t, p)
      PROVE  todo = {} /\ UNCHANGED <<meta, mapping>>
  BY <1>23 DEF ResumeFromHost, ResumeEntry, Resumed, Accepted
<1>24. ASSUME NEW t \in Threads, NEW p \in todo, ResumeFromDisk(t, p)
      PROVE  todo = {} /\ UNCHANGED <<meta, mapping>>
  BY <1>24 DEF ResumeFromDisk, ResumeEntry, Resumed, Accepted
<1>25. ASSUME NEW t \in Threads, ResumeReturn(t)
      PROVE  todo = {} /\ UNCHANGED <<meta, mapping>>
  BY <1>25 DEF ResumeReturn, LeaveLoop
<1>26. ASSUME NEW t \in Threads, NEW p \in Ptrs, QueryCall(t, p)
      PROVE  todo = {} /\ UNCHANGED <<meta, mapping>>
  BY <1>26 DEF QueryCall
<1>27. ASSUME NEW t \in Threads, QueryNotFound(t)
      PROVE  todo = {} /\ UNCHANGED <<meta, mapping>>
  BY <1>27 DEF QueryNotFound, Exit
<1>28. ASSUME NEW t \in Threads, QueryNoCopy(t)
      PROVE  todo = {} /\ UNCHANGED <<meta, mapping>>
  BY <1>28 DEF QueryNoCopy
<1>29. ASSUME NEW t \in Threads, QueryLostContent(t)
      PROVE  todo = {} /\ UNCHANGED <<meta, mapping>>
  BY <1>29 DEF QueryLostContent, Exit
<1>30. ASSUME NEW t \in Threads, QueryFound(t)
      PROVE  todo = {} /\ UNCHANGED <<meta, mapping>>
  BY <1>30 DEF QueryFound
<1>31. ASSUME NEW t \in Threads, QueryDone(t)
      PROVE  todo = {} /\ UNCHANGED <<meta, mapping>>
  BY <1>31 DEF QueryDone
<1>32. ASSUME NEW t \in Threads, OutOfResources(t)
      PROVE  todo = {} /\ UNCHANGED <<meta, mapping>>
  BY <1>32 DEF OutOfResources, Exit
<1>33. ASSUME NEW t \in Threads, CudaFails(t)
      PROVE  todo = {} /\ UNCHANGED <<meta, mapping>>
  BY <1>33 DEF CudaFails, Exit
<1>34. ASSUME NEW t \in Threads, NEW value \in Margins, SetMargin(t, value)
      PROVE  todo = {} /\ UNCHANGED <<meta, mapping>>
  BY <1>34 DEF SetMargin
<1>35. ASSUME NEW p \in Ptrs, NEW v \in Values, Write(p, v)
      PROVE  todo = {} /\ UNCHANGED <<meta, mapping>>
  BY <1>35 DEF Write
<1>36. CASE UNCHANGED vars
  BY <1>36 DEF vars
<1>37. QED
  BY <1>1, <1>2, <1>3, <1>4, <1>5, <1>6, <1>7, <1>8, <1>9, <1>10, <1>11,
     <1>12, <1>13, <1>14, <1>15, <1>16, <1>17, <1>18, <1>19, <1>20, <1>21,
     <1>22, <1>23, <1>24, <1>25, <1>26, <1>27, <1>28, <1>29, <1>30, <1>31,
     <1>32, <1>33, <1>34, <1>35, <1>36
     DEF Next, Step, Call, Terminated

\* When pause returns, nothing it matches holds device memory
\* (core.cpp:392-440).
THEOREM PauseReleasesAll == Spec => PauseReleases
<1>1. ASSUME IInv, [Next]_vars, NEW t \in Threads, pc[t] = "p_loop", pc'[t] = "idle",
             NEW p \in Tracked', Matches(meta'[p], filter[t])
      PROVE  meta'[p].state = "PAUSED" /\ mapping'[p] = Null
  <2>1. todo = {} /\ meta' = meta /\ mapping' = mapping
    BY <1>1, LoopEnds
  <2>2. p \in Tracked /\ Matches(meta[p], filter[t])
    BY <1>1, <2>1 DEF Tracked, Matches
  <2>3. meta[p].state = "PAUSED"
    BY <1>1, <2>1, <2>2 DEF IInv, LoopInv
  <2>4. QED
    BY <1>1, <2>1, <2>2, <2>3 DEF IInv, MappingInv, MappedAs
<1>2. IInv /\ [Next]_vars =>
         \A t \in Threads : pc[t] = "p_loop" /\ pc'[t] = "idle" =>
            \A p \in Tracked' : Matches(meta'[p], filter[t])
                => meta'[p].state = "PAUSED" /\ mapping'[p] = Null
  BY <1>1
<1>3. QED
  BY <1>2, Invariance, PTL DEF Spec, PauseReleases

\* When resume returns, everything it matches is mapped again
\* (core.cpp:535-593).
THEOREM ResumeRestoresAll == Spec => ResumeRestores
<1>1. ASSUME IInv, [Next]_vars, NEW t \in Threads, pc[t] = "r_loop", pc'[t] = "idle",
             NEW p \in Tracked', Matches(meta'[p], filter[t])
      PROVE  meta'[p].state = "ACTIVE" /\ mapping'[p] # Null
  <2>1. todo = {} /\ meta' = meta /\ mapping' = mapping
    BY <1>1, LoopEnds
  <2>2. p \in Tracked /\ Matches(meta[p], filter[t])
    BY <1>1, <2>1 DEF Tracked, Matches
  <2>3. meta[p].state = "ACTIVE"
    BY <1>1, <2>1, <2>2 DEF IInv, LoopInv
  <2>4. QED
    BY <1>1, <2>1, <2>2, <2>3 DEF IInv, MappingInv, MappedAs
<1>2. IInv /\ [Next]_vars =>
         \A t \in Threads : pc[t] = "r_loop" /\ pc'[t] = "idle" =>
            \A p \in Tracked' : Matches(meta'[p], filter[t])
                => meta'[p].state = "ACTIVE" /\ mapping'[p] # Null
  BY <1>1
<1>3. QED
  BY <1>2, Invariance, PTL DEF Spec, ResumeRestores
------------------------------------------------------------------------------
(* The margin *)

\* A malloc on its way has left the margin alone, if nobody else allocates.
MarginInv ==
    \A t \in Threads :
        /\ pc[t] = "m_create" => ~BelowMargin
        /\ pc[t] = "m_register" => Cardinality(Unused) >= margin

\* Creating a unit takes one from the unused ones.
LEMMA OneUnitLess ==
  ASSUME TypeOK, NEW h \in Unused, phys' = phys \cup {h}
  PROVE  /\ Cardinality(Unused) \in Nat
         /\ Cardinality(Unused)' = Cardinality(Unused) - 1
<1>1. IsFiniteSet(Unused)
  BY AllocatorAssumption, FS_Subset DEF Unused
<1>2. Unused' = Unused \ {h}
  BY DEF Unused
<1>3. Cardinality(Unused \ {h}) = Cardinality(Unused) - 1
  BY <1>1, FS_RemoveElement
<1>4. QED
  BY <1>1, <1>2, <1>3, FS_CardinalityType

LEMMA MarginStep ==
  ASSUME IInv, MarginInv, Next, NEW only \in Threads, \A u \in Threads : u = only
  PROVE  MarginInv'
<1> USE DEF IInv, TypeOK
<1> DEFINE Kept == /\ UNCHANGED <<phys, margin>>
                   /\ pc'[only] \in {"m_create", "m_register"} => pc'[only] = pc[only]
<1> DEFINE Gone == pc'[only] \notin {"m_create", "m_register"}
<1>1. ASSUME Kept
      PROVE  MarginInv'
  BY <1>1 DEF MarginInv, BelowMargin, Unused
<1>2. ASSUME Gone
      PROVE  MarginInv'
  BY <1>2 DEF MarginInv
<1>3. ASSUME NEW tag \in Tags, NEW backup \in BackupModes, MallocCall(only, tag, backup)
      PROVE  MarginInv'
  BY <1>3 DEF MallocCall, Goto, device, MarginInv, BelowMargin, Unused
<1>4. ASSUME MallocCreate(only)
      PROVE  MarginInv'
  <2>1. PICK h \in Unused : phys' = phys \cup {h}
    BY <1>4 DEF MallocCreate
  <2>2. margin' = margin /\ margin \in Nat /\ pc'[only] = "m_register"
    BY <1>4 DEF MallocCreate, Goto
  <2>3. Cardinality(Unused) \in Nat /\ Cardinality(Unused)' = Cardinality(Unused) - 1
    BY <2>1, OneUnitLess
  <2>4. Cardinality(Unused)' \in Nat
    BY FS_Subset, FS_CardinalityType, AllocatorAssumption DEF Unused
  <2>5. ~(margin > 0 /\ margin + 1 > Cardinality(Unused))
    BY <1>4 DEF MallocCreate, MarginInv, BelowMargin
  <2>6. Cardinality(Unused)' >= margin
    BY <2>2, <2>3, <2>4, <2>5
  <2>7. QED
    BY <2>2, <2>6 DEF MarginInv
<1>5. ASSUME \/ MallocBothBackups(only)
             \/ PauseNotActive(only) \/ ResumeNotPaused(only)
             \/ QueryNotFound(only) \/ QueryLostContent(only)
             \/ OutOfResources(only) \/ CudaFails(only)
             \/ \E p \in Ptrs, v \in Values : Write(p, v)
      PROVE  Kept
  BY <1>5 DEF MallocBothBackups, PauseNotActive, ResumeNotPaused, QueryNotFound, QueryLostContent,
              OutOfResources, CudaFails, Exit, Write, device, local
<1>6. ASSUME \/ MallocOutOfMemory(only) \/ MallocRegister(only)
             \/ FreeUntracked(only) \/ FreeLookup(only) \/ FreeDevice(only) \/ FreeBackup(only)
             \/ QueryNoCopy(only) \/ QueryFound(only) \/ QueryDone(only)
      PROVE  Gone
  BY <1>6 DEF MallocOutOfMemory, MallocRegister, FreeUntracked, FreeLookup, FreeDevice, FreeBackup,
              QueryNoCopy, QueryFound, QueryDone, Goto, Return, local
<1>7. ASSUME PauseLock(only) \/ PauseReturn(only) \/ ResumeLock(only) \/ ResumeReturn(only)
      PROVE  Gone
  BY <1>7 DEF PauseLock, PauseReturn, ResumeLock, ResumeReturn, EnterLoop, LeaveLoop, Goto, Return
<1>8. ASSUME NEW p \in todo,
             \/ PauseNoBackup(only, p) \/ PauseToHost(only, p) \/ PauseToDisk(only, p)
             \/ ResumeNoBackup(only, p) \/ ResumeFromHost(only, p) \/ ResumeFromDisk(only, p)
      PROVE  Gone
  <2>1. \A m : PauseEntry(only, p, m) => Gone
    BY DEF PauseEntry
  <2>2. \A m, data : ResumeEntry(only, p, m, data) => Gone
    BY DEF ResumeEntry
  <2>3. PauseNoBackup(only, p) \/ PauseToHost(only, p) \/ PauseToDisk(only, p) => Gone
    BY <2>1, Zenon DEF PauseNoBackup, PauseToHost, PauseToDisk
  <2>4. ResumeNoBackup(only, p) \/ ResumeFromHost(only, p) \/ ResumeFromDisk(only, p) => Gone
    BY <2>2, Zenon DEF ResumeNoBackup, ResumeFromHost, ResumeFromDisk
  <2>5. QED
    BY <1>8, <2>3, <2>4
<1>9. ASSUME \/ UntrackedMalloc(only)
             \/ \E p \in Ptrs : FreeCall(only, p) \/ QueryCall(only, p)
             \/ \E tagFilter \in Tags \cup {Null} : PauseCall(only, tagFilter) \/ ResumeCall(only, tagFilter)
             \/ \E value \in Margins : SetMargin(only, value)
      PROVE  Gone
  BY <1>9 DEF UntrackedMalloc, FreeCall, QueryCall, PauseCall, ResumeCall, SetMargin, Goto
<1>10. ASSUME UNCHANGED vars
       PROVE  Kept
  BY <1>10 DEF vars, device
<1> HIDE DEF Kept, Gone, IInv, TypeOK
<1>11. CASE Step(only)
  BY <1>1, <1>2, <1>4, <1>5, <1>6, <1>7, <1>8, <1>11 DEF Step
<1>12. CASE Call(only)
  BY <1>1, <1>2, <1>3, <1>5, <1>9, <1>12 DEF Call
<1>13. QED
  BY <1>1, <1>5, <1>10, <1>11, <1>12 DEF Next, Terminated

\* With a single thread no malloc eats into the margin (core.cpp:103-115).
THEOREM MarginIsKept ==
  ASSUME \A t, u \in Threads : t = u
  PROVE  Spec => MarginKept
<1>1. Init => MarginInv
  BY DEF Init, MarginInv
<1>2. IInv /\ MarginInv /\ [Next]_vars => MarginInv'
  <2>1. ASSUME IInv, MarginInv, Next, NEW t \in Threads
        PROVE  MarginInv'
    BY <2>1, MarginStep
  <2>2. ASSUME MarginInv, UNCHANGED vars
        PROVE  MarginInv'
    BY <2>2 DEF vars, device, MarginInv, BelowMargin, Unused
  <2>3. ASSUME ~ \E t \in Threads : TRUE
        PROVE  MarginInv'
    BY <2>3 DEF MarginInv
  <2>4. QED
    BY <2>1, <2>2, <2>3
<1>3. MarginInv => \A t \in Threads : pc[t] = "m_register" /\ pc'[t] = "idle" =>
                      Cardinality(Unused) >= margin
  BY DEF MarginInv
<1>4. QED
  BY <1>1, <1>2, <1>3, Invariance, PTL DEF Spec, MarginKept
==============================================================================

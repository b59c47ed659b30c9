---------------------------- MODULE ExpandableProofs ----------------------------
(***************************************************************************)
(* Proofs about Expandable, for every number of threads, pages, handles,   *)
(* units of memory, buffers, files, tags, values and devices.              *)
(*                                                                         *)
(* CoreInv of ExpandableInv is inductive: one lemma per part, one step per *)
(* action.  What each action does to the entries comes first: the record   *)
(* updates are computed there once, and stated field by field.             *)
(***************************************************************************)
EXTENDS ExpandableInv, TLAPS

------------------------------------------------------------------------------
(* What the operations do to the entries *)

\* m and n are the same handle in the same state, mapped at the same page.
SameHandle(m, n) ==
    /\ n \in VMMAllocationMetadata
    /\ n.tag = m.tag /\ n.backup = m.backup /\ n.state = m.state
    /\ n.physical_handle = m.physical_handle /\ n.ptr = m.ptr /\ n.disk = m.disk

SameBackup(m, n) ==
    n.cpu_backup = m.cpu_backup /\ n.cpu_backup_offset = m.cpu_backup_offset

\* Only the entry of l changes, to n.
Replaced(l, n) ==
    /\ l \in Tracked /\ meta[l] \in VMMAllocationMetadata /\ n \in VMMAllocationMetadata
    /\ n.tag = meta[l].tag /\ n.backup = meta[l].backup
    /\ meta' = [meta EXCEPT ![l] = n]

MappedAs(l, p, n) ==
    /\ Replaced(l, n)
    /\ n.state = meta[l].state /\ n.physical_handle = meta[l].physical_handle
    /\ n.access_descs = meta[l].access_descs /\ n.disk = meta[l].disk
    /\ n.ptr = p /\ SameBackup(meta[l], n)

UnmappedAs(l, n) ==
    /\ Replaced(l, n)
    /\ n.state = meta[l].state /\ n.physical_handle = meta[l].physical_handle
    /\ n.access_descs = {} /\ n.disk = meta[l].disk
    /\ n.ptr = Null /\ SameBackup(meta[l], n)

PausedAs(l, n, f) ==
    /\ Replaced(l, n)
    /\ n.state = "PAUSED" /\ n.physical_handle = Null
    /\ n.access_descs = meta[l].access_descs /\ n.disk = f
    /\ n.ptr = meta[l].ptr /\ SameBackup(meta[l], n)

ResumedAs(l, n, h) ==
    /\ Replaced(l, n)
    /\ n.state = "ACTIVE" /\ n.physical_handle = h
    /\ n.access_descs = meta[l].access_descs /\ n.disk = meta[l].disk
    /\ n.ptr = meta[l].ptr /\ n.cpu_backup = Null

\* What has an entry.
LEMMA EntryType ==
  ASSUME TypeOK, NEW l \in Tracked
  PROVE  /\ l \in Logical /\ meta[l] # Null
         /\ meta[l] \in VMMAllocationMetadata
  BY DEF TypeOK, Tracked

\* Replacing an entry leaves the others, and which handles have one.
LEMMA ReplacedEntries ==
  ASSUME TypeOK, NEW l, NEW n, Replaced(l, n)
  PROVE  /\ Tracked' = Tracked /\ l \in Tracked /\ n # Null
         /\ meta'[l] = n
         /\ \A k \in Logical : k # l => meta'[k] = meta[k]
         /\ \A k \in Tracked : meta[k] \in VMMAllocationMetadata /\ meta[k] # Null
  BY ExpandableAssumption DEF Replaced, TypeOK, Tracked

\* An entry gets a unit that was free.
LEMMA EntryGains ==
  ASSUME NEW P, NEW E, NEW C, NEW G, OneOwner(P, E, C, G), E = [k \in Logical |-> E[k]],
         NEW l \in Logical, E[l] = Null, NEW h, h \notin P, h # Null, Null \notin P
  PROVE  OneOwner(P \cup {h}, [E EXCEPT ![l] = h], C, G)
<1> DEFINE D == [E EXCEPT ![l] = h]
<1>1. /\ D[l] = h /\ \A k \in Logical : k # l => D[k] = E[k]
  OBVIOUS
<1>2. /\ \A k \in Logical : E[k] # h
      /\ \A t \in Threads : C[t] # h
      /\ \A p \in Pages : G[p] # h
  BY DEF OneOwner
<1> HIDE DEF D
<1>3. OneOwner(P \cup {h}, D, C, G)
  <2>1. \A g \in P \cup {h} : \/ \E k \in Logical : D[k] = g
                              \/ \E u \in Threads : C[u] = g
                              \/ \E q \in Pages : G[q] = g
    BY <1>1 DEF OneOwner
  <2> QED
    BY <1>1, <1>2, <2>1 DEF OneOwner
<1> QED
  BY <1>3 DEF D

\* A page outside any region gets a unit that was free.
LEMMA PageGains ==
  ASSUME NEW P, NEW E, NEW C, NEW G, OneOwner(P, E, C, G), G = [q \in Pages |-> G[q]],
         NEW p \in Pages, G[p] = Null, NEW h, h \notin P, h # Null, Null \notin P
  PROVE  OneOwner(P \cup {h}, E, C, [G EXCEPT ![p] = h])
<1> DEFINE D == [G EXCEPT ![p] = h]
<1>1. /\ D[p] = h /\ \A q \in Pages : q # p => D[q] = G[q]
  OBVIOUS
<1>2. /\ \A k \in Logical : E[k] # h
      /\ \A t \in Threads : C[t] # h
      /\ \A q \in Pages : G[q] # h
  BY DEF OneOwner
<1> HIDE DEF D
<1>3. OneOwner(P \cup {h}, E, C, D)
  <2>1. \A g \in P \cup {h} : \/ \E k \in Logical : E[k] = g
                              \/ \E u \in Threads : C[u] = g
                              \/ \E q \in Pages : D[q] = g
    BY <1>1 DEF OneOwner
  <2> QED
    BY <1>1, <1>2, <2>1 DEF OneOwner
<1> QED
  BY <1>3 DEF D

\* A call hands its unit to an entry that had none.
LEMMA CallHandsOver ==
  ASSUME NEW P, NEW E, NEW C, NEW G, OneOwner(P, E, C, G), E = [k \in Logical |-> E[k]],
         C = [u \in Threads |-> C[u]], NEW l \in Logical, E[l] = Null,
         NEW t \in Threads, C[t] # Null
  PROVE  OneOwner(P, [E EXCEPT ![l] = C[t]], [C EXCEPT ![t] = Null], G)
<1> DEFINE D == [E EXCEPT ![l] = C[t]]
           B == [C EXCEPT ![t] = Null]
<1>1. /\ D[l] = C[t] /\ \A k \in Logical : k # l => D[k] = E[k]
  OBVIOUS
<1>2. /\ B[t] = Null /\ \A u \in Threads : u # t => B[u] = C[u]
  OBVIOUS
<1> HIDE DEF D, B
<1>3. \A h \in P : \/ \E k \in Logical : D[k] = h
                   \/ \E u \in Threads : B[u] = h
                   \/ \E p \in Pages : G[p] = h
  <2> SUFFICES ASSUME NEW h \in P
               PROVE  \/ \E k \in Logical : D[k] = h
                      \/ \E u \in Threads : B[u] = h
                      \/ \E p \in Pages : G[p] = h
    OBVIOUS
  <2>1. CASE \E k \in Logical : k # l /\ E[k] = h
    BY <1>1, <2>1
  <2>2. CASE \E u \in Threads : u # t /\ C[u] = h
    BY <1>2, <2>2
  <2>3. CASE C[t] = h
    BY <1>1, <2>3
  <2>4. CASE E[l] = h
    BY <1>2, <2>4
  <2> QED
    BY <2>1, <2>2, <2>3, <2>4 DEF OneOwner
<1>4. \A k \in Logical : D[k] # Null =>
         D[k] \in P /\ \A j \in Logical : j # k => D[j] # D[k]
  BY <1>1 DEF OneOwner
<1>5. \A u \in Threads : B[u] # Null =>
         /\ B[u] \in P
         /\ \A w \in Threads : w # u => B[w] # B[u]
         /\ \A k \in Logical : D[k] # B[u]
  BY <1>1, <1>2 DEF OneOwner
<1>6. \A p \in Pages : G[p] # Null =>
         /\ G[p] \in P
         /\ \A q \in Pages : q # p => G[q] # G[p]
         /\ \A k \in Logical : D[k] # G[p]
         /\ \A u \in Threads : B[u] # G[p]
  BY <1>1, <1>2 DEF OneOwner
<1> QED
  BY <1>3, <1>4, <1>5, <1>6 DEF OneOwner, D, B

\* vmm_map.
LEMMA VmmMapEffect ==
  ASSUME TypeOK, NEW l \in Logical, NEW p \in Pages, VmmMap(l, p)
  PROVE  \E n \in VMMAllocationMetadata : MappedAs(l, p, n)
<1> DEFINE n == [meta[l] EXCEPT !.ptr = p]
<1>1. meta[l] \in VMMAllocationMetadata /\ l \in Tracked
  BY EntryType DEF VmmMap
<1>2. n \in VMMAllocationMetadata
  BY <1>1 DEF VMMAllocationMetadata
<1>3. meta' = [meta EXCEPT ![l] = n]
  BY DEF VmmMap
<1>4. MappedAs(l, p, n)
  BY <1>1, <1>2, <1>3 DEF MappedAs, SameBackup, Replaced, VMMAllocationMetadata
<1> QED
  BY <1>2, <1>4

\* vmm_unmap, of a page that the index knows.
LEMMA VmmUnmapEffect ==
  ASSUME TypeOK, MapsAgree, NEW p \in Pages, VmmUnmap(p)
  PROVE  \E n \in VMMAllocationMetadata : UnmappedAs(index[p], n)
<1> DEFINE l == index[p]
           n == [meta[l] EXCEPT !.ptr = Null, !.access_descs = {}]
<1>1. meta[l] \in VMMAllocationMetadata /\ l \in Tracked
  BY EntryType DEF VmmUnmap, MapsAgree
<1>2. n \in VMMAllocationMetadata
  BY <1>1 DEF VMMAllocationMetadata
<1>3. meta' = [meta EXCEPT ![l] = n]
  BY <1>1, <1>2 DEF VmmUnmap, TypeOK
<1>4. UnmappedAs(l, n)
  BY <1>1, <1>2, <1>3 DEF UnmappedAs, SameBackup, Replaced, VMMAllocationMetadata
<1> QED
  BY <1>2, <1>4

\* The second loop of pause.
LEMMA PauseEntryEffect ==
  ASSUME TypeOK, NEW t \in Threads, NEW l \in Tracked, PauseEntry(t, l)
  PROVE  \E f \in SlotFiles(meta[l]), n \in VMMAllocationMetadata :
           /\ PausedAs(l, n, f)
           /\ f \in Files \cup {Null}
           /\ fileData' = [g \in Files |-> IF meta[l].backup = "disk" /\ g = f
                                           THEN content[mapping[meta[l].ptr]] ELSE fileData[g]]
<1>1. meta[l] \in VMMAllocationMetadata /\ l \in Logical
  BY EntryType
<1>2. PICK f \in SlotFiles(meta[l]) :
        /\ fileData' = [g \in Files |-> IF meta[l].backup = "disk" /\ g = f
                                        THEN content[mapping[meta[l].ptr]] ELSE fileData[g]]
        /\ meta' = [meta EXCEPT ![l] = [meta[l] EXCEPT !.state = "PAUSED",
                                                       !.physical_handle = Null, !.disk = f]]
  BY DEF PauseEntry
<1> DEFINE n == [meta[l] EXCEPT !.state = "PAUSED", !.physical_handle = Null, !.disk = f]
<1>3. f \in Files \cup {Null}
  BY <1>1 DEF SlotFiles, VMMAllocationMetadata
<1>4. n \in VMMAllocationMetadata
  BY <1>1, <1>3 DEF VMMAllocationMetadata, State
<1>5. PausedAs(l, n, f)
  BY <1>1, <1>2, <1>4 DEF PausedAs, SameBackup, Replaced, VMMAllocationMetadata
<1> QED
  BY <1>2, <1>3, <1>4, <1>5

\* The loop of resume.
LEMMA ResumeEntryEffect ==
  ASSUME TypeOK, NEW t \in Threads, NEW l \in Tracked, ResumeEntry(t, l)
  PROVE  \E h \in Unused, n \in VMMAllocationMetadata :
           /\ ResumedAs(l, n, h)
           /\ phys' = phys \cup {h}
           /\ mapping' = [mapping EXCEPT ![meta[l].ptr] = h]
           /\ content' = [content EXCEPT ![h] = BackedUp(meta[l])]
<1>1. meta[l] \in VMMAllocationMetadata /\ l \in Logical
  BY EntryType
<1>2. PICK h \in Unused :
        /\ phys' = phys \cup {h}
        /\ mapping' = [mapping EXCEPT ![meta[l].ptr] = h]
        /\ content' = [content EXCEPT ![h] = BackedUp(meta[l])]
        /\ meta' = [meta EXCEPT ![l] = Resumed(meta[l], h)]
  BY DEF ResumeEntry
<1> DEFINE n == Resumed(meta[l], h)
<1>3. 0 \in Pages
  BY ExpandableAssumption DEF Pages
<1>4. n \in VMMAllocationMetadata
  BY <1>1, <1>3 DEF VMMAllocationMetadata, State, Resumed, Unused
<1>5. ResumedAs(l, n, h)
  BY <1>1, <1>2, <1>4 DEF ResumedAs, Replaced, VMMAllocationMetadata, Resumed
<1> QED
  BY <1>2, <1>4, <1>5

\* The pages of a run are those of active entries.
LEMMA RunPages ==
  ASSUME NEW first \in Pages, index[first] # Null, meta[index[first]].state = "ACTIVE",
         NEW p \in Run(first)
  PROVE  /\ p \in Pages /\ p >= first
         /\ index[p] # Null /\ meta[index[p]].state = "ACTIVE"
<1>1. p \in first .. NumPages - 1 /\ first \in 0 .. NumPages - 1 /\ NumPages \in Nat
  BY ExpandableAssumption DEF Run, Pages
<1>2. CASE p = first
  BY <1>1, <1>2 DEF Pages
<1>3. CASE p # first
  <2>1. p \in first + 1 .. p
    BY <1>1, <1>3
  <2>2. QED
    BY <1>1, <2>1 DEF Run, Pages
<1> QED
  BY <1>2, <1>3

\* The first loop of pause gives entries a buffer and an offset.
LEMMA BackUpRunEffect ==
  ASSUME TypeOK, LoopInv, NEW t \in Threads, BackUpRun(t)
  PROVE  /\ meta' \in [Logical -> VMMAllocationMetadata \cup {Null}]
         /\ Tracked' = Tracked
         /\ \A l \in Tracked : /\ SameHandle(meta[l], meta'[l])
                               /\ meta'[l].access_descs = meta[l].access_descs
<1>1. PICK first \in toBackUp, b \in Bufs :
        meta' = [l \in Logical |->
                   IF l \in Tracked /\ meta[l].ptr \in Run(first)
                   THEN [meta[l] EXCEPT !.cpu_backup = b,
                                        !.cpu_backup_offset = BackupOffset(first, meta[l].ptr)]
                   ELSE meta[l]]
  BY DEF BackUpRun
<1>2. first \in 0 .. NumPages - 1 /\ NumPages \in Nat
  BY ExpandableAssumption DEF TypeOK, Pages
<1>3. \A p \in Run(first) : BackupOffset(first, p) \in Pages
  BY <1>2 DEF Run, BackupOffset, Pages
<1>4. ASSUME NEW l \in Tracked
      PROVE  /\ meta'[l] \in VMMAllocationMetadata
             /\ SameHandle(meta[l], meta'[l])
             /\ meta'[l].access_descs = meta[l].access_descs
  <2>1. meta[l] \in VMMAllocationMetadata /\ l \in Logical
    BY EntryType
  <2>2. CASE meta[l].ptr \in Run(first)
    <3> DEFINE n == [meta[l] EXCEPT !.cpu_backup = b,
                                    !.cpu_backup_offset = BackupOffset(first, meta[l].ptr)]
    <3>1. meta'[l] = n
      BY <1>1, <2>1, <2>2
    <3>2. BackupOffset(first, meta[l].ptr) \in Pages
      BY <1>3, <2>2
    <3>3. n \in VMMAllocationMetadata
      BY <2>1, <3>2 DEF VMMAllocationMetadata
    <3>4. SameHandle(meta[l], n) /\ n.access_descs = meta[l].access_descs
      BY <2>1, <3>3 DEF SameHandle, VMMAllocationMetadata
    <3> QED
      BY <3>1, <3>3, <3>4
  <2>3. CASE meta[l].ptr \notin Run(first)
    BY <1>1, <2>1, <2>3 DEF SameHandle
  <2> QED
    BY <2>2, <2>3
<1>5. \A l \in Logical \ Tracked : meta'[l] = Null
  BY <1>1 DEF Tracked
<1>6. Tracked' = Tracked
  BY <1>4, <1>5, ExpandableAssumption DEF Tracked
<1>7. meta' = [l \in Logical |-> meta'[l]]
  BY <1>1
<1> QED
  BY <1>4, <1>5, <1>6, <1>7 DEF Tracked

\* vmm_set_access records a right in the entries of the range.
LEMMA VmmSetAccessEffect ==
  ASSUME TypeOK, NEW first \in Pages, NEW last \in Pages, NEW dev \in Devices,
         VmmSetAccess(first, last, dev)
  PROVE  /\ meta' \in [Logical -> VMMAllocationMetadata \cup {Null}]
         /\ Tracked' = Tracked
         /\ \A l \in Tracked :
               /\ SameHandle(meta[l], meta'[l]) /\ SameBackup(meta[l], meta'[l])
               /\ meta'[l].access_descs = IF meta[l].ptr \in first .. last
                                          THEN meta[l].access_descs \cup {dev}
                                          ELSE meta[l].access_descs
<1>1. meta' = [l \in Logical |->
                 IF l \in Tracked /\ meta[l].ptr \in first .. last
                 THEN [meta[l] EXCEPT !.access_descs = @ \cup {dev}] ELSE meta[l]]
  BY DEF VmmSetAccess
<1>2. ASSUME NEW l \in Tracked
      PROVE  /\ meta'[l] \in VMMAllocationMetadata
             /\ SameHandle(meta[l], meta'[l]) /\ SameBackup(meta[l], meta'[l])
             /\ meta'[l].access_descs = IF meta[l].ptr \in first .. last
                                        THEN meta[l].access_descs \cup {dev}
                                        ELSE meta[l].access_descs
  <2>1. meta[l] \in VMMAllocationMetadata /\ l \in Logical
    BY EntryType
  <2>2. CASE meta[l].ptr \in first .. last
    <3> DEFINE n == [meta[l] EXCEPT !.access_descs = meta[l].access_descs \cup {dev}]
    <3>1. meta'[l] = n
      BY <1>1, <2>1, <2>2
    <3>2. n \in VMMAllocationMetadata
      BY <2>1 DEF VMMAllocationMetadata
    <3>3. /\ SameHandle(meta[l], n) /\ SameBackup(meta[l], n)
          /\ n.access_descs = meta[l].access_descs \cup {dev}
      BY <2>1, <3>2 DEF SameHandle, SameBackup, VMMAllocationMetadata
    <3> QED
      BY <2>2, <3>1, <3>2, <3>3
  <2>3. CASE meta[l].ptr \notin first .. last
    BY <1>1, <2>1, <2>3 DEF SameHandle, SameBackup
  <2> QED
    BY <2>2, <2>3
<1>3. \A l \in Logical \ Tracked : meta'[l] = Null
  BY <1>1 DEF Tracked
<1>4. Tracked' = Tracked
  BY <1>2, <1>3, ExpandableAssumption DEF Tracked
<1>5. meta' = [l \in Logical |-> meta'[l]]
  BY <1>1
<1> QED
  BY <1>2, <1>3, <1>4, <1>5 DEF Tracked

------------------------------------------------------------------------------
(* Every step preserves CoreInv *)

\* An exit changes the reason and nothing else.
Leaves == \E reason \in {"check", "not_found", "error"} : Exit(reason)

\* The steps of Next, without those that only leave.
LEMMA StepCases ==
  ASSUME [Next]_vars
  PROVE  \/ \E t \in Threads, tag \in Tags, backup \in BackupModes : VmmCreate(t, tag, backup)
         \/ \E t \in Threads : VmmRegister(t)
         \/ \E l \in Logical, p \in Pages : VmmMap(l, p)
         \/ \E first \in Pages, last \in Pages, dev \in Devices : VmmSetAccess(first, last, dev)
         \/ \E p \in Pages : VmmUnmap(p)
         \/ \E l \in Logical : VmmRelease(l)
         \/ \E p \in Pages : UntrackedMap(p)
         \/ \E p \in Pages : UntrackedUnmap(p)
         \/ \E t \in Threads, tagFilter \in Tags \cup {Null} : Pause(t, tagFilter)
         \/ \E t \in Threads : BackUpRun(t)
         \/ \E t \in Threads : BackUpDone(t)
         \/ \E t \in Threads, l \in todo : PauseEntry(t, l)
         \/ \E t \in Threads : LoopReturn(t)
         \/ \E t \in Threads, tagFilter \in Tags \cup {Null} : Resume(t, tagFilter)
         \/ \E t \in Threads, l \in todo : ResumeEntry(t, l)
         \/ \E t \in Threads, first \in Pages, size \in 1 .. NumPages : QueryFound(t, first, size)
         \/ \E t \in Threads : QueryDone(t)
         \/ \E p \in Pages, v \in Values : Write(p, v)
         \/ Leaves
         \/ UNCHANGED vars
<1>1. ASSUME NEW t \in Threads, Fails(t) \/ VmmCreateBothBackups(t) \/ PauseCheck(t) \/ ResumeCheck(t)
      PROVE  Leaves
  BY <1>1 DEF Fails, VmmCreateBothBackups, PauseCheck, ResumeCheck, Leaves
<1>2. ASSUME NEW t \in Threads, NEW first \in Pages, NEW size \in 1 .. NumPages,
             QueryLostContent(t, first, size) \/ QueryNotFound(t, first, size)
      PROVE  Leaves
  BY <1>2 DEF QueryLostContent, QueryNotFound, Leaves
<1>3. ASSUME NEW l \in Logical, VmmUsePaused(l)
      PROVE  Leaves
  BY <1>3 DEF VmmUsePaused, Leaves
<1> QED
  BY <1>1, <1>2, <1>3, Zenon DEF Next, Step, Call, LockedCall, Terminated

\* What a loop has left to do has an entry.
LEMMA EntryInLoop ==
  ASSUME CoreInv, NEW l \in todo
  PROVE  l \in Tracked
  BY DEF CoreInv, LoopInv, TypeOK, Tracked

\* The first page of the segment.
LEMMA ZeroIsPage == 0 \in Pages
  BY ExpandableAssumption DEF Pages

\* Memory nobody wrote is data, an absent file is not.
LEMMA DataWidth == Junk \in Data /\ Null \notin Data
  BY ExpandableAssumption DEF Data

\* No two owners have the same unit.
LEMMA UnitsApart ==
  ASSUME CoreInv
  PROVE  /\ \A l, k \in Tracked : l # k /\ meta[l].physical_handle # Null
                                    => meta[l].physical_handle # meta[k].physical_handle
         /\ \A l \in Tracked, t \in Threads :
               made[t] # Null => made[t].physical_handle # meta[l].physical_handle
         /\ \A p \in Pages : index[p] = Null /\ mapping[p] # Null =>
               /\ mapping[p] \in phys
               /\ \A l \in Tracked : meta[l].physical_handle # mapping[p]
               /\ \A t \in Threads : made[t] # Null => made[t].physical_handle # mapping[p]
<1>1. \A l \in Tracked : l \in Logical /\ EntryUnit[l] = meta[l].physical_handle
  BY DEF Tracked, EntryUnit
<1>2. \A t \in Threads : made[t] # Null => CallUnit[t] = made[t].physical_handle /\ CallUnit[t] # Null
  <2>1. \A t \in Threads : made[t] # Null => made[t].physical_handle \in Units
    BY DEF CoreInv, LocalInv, TypeOK
  <2> QED
    BY <2>1, ExpandableAssumption DEF CallUnit
<1>3. \A p \in Pages : index[p] = Null => PageUnit[p] = mapping[p]
  BY DEF PageUnit
<1>4. UnitsInv
  BY DEF CoreInv
<1>5. \A l, k \in Tracked : l # k /\ meta[l].physical_handle # Null
                              => meta[l].physical_handle # meta[k].physical_handle
  BY <1>1, <1>4 DEF UnitsInv, OneOwner
<1>6. \A l \in Tracked, t \in Threads :
         made[t] # Null => made[t].physical_handle # meta[l].physical_handle
  BY <1>1, <1>2, <1>4 DEF UnitsInv, OneOwner
<1>7. ASSUME NEW p \in Pages, index[p] = Null, mapping[p] # Null
      PROVE  /\ mapping[p] \in phys
             /\ \A l \in Tracked : meta[l].physical_handle # mapping[p]
             /\ \A t \in Threads : made[t] # Null => made[t].physical_handle # mapping[p]
  BY <1>1, <1>2, <1>3, <1>4, <1>7 DEF UnitsInv, OneOwner
<1> QED
  BY <1>5, <1>6, <1>7

\* Types.
LEMMA TypeStep ==
  ASSUME CoreInv, [Next]_vars
  PROVE  TypeOK'
<1> USE ExpandableAssumption DEF CoreInv, device, backups, maps, lock, local, client, Tracked, Unused, TypeOK
<1>1. ASSUME NEW t \in Threads, NEW tag \in Tags, NEW backup \in BackupModes,
            VmmCreate(t, tag, backup)
      PROVE  TypeOK'
  <2>1. PICK h \in Unused : made' = [made EXCEPT ![t] = NewEntry(tag, backup, h)] /\ phys' = phys \cup {h}
    BY <1>1 DEF VmmCreate
  <2>2. NewEntry(tag, backup, h) \in VMMAllocationMetadata
    BY <2>1, ZeroIsPage DEF NewEntry, VMMAllocationMetadata, State
  <2> QED
    BY <1>1, <2>1, <2>2 DEF VmmCreate
<1>2. ASSUME NEW t \in Threads,
            VmmRegister(t)
      PROVE  TypeOK'
  BY <1>2 DEF VmmRegister
<1>3. ASSUME NEW l \in Logical, NEW p \in Pages,
            VmmMap(l, p)
      PROVE  TypeOK'
  <2>1. PICK n \in VMMAllocationMetadata : MappedAs(l, p, n)
    BY <1>3, VmmMapEffect
  <2>2. meta[l].physical_handle \in Units \cup {Null}
    BY <2>1 DEF MappedAs, Replaced, VMMAllocationMetadata
  <2>3. meta' \in [Logical -> VMMAllocationMetadata \cup {Null}]
    BY <2>1 DEF MappedAs, Replaced
  <2> QED
    BY <1>3, <2>2, <2>3 DEF VmmMap
<1>4. ASSUME NEW first \in Pages, NEW last \in Pages, NEW dev \in Devices,
            VmmSetAccess(first, last, dev)
      PROVE  TypeOK'
  <2>1. /\ meta' \in [Logical -> VMMAllocationMetadata \cup {Null}]
        /\ Tracked' = Tracked
        /\ \A l \in Tracked : SameHandle(meta[l], meta'[l])
    BY <1>4, VmmSetAccessEffect
  <2>2. access' \in [Pages -> SUBSET Devices]
    BY <1>4 DEF VmmSetAccess
  <2>3. granted' \in [Pages -> SUBSET Devices]
    BY <1>4 DEF VmmSetAccess
  <2> QED
    BY <1>4, <2>1, <2>2, <2>3 DEF VmmSetAccess
<1>5. ASSUME NEW p \in Pages,
            VmmUnmap(p)
      PROVE  TypeOK'
  <2>1. PICK n \in VMMAllocationMetadata : UnmappedAs(index[p], n)
    BY <1>5, VmmUnmapEffect
  <2>2. meta' \in [Logical -> VMMAllocationMetadata \cup {Null}]
    BY <2>1 DEF UnmappedAs, Replaced
  <2>3. index' \in [Pages -> Logical \cup {Null}]
    BY <1>5 DEF VmmUnmap, UnmappedEntry
  <2>4. mapping' \in [Pages -> Units \cup {Null}] /\ access' \in [Pages -> SUBSET Devices]
    BY <1>5 DEF VmmUnmap
  <2> QED
    BY <1>5, <2>2, <2>3, <2>4, DataWidth DEF VmmUnmap, Accepted
<1>6. ASSUME NEW l \in Logical,
            VmmRelease(l)
      PROVE  TypeOK'
  BY <1>6 DEF VmmRelease, ReleaseUnit, Accepted, KeepShared,
     FilesAfterRelease, Blank, Data
<1>7. ASSUME NEW p \in Pages,
            UntrackedMap(p)
      PROVE  TypeOK'
  BY <1>7 DEF UntrackedMap
<1>8. ASSUME NEW p \in Pages,
            UntrackedUnmap(p)
      PROVE  TypeOK'
  BY <1>8 DEF UntrackedUnmap, ReleaseUnit, Data
<1>9. ASSUME NEW t \in Threads, NEW tagFilter \in Tags \cup {Null},
            Pause(t, tagFilter)
      PROVE  TypeOK'
  BY <1>9 DEF Pause
<1>10. ASSUME NEW t \in Threads,
            BackUpRun(t)
      PROVE  TypeOK'
  <2>1. /\ meta' \in [Logical -> VMMAllocationMetadata \cup {Null}]
        /\ Tracked' = Tracked
        /\ \A l \in Tracked : SameHandle(meta[l], meta'[l])
    BY <1>10, BackUpRunEffect
  <2>2. PICK first \in toBackUp, b \in Bufs :
          /\ meta[index[first]].state = "ACTIVE"
          /\ KeepShared([hostData EXCEPT ![b] =
                [i \in Pages |-> IF first + i \in Run(first) THEN content[mapping[first + i]] ELSE Junk]])
          /\ toBackUp' = toBackUp \ Run(first)
    BY <1>10 DEF BackUpRun
  <2>3. ASSUME NEW p \in Run(first)
        PROVE  content[mapping[p]] \in Data
    <3>1. p \in Pages /\ index[p] # Null /\ meta[index[p]].state = "ACTIVE"
      BY <2>2, RunPages DEF LoopInv
    <3>2. mapping[p] \in Units
      BY <3>1 DEF MapsAgree, HandlesMatchDevice, MatchesDevice
    <3> QED
      BY <3>2
  <2>4. [i \in Pages |-> IF first + i \in Run(first) THEN content[mapping[first + i]] ELSE Junk]
          \in [Pages -> Data]
    BY <2>3 DEF Data
  <2>5. hostData' \in [Bufs -> [Pages -> Data]]
    BY <2>2, <2>4 DEF KeepShared, Blank, Data
  <2> QED
    BY <1>10, <2>1, <2>2, <2>5 DEF BackUpRun
<1>11. ASSUME NEW t \in Threads,
            BackUpDone(t)
      PROVE  TypeOK'
  BY <1>11 DEF BackUpDone
<1>12. ASSUME NEW t \in Threads, NEW l \in todo,
            PauseEntry(t, l)
      PROVE  TypeOK'
  <2>0. l \in Tracked
    BY EntryInLoop
  <2>1. PICK f \in SlotFiles(meta[l]), n \in VMMAllocationMetadata :
           /\ PausedAs(l, n, f)
           /\ f \in Files \cup {Null}
           /\ fileData' = [g \in Files |-> IF meta[l].backup = "disk" /\ g = f
                                           THEN content[mapping[meta[l].ptr]] ELSE fileData[g]]
    BY <1>12, <2>0, PauseEntryEffect
  <2>2. /\ meta[l] \in VMMAllocationMetadata /\ meta[l].state = "ACTIVE"
        /\ meta[l].ptr \in Pages /\ meta[l].physical_handle \in Units
        /\ mapping[meta[l].ptr] = meta[l].physical_handle
    BY <1>12, <2>0, EntryType DEF PauseEntry, HandlesMatchDevice, MatchesDevice, VMMAllocationMetadata
  <2>3. content[mapping[meta[l].ptr]] \in Data
    BY <2>2
  <2>4. fileData' \in [Files -> Data \cup {Null}]
    BY <2>1, <2>3
  <2>5. meta' \in [Logical -> VMMAllocationMetadata \cup {Null}]
    BY <2>0, <2>1 DEF PausedAs, Replaced
  <2>6. expected' \in [Pages -> Data]
    BY <1>12, <2>2 DEF PauseEntry, Data
  <2>7. content' \in [Units -> Data] /\ phys' \subseteq Units
    BY <1>12, <2>2 DEF PauseEntry, PauseRelease, ReleaseUnit, Data
  <2> QED
    BY <1>12, <2>2, <2>4, <2>5, <2>6, <2>7 DEF PauseEntry, Accepted
<1>13. ASSUME NEW t \in Threads,
            LoopReturn(t)
      PROVE  TypeOK'
  BY <1>13 DEF LoopReturn
<1>14. ASSUME NEW t \in Threads, NEW tagFilter \in Tags \cup {Null},
            Resume(t, tagFilter)
      PROVE  TypeOK'
  BY <1>14 DEF Resume
<1>15. ASSUME NEW t \in Threads, NEW l \in todo,
            ResumeEntry(t, l)
      PROVE  TypeOK'
  <2>0. l \in Tracked
    BY EntryInLoop
  <2>1. PICK h \in Unused, n \in VMMAllocationMetadata :
           /\ ResumedAs(l, n, h)
           /\ phys' = phys \cup {h}
           /\ mapping' = [mapping EXCEPT ![meta[l].ptr] = h]
           /\ content' = [content EXCEPT ![h] = BackedUp(meta[l])]
    BY <1>15, <2>0, ResumeEntryEffect
  <2>2. /\ meta[l] \in VMMAllocationMetadata
        /\ meta[l].ptr \in Pages
    BY <1>15, <2>0, EntryType DEF ResumeEntry, VMMAllocationMetadata
  <2>3. BackedUp(meta[l]) \in Data
    BY <2>0, <2>2 DEF BackedUp, FilesInv, BackupFilesAccounted, VMMAllocationMetadata, Data
  <2>4. ResumedAccess(meta[l]) \in SUBSET Devices
    BY <2>2 DEF ResumedAccess, VMMAllocationMetadata
  <2>5. meta' \in [Logical -> VMMAllocationMetadata \cup {Null}]
    BY <2>0, <2>1 DEF ResumedAs, Replaced
  <2>6. hostData' \in [Bufs -> [Pages -> Data]]
    BY <1>15 DEF ResumeEntry, KeepShared, Blank, Data
  <2>7. content' \in [Units -> Data] /\ phys' \subseteq Units /\ mapping' \in [Pages -> Units \cup {Null}]
    BY <2>1, <2>2, <2>3
  <2> QED
    BY <1>15, <2>2, <2>4, <2>5, <2>6, <2>7 DEF ResumeEntry, Accepted
<1>16. ASSUME NEW t \in Threads, NEW first \in Pages, NEW size \in 1 .. NumPages,
            QueryFound(t, first, size)
      PROVE  TypeOK'
  <2>0. first \in first .. first + size - 1
    BY ExpandableAssumption DEF Pages
  <2>1. meta[index[first]] \in VMMAllocationMetadata
    BY <1>16, <2>0 DEF QueryFound, Tensor, MapsAgree
  <2>2. meta[index[first]].cpu_backup \in Bufs /\ meta[index[first]].cpu_backup_offset \in Pages
    BY <1>16, <2>1 DEF QueryFound, VMMAllocationMetadata
  <2>3. size \in Nat
    OBVIOUS
  <2>4. [page |-> first, size |-> size, buf |-> meta[index[first]].cpu_backup,
         offset |-> meta[index[first]].cpu_backup_offset] \in View
    BY <2>2, <2>3 DEF View
  <2> QED
    BY <1>16, <2>4 DEF QueryFound
<1>17. ASSUME NEW t \in Threads,
            QueryDone(t)
      PROVE  TypeOK'
  BY <1>17 DEF QueryDone
<1>18. ASSUME NEW p \in Pages, NEW v \in Values,
            Write(p, v)
      PROVE  TypeOK'
  BY <1>18 DEF Write, Accepted, Data, MapsAgree
<1>19. ASSUME Leaves PROVE TypeOK'
  BY <1>19 DEF Leaves, Exit
<1>20. CASE UNCHANGED vars
  BY <1>20 DEF vars
<1>21. QED
  BY <1>1, <1>2, <1>3, <1>4, <1>5, <1>6, <1>7, <1>8, <1>9, <1>10, <1>11,
     <1>12, <1>13, <1>14, <1>15, <1>16, <1>17, <1>18, <1>19, <1>20, StepCases

\* The locals of the calls and the holder of the lock.
LEMMA LocalStep ==
  ASSUME CoreInv, [Next]_vars
  PROVE  LocalInv'
<1> USE ExpandableAssumption DEF CoreInv, device, backups, maps, lock, local, client,
        Tracked, Unused, TypeOK, LocalInv, InLoop
<1>1. ASSUME NEW t \in Threads, NEW tag \in Tags, NEW backup \in BackupModes,
            VmmCreate(t, tag, backup)
      PROVE  LocalInv'
  <2>1. PICK h \in Unused : made' = [made EXCEPT ![t] = NewEntry(tag, backup, h)] /\ phys' = phys \cup {h}
    BY <1>1 DEF VmmCreate
  <2>2. NewEntry(tag, backup, h) # Null
    BY <2>1, ZeroIsPage DEF NewEntry, VMMAllocationMetadata, State
  <2>3. /\ NewEntry(tag, backup, h).state = "ACTIVE" /\ NewEntry(tag, backup, h).physical_handle = h
        /\ NewEntry(tag, backup, h).ptr = Null /\ NewEntry(tag, backup, h).access_descs = {}
        /\ NewEntry(tag, backup, h).disk = Null
    BY DEF NewEntry
  <2> QED
    BY <1>1, <2>1, <2>2, <2>3 DEF VmmCreate
<1>2. ASSUME NEW t \in Threads,
            VmmRegister(t)
      PROVE  LocalInv'
  BY <1>2 DEF VmmRegister
<1>3. ASSUME NEW l \in Logical, NEW p \in Pages,
            VmmMap(l, p)
      PROVE  LocalInv'
  BY <1>3 DEF VmmMap
<1>4. ASSUME NEW first \in Pages, NEW last \in Pages, NEW dev \in Devices,
            VmmSetAccess(first, last, dev)
      PROVE  LocalInv'
  BY <1>4 DEF VmmSetAccess
<1>5. ASSUME NEW p \in Pages,
            VmmUnmap(p)
      PROVE  LocalInv'
  BY <1>5 DEF VmmUnmap
<1>6. ASSUME NEW l \in Logical,
            VmmRelease(l)
      PROVE  LocalInv'
  BY <1>6, UnitsApart DEF VmmRelease, ReleaseUnit, KnownToDriver
<1>7. ASSUME NEW p \in Pages,
            UntrackedMap(p)
      PROVE  LocalInv'
  BY <1>7 DEF UntrackedMap
<1>8. ASSUME NEW p \in Pages,
            UntrackedUnmap(p)
      PROVE  LocalInv'
  BY <1>8, UnitsApart DEF UntrackedUnmap, ReleaseUnit
<1>9. ASSUME NEW t \in Threads, NEW tagFilter \in Tags \cup {Null},
            Pause(t, tagFilter)
      PROVE  LocalInv'
  BY <1>9 DEF Pause
<1>10. ASSUME NEW t \in Threads,
            BackUpRun(t)
      PROVE  LocalInv'
  BY <1>10 DEF BackUpRun
<1>11. ASSUME NEW t \in Threads,
            BackUpDone(t)
      PROVE  LocalInv'
  BY <1>11 DEF BackUpDone
<1>12. ASSUME NEW t \in Threads, NEW l \in todo,
            PauseEntry(t, l)
      PROVE  LocalInv'
  <2>1. /\ l \in Tracked /\ phys' = phys \ {meta[l].physical_handle}
        /\ UNCHANGED <<mutex, pc, made>>
    BY <1>12, EntryInLoop DEF PauseEntry, PauseRelease, ReleaseUnit
  <2> QED
    BY <2>1, UnitsApart
<1>13. ASSUME NEW t \in Threads,
            LoopReturn(t)
      PROVE  LocalInv'
  BY <1>13 DEF LoopReturn
<1>14. ASSUME NEW t \in Threads, NEW tagFilter \in Tags \cup {Null},
            Resume(t, tagFilter)
      PROVE  LocalInv'
  BY <1>14 DEF Resume
<1>15. ASSUME NEW t \in Threads, NEW l \in todo,
            ResumeEntry(t, l)
      PROVE  LocalInv'
  <2>1. phys \subseteq phys' /\ UNCHANGED <<mutex, pc, made>>
    BY <1>15 DEF ResumeEntry
  <2> QED
    BY <2>1
<1>16. ASSUME NEW t \in Threads, NEW first \in Pages, NEW size \in 1 .. NumPages,
            QueryFound(t, first, size)
      PROVE  LocalInv'
  BY <1>16 DEF QueryFound
<1>17. ASSUME NEW t \in Threads,
            QueryDone(t)
      PROVE  LocalInv'
  BY <1>17 DEF QueryDone
<1>18. ASSUME NEW p \in Pages, NEW v \in Values,
            Write(p, v)
      PROVE  LocalInv'
  BY <1>18 DEF Write
<1>19. ASSUME Leaves PROVE LocalInv'
  BY <1>19 DEF Leaves, Exit
<1>20. CASE UNCHANGED vars
  BY <1>20 DEF vars
<1>21. QED
  BY <1>1, <1>2, <1>3, <1>4, <1>5, <1>6, <1>7, <1>8, <1>9, <1>10, <1>11,
     <1>12, <1>13, <1>14, <1>15, <1>16, <1>17, <1>18, <1>19, <1>20, StepCases

\* The two maps.
LEMMA MapsStep ==
  ASSUME CoreInv, [Next]_vars
  PROVE  MapsAgree'
<1> USE ExpandableAssumption DEF CoreInv, device, backups, maps, lock, local, client, Tracked, Unused, TypeOK, MapsAgree
<1>1. ASSUME NEW t \in Threads, NEW tag \in Tags, NEW backup \in BackupModes,
            VmmCreate(t, tag, backup)
      PROVE  MapsAgree'
  BY <1>1 DEF VmmCreate
<1>2. ASSUME NEW t \in Threads,
            VmmRegister(t)
      PROVE  MapsAgree'
  BY <1>2 DEF VmmRegister, LocalInv
<1>3. ASSUME NEW l \in Logical, NEW p \in Pages,
            VmmMap(l, p)
      PROVE  MapsAgree'
  <2>1. PICK n \in VMMAllocationMetadata : MappedAs(l, p, n)
    BY <1>3, VmmMapEffect
  <2>2. /\ Tracked' = Tracked /\ l \in Tracked /\ meta'[l] = n
        /\ \A k \in Logical : k # l => meta'[k] = meta[k]
    BY <2>1, ReplacedEntries DEF MappedAs
  <2>3. n.ptr = p /\ p # Null
    BY <2>1 DEF MappedAs
  <2>4. /\ index' = [index EXCEPT ![p] = l] /\ index[p] = Null
        /\ meta[l].ptr = Null
    BY <1>3 DEF VmmMap
  <2> QED
    BY <2>2, <2>3, <2>4
<1>4. ASSUME NEW first \in Pages, NEW last \in Pages, NEW dev \in Devices,
            VmmSetAccess(first, last, dev)
      PROVE  MapsAgree'
  <2>1. /\ meta' \in [Logical -> VMMAllocationMetadata \cup {Null}]
        /\ Tracked' = Tracked
        /\ \A l \in Tracked : SameHandle(meta[l], meta'[l])
    BY <1>4, VmmSetAccessEffect
  <2> QED
    BY <1>4, <2>1 DEF VmmSetAccess, SameHandle
<1>5. ASSUME NEW p \in Pages,
            VmmUnmap(p)
      PROVE  MapsAgree'
  <2>1. PICK n \in VMMAllocationMetadata : UnmappedAs(index[p], n)
    BY <1>5, VmmUnmapEffect
  <2> QED
    BY <1>5, <2>1 DEF VmmUnmap, UnmappedAs, Replaced, UnmappedEntry
<1>6. ASSUME NEW l \in Logical,
            VmmRelease(l)
      PROVE  MapsAgree'
  BY <1>6 DEF VmmRelease
<1>7. ASSUME NEW p \in Pages,
            UntrackedMap(p)
      PROVE  MapsAgree'
  BY <1>7 DEF UntrackedMap
<1>8. ASSUME NEW p \in Pages,
            UntrackedUnmap(p)
      PROVE  MapsAgree'
  BY <1>8 DEF UntrackedUnmap
<1>9. ASSUME NEW t \in Threads, NEW tagFilter \in Tags \cup {Null},
            Pause(t, tagFilter)
      PROVE  MapsAgree'
  BY <1>9 DEF Pause
<1>10. ASSUME NEW t \in Threads,
            BackUpRun(t)
      PROVE  MapsAgree'
  <2>1. /\ meta' \in [Logical -> VMMAllocationMetadata \cup {Null}]
        /\ Tracked' = Tracked
        /\ \A l \in Tracked : SameHandle(meta[l], meta'[l])
    BY <1>10, BackUpRunEffect
  <2> QED
    BY <1>10, <2>1 DEF BackUpRun, SameHandle
<1>11. ASSUME NEW t \in Threads,
            BackUpDone(t)
      PROVE  MapsAgree'
  BY <1>11 DEF BackUpDone
<1>12. ASSUME NEW t \in Threads, NEW l \in todo,
            PauseEntry(t, l)
      PROVE  MapsAgree'
  <2>0. l \in Tracked
    BY EntryInLoop
  <2>1. PICK f \in SlotFiles(meta[l]), n \in VMMAllocationMetadata :
           /\ PausedAs(l, n, f)
           /\ f \in Files \cup {Null}
           /\ fileData' = [g \in Files |-> IF meta[l].backup = "disk" /\ g = f
                                           THEN content[mapping[meta[l].ptr]] ELSE fileData[g]]
    BY <1>12, <2>0, PauseEntryEffect
  <2> QED
    BY <1>12, <2>1, <2>0 DEF PauseEntry, PausedAs, Replaced
<1>13. ASSUME NEW t \in Threads,
            LoopReturn(t)
      PROVE  MapsAgree'
  BY <1>13 DEF LoopReturn
<1>14. ASSUME NEW t \in Threads, NEW tagFilter \in Tags \cup {Null},
            Resume(t, tagFilter)
      PROVE  MapsAgree'
  BY <1>14 DEF Resume
<1>15. ASSUME NEW t \in Threads, NEW l \in todo,
            ResumeEntry(t, l)
      PROVE  MapsAgree'
  <2>0. l \in Tracked
    BY EntryInLoop
  <2>1. PICK h \in Unused, n \in VMMAllocationMetadata :
           /\ ResumedAs(l, n, h)
           /\ phys' = phys \cup {h}
           /\ mapping' = [mapping EXCEPT ![meta[l].ptr] = h]
           /\ content' = [content EXCEPT ![h] = BackedUp(meta[l])]
    BY <1>15, <2>0, ResumeEntryEffect
  <2> QED
    BY <1>15, <2>1, <2>0 DEF ResumeEntry, ResumedAs, Replaced
<1>16. ASSUME NEW t \in Threads, NEW first \in Pages, NEW size \in 1 .. NumPages,
            QueryFound(t, first, size)
      PROVE  MapsAgree'
  BY <1>16 DEF QueryFound
<1>17. ASSUME NEW t \in Threads,
            QueryDone(t)
      PROVE  MapsAgree'
  BY <1>17 DEF QueryDone
<1>18. ASSUME NEW p \in Pages, NEW v \in Values,
            Write(p, v)
      PROVE  MapsAgree'
  BY <1>18 DEF Write
<1>19. ASSUME Leaves PROVE MapsAgree'
  BY <1>19 DEF Leaves, Exit
<1>20. CASE UNCHANGED vars
  BY <1>20 DEF vars
<1>21. QED
  BY <1>1, <1>2, <1>3, <1>4, <1>5, <1>6, <1>7, <1>8, <1>9, <1>10, <1>11,
     <1>12, <1>13, <1>14, <1>15, <1>16, <1>17, <1>18, <1>19, <1>20, StepCases

\* Entries and the device.
LEMMA DeviceStep ==
  ASSUME CoreInv, [Next]_vars
  PROVE  HandlesMatchDevice'
<1> USE ExpandableAssumption DEF CoreInv, device, backups, maps, lock, local, client,
        Tracked, Unused, TypeOK, MapsAgree, HandlesMatchDevice
<1>1. ASSUME NEW t \in Threads, NEW tag \in Tags, NEW backup \in BackupModes,
            VmmCreate(t, tag, backup)
      PROVE  HandlesMatchDevice'
  BY <1>1 DEF VmmCreate, MatchesDevice
<1>2. ASSUME NEW t \in Threads,
            VmmRegister(t)
      PROVE  HandlesMatchDevice'
  BY <1>2 DEF VmmRegister, LocalInv, MatchesDevice
<1>3. ASSUME NEW l \in Logical, NEW p \in Pages,
            VmmMap(l, p)
      PROVE  HandlesMatchDevice'
  <2>1. PICK n \in VMMAllocationMetadata : MappedAs(l, p, n)
    BY <1>3, VmmMapEffect
  <2> QED
    BY <1>3, <2>1 DEF VmmMap, MappedAs, Replaced, MatchesDevice
<1>4. ASSUME NEW first \in Pages, NEW last \in Pages, NEW dev \in Devices,
            VmmSetAccess(first, last, dev)
      PROVE  HandlesMatchDevice'
  <2>1. /\ meta' \in [Logical -> VMMAllocationMetadata \cup {Null}]
        /\ Tracked' = Tracked
        /\ \A l \in Tracked : SameHandle(meta[l], meta'[l])
    BY <1>4, VmmSetAccessEffect
  <2>2. UNCHANGED <<phys, mapping>>
    BY <1>4 DEF VmmSetAccess
  <2> QED
    BY <2>1, <2>2 DEF SameHandle, MatchesDevice
<1>5. ASSUME NEW p \in Pages,
            VmmUnmap(p)
      PROVE  HandlesMatchDevice'
  <2>1. PICK n \in VMMAllocationMetadata : UnmappedAs(index[p], n)
    BY <1>5, VmmUnmapEffect
  <2>2. /\ Tracked' = Tracked /\ meta'[index[p]] = n /\ index[p] \in Tracked
        /\ \A k \in Tracked : k # index[p] => meta'[k] = meta[k]
    BY <2>1, ReplacedEntries DEF UnmappedAs
  <2>3. /\ phys' = phys /\ \A q \in Pages : q # p => mapping'[q] = mapping[q]
    BY <1>5 DEF VmmUnmap
  <2>4. ASSUME NEW k \in Tracked, k # index[p]
        PROVE  MatchesDevice(meta[k])'
    <3>1. meta'[k] = meta[k] /\ MatchesDevice(meta[k]) /\ meta[k].ptr # p
      BY <2>2, <2>4
    <3>2. meta[k].ptr \in Pages \cup {Null}
      BY EntryType DEF VMMAllocationMetadata
    <3> QED
      BY <2>3, <3>1, <3>2 DEF MatchesDevice
  <2>5. MatchesDevice(n)'
    BY <2>1, <2>2, <2>3 DEF UnmappedAs, MatchesDevice
  <2> QED
    BY <2>2, <2>4, <2>5
<1>6. ASSUME NEW l \in Logical,
            VmmRelease(l)
      PROVE  HandlesMatchDevice'
  BY <1>6, UnitsApart DEF VmmRelease, ReleaseUnit, KnownToDriver,
     MatchesDevice
<1>7. ASSUME NEW p \in Pages,
            UntrackedMap(p)
      PROVE  HandlesMatchDevice'
  <2>1. ASSUME NEW k \in Tracked
        PROVE  MatchesDevice(meta[k])'
    <3>1. MatchesDevice(meta[k]) /\ meta[k].ptr # p
      BY <1>7 DEF UntrackedMap
    <3>2. phys \subseteq phys' /\ \A q \in Pages : q # p => mapping'[q] = mapping[q]
      BY <1>7 DEF UntrackedMap
    <3>3. meta[k].ptr \in Pages \cup {Null}
      BY EntryType DEF VMMAllocationMetadata
    <3>4. meta' = meta
      BY <1>7 DEF UntrackedMap
    <3> QED
      BY <3>1, <3>2, <3>3, <3>4 DEF MatchesDevice
  <2> QED
    BY <1>7, <2>1 DEF UntrackedMap
<1>8. ASSUME NEW p \in Pages,
            UntrackedUnmap(p)
      PROVE  HandlesMatchDevice'
  <2>1. ASSUME NEW k \in Tracked
        PROVE  MatchesDevice(meta[k])'
    <3>1. MatchesDevice(meta[k]) /\ meta[k].ptr # p /\ meta[k].physical_handle # mapping[p]
      BY <1>8, UnitsApart DEF UntrackedUnmap
    <3>2. phys' = phys \ {mapping[p]} /\ \A q \in Pages : q # p => mapping'[q] = mapping[q]
      BY <1>8 DEF UntrackedUnmap, ReleaseUnit
    <3>3. meta[k].ptr \in Pages \cup {Null}
      BY EntryType DEF VMMAllocationMetadata
    <3>4. meta' = meta
      BY <1>8 DEF UntrackedUnmap
    <3> QED
      BY <3>1, <3>2, <3>3, <3>4 DEF MatchesDevice
  <2> QED
    BY <1>8, <2>1 DEF UntrackedUnmap
<1>9. ASSUME NEW t \in Threads, NEW tagFilter \in Tags \cup {Null},
            Pause(t, tagFilter)
      PROVE  HandlesMatchDevice'
  BY <1>9 DEF Pause, MatchesDevice
<1>10. ASSUME NEW t \in Threads,
            BackUpRun(t)
      PROVE  HandlesMatchDevice'
  <2>1. /\ meta' \in [Logical -> VMMAllocationMetadata \cup {Null}]
        /\ Tracked' = Tracked
        /\ \A l \in Tracked : SameHandle(meta[l], meta'[l])
    BY <1>10, BackUpRunEffect
  <2>2. UNCHANGED <<phys, mapping>>
    BY <1>10 DEF BackUpRun
  <2> QED
    BY <2>1, <2>2 DEF SameHandle, MatchesDevice
<1>11. ASSUME NEW t \in Threads,
            BackUpDone(t)
      PROVE  HandlesMatchDevice'
  BY <1>11 DEF BackUpDone, MatchesDevice
<1>12. ASSUME NEW t \in Threads, NEW l \in todo,
            PauseEntry(t, l)
      PROVE  HandlesMatchDevice'
  <2>0. l \in Tracked
    BY EntryInLoop
  <2>1. PICK f \in SlotFiles(meta[l]), n \in VMMAllocationMetadata :
           /\ PausedAs(l, n, f)
           /\ f \in Files \cup {Null}
           /\ fileData' = [g \in Files |-> IF meta[l].backup = "disk" /\ g = f
                                           THEN content[mapping[meta[l].ptr]] ELSE fileData[g]]
    BY <1>12, <2>0, PauseEntryEffect
  <2>2. /\ Tracked' = Tracked /\ meta'[l] = n
        /\ \A k \in Tracked : k # l => meta'[k] = meta[k]
    BY <2>1, ReplacedEntries DEF PausedAs
  <2>3. /\ meta[l].ptr \in Pages /\ meta[l].physical_handle \in phys
        /\ phys' = phys \ {meta[l].physical_handle}
        /\ mapping' = [mapping EXCEPT ![meta[l].ptr] = Null]
    BY <1>12, <2>0, EntryType DEF PauseEntry, PauseRelease, ReleaseUnit, MatchesDevice, VMMAllocationMetadata
  <2>4. ASSUME NEW k \in Tracked, k # l
        PROVE  MatchesDevice(meta[k])'
    <3>1. meta'[k] = meta[k] /\ MatchesDevice(meta[k]) /\ meta[k].ptr # meta[l].ptr
      BY <2>0, <2>2, <2>3, <2>4
    <3>2. meta[k].ptr \in Pages \cup {Null}
      BY EntryType DEF VMMAllocationMetadata
    <3>3. meta[k].physical_handle # meta[l].physical_handle
      BY <2>0, <2>3, <2>4, UnitsApart
    <3> QED
      BY <2>3, <3>1, <3>2, <3>3 DEF MatchesDevice
  <2>5. MatchesDevice(n)'
    BY <2>1, <2>3 DEF PausedAs, MatchesDevice
  <2> QED
    BY <2>2, <2>4, <2>5
<1>13. ASSUME NEW t \in Threads,
            LoopReturn(t)
      PROVE  HandlesMatchDevice'
  BY <1>13 DEF LoopReturn, MatchesDevice
<1>14. ASSUME NEW t \in Threads, NEW tagFilter \in Tags \cup {Null},
            Resume(t, tagFilter)
      PROVE  HandlesMatchDevice'
  BY <1>14 DEF Resume, MatchesDevice
<1>15. ASSUME NEW t \in Threads, NEW l \in todo,
            ResumeEntry(t, l)
      PROVE  HandlesMatchDevice'
  <2>0. l \in Tracked
    BY EntryInLoop
  <2>1. PICK h \in Unused, n \in VMMAllocationMetadata :
           /\ ResumedAs(l, n, h)
           /\ phys' = phys \cup {h}
           /\ mapping' = [mapping EXCEPT ![meta[l].ptr] = h]
           /\ content' = [content EXCEPT ![h] = BackedUp(meta[l])]
    BY <1>15, <2>0, ResumeEntryEffect
  <2>2. /\ Tracked' = Tracked /\ meta'[l] = n
        /\ \A k \in Tracked : k # l => meta'[k] = meta[k]
    BY <2>1, ReplacedEntries DEF ResumedAs
  <2>3. meta[l].ptr \in Pages
    BY <1>15, <2>0, EntryType DEF ResumeEntry, VMMAllocationMetadata
  <2>4. ASSUME NEW k \in Tracked, k # l
        PROVE  MatchesDevice(meta[k])'
    <3>1. meta'[k] = meta[k] /\ MatchesDevice(meta[k]) /\ meta[k].ptr # meta[l].ptr
      BY <2>0, <2>2, <2>3, <2>4
    <3>2. meta[k].ptr \in Pages \cup {Null}
      BY EntryType DEF VMMAllocationMetadata
    <3> QED
      BY <2>1, <2>3, <3>1, <3>2 DEF MatchesDevice
  <2>5. MatchesDevice(n)'
    BY <2>1, <2>3 DEF ResumedAs, MatchesDevice
  <2> QED
    BY <2>2, <2>4, <2>5
<1>16. ASSUME NEW t \in Threads, NEW first \in Pages, NEW size \in 1 .. NumPages,
            QueryFound(t, first, size)
      PROVE  HandlesMatchDevice'
  BY <1>16 DEF QueryFound, MatchesDevice
<1>17. ASSUME NEW t \in Threads,
            QueryDone(t)
      PROVE  HandlesMatchDevice'
  BY <1>17 DEF QueryDone, MatchesDevice
<1>18. ASSUME NEW p \in Pages, NEW v \in Values,
            Write(p, v)
      PROVE  HandlesMatchDevice'
  BY <1>18 DEF Write, MatchesDevice
<1>19. ASSUME Leaves PROVE HandlesMatchDevice'
  BY <1>19 DEF Leaves, Exit, MatchesDevice
<1>20. CASE UNCHANGED vars
  BY <1>20 DEF vars, MatchesDevice
<1>21. QED
  BY <1>1, <1>2, <1>3, <1>4, <1>5, <1>6, <1>7, <1>8, <1>9, <1>10, <1>11,
     <1>12, <1>13, <1>14, <1>15, <1>16, <1>17, <1>18, <1>19, <1>20, StepCases

\* What the loops have left and have done.
LEMMA LoopStep ==
  ASSUME CoreInv, [Next]_vars
  PROVE  LoopInv'
<1> USE ExpandableAssumption DEF CoreInv, device, backups, maps, lock, local, client,
        Tracked, TypeOK, LocalInv, InLoop, LoopInv, Matches
<1>1. ASSUME NEW t \in Threads, NEW tag \in Tags, NEW backup \in BackupModes,
            VmmCreate(t, tag, backup)
      PROVE  LoopInv'
  BY <1>1 DEF VmmCreate
<1>2. ASSUME NEW t \in Threads,
            VmmRegister(t)
      PROVE  LoopInv'
  <2>1. /\ mutex = Null /\ UNCHANGED <<mutex, toBackUp, todo>>
        /\ \A u \in Threads : pc'[u] \in InLoop => pc[u] \in InLoop
    BY <1>2 DEF VmmRegister
  <2>2. toBackUp = {} /\ todo = {} /\ \A u \in Threads : pc[u] \notin InLoop
    BY <2>1
  <2> QED
    BY <2>1, <2>2
<1>3. ASSUME NEW l \in Logical, NEW p \in Pages,
            VmmMap(l, p)
      PROVE  LoopInv'
  <2>1. /\ mutex = Null /\ UNCHANGED <<mutex, toBackUp, todo, pc>>
    BY <1>3 DEF VmmMap
  <2>2. toBackUp = {} /\ todo = {} /\ \A t \in Threads : pc[t] \notin InLoop
    BY <2>1
  <2> QED
    BY <2>1, <2>2
<1>4. ASSUME NEW first \in Pages, NEW last \in Pages, NEW dev \in Devices,
            VmmSetAccess(first, last, dev)
      PROVE  LoopInv'
  <2>1. /\ mutex = Null /\ UNCHANGED <<mutex, toBackUp, todo, pc>>
    BY <1>4 DEF VmmSetAccess
  <2>2. toBackUp = {} /\ todo = {} /\ \A t \in Threads : pc[t] \notin InLoop
    BY <2>1
  <2> QED
    BY <2>1, <2>2
<1>5. ASSUME NEW p \in Pages,
            VmmUnmap(p)
      PROVE  LoopInv'
  <2>1. /\ mutex = Null /\ UNCHANGED <<mutex, toBackUp, todo, pc>>
    BY <1>5 DEF VmmUnmap
  <2>2. toBackUp = {} /\ todo = {} /\ \A t \in Threads : pc[t] \notin InLoop
    BY <2>1
  <2> QED
    BY <2>1, <2>2
<1>6. ASSUME NEW l \in Logical,
            VmmRelease(l)
      PROVE  LoopInv'
  <2>1. /\ mutex = Null /\ UNCHANGED <<mutex, toBackUp, todo, pc>>
    BY <1>6 DEF VmmRelease
  <2>2. toBackUp = {} /\ todo = {} /\ \A t \in Threads : pc[t] \notin InLoop
    BY <2>1
  <2> QED
    BY <2>1, <2>2
<1>7. ASSUME NEW p \in Pages,
            UntrackedMap(p)
      PROVE  LoopInv'
  <2>1. /\ mutex = Null /\ UNCHANGED <<mutex, toBackUp, todo, pc>>
    BY <1>7 DEF UntrackedMap
  <2>2. toBackUp = {} /\ todo = {} /\ \A t \in Threads : pc[t] \notin InLoop
    BY <2>1
  <2> QED
    BY <2>1, <2>2
<1>8. ASSUME NEW p \in Pages,
            UntrackedUnmap(p)
      PROVE  LoopInv'
  <2>1. /\ mutex = Null /\ UNCHANGED <<mutex, toBackUp, todo, pc>>
    BY <1>8 DEF UntrackedUnmap
  <2>2. toBackUp = {} /\ todo = {} /\ \A t \in Threads : pc[t] \notin InLoop
    BY <2>1
  <2> QED
    BY <2>1, <2>2
<1>9. ASSUME NEW t \in Threads, NEW tagFilter \in Tags \cup {Null},
            Pause(t, tagFilter)
      PROVE  LoopInv'
  BY <1>9 DEF Pause
<1>10. ASSUME NEW t \in Threads,
            BackUpRun(t)
      PROVE  LoopInv'
  <2>1. /\ meta' \in [Logical -> VMMAllocationMetadata \cup {Null}]
        /\ Tracked' = Tracked
        /\ \A l \in Tracked : SameHandle(meta[l], meta'[l])
    BY <1>10, BackUpRunEffect
  <2>2. toBackUp' \subseteq toBackUp /\ UNCHANGED <<mutex, todo, pc, filter, index>>
    BY <1>10 DEF BackUpRun
  <2>3. /\ pc[t] = "p_backup" /\ mutex = t
        /\ \A u \in Threads : pc[u] \in InLoop => u = t
    BY <1>10 DEF BackUpRun
  <2> QED
    BY <2>2, <2>3
<1>11. ASSUME NEW t \in Threads,
            BackUpDone(t)
      PROVE  LoopInv'
  BY <1>11 DEF BackUpDone
<1>12. ASSUME NEW t \in Threads, NEW l \in todo,
            PauseEntry(t, l)
      PROVE  LoopInv'
  <2>0. l \in Tracked
    BY EntryInLoop
  <2>1. PICK f \in SlotFiles(meta[l]), n \in VMMAllocationMetadata :
           /\ PausedAs(l, n, f)
           /\ f \in Files \cup {Null}
           /\ fileData' = [g \in Files |-> IF meta[l].backup = "disk" /\ g = f
                                           THEN content[mapping[meta[l].ptr]] ELSE fileData[g]]
    BY <1>12, <2>0, PauseEntryEffect
  <2>2. /\ Tracked' = Tracked /\ meta'[l] = n
        /\ \A k \in Tracked : k # l => meta'[k] = meta[k]
    BY <2>1, ReplacedEntries DEF PausedAs
  <2>3. /\ todo' = todo \ {l} /\ UNCHANGED <<mutex, pc, filter, index, toBackUp>>
        /\ pc[t] = "p_release"
    BY <1>12 DEF PauseEntry
  <2>4. \A u \in Threads : pc[u] \in InLoop => u = t
    BY <2>3
  <2>5. n.tag = meta[l].tag /\ n.state = "PAUSED"
    BY <2>1 DEF PausedAs, Replaced
  <2>6. toBackUp' = {} /\ mutex' # Null
    BY <2>3
  <2>7. \A k \in todo' : k \in Tracked /\ k # l /\ meta'[k] = meta[k]
    BY <2>2, <2>3
  <2>8. ASSUME NEW k \in Tracked, k \notin todo', Matches(meta'[k], filter[t])
        PROVE  meta'[k].state = "PAUSED"
    <3>1. CASE k = l
      BY <2>2, <2>5, <3>1
    <3>2. CASE k # l
      BY <2>2, <2>3, <2>8, <3>2
    <3> QED
      BY <3>1, <3>2
  <2>9. \A k \in todo' : meta'[k] # Null /\ Matches(meta'[k], filter[t])
    BY <2>3, <2>7
  <2> QED
    BY <2>2, <2>3, <2>4, <2>6, <2>8, <2>9
<1>13. ASSUME NEW t \in Threads,
            LoopReturn(t)
      PROVE  LoopInv'
  BY <1>13 DEF LoopReturn
<1>14. ASSUME NEW t \in Threads, NEW tagFilter \in Tags \cup {Null},
            Resume(t, tagFilter)
      PROVE  LoopInv'
  BY <1>14 DEF Resume
<1>15. ASSUME NEW t \in Threads, NEW l \in todo,
            ResumeEntry(t, l)
      PROVE  LoopInv'
  <2>0. l \in Tracked
    BY EntryInLoop
  <2>1. PICK h \in Unused, n \in VMMAllocationMetadata :
           /\ ResumedAs(l, n, h)
           /\ phys' = phys \cup {h}
           /\ mapping' = [mapping EXCEPT ![meta[l].ptr] = h]
           /\ content' = [content EXCEPT ![h] = BackedUp(meta[l])]
    BY <1>15, <2>0, ResumeEntryEffect
  <2>2. /\ Tracked' = Tracked /\ meta'[l] = n
        /\ \A k \in Tracked : k # l => meta'[k] = meta[k]
    BY <2>1, ReplacedEntries DEF ResumedAs
  <2>3. /\ todo' = todo \ {l} /\ UNCHANGED <<mutex, pc, filter, index, toBackUp>>
        /\ pc[t] = "r_loop"
    BY <1>15 DEF ResumeEntry
  <2>4. \A u \in Threads : pc[u] \in InLoop => u = t
    BY <2>3
  <2>5. n.tag = meta[l].tag /\ n.state = "ACTIVE"
    BY <2>1 DEF ResumedAs, Replaced
  <2>6. toBackUp' = {} /\ mutex' # Null
    BY <2>3
  <2>7. \A k \in todo' : k \in Tracked /\ k # l /\ meta'[k] = meta[k]
    BY <2>2, <2>3
  <2>8. ASSUME NEW k \in Tracked, k \notin todo', Matches(meta'[k], filter[t])
        PROVE  meta'[k].state = "ACTIVE"
    <3>1. CASE k = l
      BY <2>2, <2>5, <3>1
    <3>2. CASE k # l
      BY <2>2, <2>3, <2>8, <3>2
    <3> QED
      BY <3>1, <3>2
  <2>9. \A k \in todo' : meta'[k] # Null /\ Matches(meta'[k], filter[t])
    BY <2>3, <2>7
  <2> QED
    BY <2>2, <2>3, <2>4, <2>6, <2>8, <2>9
<1>16. ASSUME NEW t \in Threads, NEW first \in Pages, NEW size \in 1 .. NumPages,
            QueryFound(t, first, size)
      PROVE  LoopInv'
  BY <1>16 DEF QueryFound
<1>17. ASSUME NEW t \in Threads,
            QueryDone(t)
      PROVE  LoopInv'
  BY <1>17 DEF QueryDone
<1>18. ASSUME NEW p \in Pages, NEW v \in Values,
            Write(p, v)
      PROVE  LoopInv'
  BY <1>18 DEF Write
<1>19. ASSUME Leaves PROVE LoopInv'
  BY <1>19 DEF Leaves, Exit
<1>20. CASE UNCHANGED vars
  BY <1>20 DEF vars
<1>21. QED
  BY <1>1, <1>2, <1>3, <1>4, <1>5, <1>6, <1>7, <1>8, <1>9, <1>10, <1>11,
     <1>12, <1>13, <1>14, <1>15, <1>16, <1>17, <1>18, <1>19, <1>20, StepCases

\* Units and their owners.
LEMMA UnitsStep ==
  ASSUME CoreInv, [Next]_vars
  PROVE  UnitsInv'
<1> USE ExpandableAssumption DEF CoreInv, device, backups, maps, lock, local, client, TypeOK
<1>1. ASSUME NEW t \in Threads, NEW tag \in Tags, NEW backup \in BackupModes,
            VmmCreate(t, tag, backup)
      PROVE  UnitsInv'
  <2>1. PICK h \in Unused : made' = [made EXCEPT ![t] = NewEntry(tag, backup, h)] /\ phys' = phys \cup {h}
    BY <1>1 DEF VmmCreate
  <2>2. NewEntry(tag, backup, h) # Null /\ NewEntry(tag, backup, h).physical_handle = h
    BY <2>1, ZeroIsPage DEF NewEntry, VMMAllocationMetadata, State, Unused
  <2>3. made[t] = Null /\ EntryUnit' = EntryUnit /\ PageUnit' = PageUnit
    BY <1>1 DEF VmmCreate, LocalInv, EntryUnit, PageUnit
  <2>4. CallUnit[t] = Null /\ CallUnit' = [CallUnit EXCEPT ![t] = h]
    BY <2>1, <2>2, <2>3 DEF CallUnit
  <2>5. h \notin phys /\ h # Null /\ Null \notin phys /\ CallUnit \in [Threads -> Units \cup {Null}]
    BY DEF Unused, CallUnit, VMMAllocationMetadata
  <2> QED
    BY <2>1, <2>3, <2>4, <2>5 DEF UnitsInv, OneOwner
<1>2. ASSUME NEW t \in Threads,
            VmmRegister(t)
      PROVE  UnitsInv'
  <2>1. PICK l \in Logical \ Tracked : meta' = [meta EXCEPT ![l] = made[t]]
    BY <1>2 DEF VmmRegister
  <2>2. /\ made' = [made EXCEPT ![t] = Null] /\ made[t] # Null /\ phys' = phys
        /\ PageUnit' = PageUnit
    BY <1>2 DEF VmmRegister, LocalInv, PageUnit
  <2>3. EntryUnit[l] = Null /\ EntryUnit' = [EntryUnit EXCEPT ![l] = made[t].physical_handle]
    BY <2>1, <2>2 DEF EntryUnit, Tracked
  <2>4. CallUnit[t] = made[t].physical_handle /\ CallUnit' = [CallUnit EXCEPT ![t] = Null]
    BY <2>2 DEF CallUnit
  <2>5. EntryUnit = [k \in Logical |-> EntryUnit[k]] /\ CallUnit = [u \in Threads |-> CallUnit[u]]
    BY DEF EntryUnit, CallUnit
  <2>6. CallUnit[t] # Null
    BY <2>2, <2>4 DEF LocalInv
  <2> QED
    BY <2>2, <2>3, <2>4, <2>5, <2>6, CallHandsOver DEF UnitsInv
<1>3. ASSUME NEW l \in Logical, NEW p \in Pages,
            VmmMap(l, p)
      PROVE  UnitsInv'
  <2>1. PICK n \in VMMAllocationMetadata : MappedAs(l, p, n)
    BY <1>3, VmmMapEffect
  <2>2. EntryUnit' = EntryUnit
    BY <2>1, ReplacedEntries DEF MappedAs, EntryUnit, Tracked
  <2>3. CallUnit' = CallUnit /\ phys' = phys
    BY <1>3 DEF VmmMap, CallUnit
  <2>4. PageUnit' = PageUnit
    BY <1>3 DEF VmmMap, PageUnit
  <2> QED
    BY <2>2, <2>3, <2>4 DEF UnitsInv, OneOwner
<1>4. ASSUME NEW first \in Pages, NEW last \in Pages, NEW dev \in Devices,
            VmmSetAccess(first, last, dev)
      PROVE  UnitsInv'
  <2>1. /\ meta' \in [Logical -> VMMAllocationMetadata \cup {Null}]
        /\ Tracked' = Tracked
        /\ \A l \in Tracked : SameHandle(meta[l], meta'[l])
    BY <1>4, VmmSetAccessEffect
  <2>2. CallUnit' = CallUnit /\ PageUnit' = PageUnit /\ phys' = phys
    BY <1>4 DEF VmmSetAccess, CallUnit, PageUnit
  <2>3. EntryUnit' = EntryUnit
    BY <2>1 DEF SameHandle, EntryUnit, Tracked
  <2> QED
    BY <2>2, <2>3 DEF UnitsInv, OneOwner
<1>5. ASSUME NEW p \in Pages,
            VmmUnmap(p)
      PROVE  UnitsInv'
  <2>1. PICK n \in VMMAllocationMetadata : UnmappedAs(index[p], n)
    BY <1>5, VmmUnmapEffect
  <2>2. EntryUnit' = EntryUnit
    BY <2>1, ReplacedEntries DEF UnmappedAs, EntryUnit, Tracked
  <2>3. /\ CallUnit' = CallUnit /\ phys' = phys
        /\ index' = [index EXCEPT ![p] = Null] /\ index[p] # Null
        /\ \A q \in Pages : q # p => mapping'[q] = mapping[q]
    BY <1>5 DEF VmmUnmap, UnmappedEntry, CallUnit
  <2>4. mapping'[p] = Null
    <3>1. /\ index[p] \in Tracked /\ meta[index[p]].ptr = p /\ p # Null
          /\ meta[index[p]].state \in State
      BY <2>3, EntryType DEF MapsAgree, VMMAllocationMetadata
    <3> QED
      BY <1>5, <3>1 DEF VmmUnmap, KnownToDriver, HandlesMatchDevice, MatchesDevice, State
  <2>5. PageUnit' = PageUnit
    BY <2>3, <2>4 DEF PageUnit
  <2> QED
    BY <2>2, <2>3, <2>5 DEF UnitsInv, OneOwner
<1>6. ASSUME NEW l \in Logical,
            VmmRelease(l)
      PROVE  UnitsInv'
  <2>1. /\ l \in Tracked /\ meta[l].ptr = Null /\ meta' = [meta EXCEPT ![l] = Null]
        /\ CallUnit' = CallUnit /\ PageUnit' = PageUnit
    BY <1>6 DEF VmmRelease, CallUnit, PageUnit
  <2>2. EntryUnit[l] = meta[l].physical_handle /\ EntryUnit' = [EntryUnit EXCEPT ![l] = Null]
    BY <2>1 DEF EntryUnit, Tracked
  <2>3. phys' = phys \ {EntryUnit[l]}
    <3>1. meta[l].state \in State
      BY <2>1, EntryType DEF VMMAllocationMetadata
    <3> QED
      BY <1>6, <2>1, <2>2, <3>1
         DEF VmmRelease, KnownToDriver, ReleaseUnit, HandlesMatchDevice, MatchesDevice, State
  <2>4. l \in Logical /\ EntryUnit = [k \in Logical |-> EntryUnit[k]]
    BY DEF EntryUnit
  <2> QED
    BY <2>1, <2>2, <2>3, <2>4 DEF UnitsInv, OneOwner
<1>7. ASSUME NEW p \in Pages,
            UntrackedMap(p)
      PROVE  UnitsInv'
  <2>1. PICK h \in Unused : phys' = phys \cup {h} /\ mapping' = [mapping EXCEPT ![p] = h]
    BY <1>7 DEF UntrackedMap
  <2>2. /\ index[p] = Null /\ mapping[p] = Null /\ index' = index
        /\ EntryUnit' = EntryUnit /\ CallUnit' = CallUnit
    BY <1>7 DEF UntrackedMap, EntryUnit, CallUnit
  <2>3. PageUnit[p] = Null /\ PageUnit' = [PageUnit EXCEPT ![p] = h]
    BY <2>1, <2>2 DEF PageUnit
  <2>4. h \notin phys /\ h # Null /\ Null \notin phys /\ PageUnit = [q \in Pages |-> PageUnit[q]]
    BY DEF Unused, PageUnit
  <2> QED
    BY <2>1, <2>2, <2>3, <2>4, PageGains DEF UnitsInv
<1>8. ASSUME NEW p \in Pages,
            UntrackedUnmap(p)
      PROVE  UnitsInv'
  <2>1. /\ index[p] = Null /\ index' = index /\ mapping' = [mapping EXCEPT ![p] = Null]
        /\ phys' = phys \ {mapping[p]}
        /\ EntryUnit' = EntryUnit /\ CallUnit' = CallUnit
    BY <1>8 DEF UntrackedUnmap, ReleaseUnit, EntryUnit, CallUnit
  <2>2. PageUnit[p] = mapping[p] /\ PageUnit' = [PageUnit EXCEPT ![p] = Null]
    BY <2>1 DEF PageUnit
  <2>3. PageUnit = [q \in Pages |-> PageUnit[q]]
    BY DEF PageUnit
  <2> QED
    BY <2>1, <2>2, <2>3 DEF UnitsInv, OneOwner
<1>9. ASSUME NEW t \in Threads, NEW tagFilter \in Tags \cup {Null},
            Pause(t, tagFilter)
      PROVE  UnitsInv'
  <2>1. EntryUnit' = EntryUnit /\ CallUnit' = CallUnit /\ PageUnit' = PageUnit /\ phys' = phys
    BY <1>9 DEF Pause, EntryUnit, CallUnit, PageUnit
  <2> QED
    BY <2>1 DEF UnitsInv, OneOwner
<1>10. ASSUME NEW t \in Threads,
            BackUpRun(t)
      PROVE  UnitsInv'
  <2>1. /\ meta' \in [Logical -> VMMAllocationMetadata \cup {Null}]
        /\ Tracked' = Tracked
        /\ \A l \in Tracked : SameHandle(meta[l], meta'[l])
    BY <1>10, BackUpRunEffect
  <2>2. CallUnit' = CallUnit /\ PageUnit' = PageUnit /\ phys' = phys
    BY <1>10 DEF BackUpRun, CallUnit, PageUnit
  <2>3. EntryUnit' = EntryUnit
    BY <2>1 DEF SameHandle, EntryUnit, Tracked
  <2> QED
    BY <2>2, <2>3 DEF UnitsInv, OneOwner
<1>11. ASSUME NEW t \in Threads,
            BackUpDone(t)
      PROVE  UnitsInv'
  <2>1. EntryUnit' = EntryUnit /\ CallUnit' = CallUnit /\ PageUnit' = PageUnit /\ phys' = phys
    BY <1>11 DEF BackUpDone, EntryUnit, CallUnit, PageUnit
  <2> QED
    BY <2>1 DEF UnitsInv, OneOwner
<1>12. ASSUME NEW t \in Threads, NEW l \in todo,
            PauseEntry(t, l)
      PROVE  UnitsInv'
  <2>0. l \in Tracked
    BY EntryInLoop
  <2>1. PICK f \in SlotFiles(meta[l]), n \in VMMAllocationMetadata :
           /\ PausedAs(l, n, f)
           /\ f \in Files \cup {Null}
           /\ fileData' = [g \in Files |-> IF meta[l].backup = "disk" /\ g = f
                                           THEN content[mapping[meta[l].ptr]] ELSE fileData[g]]
    BY <1>12, <2>0, PauseEntryEffect
  <2>2. EntryUnit' = [EntryUnit EXCEPT ![l] = Null] /\ EntryUnit[l] = meta[l].physical_handle
    <3>1. /\ meta'[l] = n /\ n # Null /\ meta[l] # Null /\ l \in Logical
          /\ \A k \in Logical : k # l => meta'[k] = meta[k]
      BY <2>0, <2>1, ReplacedEntries DEF PausedAs, Tracked
    <3>2. n.physical_handle = Null
      BY <2>1 DEF PausedAs
    <3>3. EntryUnit[l] = meta[l].physical_handle /\ EntryUnit'[l] = Null
      BY <3>1, <3>2 DEF EntryUnit
    <3>4. \A k \in Logical : k # l => EntryUnit'[k] = EntryUnit[k]
      BY <3>1 DEF EntryUnit
    <3>5. /\ EntryUnit = [k \in Logical |-> EntryUnit[k]]
          /\ EntryUnit' = [k \in Logical |-> EntryUnit'[k]]
      BY DEF EntryUnit
    <3> HIDE DEF EntryUnit
    <3> QED
      BY <3>1, <3>3, <3>4, <3>5
  <2>3. /\ meta[l].ptr \in Pages /\ index[meta[l].ptr] = l /\ l # Null
    BY <1>12, <2>0, EntryType DEF PauseEntry, VMMAllocationMetadata, MapsAgree, Tracked
  <2>4. /\ phys' = phys \ {meta[l].physical_handle}
        /\ mapping' = [mapping EXCEPT ![meta[l].ptr] = Null]
        /\ CallUnit' = CallUnit /\ index' = index
    BY <1>12 DEF PauseEntry, PauseRelease, ReleaseUnit, CallUnit
  <2>5. PageUnit' = PageUnit
    BY <2>3, <2>4 DEF PageUnit
  <2>6. l \in Logical /\ EntryUnit = [k \in Logical |-> EntryUnit[k]]
    BY <2>0 DEF EntryUnit, Tracked
  <2> QED
    BY <2>2, <2>4, <2>5, <2>6 DEF UnitsInv, OneOwner
<1>13. ASSUME NEW t \in Threads,
            LoopReturn(t)
      PROVE  UnitsInv'
  <2>1. EntryUnit' = EntryUnit /\ CallUnit' = CallUnit /\ PageUnit' = PageUnit /\ phys' = phys
    BY <1>13 DEF LoopReturn, EntryUnit, CallUnit, PageUnit
  <2> QED
    BY <2>1 DEF UnitsInv, OneOwner
<1>14. ASSUME NEW t \in Threads, NEW tagFilter \in Tags \cup {Null},
            Resume(t, tagFilter)
      PROVE  UnitsInv'
  <2>1. EntryUnit' = EntryUnit /\ CallUnit' = CallUnit /\ PageUnit' = PageUnit /\ phys' = phys
    BY <1>14 DEF Resume, EntryUnit, CallUnit, PageUnit
  <2> QED
    BY <2>1 DEF UnitsInv, OneOwner
<1>15. ASSUME NEW t \in Threads, NEW l \in todo,
            ResumeEntry(t, l)
      PROVE  UnitsInv'
  <2>0. l \in Tracked
    BY EntryInLoop
  <2>1. PICK h \in Unused, n \in VMMAllocationMetadata :
           /\ ResumedAs(l, n, h)
           /\ phys' = phys \cup {h}
           /\ mapping' = [mapping EXCEPT ![meta[l].ptr] = h]
           /\ content' = [content EXCEPT ![h] = BackedUp(meta[l])]
    BY <1>15, <2>0, ResumeEntryEffect
  <2>2. EntryUnit' = [EntryUnit EXCEPT ![l] = h] /\ EntryUnit[l] = meta[l].physical_handle
    <3>1. /\ meta'[l] = n /\ n # Null /\ meta[l] # Null /\ l \in Logical
          /\ \A k \in Logical : k # l => meta'[k] = meta[k]
      BY <2>0, <2>1, ReplacedEntries DEF ResumedAs, Tracked
    <3>2. n.physical_handle = h
      BY <2>1 DEF ResumedAs
    <3>3. EntryUnit[l] = meta[l].physical_handle /\ EntryUnit'[l] = h
      BY <3>1, <3>2 DEF EntryUnit
    <3>4. \A k \in Logical : k # l => EntryUnit'[k] = EntryUnit[k]
      BY <3>1 DEF EntryUnit
    <3>5. /\ EntryUnit = [k \in Logical |-> EntryUnit[k]]
          /\ EntryUnit' = [k \in Logical |-> EntryUnit'[k]]
      BY DEF EntryUnit
    <3> HIDE DEF EntryUnit
    <3> QED
      BY <3>1, <3>3, <3>4, <3>5
  <2>3. /\ meta[l].ptr \in Pages /\ index[meta[l].ptr] = l /\ l # Null
        /\ meta[l].physical_handle = Null
    BY <1>15, <2>0, EntryType
       DEF ResumeEntry, VMMAllocationMetadata, MapsAgree, HandlesMatchDevice, MatchesDevice, Tracked
  <2>4. CallUnit' = CallUnit /\ index' = index
    BY <1>15 DEF ResumeEntry, CallUnit
  <2>5. PageUnit' = PageUnit
    BY <2>1, <2>3, <2>4 DEF PageUnit
  <2>6. /\ l \in Logical /\ EntryUnit = [k \in Logical |-> EntryUnit[k]]
        /\ h \notin phys /\ h # Null /\ Null \notin phys
    BY <2>0, <2>1 DEF EntryUnit, Tracked, Unused
  <2> QED
    BY <2>1, <2>2, <2>3, <2>4, <2>5, <2>6, EntryGains DEF UnitsInv
<1>16. ASSUME NEW t \in Threads, NEW first \in Pages, NEW size \in 1 .. NumPages,
            QueryFound(t, first, size)
      PROVE  UnitsInv'
  <2>1. EntryUnit' = EntryUnit /\ CallUnit' = CallUnit /\ PageUnit' = PageUnit /\ phys' = phys
    BY <1>16 DEF QueryFound, EntryUnit, CallUnit, PageUnit
  <2> QED
    BY <2>1 DEF UnitsInv, OneOwner
<1>17. ASSUME NEW t \in Threads,
            QueryDone(t)
      PROVE  UnitsInv'
  <2>1. EntryUnit' = EntryUnit /\ CallUnit' = CallUnit /\ PageUnit' = PageUnit /\ phys' = phys
    BY <1>17 DEF QueryDone, EntryUnit, CallUnit, PageUnit
  <2> QED
    BY <2>1 DEF UnitsInv, OneOwner
<1>18. ASSUME NEW p \in Pages, NEW v \in Values,
            Write(p, v)
      PROVE  UnitsInv'
  <2>1. EntryUnit' = EntryUnit /\ CallUnit' = CallUnit /\ PageUnit' = PageUnit /\ phys' = phys
    BY <1>18 DEF Write, EntryUnit, CallUnit, PageUnit
  <2> QED
    BY <2>1 DEF UnitsInv, OneOwner
<1>19. ASSUME Leaves PROVE UnitsInv'
  BY <1>19 DEF Leaves, Exit, UnitsInv, EntryUnit, CallUnit, PageUnit
<1>20. CASE UNCHANGED vars
  BY <1>20 DEF vars, UnitsInv, EntryUnit, CallUnit, PageUnit
<1>21. QED
  BY <1>1, <1>2, <1>3, <1>4, <1>5, <1>6, <1>7, <1>8, <1>9, <1>10, <1>11,
     <1>12, <1>13, <1>14, <1>15, <1>16, <1>17, <1>18, <1>19, <1>20, StepCases

\* As long as no file and no slot changes, FilesInv is kept.
LEMMA SameFiles ==
  ASSUME FilesInv, Tracked' = Tracked, fileData' = fileData,
         \A l \in Tracked : meta'[l].disk = meta[l].disk
  PROVE  FilesInv'
  BY DEF FilesInv, BackupFilesAccounted

\* Backup files and slots.
LEMMA FilesStep ==
  ASSUME CoreInv, [Next]_vars
  PROVE  FilesInv'
<1> USE ExpandableAssumption DEF CoreInv, device, backups, maps, lock, local, client, Tracked, Unused, TypeOK
<1>1. ASSUME NEW t \in Threads, NEW tag \in Tags, NEW backup \in BackupModes,
            VmmCreate(t, tag, backup)
      PROVE  FilesInv'
  <2>1. Tracked' = Tracked /\ fileData' = fileData /\ meta' = meta
    BY <1>1 DEF VmmCreate
  <2> QED
    BY <2>1, SameFiles
<1>2. ASSUME NEW t \in Threads,
            VmmRegister(t)
      PROVE  FilesInv'
  <2>1. PICK l \in Logical \ Tracked : meta' = [meta EXCEPT ![l] = made[t]]
    BY <1>2 DEF VmmRegister
  <2>2. made[t] # Null /\ made[t].disk = Null /\ fileData' = fileData
    BY <1>2 DEF VmmRegister, LocalInv
  <2>3. Tracked' = Tracked \cup {l} /\ meta'[l].disk = Null /\ l \notin Tracked
    BY <2>1, <2>2
  <2>4. \A k \in Tracked : meta'[k] = meta[k]
    BY <2>1
  <2>5. Null \notin Files
    OBVIOUS
  <2>6. FilesInv
    OBVIOUS
  <2> HIDE DEF Tracked
  <2>7. ASSUME NEW f \in Files
        PROVE  fileData'[f] # Null <=> \E k \in Tracked' : meta'[k].disk = f
    BY <2>2, <2>3, <2>4, <2>5, <2>6 DEF FilesInv, BackupFilesAccounted
  <2> QED
    BY <2>3, <2>4, <2>6, <2>7 DEF FilesInv, BackupFilesAccounted
<1>3. ASSUME NEW l \in Logical, NEW p \in Pages,
            VmmMap(l, p)
      PROVE  FilesInv'
  <2>1. PICK n \in VMMAllocationMetadata : MappedAs(l, p, n)
    BY <1>3, VmmMapEffect
  <2>2. fileData' = fileData
    BY <1>3 DEF VmmMap
  <2>3. /\ Tracked' = Tracked
        /\ \A k \in Tracked : meta'[k].disk = meta[k].disk
    BY <2>1, ReplacedEntries DEF MappedAs
  <2> QED
    BY <2>2, <2>3, SameFiles
<1>4. ASSUME NEW first \in Pages, NEW last \in Pages, NEW dev \in Devices,
            VmmSetAccess(first, last, dev)
      PROVE  FilesInv'
  <2>1. /\ meta' \in [Logical -> VMMAllocationMetadata \cup {Null}]
        /\ Tracked' = Tracked
        /\ \A l \in Tracked : SameHandle(meta[l], meta'[l])
    BY <1>4, VmmSetAccessEffect
  <2>2. fileData' = fileData
    BY <1>4 DEF VmmSetAccess
  <2> QED
    BY <2>1, <2>2, SameFiles DEF SameHandle
<1>5. ASSUME NEW p \in Pages,
            VmmUnmap(p)
      PROVE  FilesInv'
  <2>1. PICK n \in VMMAllocationMetadata : UnmappedAs(index[p], n)
    BY <1>5, VmmUnmapEffect
  <2>2. fileData' = fileData
    BY <1>5 DEF VmmUnmap
  <2>3. /\ Tracked' = Tracked
        /\ \A k \in Tracked : meta'[k].disk = meta[k].disk
    BY <2>1, ReplacedEntries DEF UnmappedAs
  <2> QED
    BY <2>2, <2>3, SameFiles
<1>6. ASSUME NEW l \in Logical,
            VmmRelease(l)
      PROVE  FilesInv'
  <2>1. /\ l \in Tracked /\ meta' = [meta EXCEPT ![l] = Null]
        /\ fileData' = [f \in Files |-> IF f = meta[l].disk THEN Null ELSE fileData[f]]
    BY <1>6 DEF VmmRelease, FilesAfterRelease
  <2>2. Tracked' = Tracked \ {l} /\ \A k \in Tracked : k # l => meta'[k] = meta[k]
    BY <2>1
  <2>3. FilesInv
    OBVIOUS
  <2>4. \A k \in Tracked : k # l /\ meta[k].disk # Null => meta[k].disk # meta[l].disk
    BY <2>1, <2>3 DEF FilesInv
  <2> HIDE DEF Tracked
  <2>5. ASSUME NEW f \in Files
        PROVE  fileData'[f] # Null <=> \E k \in Tracked' : meta'[k].disk = f
    <3>1. CASE f = meta[l].disk
      BY <2>1, <2>2, <2>4, <3>1
    <3>2. CASE f # meta[l].disk
      BY <2>1, <2>2, <2>3, <3>2 DEF FilesInv, BackupFilesAccounted
    <3> QED
      BY <3>1, <3>2
  <2> QED
    BY <2>2, <2>3, <2>5 DEF FilesInv, BackupFilesAccounted
<1>7. ASSUME NEW p \in Pages,
            UntrackedMap(p)
      PROVE  FilesInv'
  <2>1. Tracked' = Tracked /\ fileData' = fileData /\ meta' = meta
    BY <1>7 DEF UntrackedMap
  <2> QED
    BY <2>1, SameFiles
<1>8. ASSUME NEW p \in Pages,
            UntrackedUnmap(p)
      PROVE  FilesInv'
  <2>1. Tracked' = Tracked /\ fileData' = fileData /\ meta' = meta
    BY <1>8 DEF UntrackedUnmap
  <2> QED
    BY <2>1, SameFiles
<1>9. ASSUME NEW t \in Threads, NEW tagFilter \in Tags \cup {Null},
            Pause(t, tagFilter)
      PROVE  FilesInv'
  <2>1. Tracked' = Tracked /\ fileData' = fileData /\ meta' = meta
    BY <1>9 DEF Pause
  <2> QED
    BY <2>1, SameFiles
<1>10. ASSUME NEW t \in Threads,
            BackUpRun(t)
      PROVE  FilesInv'
  <2>1. /\ meta' \in [Logical -> VMMAllocationMetadata \cup {Null}]
        /\ Tracked' = Tracked
        /\ \A l \in Tracked : SameHandle(meta[l], meta'[l])
    BY <1>10, BackUpRunEffect
  <2>2. fileData' = fileData
    BY <1>10 DEF BackUpRun
  <2> QED
    BY <2>1, <2>2, SameFiles DEF SameHandle
<1>11. ASSUME NEW t \in Threads,
            BackUpDone(t)
      PROVE  FilesInv'
  <2>1. Tracked' = Tracked /\ fileData' = fileData /\ meta' = meta
    BY <1>11 DEF BackUpDone
  <2> QED
    BY <2>1, SameFiles
<1>12. ASSUME NEW t \in Threads, NEW l \in todo,
            PauseEntry(t, l)
      PROVE  FilesInv'
  <2>0. l \in Tracked
    BY EntryInLoop
  <2>1. PICK f \in SlotFiles(meta[l]), n \in VMMAllocationMetadata :
           /\ PausedAs(l, n, f)
           /\ f \in Files \cup {Null}
           /\ fileData' = [g \in Files |-> IF meta[l].backup = "disk" /\ g = f
                                           THEN content[mapping[meta[l].ptr]] ELSE fileData[g]]
    BY <1>12, <2>0, PauseEntryEffect
  <2>2. /\ Tracked' = Tracked /\ l \in Tracked /\ meta'[l] = n /\ n.disk = f
        /\ \A k \in Tracked : k # l => meta'[k] = meta[k]
    BY <2>1, ReplacedEntries DEF PausedAs
  <2>3. FilesInv /\ meta[l].disk \in Files \cup {Null}
    BY <2>0, EntryType DEF VMMAllocationMetadata
  <2>4. content[mapping[meta[l].ptr]] # Null
    <3>1. mapping[meta[l].ptr] \in Units
      BY <1>12, <2>0, EntryType
         DEF PauseEntry, HandlesMatchDevice, MatchesDevice, VMMAllocationMetadata
    <3> QED
      BY <3>1, DataWidth
  <2>5. /\ meta[l].disk # Null => f = meta[l].disk
        /\ meta[l].disk = Null /\ f # Null => meta[l].backup = "disk" /\ fileData[f] = Null
        /\ meta[l].backup = "disk" => f \in Files
    BY <2>1, <2>3 DEF SlotFiles
  <2> HIDE DEF Tracked
  <2>6. ASSUME NEW k \in Tracked, k # l, meta[k].disk # Null
        PROVE  meta[k].disk # f
    <3>1. CASE meta[l].disk # Null
      BY <2>0, <2>3, <2>5, <2>6, <3>1 DEF FilesInv
    <3>2. CASE meta[l].disk = Null
      BY <2>3, <2>1, <2>5, <2>6, <3>2 DEF FilesInv, BackupFilesAccounted
    <3> QED
      BY <3>1, <3>2
  <2>7. ASSUME NEW g \in Files
        PROVE  fileData'[g] # Null <=> \E k \in Tracked' : meta'[k].disk = g
    <3>1. CASE g = f
      <4>1. fileData'[g] # Null
        <5>1. CASE meta[l].backup = "disk"
          BY <2>1, <2>4, <3>1, <5>1
        <5>2. CASE meta[l].backup # "disk"
          <6>1. g = meta[l].disk
            BY <2>5, <3>1, <5>2
          <6>2. fileData'[g] = fileData[g]
            BY <2>1, <5>2
          <6> QED
            BY <2>0, <2>3, <6>1, <6>2 DEF FilesInv, BackupFilesAccounted
        <5> QED
          BY <5>1, <5>2
      <4> QED
        BY <2>2, <3>1, <4>1
    <3>2. CASE g # f
      <4>1. fileData'[g] = fileData[g] /\ meta[l].disk # g
        BY <2>1, <2>5, <3>2
      <4> QED
        BY <2>2, <2>3, <3>2, <4>1 DEF FilesInv, BackupFilesAccounted
    <3> QED
      BY <3>1, <3>2
  <2>8. \A k, j \in Tracked' : k # j /\ meta'[k].disk # Null => meta'[k].disk # meta'[j].disk
    <3>1. \A k \in Tracked : k # l => meta'[k].disk # f \/ f = Null
      BY <2>2, <2>6
    <3> QED
      BY <2>2, <2>3, <3>1 DEF FilesInv
  <2> QED
    BY <2>7, <2>8 DEF FilesInv, BackupFilesAccounted
<1>13. ASSUME NEW t \in Threads,
            LoopReturn(t)
      PROVE  FilesInv'
  <2>1. Tracked' = Tracked /\ fileData' = fileData /\ meta' = meta
    BY <1>13 DEF LoopReturn
  <2> QED
    BY <2>1, SameFiles
<1>14. ASSUME NEW t \in Threads, NEW tagFilter \in Tags \cup {Null},
            Resume(t, tagFilter)
      PROVE  FilesInv'
  <2>1. Tracked' = Tracked /\ fileData' = fileData /\ meta' = meta
    BY <1>14 DEF Resume
  <2> QED
    BY <2>1, SameFiles
<1>15. ASSUME NEW t \in Threads, NEW l \in todo,
            ResumeEntry(t, l)
      PROVE  FilesInv'
  <2>0. l \in Tracked
    BY EntryInLoop
  <2>1. PICK h \in Unused, n \in VMMAllocationMetadata :
           /\ ResumedAs(l, n, h)
           /\ phys' = phys \cup {h}
           /\ mapping' = [mapping EXCEPT ![meta[l].ptr] = h]
           /\ content' = [content EXCEPT ![h] = BackedUp(meta[l])]
    BY <1>15, <2>0, ResumeEntryEffect
  <2>2. fileData' = fileData
    BY <1>15 DEF ResumeEntry
  <2>3. /\ Tracked' = Tracked
        /\ \A k \in Tracked : meta'[k].disk = meta[k].disk
    BY <2>1, ReplacedEntries DEF ResumedAs
  <2> QED
    BY <2>2, <2>3, SameFiles
<1>16. ASSUME NEW t \in Threads, NEW first \in Pages, NEW size \in 1 .. NumPages,
            QueryFound(t, first, size)
      PROVE  FilesInv'
  <2>1. Tracked' = Tracked /\ fileData' = fileData /\ meta' = meta
    BY <1>16 DEF QueryFound
  <2> QED
    BY <2>1, SameFiles
<1>17. ASSUME NEW t \in Threads,
            QueryDone(t)
      PROVE  FilesInv'
  <2>1. Tracked' = Tracked /\ fileData' = fileData /\ meta' = meta
    BY <1>17 DEF QueryDone
  <2> QED
    BY <2>1, SameFiles
<1>18. ASSUME NEW p \in Pages, NEW v \in Values,
            Write(p, v)
      PROVE  FilesInv'
  <2>1. Tracked' = Tracked /\ fileData' = fileData /\ meta' = meta
    BY <1>18 DEF Write
  <2> QED
    BY <2>1, SameFiles
<1>19. ASSUME Leaves PROVE FilesInv'
  BY <1>19 DEF Leaves, Exit, FilesInv, BackupFilesAccounted
<1>20. CASE UNCHANGED vars
  BY <1>20 DEF vars, FilesInv, BackupFilesAccounted
<1>21. QED
  BY <1>1, <1>2, <1>3, <1>4, <1>5, <1>6, <1>7, <1>8, <1>9, <1>10, <1>11,
     <1>12, <1>13, <1>14, <1>15, <1>16, <1>17, <1>18, <1>19, <1>20, StepCases

\* A right is recorded before PyTorch is told of it.
LEMMA SetAccessKeeps ==
  ASSUME CoreInv, NEW first \in Pages, NEW last \in Pages, NEW dev \in Devices,
         VmmSetAccess(first, last, dev)
  PROVE  AccessInv'
<1>0. TypeOK /\ MapsAgree /\ AccessInv
  BY DEF CoreInv
<1>1. \A l \in Tracked :
         meta'[l].access_descs = IF meta[l].ptr \in first .. last
                                 THEN meta[l].access_descs \cup {dev} ELSE meta[l].access_descs
  BY <1>0, VmmSetAccessEffect
<1>2. index' = index /\ mapping' = mapping
  BY DEF VmmSetAccess
<1>3. \A q \in first .. last : index[q] # Null \/ mapping[q] # Null
  BY DEF VmmSetAccess
<1>4. ASSUME NEW q \in Pages, index[q] # Null
      PROVE  meta'[index[q]].access_descs = IF q \in first .. last
                                            THEN meta[index[q]].access_descs \cup {dev}
                                            ELSE meta[index[q]].access_descs
  <2>1. index[q] \in Tracked /\ meta[index[q]].ptr = q
    BY <1>0, <1>4 DEF MapsAgree
  <2> QED
    BY <1>1, <2>1
<1>5. access \in [Pages -> SUBSET Devices] /\ granted \in [Pages -> SUBSET Devices]
  BY <1>0 DEF TypeOK
<1>6. CASE \A q \in first .. last : mapping[q] # Null
  <2>1. /\ access' = [q \in Pages |-> IF q \in first .. last THEN access[q] \cup {dev} ELSE access[q]]
        /\ granted' = [q \in Pages |-> IF q \in first .. last THEN granted[q] \cup {dev} ELSE granted[q]]
    BY <1>6 DEF VmmSetAccess
  <2>2. \A q \in Pages : index[q] # Null /\ mapping[q] # Null => granted'[q] \subseteq access'[q]
    BY <1>0, <2>1 DEF AccessInv, AccessRestored
  <2>3. \A q \in Pages : index[q] # Null => granted'[q] \subseteq meta'[index[q]].access_descs
    BY <1>0, <1>4, <2>1 DEF AccessInv
  <2>4. \A q \in Pages : index[q] = Null /\ mapping[q] = Null => granted'[q] = {}
    BY <1>0, <1>6, <2>1 DEF AccessInv
  <2> QED
    BY <1>2, <2>2, <2>3, <2>4 DEF AccessInv, AccessRestored
<1>7. CASE ~ \A q \in first .. last : mapping[q] # Null
  <2>1. access' = access /\ granted' = granted
    BY <1>7 DEF VmmSetAccess
  <2>2. \A q \in Pages : index[q] # Null => granted'[q] \subseteq meta'[index[q]].access_descs
    BY <1>0, <1>4, <2>1 DEF AccessInv
  <2> QED
    BY <1>0, <1>2, <2>1, <2>2 DEF AccessInv, AccessRestored
<1> QED
  BY <1>6, <1>7

\* What PyTorch was told of the rights.
LEMMA AccessStep ==
  ASSUME CoreInv, [Next]_vars
  PROVE  AccessInv'
<1> USE ExpandableAssumption DEF CoreInv, device, backups, maps, lock, local, client,
        Tracked, Unused, TypeOK, AccessInv, AccessRestored
<1>1. ASSUME NEW t \in Threads, NEW tag \in Tags, NEW backup \in BackupModes,
            VmmCreate(t, tag, backup)
      PROVE  AccessInv'
  BY <1>1 DEF VmmCreate
<1>2. ASSUME NEW t \in Threads,
            VmmRegister(t)
      PROVE  AccessInv'
  BY <1>2 DEF VmmRegister, MapsAgree
<1>3. ASSUME NEW l \in Logical, NEW p \in Pages,
            VmmMap(l, p)
      PROVE  AccessInv'
  <2>1. PICK n \in VMMAllocationMetadata : MappedAs(l, p, n)
    BY <1>3, VmmMapEffect
  <2>2. /\ Tracked' = Tracked /\ l \in Tracked /\ meta'[l] = n
        /\ \A k \in Logical : k # l => meta'[k] = meta[k]
    BY <2>1, ReplacedEntries DEF MappedAs
  <2>3. /\ index[p] = Null /\ mapping[p] = Null /\ meta[l].ptr = Null
        /\ index' = [index EXCEPT ![p] = l]
        /\ \A q \in Pages : q # p => mapping'[q] = mapping[q]
        /\ UNCHANGED <<access, granted>>
    BY <1>3 DEF VmmMap
  <2>4. granted[p] = {} /\ \A q \in Pages : index[q] # l
    BY <2>2, <2>3 DEF MapsAgree
  <2> QED
    BY <2>2, <2>3, <2>4
<1>4. ASSUME NEW first \in Pages, NEW last \in Pages, NEW dev \in Devices,
            VmmSetAccess(first, last, dev)
      PROVE  AccessInv'
  BY <1>4, SetAccessKeeps
<1>5. ASSUME NEW p \in Pages,
            VmmUnmap(p)
      PROVE  AccessInv'
  <2>1. PICK n \in VMMAllocationMetadata : UnmappedAs(index[p], n)
    BY <1>5, VmmUnmapEffect
  <2>2. /\ meta'[index[p]] = n
        /\ \A k \in Logical : k # index[p] => meta'[k] = meta[k]
    BY <2>1, ReplacedEntries DEF UnmappedAs
  <2>3. /\ index' = [index EXCEPT ![p] = Null] /\ granted' = [granted EXCEPT ![p] = {}]
        /\ \A q \in Pages : q # p => mapping'[q] = mapping[q] /\ access'[q] = access[q]
    BY <1>5 DEF VmmUnmap, UnmappedEntry
  <2>4. \A q \in Pages : q # p => index[q] # index[p] \/ index[q] = Null
    BY DEF MapsAgree
  <2> QED
    BY <2>2, <2>3, <2>4
<1>6. ASSUME NEW l \in Logical,
            VmmRelease(l)
      PROVE  AccessInv'
  <2>1. /\ l \in Tracked /\ meta[l].ptr = Null /\ meta' = [meta EXCEPT ![l] = Null]
        /\ UNCHANGED <<mapping, access, index, granted>>
    BY <1>6 DEF VmmRelease
  <2>2. \A q \in Pages : index[q] # l
    BY <2>1 DEF MapsAgree
  <2> QED
    BY <2>1, <2>2
<1>7. ASSUME NEW p \in Pages,
            UntrackedMap(p)
      PROVE  AccessInv'
  BY <1>7 DEF UntrackedMap
<1>8. ASSUME NEW p \in Pages,
            UntrackedUnmap(p)
      PROVE  AccessInv'
  BY <1>8 DEF UntrackedUnmap
<1>9. ASSUME NEW t \in Threads, NEW tagFilter \in Tags \cup {Null},
            Pause(t, tagFilter)
      PROVE  AccessInv'
  BY <1>9 DEF Pause
<1>10. ASSUME NEW t \in Threads,
            BackUpRun(t)
      PROVE  AccessInv'
  <2>1. \A l \in Tracked : meta'[l].access_descs = meta[l].access_descs
    BY <1>10, BackUpRunEffect
  <2>2. UNCHANGED <<index, mapping, access, granted>>
    BY <1>10 DEF BackUpRun
  <2> QED
    BY <2>1, <2>2 DEF MapsAgree
<1>11. ASSUME NEW t \in Threads,
            BackUpDone(t)
      PROVE  AccessInv'
  BY <1>11 DEF BackUpDone
<1>12. ASSUME NEW t \in Threads, NEW l \in todo,
            PauseEntry(t, l)
      PROVE  AccessInv'
  <2>0. l \in Tracked
    BY EntryInLoop
  <2>1. PICK f \in SlotFiles(meta[l]), n \in VMMAllocationMetadata :
           /\ PausedAs(l, n, f)
           /\ f \in Files \cup {Null}
           /\ fileData' = [g \in Files |-> IF meta[l].backup = "disk" /\ g = f
                                           THEN content[mapping[meta[l].ptr]] ELSE fileData[g]]
    BY <1>12, <2>0, PauseEntryEffect
  <2>2. /\ meta'[l] = n /\ n.access_descs = meta[l].access_descs
        /\ \A k \in Logical : k # l => meta'[k] = meta[k]
    BY <2>1, ReplacedEntries DEF PausedAs
  <2>3. /\ mapping' = [mapping EXCEPT ![meta[l].ptr] = Null] /\ access' = [access EXCEPT ![meta[l].ptr] = {}]
        /\ UNCHANGED <<index, granted>>
        /\ meta[l].ptr \in Pages /\ index[meta[l].ptr] = l
    BY <1>12, <2>0, EntryType DEF PauseEntry, VMMAllocationMetadata, MapsAgree
  <2>4. l # Null
    BY <2>0
  <2>5. \A q \in Pages : index[q] # Null => meta'[index[q]].access_descs = meta[index[q]].access_descs
    BY <2>2
  <2> QED
    BY <2>3, <2>4, <2>5
<1>13. ASSUME NEW t \in Threads,
            LoopReturn(t)
      PROVE  AccessInv'
  BY <1>13 DEF LoopReturn
<1>14. ASSUME NEW t \in Threads, NEW tagFilter \in Tags \cup {Null},
            Resume(t, tagFilter)
      PROVE  AccessInv'
  BY <1>14 DEF Resume
<1>15. ASSUME NEW t \in Threads, NEW l \in todo,
            ResumeEntry(t, l)
      PROVE  AccessInv'
  <2>0. l \in Tracked
    BY EntryInLoop
  <2>1. PICK h \in Unused, n \in VMMAllocationMetadata :
           /\ ResumedAs(l, n, h)
           /\ phys' = phys \cup {h}
           /\ mapping' = [mapping EXCEPT ![meta[l].ptr] = h]
           /\ content' = [content EXCEPT ![h] = BackedUp(meta[l])]
    BY <1>15, <2>0, ResumeEntryEffect
  <2>2. /\ meta'[l] = n /\ n.access_descs = meta[l].access_descs
        /\ \A k \in Logical : k # l => meta'[k] = meta[k]
    BY <2>1, ReplacedEntries DEF ResumedAs
  <2>3. /\ access' = [access EXCEPT ![meta[l].ptr] = ResumedAccess(meta[l])]
        /\ UNCHANGED <<index, granted>>
        /\ meta[l].ptr \in Pages /\ index[meta[l].ptr] = l
    BY <1>15, <2>0, EntryType DEF ResumeEntry, VMMAllocationMetadata, MapsAgree
  <2>4. l # Null
    BY <2>0
  <2>5. \A q \in Pages : index[q] # Null => meta'[index[q]].access_descs = meta[index[q]].access_descs
    BY <2>2
  <2>6. granted[meta[l].ptr] \subseteq ResumedAccess(meta[l])
    BY <2>3, <2>4 DEF ResumedAccess
  <2>7. \A q \in Pages : q # meta[l].ptr => mapping'[q] = mapping[q] /\ access'[q] = access[q]
    BY <2>1, <2>3
  <2>8. \A q \in Pages : index'[q] # Null /\ mapping'[q] # Null => granted'[q] \subseteq access'[q]
    BY <2>3, <2>6, <2>7
  <2> QED
    BY <2>3, <2>4, <2>5, <2>7, <2>8
<1>16. ASSUME NEW t \in Threads, NEW first \in Pages, NEW size \in 1 .. NumPages,
            QueryFound(t, first, size)
      PROVE  AccessInv'
  BY <1>16 DEF QueryFound
<1>17. ASSUME NEW t \in Threads,
            QueryDone(t)
      PROVE  AccessInv'
  BY <1>17 DEF QueryDone
<1>18. ASSUME NEW p \in Pages, NEW v \in Values,
            Write(p, v)
      PROVE  AccessInv'
  BY <1>18 DEF Write
<1>19. ASSUME Leaves PROVE AccessInv'
  BY <1>19 DEF Leaves, Exit
<1>20. CASE UNCHANGED vars
  BY <1>20 DEF vars
<1>21. QED
  BY <1>1, <1>2, <1>3, <1>4, <1>5, <1>6, <1>7, <1>8, <1>9, <1>10, <1>11,
     <1>12, <1>13, <1>14, <1>15, <1>16, <1>17, <1>18, <1>19, <1>20, StepCases

\* What the driver is asked for.
LEMMA DriverStep ==
  ASSUME CoreInv, [Next]_vars
  PROVE  NoDriverError'
<1> USE ExpandableAssumption DEF CoreInv, device, backups, maps, lock, local, client,
        Tracked, Unused, TypeOK, NoDriverError
<1>1. ASSUME NEW t \in Threads, NEW tag \in Tags, NEW backup \in BackupModes,
            VmmCreate(t, tag, backup)
      PROVE  NoDriverError'
  BY <1>1 DEF VmmCreate
<1>2. ASSUME NEW t \in Threads,
            VmmRegister(t)
      PROVE  NoDriverError'
  BY <1>2 DEF VmmRegister
<1>3. ASSUME NEW l \in Logical, NEW p \in Pages,
            VmmMap(l, p)
      PROVE  NoDriverError'
  BY <1>3 DEF VmmMap
<1>4. ASSUME NEW first \in Pages, NEW last \in Pages, NEW dev \in Devices,
            VmmSetAccess(first, last, dev)
      PROVE  NoDriverError'
  BY <1>4 DEF VmmSetAccess
<1>5. ASSUME NEW p \in Pages,
            VmmUnmap(p)
      PROVE  NoDriverError'
  <2>1. /\ index[p] \in Tracked /\ meta[index[p]].ptr = p /\ p # Null
    BY <1>5 DEF VmmUnmap, MapsAgree
  <2>2. KnownToDriver(meta[index[p]]) => mapping[p] # Null
    BY <2>1 DEF KnownToDriver, HandlesMatchDevice, MatchesDevice
  <2> QED
    BY <1>5, <2>2 DEF VmmUnmap, Accepted
<1>6. ASSUME NEW l \in Logical,
            VmmRelease(l)
      PROVE  NoDriverError'
  BY <1>6 DEF VmmRelease, Accepted, KnownToDriver, HandlesMatchDevice,
     MatchesDevice
<1>7. ASSUME NEW p \in Pages,
            UntrackedMap(p)
      PROVE  NoDriverError'
  BY <1>7 DEF UntrackedMap
<1>8. ASSUME NEW p \in Pages,
            UntrackedUnmap(p)
      PROVE  NoDriverError'
  BY <1>8 DEF UntrackedUnmap
<1>9. ASSUME NEW t \in Threads, NEW tagFilter \in Tags \cup {Null},
            Pause(t, tagFilter)
      PROVE  NoDriverError'
  BY <1>9 DEF Pause
<1>10. ASSUME NEW t \in Threads,
            BackUpRun(t)
      PROVE  NoDriverError'
  BY <1>10 DEF BackUpRun
<1>11. ASSUME NEW t \in Threads,
            BackUpDone(t)
      PROVE  NoDriverError'
  BY <1>11 DEF BackUpDone
<1>12. ASSUME NEW t \in Threads, NEW l \in todo,
            PauseEntry(t, l)
      PROVE  NoDriverError'
  <2>1. mapping[meta[l].ptr] # Null /\ meta[l].physical_handle \in phys
    BY <1>12, EntryInLoop DEF PauseEntry, HandlesMatchDevice, MatchesDevice
  <2> QED
    BY <1>12, <2>1 DEF PauseEntry, Accepted
<1>13. ASSUME NEW t \in Threads,
            LoopReturn(t)
      PROVE  NoDriverError'
  BY <1>13 DEF LoopReturn
<1>14. ASSUME NEW t \in Threads, NEW tagFilter \in Tags \cup {Null},
            Resume(t, tagFilter)
      PROVE  NoDriverError'
  BY <1>14 DEF Resume
<1>15. ASSUME NEW t \in Threads, NEW l \in todo,
            ResumeEntry(t, l)
      PROVE  NoDriverError'
  <2>1. mapping[meta[l].ptr] = Null
    BY <1>15, EntryInLoop DEF ResumeEntry, HandlesMatchDevice, MatchesDevice
  <2> QED
    BY <1>15, <2>1 DEF ResumeEntry, Accepted
<1>16. ASSUME NEW t \in Threads, NEW first \in Pages, NEW size \in 1 .. NumPages,
            QueryFound(t, first, size)
      PROVE  NoDriverError'
  BY <1>16 DEF QueryFound
<1>17. ASSUME NEW t \in Threads,
            QueryDone(t)
      PROVE  NoDriverError'
  BY <1>17 DEF QueryDone
<1>18. ASSUME NEW p \in Pages, NEW v \in Values,
            Write(p, v)
      PROVE  NoDriverError'
  BY <1>18 DEF Write, Accepted, AccessInv, AccessRestored
<1>19. ASSUME Leaves PROVE NoDriverError'
  BY <1>19 DEF Leaves, Exit
<1>20. CASE UNCHANGED vars
  BY <1>20 DEF vars
<1>21. QED
  BY <1>1, <1>2, <1>3, <1>4, <1>5, <1>6, <1>7, <1>8, <1>9, <1>10, <1>11,
     <1>12, <1>13, <1>14, <1>15, <1>16, <1>17, <1>18, <1>19, <1>20, StepCases

\* The program starts with two empty maps, an idle device and no call running.
LEMMA InitCore ==
  ASSUME Init
  PROVE  CoreInv
<1>1. Tracked = {} /\ \A l \in Logical : meta[l] = Null
  BY DEF Init, Tracked
<1>2. TypeOK
  BY ZeroIsPage, DataWidth DEF Init, TypeOK, Blank, Data
<1>3. LocalInv
  BY ExpandableAssumption DEF Init, LocalInv, InLoop
<1>4. MapsAgree /\ HandlesMatchDevice
  BY <1>1 DEF Init, MapsAgree, HandlesMatchDevice
<1>5. LoopInv
  BY <1>1 DEF Init, LoopInv, InLoop
<1>6. UnitsInv
  BY <1>1 DEF Init, UnitsInv, OneOwner, EntryUnit, CallUnit, PageUnit
<1>7. FilesInv
  BY <1>1 DEF Init, FilesInv, BackupFilesAccounted
<1>8. AccessInv
  BY DEF Init, AccessInv, AccessRestored
<1>9. NoDriverError
  BY DEF Init, NoDriverError
<1> QED
  BY <1>2, <1>3, <1>4, <1>5, <1>6, <1>7, <1>8, <1>9 DEF CoreInv

\* No step of any call, in any interleaving, breaks CoreInv.
LEMMA StepCore ==
  ASSUME CoreInv, [Next]_vars
  PROVE  CoreInv'
  BY TypeStep, LocalStep, MapsStep, DeviceStep, LoopStep, UnitsStep, FilesStep, AccessStep,
     DriverStep DEF CoreInv

\* CoreInv holds in every state the program reaches.
THEOREM Invariance == Spec => []CoreInv
<1>1. Init => CoreInv
  BY InitCore
<1>2. CoreInv /\ [Next]_vars => CoreInv'
  BY StepCore
<1> QED
  BY <1>1, <1>2, PTL DEF Spec

------------------------------------------------------------------------------
(* What follows of the properties of Expandable *)

\* Every variable keeps its type.
THEOREM TypeCorrect == Spec => []TypeOK
<1>1. CoreInv => TypeOK
  BY DEF CoreInv
<1> QED
  BY <1>1, Invariance, PTL

\* vmm_mapping_index_ and the entries always agree on what is mapped where.
THEOREM IndexCorrect == Spec => []MapsAgree
<1>1. CoreInv => MapsAgree
  BY DEF CoreInv
<1> QED
  BY <1>1, Invariance, PTL

\* An active handle is mapped to its unit, a paused one to none.
THEOREM HandlesCorrect == Spec => []HandlesMatchDevice
<1>1. CoreInv => HandlesMatchDevice
  BY DEF CoreInv
<1> QED
  BY <1>1, Invariance, PTL

\* Each unit of device memory has exactly one owner that will release it.
THEOREM NoUnitLost == Spec => []UnitsAccounted
<1>1. ASSUME CoreInv
      PROVE  UnitsAccounted
  <2> SUFFICES ASSUME NEW h \in phys
               PROVE  \E o \in Owners(h) : Owners(h) = {o}
    BY DEF UnitsAccounted
  <2> DEFINE ByEntry == {<<"entry", l>> : l \in {k \in Tracked : meta[k].physical_handle = h}}
             ByCall == {<<"call", t>> : t \in {u \in Threads : made[u] # Null /\ made[u].physical_handle = h}}
             ByPage == {<<"page", p>> : p \in {q \in Pages : index[q] = Null /\ mapping[q] = h}}
  <2>1. h # Null
    BY <1>1, ExpandableAssumption DEF CoreInv, TypeOK
  <2>2. UnitsInv
    BY <1>1 DEF CoreInv
  <2>3. \A l \in Logical : EntryUnit[l] = h <=> l \in Tracked /\ meta[l].physical_handle = h
    BY <2>1 DEF EntryUnit, Tracked
  <2>4. \A t \in Threads : CallUnit[t] = h <=> made[t] # Null /\ made[t].physical_handle = h
    BY <2>1 DEF CallUnit
  <2>5. \A p \in Pages : PageUnit[p] = h <=> index[p] = Null /\ mapping[p] = h
    BY <2>1 DEF PageUnit
  <2>6. /\ ByEntry = {<<"entry", l>> : l \in {k \in Logical : EntryUnit[k] = h}}
        /\ ByCall = {<<"call", t>> : t \in {u \in Threads : CallUnit[u] = h}}
        /\ ByPage = {<<"page", p>> : p \in {q \in Pages : PageUnit[q] = h}}
    <3>1. /\ {k \in Tracked : meta[k].physical_handle = h} = {k \in Logical : EntryUnit[k] = h}
          /\ {u \in Threads : made[u] # Null /\ made[u].physical_handle = h}
                = {u \in Threads : CallUnit[u] = h}
          /\ {q \in Pages : index[q] = Null /\ mapping[q] = h} = {q \in Pages : PageUnit[q] = h}
      BY <2>3, <2>4, <2>5 DEF Tracked
    <3> QED
      BY <3>1
  <2>7. Owners(h) = ByEntry \cup ByCall \cup ByPage
    BY DEF Owners
  <2> HIDE DEF ByEntry, ByCall, ByPage
  <2>8. CASE \E l \in Logical : EntryUnit[l] = h
    <3>1. PICK l \in Logical : EntryUnit[l] = h
      BY <2>8
    <3>2. /\ {k \in Logical : EntryUnit[k] = h} = {l}
          /\ {u \in Threads : CallUnit[u] = h} = {}
          /\ {q \in Pages : PageUnit[q] = h} = {}
      BY <2>1, <2>2, <3>1 DEF UnitsInv, OneOwner
    <3>3. ByEntry = {<<"entry", l>>} /\ ByCall = {} /\ ByPage = {}
      BY <2>6, <3>2
    <3> QED
      BY <2>7, <3>3
  <2>9. CASE \E t \in Threads : CallUnit[t] = h
    <3>1. PICK t \in Threads : CallUnit[t] = h
      BY <2>9
    <3>2. /\ {k \in Logical : EntryUnit[k] = h} = {}
          /\ {u \in Threads : CallUnit[u] = h} = {t}
          /\ {q \in Pages : PageUnit[q] = h} = {}
      BY <2>1, <2>2, <3>1 DEF UnitsInv, OneOwner
    <3>3. ByEntry = {} /\ ByCall = {<<"call", t>>} /\ ByPage = {}
      BY <2>6, <3>2
    <3> QED
      BY <2>7, <3>3
  <2>10. CASE \E p \in Pages : PageUnit[p] = h
    <3>1. PICK p \in Pages : PageUnit[p] = h
      BY <2>10
    <3>2. /\ {k \in Logical : EntryUnit[k] = h} = {}
          /\ {u \in Threads : CallUnit[u] = h} = {}
          /\ {q \in Pages : PageUnit[q] = h} = {p}
      BY <2>1, <2>2, <3>1 DEF UnitsInv, OneOwner
    <3>3. ByEntry = {} /\ ByCall = {} /\ ByPage = {<<"page", p>>}
      BY <2>6, <3>2
    <3> QED
      BY <2>7, <3>3
  <2> QED
    BY <2>2, <2>8, <2>9, <2>10 DEF UnitsInv, OneOwner
<1> QED
  BY <1>1, Invariance, PTL

\* A backup file exists exactly as long as the handle whose slot it is in.
THEOREM FilesCorrect == Spec => []BackupFilesAccounted
<1>1. CoreInv => BackupFilesAccounted
  BY DEF CoreInv, FilesInv
<1> QED
  BY <1>1, Invariance, PTL

\* Whoever was told that he may access a page can, whenever it is mapped.
THEOREM AccessCorrect == Spec => []AccessRestored
<1>1. CoreInv => AccessRestored
  BY DEF CoreInv, AccessInv
<1> QED
  BY <1>1, Invariance, PTL

\* The driver never rejects a call of the memory saver.
THEOREM DriverCorrect == Spec => []NoDriverError
<1>1. CoreInv => NoDriverError
  BY DEF CoreInv
<1> QED
  BY <1>1, Invariance, PTL

\* When a loop returns, it has nothing left to do, and no entry changes.
LEMMA LoopEnds ==
  ASSUME CoreInv, [Next]_vars, NEW t \in Threads, pc[t] \in {"p_release", "r_loop"}, pc'[t] = "idle"
  PROVE  todo = {} /\ meta' = meta
<1>1. pc \in [Threads -> {"idle", "c_register", "p_backup", "p_release", "r_loop", "q_read"}]
  BY DEF CoreInv, TypeOK
<1>2. ASSUME NEW u \in Threads, NEW tag \in Tags, NEW backup \in BackupModes,
            VmmCreate(u, tag, backup)
      PROVE  todo = {} /\ meta' = meta
  BY <1>2, <1>1 DEF VmmCreate, maps, local
<1>3. ASSUME NEW u \in Threads,
            VmmRegister(u)
      PROVE  todo = {} /\ meta' = meta
  BY <1>3, <1>1 DEF VmmRegister, maps, local
<1>4. ASSUME NEW l \in Logical, NEW p \in Pages,
            VmmMap(l, p)
      PROVE  todo = {} /\ meta' = meta
  BY <1>4, <1>1 DEF VmmMap, maps, local
<1>5. ASSUME NEW first \in Pages, NEW last \in Pages, NEW dev \in Devices,
            VmmSetAccess(first, last, dev)
      PROVE  todo = {} /\ meta' = meta
  BY <1>5, <1>1 DEF VmmSetAccess, maps, local
<1>6. ASSUME NEW p \in Pages,
            VmmUnmap(p)
      PROVE  todo = {} /\ meta' = meta
  BY <1>6, <1>1 DEF VmmUnmap, maps, local
<1>7. ASSUME NEW l \in Logical,
            VmmRelease(l)
      PROVE  todo = {} /\ meta' = meta
  BY <1>7, <1>1 DEF VmmRelease, maps, local
<1>8. ASSUME NEW p \in Pages,
            UntrackedMap(p)
      PROVE  todo = {} /\ meta' = meta
  BY <1>8, <1>1 DEF UntrackedMap, maps, local
<1>9. ASSUME NEW p \in Pages,
            UntrackedUnmap(p)
      PROVE  todo = {} /\ meta' = meta
  BY <1>9, <1>1 DEF UntrackedUnmap, maps, local
<1>10. ASSUME NEW u \in Threads, NEW tagFilter \in Tags \cup {Null},
            Pause(u, tagFilter)
      PROVE  todo = {} /\ meta' = meta
  BY <1>10, <1>1 DEF Pause, maps, local
<1>11. ASSUME NEW u \in Threads,
            BackUpRun(u)
      PROVE  todo = {} /\ meta' = meta
  BY <1>11, <1>1 DEF BackUpRun, maps, local
<1>12. ASSUME NEW u \in Threads,
            BackUpDone(u)
      PROVE  todo = {} /\ meta' = meta
  BY <1>12, <1>1 DEF BackUpDone, maps, local
<1>13. ASSUME NEW u \in Threads, NEW l \in todo,
            PauseEntry(u, l)
      PROVE  todo = {} /\ meta' = meta
  BY <1>13, <1>1 DEF PauseEntry, maps, local
<1>14. ASSUME NEW u \in Threads,
            LoopReturn(u)
      PROVE  todo = {} /\ meta' = meta
  BY <1>14, <1>1 DEF LoopReturn, maps, local
<1>15. ASSUME NEW u \in Threads, NEW tagFilter \in Tags \cup {Null},
            Resume(u, tagFilter)
      PROVE  todo = {} /\ meta' = meta
  BY <1>15, <1>1 DEF Resume, maps, local
<1>16. ASSUME NEW u \in Threads, NEW l \in todo,
            ResumeEntry(u, l)
      PROVE  todo = {} /\ meta' = meta
  BY <1>16, <1>1 DEF ResumeEntry, maps, local
<1>17. ASSUME NEW u \in Threads, NEW first \in Pages, NEW size \in 1 .. NumPages,
            QueryFound(u, first, size)
      PROVE  todo = {} /\ meta' = meta
  BY <1>17, <1>1 DEF QueryFound, maps, local
<1>18. ASSUME NEW u \in Threads,
            QueryDone(u)
      PROVE  todo = {} /\ meta' = meta
  BY <1>18, <1>1 DEF QueryDone, maps, local
<1>19. ASSUME NEW p \in Pages, NEW v \in Values,
            Write(p, v)
      PROVE  todo = {} /\ meta' = meta
  BY <1>19, <1>1 DEF Write, maps, local
<1>20. ASSUME Leaves PROVE todo = {} /\ meta' = meta
  BY <1>20, <1>1 DEF Leaves, Exit, local
<1>21. CASE UNCHANGED vars
  BY <1>21, <1>1 DEF vars, local
<1>22. QED
  BY <1>2, <1>3, <1>4, <1>5, <1>6, <1>7, <1>8, <1>9, <1>10, <1>11, <1>12,
     <1>13, <1>14, <1>15, <1>16, <1>17, <1>18, <1>19, <1>20, <1>21, StepCases

\* When pause returns, everything of its tag is paused.
THEOREM PauseComplete == Spec => PauseReleases
<1>1. ASSUME CoreInv, [Next]_vars, NEW t \in Threads, pc[t] = "p_release", pc'[t] = "idle"
      PROVE  \A l \in Tracked' : Matches(meta'[l], filter[t]) => meta'[l].state = "PAUSED"
  <2>1. todo = {} /\ meta' = meta
    BY <1>1, LoopEnds
  <2> QED
    BY <1>1, <2>1 DEF CoreInv, LoopInv, Tracked
<1>2. CoreInv /\ [Next]_vars =>
        [\A t \in Threads :
           pc[t] = "p_release" /\ pc'[t] = "idle"
               => \A l \in Tracked' : Matches(meta'[l], filter[t]) => meta'[l].state = "PAUSED"]_vars
  BY <1>1
<1> QED
  BY <1>2, Invariance, PTL DEF Spec, PauseReleases

\* When resume returns, everything of its tag is active.
THEOREM ResumeComplete == Spec => ResumeRestores
<1>1. ASSUME CoreInv, [Next]_vars, NEW t \in Threads, pc[t] = "r_loop", pc'[t] = "idle"
      PROVE  \A l \in Tracked' : Matches(meta'[l], filter[t]) => meta'[l].state = "ACTIVE"
  <2>1. todo = {} /\ meta' = meta
    BY <1>1, LoopEnds
  <2> QED
    BY <1>1, <2>1 DEF CoreInv, LoopInv, Tracked
<1>2. CoreInv /\ [Next]_vars =>
        [\A t \in Threads :
           pc[t] = "r_loop" /\ pc'[t] = "idle"
               => \A l \in Tracked' : Matches(meta'[l], filter[t]) => meta'[l].state = "ACTIVE"]_vars
  BY <1>1
<1> QED
  BY <1>2, Invariance, PTL DEF Spec, ResumeRestores
==============================================================================

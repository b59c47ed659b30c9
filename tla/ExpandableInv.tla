---------------------------- MODULE ExpandableInv ----------------------------
(***************************************************************************)
(* An inductive invariant of Expandable: the properties of its handles,    *)
(* units, files and access rights, and what they need to be preserved.     *)
(***************************************************************************)
EXTENDS Expandable

InLoop == {"p_backup", "p_release", "r_loop"}

\* The lock is held by the call in a loop, and a vmm_create that has its unit and
\* waits for the lock has an entry as it was initialised.
LocalInv ==
    \A t \in Threads :
        /\ pc[t] \in InLoop <=> mutex = t
        /\ pc[t] = "c_register" <=> made[t] # Null
        /\ made[t] # Null => /\ made[t].state = "ACTIVE"
                             /\ made[t].physical_handle \in phys
                             /\ made[t].ptr = Null
                             /\ made[t].access_descs = {}
                             /\ made[t].disk = Null

\* What a loop has left to do, and the state of what it has done.
LoopInv ==
    /\ \A p \in toBackUp : index[p] # Null
    /\ \A l \in todo : meta[l] # Null
    /\ mutex = Null => toBackUp = {} /\ todo = {}
    /\ \A t \in Threads :
          /\ pc[t] = "p_backup" => todo = {}
          /\ pc[t] \in {"p_release", "r_loop"} => toBackUp = {}
          /\ pc[t] = "p_release" =>
                \A l \in Tracked \ todo : Matches(meta[l], filter[t]) => meta[l].state = "PAUSED"
          /\ pc[t] = "r_loop" =>
                \A l \in Tracked \ todo : Matches(meta[l], filter[t]) => meta[l].state = "ACTIVE"
          /\ pc[t] \in InLoop => \A l \in todo : Matches(meta[l], filter[t])

\* The unit of an entry, of a vmm_create, and of a page mapped outside a region.
EntryUnit == [l \in Logical |-> IF meta[l] = Null THEN Null ELSE meta[l].physical_handle]
CallUnit  == [t \in Threads |-> IF made[t] = Null THEN Null ELSE made[t].physical_handle]
PageUnit  == [p \in Pages |-> IF index[p] = Null THEN mapping[p] ELSE Null]

\* Units P have one owner each: an entry by E, a call by C or a page by G.
OneOwner(P, E, C, G) ==
    /\ \A h \in P : \/ \E l \in Logical : E[l] = h
                    \/ \E t \in Threads : C[t] = h
                    \/ \E p \in Pages : G[p] = h
    /\ \A l \in Logical : E[l] # Null =>
          /\ E[l] \in P
          /\ \A k \in Logical : k # l => E[k] # E[l]
    /\ \A t \in Threads : C[t] # Null =>
          /\ C[t] \in P
          /\ \A u \in Threads : u # t => C[u] # C[t]
          /\ \A l \in Logical : E[l] # C[t]
    /\ \A p \in Pages : G[p] # Null =>
          /\ G[p] \in P
          /\ \A q \in Pages : q # p => G[q] # G[p]
          /\ \A l \in Logical : E[l] # G[p]
          /\ \A t \in Threads : C[t] # G[p]

\* UnitsAccounted, one kind of owner after the other.
UnitsInv == OneOwner(phys, EntryUnit, CallUnit, PageUnit)

\* A file is in one slot, and what is in a slot exists.
FilesInv ==
    /\ BackupFilesAccounted
    /\ \A l, k \in Tracked : l # k /\ meta[l].disk # Null => meta[l].disk # meta[k].disk

\* PyTorch is told of no right that the entry does not record, nor of one to a
\* page where nothing is mapped.
AccessInv ==
    /\ AccessRestored
    /\ \A p \in Pages : index[p] # Null => granted[p] \subseteq meta[index[p]].access_descs
    /\ \A p \in Pages : index[p] = Null /\ mapping[p] = Null => granted[p] = {}

CoreInv ==
    /\ TypeOK /\ LocalInv /\ MapsAgree /\ HandlesMatchDevice /\ LoopInv /\ UnitsInv
    /\ FilesInv /\ AccessInv /\ NoDriverError
------------------------------------------------------------------------------
(* The backups *)

\* A pause has backed the active handle l up, and has not released it yet.
BackedUpBy(t, l) ==
    /\ Matches(meta[l], filter[t])
    /\ \/ pc[t] = "p_backup" /\ meta[l].ptr \in Pages \ toBackUp
       \/ pc[t] = "p_release" /\ meta[l].ptr \in Pages /\ l \in todo

\* Only a handle with a host backup has a buffer: while it is paused, and from
\* the first loop of the pause on.  No buffer outlives the handles that share it.
BufferInv ==
    /\ \A t \in Threads : made[t] # Null => made[t].cpu_backup = Null /\ made[t].backup # "both"
    /\ \A l \in Tracked :
          /\ meta[l].backup # "both"
          /\ meta[l].cpu_backup # Null => meta[l].backup = "cpu"
          /\ meta[l].cpu_backup # Null /\ meta[l].state = "ACTIVE" => \E t \in Threads : BackedUpBy(t, l)
          /\ meta[l].backup = "cpu" /\ meta[l].state = "PAUSED" => meta[l].cpu_backup # Null
    /\ \A b \in Bufs : hostData[b] # Blank => InUse(b)

\* A handle that is paused with a disk backup has a file.
SlotInv ==
    \A l \in Tracked : meta[l].backup = "disk" /\ meta[l].state = "PAUSED" => meta[l].disk # Null

\* What the first loop of pause has done: it has backed up what it has passed,
\* up to the end of a run.
FirstLoopInv ==
    \A t \in Threads : pc[t] = "p_backup" =>
        /\ \A p \in toBackUp : Matches(meta[index[p]], filter[t]) /\ meta[index[p]].backup = "cpu"
        /\ \A p \in Pages \ toBackUp :
              LET m == meta[index[p]] IN
              index[p] # Null /\ m.backup = "cpu" /\ Matches(m, filter[t])
                  => /\ m.state = "ACTIVE" /\ m.cpu_backup # Null
                     /\ p + 1 \in toBackUp
                          => meta[index[p + 1]].tag # m.tag \/ meta[index[p + 1]].state # "ACTIVE"

\* The pages from first to last are backed up, and the backups are of one pause.
BackedUpTogether(first, last) ==
    /\ \A p \in first .. last :
          /\ index[p] # Null
          /\ meta[index[p]].cpu_backup # Null
          /\ meta[index[p]].tag = meta[index[first]].tag
    /\ \/ \A p \in first .. last : meta[index[p]].state = meta[index[first]].state
       \/ \A t \in Threads : pc[t] # "p_backup"

\* They follow each other in one buffer.
RunsInv ==
    \A first, last \in Pages :
        first <= last /\ BackedUpTogether(first, last) =>
            /\ meta[index[last]].cpu_backup = meta[index[first]].cpu_backup
            /\ meta[index[last]].cpu_backup_offset = meta[index[first]].cpu_backup_offset + (last - first)

\* What a backed up page is expected to hold is in its buffer, active or paused.
CopyInv ==
    \A p \in Pages : index[p] # Null /\ expected[p] # Junk =>
        LET m == meta[index[p]] IN
        m.cpu_backup # Null => hostData[m.cpu_backup][m.cpu_backup_offset] = expected[p]

\* The pages of a view stay paused and where they are in its buffer, and a
\* resume that runs is not theirs.
ViewInv ==
    \A t \in Threads : pc[t] = "q_read" =>
        /\ view[t] # Null
        /\ \A i \in 0 .. view[t].size - 1 :
              LET p == view[t].page + i  m == meta[index[p]] IN
              /\ p \in Pages /\ index[p] # Null
              /\ m.state = "PAUSED"
              /\ m.cpu_backup = view[t].buf /\ m.cpu_backup_offset = view[t].offset + i
              /\ \A u \in Threads : pc[u] = "r_loop" => ~Matches(m, filter[u])

BackupInv == BufferInv /\ SlotInv /\ FirstLoopInv /\ RunsInv /\ CopyInv /\ ContentKept /\ ViewInv

IInv == CoreInv /\ BackupInv
==============================================================================

---------------------------- MODULE RocmChunkedInv ----------------------------
(* The inductive invariant of RocmChunked. *)
EXTENDS RocmChunked

\* An entry's handles are one per chunk, and the chunks hold the request.
EntryShape(m) ==
    /\ m.allocHandles \in [1 .. NumChunks(m.aligned_size) -> Handles] /\ m.allocHandles # <<>>
    /\ m.raw_size <= Len(m.allocHandles) * Chunk

MappingOf(m) == IF m.state = "ACTIVE" THEN m.allocHandles ELSE <<>>

\* A loop has the lock, and visits entries that its filter selects.
LockInv ==
    /\ \A t \in Threads : pc[t] \in {"p_loop", "r_loop"} <=> mutex = t
    /\ todo \subseteq Tracked /\ (mutex = Null => todo = {})
    /\ \A t \in Threads : mutex = t => \A p \in todo : Matches(meta[p], filter[t])

\* The calls that have an address for themselves: malloc until it has registered
\* it, free until it has given it back.
Alone   == {t \in Threads : pc[t] \in {"m_register", "f_lookup", "f_device"}}
Holding == {t \in Threads : pc[t] \in {"m_register", "f_device"}}

RangesInv ==
    /\ \A p \in Ptrs : mapping[p] # <<>> => p \in reserved
    /\ Tracked \subseteq reserved /\ owned \subseteq reserved
    /\ \A t \in Alone : ptr[t] \in reserved \ owned
    /\ \A t, u \in Alone : t # u => ptr[t] # ptr[u]
    /\ \A t \in Holding : ptr[t] \notin Tracked /\ mapping[ptr[t]] = MappingOf(md[t])
    /\ \A t \in Threads : pc[t] \in {"m_register", "f_device", "f_backup"} =>
           md[t] # Null /\ EntryShape(md[t])
    /\ \A t \in Threads : pc[t] = "m_register" => md[t].state = "ACTIVE" /\ md[t].cpu_backup = Null
    /\ \A p \in Tracked : EntryShape(meta[p]) /\ mapping[p] = MappingOf(meta[p])

\* A unit that was created is one chunk of one range.
UnitsInv ==
    /\ \A h \in Handles : h \in phys <=> \E p \in Ptrs : \E i \in DOMAIN mapping[p] : mapping[p][i] = h
    /\ \A p, q \in Ptrs : \A i \in DOMAIN mapping[p], j \in DOMAIN mapping[q] :
           mapping[p][i] = mapping[q][j] => p = q /\ i = j

\* A host buffer in use has one holder, whose chunks it has room for; a paused
\* entry that wants a backup has one; who reads one keeps it from being freed.
HasBackup(m) == m.cpu_backup # Null => hostData[m.cpu_backup] \in [1 .. NumChunks(m.aligned_size) -> Data]

BuffersInv ==
    /\ \A b \in Bufs : hostData[b] # Null =>
           \/ \E p \in Tracked : meta[p].cpu_backup = b
           \/ \E t \in Freeing : md[t].cpu_backup = b
    /\ \A p \in Tracked :
           /\ HasBackup(meta[p])
           /\ meta[p].state = "PAUSED" /\ meta[p].backup = "cpu" => meta[p].cpu_backup # Null
           /\ \A q \in Tracked : meta[p].cpu_backup # Null /\ meta[p].cpu_backup = meta[q].cpu_backup => p = q
    /\ \A t \in Freeing :
           /\ HasBackup(md[t])
           /\ \A p \in Tracked : md[t].cpu_backup # Null => md[t].cpu_backup # meta[p].cpu_backup
           /\ \A u \in Freeing : md[t].cpu_backup # Null /\ md[t].cpu_backup = md[u].cpu_backup => t = u
    /\ \A t \in Threads : pc[t] = "q_read" =>
           ptr[t] \in Tracked \cap owned /\ view[t] = meta[ptr[t]].cpu_backup /\ view[t] # Null

\* Clients that free active tensors only, with no pause under way that could get
\* hold of them first.
ClientInv ==
    "paused" \notin ClientMay =>
        /\ \A t \in Threads : pc[t] = "f_lookup" /\ ptr[t] \in Tracked =>
               meta[ptr[t]].state = "ACTIVE" /\ Pausing(meta[ptr[t]]) = {}
        /\ \A t \in Threads : pc[t] = "f_device" => md[t].state = "ACTIVE"
        /\ NoDriverError

\* The lock, the addresses, the chunks and the host buffers of entries and calls
\* under way agree with each other.
CoreInv == TypeOK /\ LockInv /\ RangesInv /\ UnitsInv /\ BuffersInv /\ ClientInv

\* Where the bytes of a tensor are: not in units nobody has, in no host buffer
\* without a backup, and of the entries a loop has visited, in those of the
\* state it leaves them in.
TensorsInv ==
    /\ \A h \in Handles \ phys : content[h] = Junk
    /\ \A p \in Tracked : meta[p].backup = "none" => meta[p].cpu_backup = Null
    /\ \A t \in Threads, p \in Tracked : p \notin todo /\ Matches(meta[p], filter[t]) =>
           /\ pc[t] = "p_loop" => meta[p].state = "PAUSED"
           /\ pc[t] = "r_loop" => meta[p].state = "ACTIVE"

\* The inductive invariant.
IInv == CoreInv /\ TensorsInv
================================================================================

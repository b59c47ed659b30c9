----------------------------- MODULE AllocatorInv -----------------------------
(***************************************************************************)
(* The inductive invariant of Allocator: what has to be known of the calls *)
(* in progress, besides the entries of allocation_metadata_, for each step *)
(* to keep the safety properties.  TLC checks it on the instances and      *)
(* AllocatorProofs proves it.                                              *)
(***************************************************************************)
EXTENDS Allocator

\* The locals a call has at each label, the owner of the lock and the entries
\* its loop has left, which nobody can erase.
LocalInv ==
    /\ \A t \in Threads :
          /\ pc[t] \in {"m_create", "m_register", "f_device", "f_backup"} => md[t] # Null
          /\ pc[t] \in {"m_create", "m_register"} =>
                /\ md[t].state = "ACTIVE"
                /\ md[t].cpu_backup = Null
                /\ md[t].disk = Null
          /\ pc[t] \in {"m_register", "f_lookup", "f_device", "f_backup", "q_lock", "q_read"}
                => ptr[t] # Null
          /\ pc[t] = "q_read" => view[t] # Null
          /\ mutex = t <=> pc[t] \in {"p_loop", "r_loop"}
    /\ todo \subseteq Tracked
    /\ mutex = Null => todo = {}

\* The address a thread works on is its own: no entry, no client and no other
\* thread has it, but for the entry a free has not looked up yet; nobody relies
\* on bytes at an address that is not a client's.
AddressInv ==
    /\ reserved = owned \cup {ptr[t] : t \in HoldsAddress}
    /\ Tracked \subseteq reserved
    /\ \A t \in HoldsAddress :
          /\ ptr[t] \notin owned
          /\ pc[t] # "f_lookup" => meta[ptr[t]] = Null
          /\ \A u \in HoldsAddress : ptr[u] = ptr[t] => u = t
    /\ \A p \in Ptrs \ owned : expected[p] = Junk

\* What is mapped at p, given the state its metadata records and the handle.
MappedAs(p, m) == mapping[p] = IF m.state = "ACTIVE" THEN m.allocHandle ELSE Null

\* Entries, mallocs about to register and frees that took an entry over agree
\* with the device; an address without an entry comes from the real cudaMalloc.
MappingInv ==
    /\ \A p \in Ptrs : mapping[p] # Null => p \in reserved
    /\ \A p, q \in Ptrs : mapping[p] # Null /\ mapping[p] = mapping[q] => p = q
    /\ phys = {mapping[p] : p \in Mapped}
    /\ \A p \in Tracked : MappedAs(p, meta[p]) /\ (meta[p].state = "ACTIVE" => mapping[p] # Null)
    /\ \A t \in Threads : pc[t] \in {"m_register", "f_device"} =>
          MappedAs(ptr[t], md[t]) /\ (md[t].state = "ACTIVE" => mapping[ptr[t]] # Null)
    /\ \A p \in owned : meta[p] = Null => mapping[p] # Null
    /\ \A t \in Threads : pc[t] = "f_lookup" /\ meta[ptr[t]] = Null => mapping[ptr[t]] # Null

\* A metadata record and the buffer and the file it holds.
BackupsMatch(m) ==
    /\ m.cpu_backup # Null => m.backup = "cpu" /\ hostKind[m.cpu_backup] = m.cpu_backup_kind
    /\ m.disk # Null => m.backup = "disk" /\ fileData[m.disk] # Null

\* Two records hold different buffers and different files.
Apart(m, n) ==
    /\ m.cpu_backup # Null => m.cpu_backup # n.cpu_backup
    /\ m.disk # Null => m.disk # n.disk

BackupInv ==
    /\ \A p \in Tracked : BackupsMatch(meta[p])
    /\ \A t \in Unregistered : BackupsMatch(md[t])
    /\ \A p, q \in Tracked : p # q => Apart(meta[p], meta[q])
    /\ \A p \in Tracked, t \in Unregistered : Apart(meta[p], md[t])
    /\ \A t, u \in Unregistered : t # u => Apart(md[t], md[u])

\* Every buffer and every file in use belongs to an entry or to a free.
LeakInv ==
    /\ \A b \in Bufs : hostKind[b] # "free" =>
          \/ \E p \in Tracked : meta[p].cpu_backup = b
          \/ \E t \in Unregistered : md[t].cpu_backup = b
    /\ \A f \in Files : fileData[f] # Null =>
          \/ \E p \in Tracked : meta[p].disk = f
          \/ \E t \in Unregistered : md[t].disk = f

\* A loop has matching entries left, and the others are in the state it leaves
\* them in.
LoopInv ==
    \A t \in Threads, p \in Tracked :
        /\ pc[t] \in {"p_loop", "r_loop"} /\ p \in todo => Matches(meta[p], filter[t])
        /\ p \notin todo /\ Matches(meta[p], filter[t]) =>
              /\ pc[t] = "p_loop" => meta[p].state = "PAUSED"
              /\ pc[t] = "r_loop" => meta[p].state = "ACTIVE"

\* A tensor that is queried stays allocated, no resume reaches it, and the
\* pointer that is read is the backup its entry still has.
ViewInv ==
    \A t \in Threads : pc[t] \in {"q_lock", "q_read"} =>
        LET m == meta[ptr[t]] IN
        /\ ptr[t] \in owned
        /\ \A u \in Threads : pc[u] \in {"r_lock", "r_loop"} /\ m # Null => ~Matches(m, filter[u])
        /\ pc[t] = "q_read" => m # Null /\ m.state = "PAUSED" /\ m.cpu_backup = view[t]

\* The conjunction is preserved by every step and implies the safety
\* properties of Allocator.
IInv == /\ TypeOK /\ LocalInv /\ AddressInv /\ MappingInv /\ BackupInv /\ LeakInv
        /\ LoopInv /\ ViewInv /\ ContentKept /\ NoDriverError
==============================================================================

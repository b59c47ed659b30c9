--------------------------- MODULE PairedClientProofs ---------------------------
(***************************************************************************)
(* Proofs about PairedClient: for any number of threads, tags and          *)
(* allocations, clients that resume what they pause and do not allocate    *)
(* under a paused tag never see pause or resume end the process.           *)
(*                                                                         *)
(* A PairedClient is an Allocator, so IInv holds; next to it PairedInv is  *)
(* inductive.  Most steps are quiet: no loop is entered or left by them.   *)
(***************************************************************************)
EXTENDS PairedClient, AllocatorProofs

\* The actions of a paired client are actions of Allocator.
LEMMA PairedIsAllocator == [PairedNext]_pairedVars => [Next]_vars
<1>1. ASSUME NEW t \in Threads, Unpaired(t)
      PROVE  Step(t) \/ Call(t) \/ CudaFails(t)
  BY <1>1 DEF Unpaired, Step, Call
<1>2. ASSUME NEW t \in Threads, NEW tag \in Tags, NEW backup \in BackupModes,
             PairedMalloc(t, tag, backup)
      PROVE  Call(t)
  BY <1>2 DEF PairedMalloc, Call
<1>3. ASSUME NEW t \in Threads, NEW tagFilter \in Tags \cup {Null},
             PairedPause(t, tagFilter) \/ PairedResume(t, tagFilter)
      PROVE  Call(t)
  BY <1>3 DEF PairedPause, PairedResume, Call
<1>4. ASSUME NEW t \in Threads, PauseEnds(t) \/ ResumeEnds(t)
      PROVE  Step(t)
  BY <1>4 DEF PauseEnds, ResumeEnds, Step
<1>5. QED
  BY <1>1, <1>2, <1>3, <1>4 DEF PairedNext, pairedVars, Next

\* Matches, in terms of the tags of a call.
LEMMA MatchesTags ==
  ASSUME NEW m \in Metadata, NEW f \in Tags \cup {Null}
  PROVE  /\ m.tag \in Tags
         /\ Matches(m, f) <=> m.tag \in TagsOf(f)
  BY AllocatorAssumption DEF Metadata, Matches, TagsOf

Misused == {"not_active", "not_paused"}

\* A step that enters and leaves no call of pause and resume, registers nothing
\* and changes no entry but to erase it.
LEMMA QuietStep ==
  ASSUME IInv, IInv', PairedInv, phase' = phase, todo' = todo,
         exited' \notin Misused,
         \A p \in Ptrs : meta'[p] # Null => meta'[p] = meta[p],
         \A t \in Threads : pc'[t] \in {"p_lock", "p_loop", "r_lock", "r_loop"} =>
              pc'[t] = pc[t] /\ filter'[t] = filter[t],
         \A t \in Threads : pc'[t] \in {"m_create", "m_register"} =>
              pc[t] \in {"m_create", "m_register"} /\ md'[t].tag = md[t].tag
  PROVE  PairedInv'
<1>1. CallsInv'
  BY DEF PairedInv, CallsInv, InCall, TagsOf
<1>2. AheadInv'
  BY DEF PairedInv, AheadInv, Tracked, Matches
<1>3. PhaseTold' /\ NeverMisused'
  BY DEF PairedInv, PhaseTold, NeverMisused, Tracked, Misused
<1>4. QED
  BY <1>1, <1>2, <1>3 DEF PairedInv

\* The calls in progress whose tags contain that of an entry.
LEMMA OneCall ==
  ASSUME IInv, PairedInv, NEW p \in Tracked,
         NEW t \in InCall, NEW u \in InCall,
         Matches(meta[p], filter[t]), Matches(meta[p], filter[u])
  PROVE  t = u
<1>1. meta[p] \in Metadata /\ filter[t] \in Tags \cup {Null} /\ filter[u] \in Tags \cup {Null}
  BY DEF IInv, TypeOK, Tracked, InCall
<1>2. QED
  BY <1>1, MatchesTags DEF PairedInv, CallsInv

\* A loop is through with the entry p, whatever it has done with it.
LEMMA EntryStep ==
  ASSUME IInv, IInv', PairedInv, NEW t \in Threads, NEW p \in todo, NEW n \in Metadata,
         pc[t] \in {"p_loop", "r_loop"},
         pc' = pc, filter' = filter, md' = md, phase' = phase, exited' \notin Misused,
         meta' = [meta EXCEPT ![p] = n], n.tag = meta[p].tag,
         todo' = todo \ {p}
  PROVE  PairedInv'
<1>1. p \in Tracked /\ p \in Ptrs /\ Tracked' = Tracked
  BY AllocatorAssumption DEF IInv, TypeOK, LocalInv, Tracked
<1>2. Matches(meta[p], filter[t]) /\ meta[p] \in Metadata /\ filter[t] \in Tags \cup {Null}
  BY <1>1 DEF IInv, TypeOK, LoopInv, Tracked
<1>3. phase[n.tag] \in {"pausing", "resuming"}
  BY <1>2, MatchesTags DEF PairedInv, CallsInv
<1>4. meta'[p] = n /\ \A q \in Ptrs : q # p => meta'[q] = meta[q]
  BY <1>1 DEF IInv, TypeOK
<1>5. CallsInv'
  BY DEF PairedInv, CallsInv, InCall, TagsOf
<1>6. AheadInv'
  <2> SUFFICES ASSUME NEW u \in Threads, NEW q \in Tracked, Matches(meta'[q], filter[u])
               PROVE  /\ pc[u] = "p_lock" => meta'[q].state = "ACTIVE"
                      /\ pc[u] = "r_lock" => meta'[q].state = "PAUSED"
                      /\ q \in todo' => /\ pc[u] = "p_loop" => meta'[q].state = "ACTIVE"
                                        /\ pc[u] = "r_loop" => meta'[q].state = "PAUSED"
    BY <1>1 DEF AheadInv
  <2>1. CASE q # p
    BY <2>1, <1>4 DEF PairedInv, AheadInv, Tracked
  <2>2. CASE q = p
    <3>1. Matches(meta[p], filter[u])
      BY <2>2, <1>4 DEF Matches
    <3>2. pc[u] \in {"p_lock", "p_loop", "r_lock", "r_loop"} => u = t
      BY <3>1, <1>1, <1>2, OneCall DEF InCall
    <3>3. QED
      BY <3>2, <2>2
  <2>3. QED
    BY <2>1, <2>2
<1>7. PhaseTold'
  <2> SUFFICES ASSUME NEW q \in Tracked
               PROVE  /\ phase[meta'[q].tag] = "up"   => meta'[q].state = "ACTIVE"
                      /\ phase[meta'[q].tag] = "down" => meta'[q].state = "PAUSED"
    BY <1>1 DEF PhaseTold
  <2>1. CASE q # p
    BY <2>1, <1>4 DEF PairedInv, PhaseTold, Tracked
  <2>2. CASE q = p
    BY <2>2, <1>3, <1>4
  <2>3. QED
    BY <2>1, <2>2
<1>8. QED
  BY <1>5, <1>6, <1>7 DEF PairedInv, NeverMisused, Misused

\* The loop begins: what it has ahead is what the call had before it had the lock.
LEMMA LockStep ==
  ASSUME IInv, IInv', PairedInv, phase' = phase, NEW t \in Threads,
         PauseLock(t) \/ ResumeLock(t)
  PROVE  PairedInv'
<1> USE DEF PauseLock, ResumeLock, EnterLoop, Goto, local
<1>1. /\ UNCHANGED <<meta, filter, md, exited>>
      /\ mutex = Null /\ todo' = {p \in Tracked : Matches(meta[p], filter[t])}
      /\ \A u \in Threads : u # t => pc'[u] = pc[u]
      /\ \/ pc[t] = "p_lock" /\ pc'[t] = "p_loop"
         \/ pc[t] = "r_lock" /\ pc'[t] = "r_loop"
  BY DEF IInv, TypeOK
<1>2. \A u \in Threads : pc[u] \notin {"p_loop", "r_loop"}
  BY <1>1, AllocatorAssumption DEF IInv, LocalInv
<1>3. CallsInv'
  BY <1>1 DEF PairedInv, CallsInv, InCall, TagsOf
<1>4. AheadInv'
  BY <1>1, <1>2 DEF PairedInv, AheadInv, Tracked, Matches
<1>5. PhaseTold' /\ NeverMisused'
  BY <1>1 DEF PairedInv, PhaseTold, NeverMisused, Tracked
<1>6. QED
  BY <1>3, <1>4, <1>5 DEF PairedInv

\* The loop is over: its tags are as the client has asked.
LEMMA ReturnStep ==
  ASSUME IInv, IInv', PairedInv, NEW t \in Threads, PauseEnds(t) \/ ResumeEnds(t)
  PROVE  PairedInv'
<1> USE DEF PauseEnds, ResumeEnds, PauseReturn, ResumeReturn, LeaveLoop, Return, Goto
<1> DEFINE from == IF pc[t] = "p_loop" THEN "pausing" ELSE "resuming"
           to   == IF pc[t] = "p_loop" THEN "down" ELSE "up"
           state == IF pc[t] = "p_loop" THEN "PAUSED" ELSE "ACTIVE"
<1>1. /\ pc[t] \in {"p_loop", "r_loop"} /\ pc'[t] = "idle"
      /\ UNCHANGED <<meta, todo, exited>> /\ todo = {}
      /\ \A u \in Threads : u # t => pc'[u] = pc[u] /\ filter'[u] = filter[u] /\ md'[u] = md[u]
      /\ Shift(filter[t], from, to)
  BY DEF IInv, TypeOK
<1>2. \A tag \in Tags : phase'[tag] = IF tag \in TagsOf(filter[t]) THEN to ELSE phase[tag]
  BY <1>1 DEF Shift
<1>3. phase' \in [Tags -> {"up", "pausing", "down", "resuming"}]
  BY <1>1 DEF Shift, PairedInv
<1>4. \A tag \in Tags : tag \in TagsOf(filter[t]) => phase[tag] \in {"pausing", "resuming"}
  BY <1>1 DEF PairedInv, CallsInv
<1>5. \A u \in Threads, tag \in Tags :
         u # t /\ u \in InCall /\ tag \in TagsOf(filter[u]) => phase'[tag] = phase[tag]
  BY <1>1, <1>2 DEF PairedInv, CallsInv, InCall
<1>6. \A u \in Threads : pc[u] \in {"m_create", "m_register"} => phase'[md[u].tag] = "up"
  <2>1. \A u \in Threads : pc[u] \in {"m_create", "m_register"} =>
           md[u].tag \in Tags /\ phase[md[u].tag] = "up"
    BY DEF IInv, TypeOK, LocalInv, Metadata, PairedInv, CallsInv
  <2>2. QED
    BY <2>1, <1>2, <1>4
<1>7. CallsInv'
  <2>1. \A u \in Threads : pc'[u] \in {"p_lock", "p_loop", "r_lock", "r_loop"} =>
           u # t /\ u \in InCall /\ pc'[u] = pc[u] /\ filter'[u] = filter[u]
    BY <1>1 DEF InCall
  <2>2. \A u \in Threads, tag \in Tags : tag \in TagsOf(filter'[u]) =>
          /\ pc'[u] \in {"p_lock", "p_loop"} => phase'[tag] = "pausing"
          /\ pc'[u] \in {"r_lock", "r_loop"} => phase'[tag] = "resuming"
    BY <2>1, <1>5 DEF PairedInv, CallsInv
  <2>3. InCall' \subseteq InCall /\ \A u \in InCall' : filter'[u] = filter[u]
    BY <2>1 DEF InCall
  <2>4. QED
    BY <2>2, <2>3, <1>1, <1>6 DEF PairedInv, CallsInv, TagsOf
<1>8. AheadInv'
  BY <1>1 DEF PairedInv, AheadInv, Tracked, Matches
<1>9. PhaseTold'
  <2> SUFFICES ASSUME NEW p \in Tracked
               PROVE  /\ phase'[meta[p].tag] = "up"   => meta[p].state = "ACTIVE"
                      /\ phase'[meta[p].tag] = "down" => meta[p].state = "PAUSED"
    BY <1>1 DEF PhaseTold, Tracked
  <2>1. /\ meta[p].tag \in Tags
        /\ Matches(meta[p], filter[t]) <=> meta[p].tag \in TagsOf(filter[t])
    BY MatchesTags DEF IInv, TypeOK, Tracked
  <2>2. Matches(meta[p], filter[t]) => meta[p].state = state
    BY <1>1 DEF IInv, LoopInv
  <2>3. QED
    BY <2>1, <2>2, <1>2, <1>1 DEF PairedInv, PhaseTold
<1>10. QED
  BY <1>1, <1>3, <1>7, <1>8, <1>9 DEF PairedInv, NeverMisused

\* A call begins: its tags are all in the phase before it, so no other call is
\* about one of them, and no malloc will be when it is registered.
LEMMA CallStep ==
  ASSUME IInv, IInv', PairedInv, NEW t \in Threads, NEW f \in Tags \cup {Null},
         PairedPause(t, f) \/ PairedResume(t, f)
  PROVE  PairedInv'
<1> USE DEF PairedPause, PairedResume, PauseCall, ResumeCall, Goto, lock, local
<1>1. /\ UNCHANGED <<meta, todo, md, exited>> /\ pc[t] = "idle"
      /\ \A u \in Threads : u # t => pc'[u] = pc[u] /\ filter'[u] = filter[u]
      /\ filter'[t] = f
      /\ \/ pc'[t] = "p_lock" /\ Shift(f, "up", "pausing") /\ NoMallocUnder(f)
         \/ pc'[t] = "r_lock" /\ Shift(f, "down", "resuming")
  BY DEF IInv, TypeOK
<1>2. phase' \in [Tags -> {"up", "pausing", "down", "resuming"}]
  BY <1>1 DEF Shift, PairedInv
<1>3. \A tag \in Tags : IF tag \in TagsOf(f)
                        THEN /\ phase[tag] = IF pc'[t] = "p_lock" THEN "up" ELSE "down"
                             /\ phase'[tag] = IF pc'[t] = "p_lock" THEN "pausing" ELSE "resuming"
                        ELSE phase'[tag] = phase[tag]
  BY <1>1 DEF Shift
<1>4. \A u \in InCall, tag \in Tags : tag \in TagsOf(filter[u]) =>
         tag \notin TagsOf(f) /\ phase'[tag] = phase[tag]
  BY <1>3 DEF PairedInv, CallsInv, InCall
<1>5. \A u \in Threads : pc[u] \in {"m_create", "m_register"} => phase'[md[u].tag] = "up"
  <2>1. \A u \in Threads : pc[u] \in {"m_create", "m_register"} =>
           md[u].tag \in Tags /\ phase[md[u].tag] = "up"
    BY DEF IInv, TypeOK, LocalInv, Metadata, PairedInv, CallsInv
  <2>2. QED
    BY <2>1, <1>1, <1>3 DEF NoMallocUnder
<1>6. CallsInv'
  <2>1. InCall' = InCall \cup {t} /\ t \notin InCall
    BY <1>1 DEF InCall
  <2>2. \A u \in Threads, tag \in Tags : tag \in TagsOf(filter'[u]) =>
          /\ pc'[u] \in {"p_lock", "p_loop"} => phase'[tag] = "pausing"
          /\ pc'[u] \in {"r_lock", "r_loop"} => phase'[tag] = "resuming"
    <3>1. ASSUME NEW tag \in Tags, tag \in TagsOf(filter'[t])
          PROVE  /\ pc'[t] \in {"p_lock", "p_loop"} => phase'[tag] = "pausing"
                 /\ pc'[t] \in {"r_lock", "r_loop"} => phase'[tag] = "resuming"
      BY <3>1, <1>1, <1>3
    <3>2. ASSUME NEW u \in Threads, u # t, NEW tag \in Tags, tag \in TagsOf(filter'[u])
          PROVE  /\ pc'[u] \in {"p_lock", "p_loop"} => phase'[tag] = "pausing"
                 /\ pc'[u] \in {"r_lock", "r_loop"} => phase'[tag] = "resuming"
      BY <3>2, <1>1, <1>4 DEF PairedInv, CallsInv, InCall
    <3>3. QED
      BY <3>1, <3>2
  <2>3. \A u, v \in InCall', tag \in Tags :
           tag \in TagsOf(filter'[u]) /\ tag \in TagsOf(filter'[v]) => u = v
    <3>1. \A u \in InCall : filter'[u] = filter[u]
      BY <2>1, <1>1 DEF InCall
    <3>2. QED
      BY <3>1, <2>1, <1>1, <1>4 DEF PairedInv, CallsInv
  <2>4. QED
    BY <2>2, <2>3, <1>1, <1>5 DEF CallsInv, TagsOf
<1>7. AheadInv'
  <2>1. ASSUME NEW p \in Tracked, Matches(meta[p], f)
        PROVE  /\ pc'[t] = "p_lock" => meta[p].state = "ACTIVE"
               /\ pc'[t] = "r_lock" => meta[p].state = "PAUSED"
    <3>1. meta[p].tag \in Tags /\ meta[p].tag \in TagsOf(f)
      BY <2>1, MatchesTags DEF IInv, TypeOK, Tracked
    <3>2. QED
      BY <3>1, <1>1, <1>3 DEF PairedInv, PhaseTold
  <2>2. QED
    BY <2>1, <1>1 DEF PairedInv, AheadInv, Tracked, Matches
<1>8. PhaseTold'
  <2> SUFFICES ASSUME NEW p \in Tracked
               PROVE  /\ phase'[meta[p].tag] = "up"   => meta[p].state = "ACTIVE"
                      /\ phase'[meta[p].tag] = "down" => meta[p].state = "PAUSED"
    BY <1>1 DEF PhaseTold, Tracked
  <2>1. meta[p].tag \in Tags
    BY DEF IInv, TypeOK, Tracked, Metadata
  <2>2. QED
    BY <2>1, <1>1, <1>3 DEF PairedInv, PhaseTold
<1>9. QED
  BY <1>1, <1>2, <1>6, <1>7, <1>8 DEF PairedInv, NeverMisused

\* A malloc begins only under a tag that is up, and no pause of it begins before
\* the allocation is registered.
LEMMA MallocStep ==
  ASSUME IInv, IInv', PairedInv, NEW t \in Threads, NEW tag \in Tags, NEW backup \in BackupModes,
         PairedMalloc(t, tag, backup)
  PROVE  PairedInv'
<1> USE DEF PairedMalloc, MallocCall, NewMetadata, Goto, lock
<1>1. /\ UNCHANGED <<meta, todo, exited, filter, phase>> /\ phase[tag] = "up"
      /\ \A u \in Threads : u # t => pc'[u] = pc[u] /\ md'[u] = md[u]
      /\ pc'[t] = "m_create" /\ md'[t].tag = tag
  BY DEF IInv, TypeOK
<1>2. CallsInv'
  BY <1>1 DEF PairedInv, CallsInv, InCall, TagsOf
<1>3. AheadInv'
  BY <1>1 DEF PairedInv, AheadInv, Tracked, Matches
<1>4. QED
  BY <1>1, <1>2, <1>3 DEF PairedInv, PhaseTold, NeverMisused, Tracked

\* MallocRegister adds an active entry of a tag that is up and that no call
\* is about, so that no loop misses it.
LEMMA RegisterStep ==
  ASSUME IInv, IInv', PairedInv, phase' = phase, NEW t \in Threads, MallocRegister(t)
  PROVE  PairedInv'
<1> USE DEF MallocRegister, Emplace, Return, Goto, lock
<1> DEFINE p == ptr[t]
<1>1. /\ UNCHANGED <<todo, exited, mutex>> /\ mutex = Null
      /\ pc[t] = "m_register" /\ pc'[t] = "idle"
      /\ \A u \in Threads : u # t => pc'[u] = pc[u] /\ filter'[u] = filter[u] /\ md'[u] = md[u]
      /\ p \in Ptrs /\ md[t] \in Metadata /\ md[t].state = "ACTIVE" /\ phase[md[t].tag] = "up"
  BY AllocatorAssumption DEF IInv, TypeOK, LocalInv, PairedInv, CallsInv
<1>2. meta[p] = Null
  BY <1>1 DEF IInv, AddressInv, HoldsAddress
<1>3. meta'[p] = md[t] /\ \A q \in Ptrs : q # p => meta'[q] = meta[q]
  BY <1>1, <1>2 DEF IInv, TypeOK
<1>4. CallsInv'
  BY <1>1 DEF PairedInv, CallsInv, InCall, TagsOf
<1>5. AheadInv'
  <2>1. ASSUME NEW u \in Threads, pc'[u] \in {"p_lock", "p_loop", "r_lock", "r_loop"}
        PROVE  ~Matches(md[t], filter'[u])
    <3>1. u # t /\ filter[u] \in Tags \cup {Null} /\ filter'[u] = filter[u] /\ pc'[u] = pc[u]
      BY <2>1, <1>1 DEF IInv, TypeOK
    <3>2. QED
      BY <3>1, <2>1, <1>1, MatchesTags DEF PairedInv, CallsInv
  <2>2. QED
    BY <2>1, <1>1, <1>3 DEF PairedInv, AheadInv, Tracked, Matches
<1>6. PhaseTold'
  BY <1>1, <1>3 DEF PairedInv, PhaseTold, Tracked
<1>7. QED
  BY <1>1, <1>4, <1>5, <1>6 DEF PairedInv, NeverMisused

\* One entry of a pause.
LEMMA PauseLoopStep ==
  ASSUME IInv, IInv', PairedInv, phase' = phase, NEW t \in Threads, NEW p \in todo,
         PauseNoBackup(t, p) \/ PauseToHost(t, p) \/ PauseToDisk(t, p)
  PROVE  PairedInv'
<1>1. PICK n \in Metadata : PausedAs(t, p, n)
  BY PauseNoBackupEffect, PauseToHostEffect, PauseToDiskEffect
     DEF PausedWithoutBackup, PausedToHost, PausedToDisk
<1>2. exited' \notin Misused
  BY <1>1 DEF PausedAs, PairedInv, NeverMisused, Misused
<1>3. /\ pc[t] \in {"p_loop", "r_loop"} /\ pc' = pc /\ filter' = filter /\ md' = md
      /\ meta' = [meta EXCEPT ![p] = n] /\ n.tag = meta[p].tag /\ todo' = todo \ {p}
  BY <1>1 DEF PausedAs
<1>4. QED
  BY <1>2, <1>3, EntryStep

\* One entry of a resume.
LEMMA ResumeLoopStep ==
  ASSUME IInv, IInv', PairedInv, phase' = phase, NEW t \in Threads, NEW p \in todo,
         ResumeNoBackup(t, p) \/ ResumeFromHost(t, p) \/ ResumeFromDisk(t, p)
  PROVE  PairedInv'
<1>1. PICK n \in Metadata, h \in Handles : \E data : ResumedAs(t, p, n, h, data)
  BY ResumeNoBackupEffect, ResumeFromHostEffect, ResumeFromDiskEffect
     DEF ResumedEmpty, ResumedFromHost, ResumedFromDisk
<1>2. exited' \notin Misused
  BY <1>1 DEF ResumedAs, PairedInv, NeverMisused, Misused
<1>3. /\ pc[t] \in {"p_loop", "r_loop"} /\ pc' = pc /\ filter' = filter /\ md' = md
      /\ meta' = [meta EXCEPT ![p] = n] /\ n.tag = meta[p].tag /\ todo' = todo \ {p}
  BY <1>1 DEF ResumedAs
<1>4. QED
  BY <1>2, <1>3, EntryStep

\* What the loops find is what PhaseTold and AheadInv have told.
LEMMA NoMisuse ==
  ASSUME IInv, PairedInv, NEW t \in Threads
  PROVE  ~PauseNotActive(t) /\ ~ResumeNotPaused(t)
<1>1. ASSUME NEW p \in todo, pc[t] \in {"p_loop", "r_loop"}
      PROVE  /\ pc[t] = "p_loop" => meta[p].state = "ACTIVE"
             /\ pc[t] = "r_loop" => meta[p].state = "PAUSED"
  <2>1. p \in Tracked
    BY DEF IInv, LocalInv
  <2>2. Matches(meta[p], filter[t])
    BY <1>1, <2>1 DEF IInv, LoopInv
  <2>3. QED
    BY <2>1, <2>2 DEF PairedInv, AheadInv
<1>2. QED
  BY <1>1 DEF PauseNotActive, ResumeNotPaused

Outside == {"idle", "m_create", "m_register", "f_lookup", "f_device", "f_backup", "q_lock", "q_read"}

\* A step of one thread outside the calls of pause and resume.
LEMMA OutsideStep ==
  ASSUME IInv, IInv', PairedInv, phase' = phase, todo' = todo, exited' \in {exited, "driver_error"},
         \A p \in Ptrs : meta'[p] # Null => meta'[p] = meta[p],
         NEW t \in Threads, pc[t] \in Outside,
         \A u \in Threads : u # t => pc'[u] = pc[u] /\ filter'[u] = filter[u] /\ md'[u] = md[u],
         \/ pc'[t] \in Outside \ {"m_create", "m_register"}
         \/ pc[t] = "m_create" /\ pc'[t] = "m_register" /\ md'[t].tag = md[t].tag
  PROVE  PairedInv'
<1>1. exited' \notin Misused
  BY DEF PairedInv, NeverMisused, Misused
<1>2. QED
  BY <1>1, QuietStep DEF Outside

\* The end of the process, for any other reason than misuse.
LEMMA ExitStep ==
  ASSUME IInv, IInv', PairedInv, phase' = phase, NEW reason, reason \notin Misused, Exit(reason)
  PROVE  PairedInv'
  BY QuietStep DEF Exit, lock, local

\* The steps that leave the phases alone, by their kind.
LEMMA UnpairedStep ==
  ASSUME IInv, IInv', PairedInv, NEW t \in Threads, Unpaired(t)
  PROVE  PairedInv'
<1> USE DEF IInv, TypeOK, Goto, Return, device, backups, lock, local, client, Outside, Accepted
<1>0. phase' = phase
  BY DEF Unpaired
<1>1. CASE MallocOutOfMemory(t)
  BY <1>0, <1>1, OutsideStep DEF MallocOutOfMemory
<1>2. CASE MallocCreate(t)
  <2>1. md[t] \in Metadata
    BY <1>2 DEF MallocCreate, LocalInv
  <2>2. md'[t].tag = md[t].tag
    BY <1>2, <2>1 DEF MallocCreate, Metadata
  <2>3. QED
    BY <1>0, <1>2, <2>2, OutsideStep DEF MallocCreate
<1>3. CASE MallocRegister(t)
  BY <1>0, <1>3, RegisterStep
<1>4. CASE FreeUntracked(t)
  BY <1>0, <1>4, OutsideStep DEF FreeUntracked
<1>5. CASE FreeLookup(t)
  BY <1>0, <1>5, OutsideStep DEF FreeLookup
<1>6. CASE FreeDevice(t)
  BY <1>0, <1>6, OutsideStep DEF FreeDevice
<1>7. CASE FreeBackup(t)
  BY <1>0, <1>7, OutsideStep DEF FreeBackup, FreeHost
<1>8. CASE PauseLock(t) \/ ResumeLock(t)
  BY <1>0, <1>8, LockStep
<1>9. CASE PauseNotActive(t) \/ ResumeNotPaused(t)
  BY <1>9, NoMisuse
<1>10. CASE \E p \in todo : PauseNoBackup(t, p) \/ PauseToHost(t, p) \/ PauseToDisk(t, p)
  BY <1>0, <1>10, PauseLoopStep
<1>11. CASE \E p \in todo : ResumeNoBackup(t, p) \/ ResumeFromHost(t, p) \/ ResumeFromDisk(t, p)
  BY <1>0, <1>11, ResumeLoopStep
<1>12. CASE QueryNotFound(t) \/ QueryLostContent(t)
  BY <1>0, <1>12, ExitStep DEF QueryNotFound, QueryLostContent, Misused
<1>13. CASE QueryNoCopy(t)
  BY <1>0, <1>13, OutsideStep DEF QueryNoCopy
<1>14. CASE QueryFound(t)
  BY <1>0, <1>14, OutsideStep DEF QueryFound
<1>15. CASE QueryDone(t)
  BY <1>0, <1>15, OutsideStep DEF QueryDone
<1>16. CASE OutOfResources(t) \/ CudaFails(t)
  BY <1>0, <1>16, ExitStep DEF OutOfResources, CudaFails, Misused
<1>17. CASE UntrackedMalloc(t)
  BY <1>0, <1>17, OutsideStep DEF UntrackedMalloc
<1>18. ASSUME NEW p \in Ptrs, FreeCall(t, p)
       PROVE  PairedInv'
  BY <1>0, <1>18, OutsideStep DEF FreeCall
<1>19. ASSUME NEW p \in Ptrs, QueryCall(t, p)
       PROVE  PairedInv'
  BY <1>0, <1>19, OutsideStep DEF QueryCall
<1>20. QED
  BY <1>1, <1>2, <1>3, <1>4, <1>5, <1>6, <1>7, <1>8, <1>9, <1>10, <1>11, <1>12, <1>13, <1>14,
     <1>15, <1>16, <1>17, <1>18, <1>19 DEF Unpaired

\* Every step of a paired client preserves PairedInv.
LEMMA PairedInductive == IInv /\ PairedInv /\ [PairedNext]_pairedVars => PairedInv'
<1> SUFFICES ASSUME IInv, PairedInv, [PairedNext]_pairedVars
             PROVE  PairedInv'
  OBVIOUS
<1>1. IInv'
  BY PairedIsAllocator, Inductive
<1>2. ASSUME UNCHANGED pairedVars
      PROVE  PairedInv'
  BY <1>1, <1>2, QuietStep DEF pairedVars, vars, lock, local, PairedInv, NeverMisused, Misused
<1>3. ASSUME NEW p \in Ptrs, NEW v \in Values, Write(p, v), UNCHANGED phase
      PROVE  PairedInv'
  BY <1>1, <1>3, QuietStep DEF Write, lock, local, PairedInv, NeverMisused, Misused
<1>4. QED
  BY <1>1, <1>2, <1>3, UnpairedStep, ReturnStep, MallocStep, CallStep
     DEF PairedNext, Terminated, pairedVars

\* No call is in progress and every tag is up at first.
LEMMA InitPairedInv == PairedInit => Init /\ PairedInv
  BY AllocatorAssumption DEF PairedInit, Init, PairedInv, CallsInv, AheadInv, InCall, PhaseTold,
                             NeverMisused, Tracked

\* IInv and PairedInv hold of a client that pairs its pauses and resumes.
THEOREM PairedInvariance == PairedSpec => [](IInv /\ PairedInv)
<1>1. PairedInit => IInv /\ PairedInv
  BY InitPairedInv, InitInv
<1>2. IInv /\ PairedInv /\ [PairedNext]_pairedVars => IInv' /\ PairedInv'
  BY PairedIsAllocator, Inductive, PairedInductive
<1>3. QED
  BY <1>1, <1>2, PTL DEF PairedSpec

\* pause and resume never end the process of such a client, although they check
\* every entry they meet (core.cpp:407-413, 550-556).
THEOREM NeverEndedForMisuse == PairedSpec => []NeverMisused
<1>1. PairedInv => NeverMisused
  BY DEF PairedInv
<1>2. QED
  BY <1>1, PairedInvariance, PTL

\* Between its calls the allocations of a tag are all in the state the client has
\* put the tag in (core.cpp:392-440, 535-593).
THEOREM PhasesTold == PairedSpec => []PhaseTold
<1>1. PairedInv => PhaseTold
  BY DEF PairedInv
<1>2. QED
  BY <1>1, PairedInvariance, PTL

\* Such a client is a client of Allocator, whose properties hold of it.
THEOREM PairedImplementsAllocator == PairedSpec => Spec
<1>1. PairedInit => Init
  BY DEF PairedInit
<1>2. QED
  BY <1>1, PairedIsAllocator, PTL DEF PairedSpec, Spec
================================================================================
